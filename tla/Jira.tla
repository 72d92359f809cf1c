-------------------------------- MODULE Jira --------------------------------
(***************************************************************************)
(* One pjira command against a Jira server that others use at the same     *)
(* time: the configuration and the secret, one request after the other,    *)
(* each of which can be lost before or after the server acted on it, and   *)
(* what the command makes of the answers.                                  *)
(***************************************************************************)
EXTENDS Naturals, Sequences, FiniteSets, SequencesExt

\* A text is a sequence of "x", " " and "nl".
Letters == {"x", " ", "nl"}

CONSTANTS Hits, PageCap, MaxOthers, Texts

ASSUME JiraAssumption ==
  Hits \subseteq Nat \ {0} /\ PageCap \in Nat \ {0} /\ Texts \subseteq Seq(Letters)

VARIABLES
  command,  \* what was asked for: [op, file, env, token, args, body]
  client,   \* [stage, page, cursor, got]
  wire,     \* the request on its way, or the reply: [at, kind, arg, ...]
  jira,     \* the server: [hits, status, writes, moved, posted, withheld]
  told,     \* how the command ended: [exit, why, truncated, token]
  limits,   \* <<responses with rate-limit headers, lines written>>
  stable,   \* hits of the query that nobody touched since the start
  others    \* changes by others so far

jiraVars == <<command, client, wire, jira, told, limits, stable, others>>

Writes == {"create", "transition", "comment"}
Ops == Writes \cup {"issue", "page", "all", "auth"}
Wanted == "done"

\* Statuses, and the transitions that each offers: id and target.
Offers ==
  [open |-> <<[id |-> 2, to |-> "doing"], [id |-> 1, to |-> "done"]>>,
   doing |-> <<[id |-> 1, to |-> "done"], [id |-> 3, to |-> "open"]>>,
   done |-> <<[id |-> 3, to |-> "open"]>>,
   gone |-> <<>>]

NoWire == [at |-> "nowhere", kind |-> "none", arg |-> 0, body |-> <<>>]
Untold == [exit |-> 9, why |-> "", truncated |-> FALSE, token |-> 0]

End(exit, why, truncated, token) ==
  /\ client' = [client EXCEPT !.stage = "done", !.got = IF exit = 0 THEN @ ELSE <<>>]
  /\ told' = [exit |-> exit, why |-> why, truncated |-> truncated, token |-> token]

Fails(why) == End(1, why, FALSE, 0)

----------------------------------------------------------------------------
(* Before the first request.                                               *)

NoConfig == [url |-> FALSE, email |-> FALSE, source |-> ""]
DefaultConfig == [NoConfig EXCEPT !.source = "env"]

\* LoadFile: a missing file is empty, a malformed one an error.
LoadFile(file) == IF file.state = "ok" THEN file.config ELSE NoConfig

\* MergeConfig: what the second one sets wins.
MergeConfig(base, over) ==
  [url |-> base.url \/ over.url, email |-> base.email \/ over.email,
   source |-> IF over.source = "" THEN base.source ELSE over.source]

\* resolveConfig: the defaults, the file, the environment.
ResolveConfig(c) == MergeConfig(MergeConfig(DefaultConfig, LoadFile(c.file)), c.env)

Configured(c) ==
  c.file.state # "malformed" /\ ResolveConfig(c).url /\ ResolveConfig(c).email

\* NewSecretSource: three sources, the last two with a path or a command.
SecretKnown(c) == ResolveConfig(c).source \in {"env", "file", "command"}

\* Token: every source is trimmed and must not be empty.
TokenFound(c) == SecretKnown(c) /\ c.token = "token"

\* The checks of the command line, and those of the client on trimmed arguments.
UsageError(c) == c.args = "usage"
BlankArgument(c) == c.args = "blank"

\* newClient, and auth-status, which answers for the token itself.
Begin ==
  /\ client.stage = "start"
  /\ CASE UsageError(command) -> Fails("usage")
       [] ~UsageError(command) /\ ~Configured(command) -> Fails("config")
       [] OTHER ->
            IF command.op = "auth" /\ SecretKnown(command) /\ ~TokenFound(command)
            THEN End(3, "missing", FALSE, 0)
            ELSE IF ~TokenFound(command) THEN Fails("secret")
            ELSE IF BlankArgument(command) THEN Fails("blank")
            ELSE client' = [client EXCEPT !.stage = "send"] /\ UNCHANGED told
  /\ UNCHANGED <<command, wire, jira, limits, stable, others>>

Blank(ch) == ch \in {" ", "nl"}
Trim(text) ==
  LET solid == {i \in DOMAIN text : ~Blank(text[i])}
      least == CHOOSE i \in solid : \A j \in solid : i <= j
      greatest == CHOOSE i \in solid : \A j \in solid : i >= j
  IN IF solid = {} THEN <<>> ELSE SubSeq(text, least, greatest)

\* Variant: an empty line makes no paragraph.
EncodeFilledLines(text) ==
  LET doc[n \in 0 .. Len(text)] ==
        IF n = 0 THEN <<<<>>>>
        ELSE IF text[n] # "nl" THEN Append(Front(doc[n - 1]), Append(Last(doc[n - 1]), text[n]))
        ELSE IF Last(doc[n - 1]) = <<>> THEN doc[n - 1] ELSE Append(doc[n - 1], <<>>)
  IN doc[Len(text)]

\* EncodeADFText: one paragraph per line.
EncodeADFText(text) ==
  LET doc[n \in 0 .. Len(text)] ==
        IF n = 0 THEN <<<<>>>>
        ELSE IF text[n] = "nl" THEN Append(doc[n - 1], <<>>)
        ELSE Append(Front(doc[n - 1]), Append(Last(doc[n - 1]), text[n]))
  IN doc[Len(text)]

\* walkADF puts a newline behind each paragraph, and FlattenADF trims the whole.
WalkADF(doc) ==
  LET text[n \in 0 .. Len(doc)] ==
        IF n = 0 THEN <<>> ELSE Append(text[n - 1] \o doc[n], "nl")
  IN text[Len(doc)]
FlattenADF(doc) == Trim(WalkADF(doc))

FirstRequest ==
  [create |-> "create", transition |-> "list", comment |-> "comment",
   issue |-> "get", page |-> "search", all |-> "search", auth |-> "myself"]

\* SearchPage asks for the page behind the cursor; the others are one request,
\* but for a transition, which posts the id that it was offered.
Send ==
  /\ client.stage = "send"
  /\ client' = [client EXCEPT !.stage = "wait"]
  /\ wire' = [at |-> "server",
              kind |-> IF client.page = 1 /\ command.op = "transition" THEN "move"
                       ELSE FirstRequest[command.op],
              arg |-> client.cursor,
              body |-> EncodeADFText(Trim(command.body))]
  /\ UNCHANGED <<command, jira, told, limits, stable, others>>

----------------------------------------------------------------------------
(* The server, as far as the client depends on it.                          *)

\* headers: the rate-limit header of the response.
Reply(status, body, headers) ==
  [at |-> "client", kind |-> wire.kind, arg |-> wire.arg, status |-> status, body |-> body,
   headers |-> headers, items |-> <<>>, token |-> 0, last |-> "absent", offers |-> <<>>]

NextHit(after) == {i \in jira.hits : i > after}
Least(S) == CHOOSE i \in S : \A j \in S : i <= j

\* What is left behind a page of one issue.
Behind(after) == IF NextHit(after) = {} THEN {} ELSE NextHit(after) \ {Least(NextHit(after))}

\* One issue a page; the token is where the next page begins.
SearchReply(headers) ==
  LET ahead == NextHit(wire.arg)
  IN [Reply(200, "ok", headers) EXCEPT
        !.items = IF ahead = {} THEN <<>> ELSE <<Least(ahead)>>,
        !.token = IF Behind(wire.arg) = {} THEN 0 ELSE Least(ahead),
        !.last = IF Behind(wire.arg) = {} THEN "true" ELSE "false"]

Transitions(id) == {o \in {Offers[jira.status][i] : i \in DOMAIN Offers[jira.status]} : o.id = id}

Headers == {"none", "remaining", "garbled", "retry date"}
Carried(headers) == IF headers \in {"remaining", "retry date"} THEN <<limits[1] + 1, limits[2]>> ELSE limits

\* The server does what it was asked; its answer may be garbled or lack the key,
\* and it may be lost.
ServerActs ==
  /\ wire.at = "server"
  /\ \E body \in {"ok", "garbled", "keyless"}, headers \in Headers, lost \in BOOLEAN :
       LET done == IF lost THEN [wire EXCEPT !.at = "lost"] ELSE Reply(200, body, headers)
       IN /\ CASE wire.kind = "search" ->
                    /\ wire' = IF lost \/ body # "ok" THEN done
                               ELSE SearchReply(headers)
                    /\ UNCHANGED jira
               [] wire.kind = "list" ->
                    /\ jira.status # "gone"
                    /\ wire' = IF lost \/ body # "ok" THEN done
                               ELSE [done EXCEPT !.offers = Offers[jira.status]]
                    /\ UNCHANGED jira
               [] wire.kind = "move" ->
                    /\ Transitions(wire.arg) # {}
                    /\ wire' = done
                    /\ \E o \in Transitions(wire.arg) :
                         jira' = [jira EXCEPT !.status = o.to, !.writes = @ + 1, !.moved = o.to]
               [] wire.kind \in {"create", "comment"} ->
                    /\ wire.kind = "comment" => jira.status # "gone"
                    /\ wire' = done
                    /\ jira' = [jira EXCEPT !.writes = @ + 1, !.posted = wire.body]
               [] OTHER ->
                    /\ wire.kind = "get" => jira.status # "gone"
                    /\ wire' = done /\ UNCHANGED jira
          /\ limits' = IF lost THEN limits ELSE Carried(headers)
  /\ UNCHANGED <<command, client, told, stable, others>>

\* isLast = false without a token: there is more, and no way to ask for it.
ServerWithholds ==
  /\ wire.at = "server" /\ wire.kind = "search" /\ Behind(wire.arg) # {}
  /\ \E headers \in Headers :
       wire' = [SearchReply(headers) EXCEPT !.token = 0] /\ limits' = Carried(headers)
  /\ jira' = [jira EXCEPT !.withheld = Behind(wire.arg)]
  /\ UNCHANGED <<command, client, told, stable, others>>

\* It refuses without acting; 404 only where the issue is gone.
ServerRefuses ==
  /\ wire.at = "server"
  /\ \E status \in {400, 401, 403, 404, 429, 500}, headers \in Headers :
       /\ status = 404 => jira.status = "gone"
       /\ wire' = Reply(status, "garbled", headers)
       /\ limits' = Carried(headers)
  /\ UNCHANGED <<command, client, jira, told, stable, others>>

RequestLost ==
  /\ wire.at = "server"
  /\ wire' = [wire EXCEPT !.at = "lost"]
  /\ UNCHANGED <<command, client, jira, told, limits, stable, others>>

----------------------------------------------------------------------------
(* The answers.                                                            *)

\* ParseRateLimit: what cannot be parsed is absent.
ParseRateLimit(headers) ==
  CASE headers = "remaining" -> {"remaining"}
    [] headers = "retry date" -> {"retry after"}
    [] OTHER -> {}

\* do: one line per response with a reading, whatever its status.
Reported ==
  IF ParseRateLimit(wire.headers) = {} THEN limits ELSE <<limits[1], limits[2] + 1>>

Answered == client.stage = "wait" /\ wire.at = "client" /\ limits' = Reported
Ok == wire.status = 200

Transport ==
  /\ client.stage = "wait" /\ wire.at = "lost"
  /\ Fails("transport")
  /\ wire' = NoWire
  /\ UNCHANGED <<command, jira, limits, stable, others>>

\* A non-2xx answer; 404 and 401 are told apart by the commands on one issue.
Refused ==
  CASE wire.status = 404 /\ wire.kind \in {"get", "list", "move", "comment"} -> "not found"
    [] wire.status = 401 /\ wire.kind \notin {"get", "search"} -> "unauthenticated"
    [] OTHER -> "status"

Found(truncated, token) == [exit |-> 0, why |-> "", truncated |-> truncated, token |-> token]

\* Variant: what was found so far is passed for everything.
AllAtTheCap == Found(FALSE, 0)

\* SearchAll at its cap: truncated, with the first token that was not followed.
AtTheCap == Found(TRUE, wire.token)

\* SearchPage, and SearchAll around it: an error discards all pages.
SearchAnswered ==
  /\ Answered /\ wire.kind = "search"
  /\ CASE ~Ok -> Fails("status")
       [] Ok /\ wire.body # "ok" -> Fails("decode")
       [] OTHER ->
            LET more == [client EXCEPT !.got = @ \o wire.items, !.page = @ + 1,
                                       !.cursor = wire.token, !.stage = "send"]
                last == [more EXCEPT !.stage = "done"]
            IN CASE command.op = "all" /\ wire.token # 0 /\ client.page + 1 < PageCap ->
                      client' = more /\ UNCHANGED told
                 [] command.op = "all" /\ wire.token # 0 /\ client.page + 1 >= PageCap ->
                      client' = last /\ told' = AtTheCap
                 [] OTHER ->
                      /\ client' = last
                      /\ told' = Found(command.op = "page" /\ (wire.token # 0 \/ wire.last = "false"),
                                       wire.token)
  /\ wire' = NoWire
  /\ UNCHANGED <<command, jira, stable, others>>

\* Variant: any transition will do.
PickAny(offers) == IF offers = <<>> THEN 0 ELSE offers[1].id

\* The first offer that leads to the state asked for, 0 if none.
Pick(offers) ==
  LET fitting == {i \in DOMAIN offers : offers[i].to = Wanted}
  IN IF fitting = {} THEN 0 ELSE offers[Least(fitting)].id

\* Transition: list, then post.
ListAnswered ==
  /\ Answered /\ wire.kind = "list"
  /\ CASE ~Ok -> Fails(Refused)
       [] Ok /\ wire.body = "garbled" -> Fails("decode")
       [] OTHER -> IF Pick(wire.offers) = 0 THEN Fails("no transition")
                   ELSE /\ client' = [client EXCEPT !.stage = "send", !.page = 1,
                                                    !.cursor = Pick(wire.offers)]
                        /\ UNCHANGED told
  /\ wire' = NoWire
  /\ UNCHANGED <<command, jira, stable, others>>

\* A command of one request; what its answer must bear: a body, a key.
Single(kind, decoded, keyed) ==
  /\ Answered /\ wire.kind = kind
  /\ CASE ~Ok -> Fails(Refused)
       [] Ok /\ decoded /\ wire.body = "garbled" -> Fails("decode")
       [] Ok /\ keyed /\ wire.body = "keyless" -> Fails("no key")
       [] OTHER -> End(0, "", FALSE, 0)
  /\ wire' = NoWire
  /\ UNCHANGED <<command, jira, stable, others>>

\* GetIssue takes an answer without a key; the post of a transition is judged by
\* its status alone.
GetAnswered == Single("get", TRUE, FALSE)
CreateAnswered == Single("create", TRUE, TRUE)
CommentAnswered == Single("comment", TRUE, TRUE)
MoveAnswered == Single("move", FALSE, FALSE)

\* AuthStatus; the body does not matter.
AuthState ==
  CASE Ok -> "ok"
    [] wire.status = 401 -> "unauthenticated"
    [] wire.status = 403 -> "forbidden"
    [] OTHER -> "error"

\* The exit codes of auth-status.
AuthAnswered ==
  /\ Answered /\ wire.kind = "myself"
  /\ CASE AuthState = "ok" -> End(0, "ok", FALSE, 0)
       [] AuthState = "unauthenticated" -> End(5, "unauthenticated", FALSE, 0)
       [] AuthState = "forbidden" -> End(4, "forbidden", FALSE, 0)
       [] OTHER -> Fails("status")
  /\ wire' = NoWire
  /\ UNCHANGED <<command, jira, stable, others>>

----------------------------------------------------------------------------
(* Others.                                                                 *)

Searches == command.op \in {"page", "all"}

OthersEdit ==
  /\ others < MaxOthers /\ client.stage # "done"
  /\ others' = others + 1
  /\ \/ \E i \in Hits : /\ Searches
                        /\ jira' = [jira EXCEPT !.hits = IF i \in @ THEN @ \ {i} ELSE @ \cup {i}]
                        /\ stable' = stable \ {i}
     \/ \E s \in DOMAIN Offers : /\ ~Searches /\ jira.status \notin {s, "gone"}
                                 /\ jira' = [jira EXCEPT !.status = s]
                                 /\ UNCHANGED stable
  /\ UNCHANGED <<command, client, wire, told, limits>>

----------------------------------------------------------------------------
FullConfig == [url |-> TRUE, email |-> TRUE, source |-> ""]
Plain == [op |-> "issue", file |-> [state |-> "ok", config |-> FullConfig], env |-> NoConfig,
          token |-> "token", args |-> "ok", body |-> <<"x">>]

\* What differs from c in one respect, of a good call of each command.
Differing(c) ==
  {[c EXCEPT !.body = b] : b \in IF c.op \in {"create", "comment"} THEN Texts ELSE {<<"x">>}}
  \cup {[c EXCEPT !.token = t] : t \in {"blank", "error"}}
  \cup {[c EXCEPT !.file = [state |-> "ok", config |-> [FullConfig EXCEPT !.source = k]]] :
          k \in {"file", "vault"}}
  \cup {[c EXCEPT !.file = [state |-> v[1], config |-> NoConfig],
                  !.env = [NoConfig EXCEPT !.url = TRUE, !.email = v[2]]] :
          v \in {"missing", "malformed"} \X BOOLEAN}
  \cup {[c EXCEPT !.args = a] : a \in IF c.op = "auth" THEN {"ok"} ELSE {"blank", "usage"}}

Commands == UNION {Differing([Plain EXCEPT !.op = op]) : op \in Ops}

JiraInit ==
  /\ command \in Commands
  /\ client = [stage |-> "start", page |-> 0, cursor |-> 0, got |-> <<>>]
  /\ wire = NoWire /\ told = Untold /\ limits = <<0, 0>> /\ others = 0
  /\ \E h \in IF Searches THEN SUBSET Hits ELSE {{}} :
       jira = [hits |-> h, status |-> "open", writes |-> 0, moved |-> "no", posted |-> <<>>,
               withheld |-> {}]
  /\ stable = jira.hits

JiraNext ==
  \/ Begin \/ Send \/ ServerActs \/ ServerWithholds \/ ServerRefuses \/ RequestLost \/ Transport
  \/ SearchAnswered \/ ListAnswered \/ GetAnswered \/ CreateAnswered
  \/ CommentAnswered \/ MoveAnswered \/ AuthAnswered \/ OthersEdit

----------------------------------------------------------------------------
\* A write happens at most once; one reported as done has happened, and a transi-
\* tion led to the state asked for, although others moved the issue in between;
\* one reported as refused has not.  What was lost on the way is reported as a
\* failure and may have happened.  Every rate-limited response is reported, and
\* auth-status tells its five cases apart.
WritesAreReported ==
  /\ jira.writes <= 1
  /\ client.stage = "done" /\ command.op \in Writes =>
       /\ told.exit = 0 => jira.writes = 1
       /\ told.exit = 0 /\ command.op = "transition" => jira.moved = Wanted
       /\ told.why \notin {"", "transport", "decode", "no key"} => jira.writes = 0
  /\ client.stage = "done" => limits[1] = limits[2]
  /\ told.exit = 3 => command.op = "auth" /\ limits[1] = 0

\* The text of a new issue or comment, empty lines and all, reads back as it was
\* given, but for the blanks around it: EncodeADFText and FlattenADF invert each
\* other through the document that was posted.
TextReadsBack ==
  (client.stage = "done" /\ told.exit = 0 /\ command.op \in {"create", "comment"}) =>
    FlattenADF(jira.posted) = Trim(command.body)

\* A search returns no hit twice, and of those that stayed put it leaves out only
\* what lies behind the token it gives, or what the server withheld, and says so by
\* truncated; but --all says nothing of what the server withheld (client.go:298).
SearchIsComplete ==
  client.stage = "done" /\ told.exit = 0 /\ Searches =>
    LET found == {client.got[i] : i \in DOMAIN client.got}
    IN /\ Cardinality(found) = Len(client.got)
       /\ \A i \in stable \ found :
            \/ told.truncated /\ i > told.token /\ (command.op = "all" => told.token # 0)
            \/ command.op = "all" /\ i \in jira.withheld

\* README.md:52-53 of the jira module: --all loops every page and returns the com-
\* plete result with truncated false.  Not checked, since the code does not keep it
\* beside a server that withholds a token.
AllIsComplete ==
  client.stage = "done" /\ told.exit = 0 /\ command.op = "all" /\ ~told.truncated =>
    stable \subseteq {client.got[i] : i \in DOMAIN client.got}
=============================================================================
