----------------------------- MODULE HookBundle -----------------------------
(***************************************************************************)
(* A checkout's hook bundle as pn reads it from the files: its state, the  *)
(* gate that skips the installer, the doctor's findings; what git and the  *)
(* stub make of the same files at a commit; and what the installer writes. *)
(*                                                                         *)
(* There is one repository with its clone ("clone") and a linked worktree  *)
(* of it ("set"), and a producer ("lib") that the worktree's pins name.    *)
(***************************************************************************)
EXTENDS Naturals, Sequences, FiniteSets

VARIABLES
  disk,    \* the repository: [place, path, stub, index], and lib: [head, work]
  bundles  \* bundles["shared"], and bundles["private"] of the worktree

files == <<disk, bundles>>

(* disk.place: where the clone lies; disk.path: core.hooksPath as <<scope,  *)
(* where it leads>>, a dispatcher being a directory with a pre-commit that  *)
(* chains to <common>/hooks and a foreign one such with one that does not;  *)
(* disk.stub: the file at the stage in <common>/hooks;                      *)
(* disk.index[c]: the version of the stamp inputs in the index of c.        *)

Checkouts == {"clone", "set"}
Linked(c) == c = "set"
Paths == {<<"unset", "common">>}
           \cup ({"local", "global"} \X {"common", "dispatcher", "foreign", "elsewhere", "empty"})
Stubs == {"missing", "ours", "plain", "legacy", "foreign"}

(* A bundle directory: pointer ("none", "gen", "invalid"), body of the gen-  *)
(* eration it names ("gone", "plain" without execute bit, "live"), and its   *)
(* source.json ("none" if unreadable): stamp, pins, place.  from: the index  *)
(* and the lib that nix really built it of; torn: they were edited before    *)
(* source.json was written.                                                  *)

NoBundle == [pointer |-> "none", body |-> "gone", source |-> "none", stamp |-> 0,
             pins |-> {}, place |-> 0, from |-> [index |-> 0, lib |-> [head |-> 0, work |-> 0]],
             torn |-> FALSE]

Own(c) == IF Linked(c) THEN "private" ELSE "shared"

\* Variant: there is one bundle for all.
AlwaysShared(c) == "shared"

\* A pointer of its own wins, whatever it says.
Selected(c) == IF bundles[Own(c)].pointer # "none" THEN Own(c) ELSE "shared"

Bundle(c) == bundles[Selected(c)]
Rooted(b) == b.pointer = "gen" /\ b.body # "gone"

\* overrideNow and changedHookOverrides: HEAD and whether it is dirty.
OverrideNow == [head |-> disk.lib.head, dirty |-> disk.lib.work # 0]
ChangedOverrides(b) == {pin \in b.pins : pin # OverrideNow}

\* hooksUnreachable: a hooksPath that leads elsewhere.  An empty one is passed over,
\* and one of global scope with a pre-commit is taken for a dispatcher.
Unreachable ==
  /\ disk.path[2] \notin {"common", "empty"}
  /\ ~(disk.path[1] = "global" /\ disk.path[2] \in {"dispatcher", "foreign"})

\* hookBundleStale: nothing is stale without a source.json.
Stale(c) ==
  /\ Bundle(c).source = "ok"
  /\ Bundle(c).stamp # disk.index[c] \/ ChangedOverrides(Bundle(c)) # {}

\* ReadHookBundleState: the first that applies.
Precedence == <<"relocated", "unreachable", "broken", "stale", "present", "missing">>

Applying(c) ==
  LET b == Bundle(c)
  IN {s \in {Precedence[i] : i \in DOMAIN Precedence} :
        CASE s = "relocated" -> Rooted(b) /\ b.source = "ok" /\ b.place # disk.place
          [] s = "unreachable" -> Unreachable
          [] s = "broken" -> b.pointer = "invalid" \/ (b.pointer = "gen" /\ b.body = "plain")
          [] s = "stale" -> Rooted(b) /\ Stale(c)
          [] s = "present" -> Rooted(b)
          [] OTHER -> TRUE}

BundleState(c) ==
  LET applying == Applying(c)
  IN Precedence[CHOOSE i \in DOMAIN Precedence :
                  /\ Precedence[i] \in applying
                  /\ \A j \in 1 .. i - 1 : Precedence[j] \notin applying]

\* Variant: any present bundle will do.
PresentWillDo(c) == Bundle(c).pointer = "gen" /\ BundleState(c) = "present"

\* The gate: in a linked worktree the bundle must be its own.
InstallHookUpToDate(c) ==
  /\ Bundle(c).pointer = "gen"
  /\ BundleState(c) = "present"
  /\ Selected(c) = Own(c)

----------------------------------------------------------------------------
(* The doctor, of a repository that declares the install hook.             *)

\* badHookStubs.
BadStub == disk.stub # "ours"

BundleFindings(c) ==
  LET b == Bundle(c)
      state == BundleState(c)
      broken == b.pointer = "gen" /\ b.body = "plain"
      dangles == b.pointer = "gen" /\ b.body = "gone"
      bundle == CASE b.pointer = "invalid" -> {"broken pointer"}
                  [] b.pointer = "none" -> {"no hook bundle"}
                  [] OTHER -> IF state = "relocated" THEN {"moved"}
                              ELSE IF broken THEN {"broken"}
                              ELSE IF dangles THEN {"dangling root"} ELSE {}
  IN bundle \cup (IF state = "unreachable" THEN {"unreachable"} ELSE {})
            \cup (IF Rooted(b) /\ BadStub THEN {"bad stub"} ELSE {})

----------------------------------------------------------------------------
(* A commit in c: git, then the stub, which reads the same files.           *)

StubRuns(c) ==
  LET own == Linked(c) /\ bundles["private"].pointer # "none"
      b == IF own THEN bundles["private"] ELSE bundles["shared"]
  IN CASE b.pointer # "gen" -> "notice"
       [] b.pointer = "gen" /\ b.body = "gone" -> "notice"
       [] OTHER -> IF b.body = "plain" THEN "error" ELSE "hooks"

Commit(c) ==
  CASE disk.path[2] \in {"elsewhere", "empty"} -> "nothing"
    [] disk.path[2] = "foreign" -> "other"
    [] disk.path[2] \in {"common", "dispatcher"} /\ disk.stub = "ours" -> StubRuns(c)
    [] OTHER -> IF disk.stub \in {"missing", "plain"} THEN "nothing" ELSE "other"

----------------------------------------------------------------------------
(* pg-hooks-install, of a bundle that nix built of what it found before.    *)

\* In a linked worktree only with --private; not over a foreign stub.
InstallRefused(c, private) ==
  IF Linked(c) THEN ~private ELSE disk.stub = "foreign"

\* --private adds a missing stub and leaves the others alone.
SyncStubs(c) ==
  IF Linked(c) /\ disk.stub # "missing" THEN disk ELSE [disk EXCEPT !.stub = "ours"]

\* privateInstallArgs: the worktree's pins; the clone records none.
Pins(c) == IF Linked(c) THEN {OverrideNow} ELSE {}

Built(c) == [index |-> disk.index[c], lib |-> disk.lib]

\* The new generation and the pointer to it; the stubs come after.
Swap(c, built) ==
  bundles' = [bundles EXCEPT ![Own(c)] =
    [pointer |-> "gen", body |-> "live", source |-> "ok", stamp |-> disk.index[c],
     pins |-> Pins(c), place |-> disk.place, from |-> built, torn |-> built # Built(c)]]

----------------------------------------------------------------------------
(* What else happens to the files.                                          *)

EditIndex(c) == disk' = [disk EXCEPT !.index[c] = 3 - @] /\ UNCHANGED bundles

\* The producer is edited, or what it holds is committed.
EditLib ==
  /\ disk' = [disk EXCEPT !.lib.work = IF @ = 2 THEN 1 ELSE @ + 1]
  /\ UNCHANGED bundles
CommitLib ==
  /\ disk.lib.work # 0
  /\ disk' = [disk EXCEPT !.lib = [head |-> 3 - @.head, work |-> 0]]
  /\ UNCHANGED bundles

\* The indirect root of a clone that moved is dead: the bundle can be collected.
MoveClone == disk' = [disk EXCEPT !.place = 3 - @] /\ UNCHANGED bundles
Collect(d) ==
  /\ bundles[d].body # "gone" /\ bundles[d].place # disk.place
  /\ bundles' = [bundles EXCEPT ![d].body = "gone"]
  /\ UNCHANGED disk

SetHooksPath == \E p \in Paths \ {disk.path} : disk' = [disk EXCEPT !.path = p] /\ UNCHANGED bundles
SetStub == \E s \in Stubs \ {disk.stub} : disk' = [disk EXCEPT !.stub = s] /\ UNCHANGED bundles

Damage(d) ==
  /\ bundles[d].pointer = "gen"
  /\ \E b \in {[bundles[d] EXCEPT !.pointer = "invalid"], [bundles[d] EXCEPT !.body = "plain"],
               [bundles[d] EXCEPT !.source = "none"], NoBundle} :
       bundles' = [bundles EXCEPT ![d] = b]
  /\ UNCHANGED disk

\* The installer is run by hand, and may fail before the stubs.
InstallByHand(c) ==
  /\ \E private \in {FALSE, Linked(c)} : ~InstallRefused(c, private)
  /\ Swap(c, Built(c))
  /\ disk' \in {disk, SyncStubs(c)}

FilesChange ==
  \/ EditLib \/ CommitLib \/ MoveClone \/ SetHooksPath \/ SetStub
  \/ \E c \in Checkouts : EditIndex(c) \/ InstallByHand(c)
  \/ \E d \in {"shared", "private"} : Collect(d) \/ Damage(d)

FilesInit ==
  /\ disk = [place |-> 1, path |-> <<"unset", "common">>, stub |-> "missing",
             index |-> [c \in Checkouts |-> 1], lib |-> [head |-> 1, work |-> 0]]
  /\ bundles = [d \in {"shared", "private"} |-> NoBundle]

\* The doctor, in Go, and the stub, in sh, read the same files: where the doctor
\* has nothing to say of a repository, a commit in it runs the bundle's hooks, but
\* for the two kinds of hooksPath that hooksUnreachable takes on trust: the empty one,
\* and a global one to a directory with a pre-commit, whether it chains or not.
OnTrust == {p \in Paths : p[2] = "empty" \/ p = <<"global", "foreign">>}
DoctorIsHonest ==
  \A c \in Checkouts : BundleFindings(c) = {} => Commit(c) = "hooks" \/ disk.path \in OnTrust
=============================================================================
