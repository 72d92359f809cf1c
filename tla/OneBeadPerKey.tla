---------------------------- MODULE OneBeadPerKey ----------------------------
(***************************************************************************)
(* What the filer of triage beads promises of the tracker (filer.go:40,    *)
(* "so a restart does not file a second"): a key gets one bead, and        *)
(* another only if the marker of the one before was lost or nobody heard   *)
(* of it.  No worker, mutex, ledger, queue or retry appears here;          *)
(* TriageFiler implements it.                                              *)
(***************************************************************************)
EXTENDS Naturals

CONSTANT Keys   \* a package at a hash

VARIABLES
    beads, lost,  \* per key: beads in the tracker, and those whose marker was lost
    unsure,       \* per key: beads that were created unheard
    markers,      \* keys marked on disk
    known,        \* keys that the session counts as filed
    open          \* the key whose bead is not marked yet

vars == <<beads, lost, unsure, markers, known, open>>

Init ==
    /\ beads = [k \in Keys |-> 0] /\ lost = [k \in Keys |-> 0]
    /\ unsure = [k \in Keys |-> 0] /\ markers = {} /\ known = {} /\ open = {}

\* One bead at a time, and none for a key that has a marker or counts as filed.
Create(k) ==
    /\ open = {} /\ k \notin markers \cup known
    /\ beads' = [beads EXCEPT ![k] = @ + 1] /\ open' = {k}
    /\ UNCHANGED <<lost, unsure, markers, known>>

\* The bead is created, and nobody hears of it.
Unheard(k) ==
    /\ open = {} /\ k \notin markers \cup known
    /\ beads' = [beads EXCEPT ![k] = @ + 1] /\ unsure' = [unsure EXCEPT ![k] = @ + 1]
Doubt(k) == Unheard(k) /\ UNCHANGED <<lost, markers, known, open>>

\* The key counts as filed, whether or not its marker arrives.
Settle(k) == open = {k} /\ open' = {} /\ known' = known \cup {k} /\ UNCHANGED <<beads, unsure>>
Mark(k) == Settle(k) /\ markers' = markers \cup {k} /\ UNCHANGED lost
Lose(k) == Settle(k) /\ lost' = [lost EXCEPT ![k] = @ + 1] /\ UNCHANGED markers

\* The session reads the markers of those before it.
Learn == known' = known \cup markers /\ UNCHANGED <<beads, lost, unsure, markers, open>>

\* The session ends, before or after the marker, or before it hears of a bead.
Forget ==
    /\ known' = {} /\ open' = {}
    /\ lost' = [k \in Keys |-> IF k \in open THEN lost[k] + 1 ELSE lost[k]]
    /\ UNCHANGED <<beads, unsure>> \/ \E k \in Keys : Unheard(k)
    /\ UNCHANGED markers

Next == Learn \/ Forget \/ \E k \in Keys : Create(k) \/ Doubt(k) \/ Mark(k) \/ Lose(k)

Spec == Init /\ [][Next]_vars

\* A second bead of a key has a lost marker or an unheard creation to show for it,
\* and what has a marker or counts as filed has a bead.
OneBeadEach ==
    /\ \A k \in Keys : beads[k] <= 1 + lost[k] + unsure[k]
    /\ \A k \in markers \cup known : beads[k] > 0
=============================================================================
