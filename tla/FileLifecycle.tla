---------------------------- MODULE FileLifecycle ----------------------------
(***************************************************************************)
(* What the ingestion service promises about one file run, with no thread, *)
(* queue or database in sight: it is worked on at most MaxTries times, it  *)
(* ends at most once, and it ends well only after its memory was stored.   *)
(***************************************************************************)
EXTENDS Naturals

CONSTANTS Files, MaxTries

VARIABLES
    phase,   \* of each file run
    tries,   \* times its workflow was started
    stored   \* files whose memory is stored

vars == <<phase, tries, stored>>

Phases == {"absent", "pending", "active", "done", "dead"}

Init ==
    /\ phase = [f \in Files |-> "absent"]
    /\ tries = [f \in Files |-> 0]
    /\ stored = {}

Moves(f, from, to) ==
    /\ phase[f] \in from
    /\ phase' = [phase EXCEPT ![f] = to]

\* A scan finds the file
Appear(f) == Moves(f, {"absent"}, "pending") /\ UNCHANGED <<tries, stored>>

\* A try begins
Start(f) ==
    /\ Moves(f, {"pending"}, "active")
    /\ tries[f] < MaxTries
    /\ tries' = [tries EXCEPT ![f] = @ + 1]
    /\ UNCHANGED stored

\* A try stores the memory; it may still fail afterwards
Persist(f) ==
    /\ phase[f] = "active"
    /\ stored' = stored \cup {f}
    /\ UNCHANGED <<phase, tries>>

\* A try ends
Succeed(f) == f \in stored /\ Moves(f, {"active"}, "done") /\ UNCHANGED <<tries, stored>>
Fail(f) == Moves(f, {"active"}, "pending") /\ UNCHANGED <<tries, stored>>

\* The file run is given up
GiveUp(f) == Moves(f, {"pending", "active"}, "dead") /\ UNCHANGED <<tries, stored>>

Next ==
    \E f \in Files :
        Appear(f) \/ Start(f) \/ Persist(f) \/ Succeed(f) \/ Fail(f) \/ GiveUp(f)

Spec == Init /\ [][Next]_vars
=============================================================================
