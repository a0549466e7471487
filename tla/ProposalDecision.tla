--------------------------- MODULE ProposalDecision ---------------------------
(***************************************************************************)
(* What the review queue promises of one schema proposal: it is proposed   *)
(* once, and decided once by one reviewer.  A proposal that two reviewers  *)
(* have in hand at the same time is disputed, and nothing is promised of   *)
(* it any more.                                                            *)
(***************************************************************************)
CONSTANT Keys  \* idempotency keys

VARIABLE outcome

Outcomes == {"none", "provisional", "approved", "rejected", "merged", "disputed"}

Init == outcome = [k \in Keys |-> "none"]

Become(k, from, to) ==
    /\ outcome[k] = from
    /\ outcome' = [outcome EXCEPT ![k] = to]

Propose(k) == Become(k, "none", "provisional")
Decide(k) == \E o \in Outcomes \ {"none", "provisional"} : Become(k, "provisional", o)

Next == \E k \in Keys : Propose(k) \/ Decide(k)

Spec == Init /\ [][Next]_outcome
=============================================================================
