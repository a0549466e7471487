----------------------------- MODULE Subsequences -----------------------------
(***************************************************************************)
(* What a loop, a comprehension or a dict keeps of a list.  (Kept says the *)
(* same as SelectSeq of the Sequences module, which proofs cannot expand.) *)
(***************************************************************************)
EXTENDS Naturals, Sequences, FiniteSets

\* The elements of s at the indexes in I, in their order.
At(s, I) ==
    LET taken[n \in 0 .. Len(s)] ==
          IF n = 0 THEN <<>>
          ELSE IF n \in I THEN Append(taken[n - 1], s[n]) ELSE taken[n - 1]
    IN  taken[Len(s)]

\* Those that pass the test.
Kept(s, Passes(_)) == At(s, {i \in DOMAIN s : Passes(s[i])})

\* The first of each among those that pass the test.
KeptOnce(s, Passes(_)) ==
    At(s, {i \in DOMAIN s : Passes(s[i]) /\ \A j \in 1 .. i - 1 : s[j] # s[i]})

\* The first of each.
Uniques(s) == At(s, {i \in DOMAIN s : \A j \in 1 .. i - 1 : s[j] # s[i]})
=============================================================================
