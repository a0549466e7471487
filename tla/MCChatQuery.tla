----------------------------- MODULE MCChatQuery -----------------------------
(* Two files of the same name, contents that share chunks, two threads.    *)
EXTENDS ChatQuery, TLC

CONSTANTS f, g, n, t, u, p, q

\* <<3>> is taken for a binding.
MCContents == {<<1>>, <<1, 2>>, <<3>>}
MCOpaque == {<<3>>}
MCNoteName == [x \in {f, g} |-> n]
X == <<"tags", "x", "x">>
MCExtracted == {[project |-> p, labels |-> {X}, date |-> Nothing], [project |-> q, labels |-> {}, date |-> Nothing]}
MCFilters ==
    {[project |-> x, labels |-> {}, from |-> Nothing, to |-> Nothing] : x \in {Nothing, q}}

Symmetry == Permutations(Threads) \cup Permutations(Files)
=============================================================================
