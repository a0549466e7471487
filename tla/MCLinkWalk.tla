----------------------------- MODULE MCLinkWalk -----------------------------
(* Four notes, two of them of one stem, and the memories of five rows.     *)
EXTENDS LinkWalk

CONSTANTS n1, n2, n3, n4, s1, s2, s3, gone, p, q, c1, c2

MCProjects == {p, q}

MCListing == <<n1, n2, n3, n4>>

\* n3 and n4 are a.md of two directories: the link [[a]] means n4.
MCStem == [n \in {n1, n2, n3, n4} |-> CASE n = n1 -> s1 [] n = n2 -> s2 [] OTHER -> s3]

\* Cycles, repeated and dead links, links to the note itself, and more links
\* than a fanout of 2.
MCVaults ==
    {[n \in {n1, n2, n3, n4} |->
        CASE n = n1 -> u [] n = n2 -> v [] n = n3 -> w [] n = n4 -> x] :
        u \in {<<>>, <<s2, s3, n3>>, <<s1, "none", s3>>},
        v \in {<<>>, <<s3, s1, s3, n3>>, <<s1>>, <<n3>>},
        w \in {<<>>, <<s3, s1>>},
        x \in {<<>>, <<n3, s1>>}}

InYear(year, form, day) == [form |-> form, year |-> year, day |-> day]
On(form, day) == InYear(1, form, day)
Record(project, labels, date) == [project |-> project, labels |-> labels, date |-> date]
X == <<"tags", "x", "x">>
CapitalX == <<"tags", "x", "X">>
Y == <<"ontology_terms", "y", "y">>
MCLabels == {X, CapitalX, Y}

MCMemory == <<
    [source |-> "a", note |-> n1, record |-> Record(p, {X, Y}, On("extended", 1)), lexical |-> 0],
    [source |-> "b", note |-> n2, record |-> Record(p, {CapitalX, Y}, On("extended", 2)), lexical |-> 30],
    [source |-> "c", note |-> n4, record |-> Record(q, {X}, On("other", 0)), lexical |-> 30],
    [source |-> "a", note |-> n1, record |-> Record(p, {X}, Nothing), lexical |-> 0],
    [source |-> "d", note |-> n3, record |-> Record(p, {X, Y}, InYear(2, "extended", 3)), lexical |-> 20],
    [source |-> "e", note |-> gone, record |-> Record(p, {X}, On("extended", 3)), lexical |-> 0]>>

MCRecent == <<4, 3, 6, 2, 5, 1>>

Filter(project, labels, from, to) == [project |-> project, labels |-> labels, from |-> from, to |-> to]
MCRequests ==
    [filter : {Filter(Nothing, {}, Nothing, Nothing),
               Filter(p, {X}, On("extended", 2), Nothing),
               Filter(Nothing, {X, CapitalX, Y}, On("extended", 1), On("extended", 2))},
     depth : {1, 2}, fanout : {1, 2}, top_k : {2}]
    \cup [filter : {Filter(Nothing, {}, On("compact", 1), Nothing),
                    Filter(p, {}, On("extended", 2), On("compact", 1)),
                    Filter(p, {}, On("compact", 1), Nothing)},
          depth : {0, 3}, fanout : {2}, top_k : {4}]

Hit(m, score, chunk) == [memory |-> m, score |-> score, chunk |-> chunk]
MCHitLists ==
    {<<>>, <<Hit(3, 40, c2), Hit(2, 40, c1)>>,
     <<Hit(4, 50, c1), Hit(5, 45, c2), Hit(5, 40, c1)>>, <<Hit(6, 30, c1)>>, <<Hit(2, 40, c1), Hit(1, -5, c2)>>}
=============================================================================
