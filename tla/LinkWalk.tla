------------------------------- MODULE LinkWalk -------------------------------
(***************************************************************************)
(* A chat query from the hits of its vector search to its answer: the walk *)
(* over the wiki links of the vault (phase4/linkwalk.py), the memories of  *)
(* the notes it meets (LinkWalkRetrievalService of phase4/service.py), the *)
(* ranking, and the merge of both lists (phase4/synthesis.py).             *)
(*                                                                         *)
(* Scores are multiples of 1/60, so that 1 / (1 + depth) is one of them.   *)
(* A normalized score is a fraction <<numerator, denominator>>.            *)
(***************************************************************************)
EXTENDS ChatFilters, Subsequences, SequencesExt, Integers

CONSTANTS
    Projects, Labels,  \* of memories and filters
    VaultPaths,  \* how the path of the vault may be configured
    Listing,   \* the markdown files of the vault, as rglob lists them
    Stem,      \* the name of each file without its suffix, in lower case
    Vaults,    \* what the files may link to: sequences of texts, by file
    Memory,    \* rows of Postgres by id: source, note, record, lexical score
    Recent,    \* their ids by updated_at, the latest first
    Requests,  \* filters, link_depth, link_fanout and top_k of the queries
    HitLists   \* what the vector search may return: memory, score and chunk

Notes == ToSet(Listing)
Memories == DOMAIN Memory
Dates == [form : Forms, year : Nat, day : 0 .. 366] \cup {Nothing}

ASSUME VaultAssumption ==
    /\ Listing \in Seq(Notes) /\ Nothing \notin Notes
    /\ \A links \in Vaults : \A n \in Notes : links[n] \in Seq(ToSet(links[n]))
ASSUME MemoryAssumption ==
    /\ Memories \subseteq Nat /\ IsFiniteSet(Memories)
    /\ \A m \in Memories :
          /\ Memory[m].record \in [project : Projects \cup {Nothing}, labels : SUBSET Labels, date : Dates]
          /\ Memory[m].lexical \in Nat
    /\ Recent \in Seq(Memories)
ASSUME RequestsAssumption ==
    Requests \subseteq
        [filter : [project : Projects \cup {Nothing}, labels : SUBSET Labels, from : Dates, to : Dates],
         depth : Nat, fanout : Nat, top_k : Nat \ {0}]
ASSUME HitsAssumption ==
    \A found \in HitLists :
        /\ found \in Seq(ToSet(found))
        /\ \A x \in ToSet(found) : x.memory \in Memories /\ x.score \in Int
\* "canonical": absolute, without links and '..'.  "linked": another path under
\* which a note path is resolved to the note.  "relative": one like the default
\* ./obsidian-vault, below which a note path is looked up once more.
ASSUME PathsAssumption == VaultPaths \subseteq {"canonical", "linked", "relative"}

MinOf(m, n) == IF m < n THEN m ELSE n
MaxOf(m, n) == IF m < n THEN n ELSE m

VARIABLES
    path,        \* the configured path of the vault
    readable,    \* every listed file is below the vault, and UTF-8 that can be read
    vault, request,
    hits,        \* results of the vector search
    vector,      \* ... as VectorRetrievalService returns them
    graph,       \* the notes each note links to
    seeds,       \* where the walk starts
    queue, visited, candidates,
    pc, linkwalk, answer, citations

inputs == <<path, readable, vault, request, hits>>
vars == <<inputs, vector, graph, seeds, queue, visited, candidates, pc, linkwalk, answer, citations>>

TypeOK ==
    /\ path \in VaultPaths /\ readable \in BOOLEAN
    /\ vault \in Vaults /\ hits \in HitLists
    /\ visited \subseteq Notes
    /\ \A s \in {queue, candidates} : \A i \in DOMAIN s :
          s[i].note \in Notes /\ s[i].depth \in 0 .. request.depth
    /\ pc \in {"validate", "refused", "seed", "failed", "walk", "rank", "answer", "done"}
    /\ \A r \in ToSet(vector) \cup linkwalk \cup ToSet(answer) :
          r.memory \in Memories /\ r.norm[1] \in 0 .. r.norm[2]
    /\ citations = Uniques(citations) /\ Len(citations) <= Len(answer)

-----------------------------------------------------------------------------
(* The link graph.                                                         *)

\* A file goes by its stem and by its relative path; of files with one stem,
\* the last one listed has the name.
NameToPath ==
    [name \in Notes \cup {Stem[n] : n \in Notes} |->
        Listing[Max({i \in DOMAIN Listing : name \in {Listing[i], Stem[Listing[i]]}})]]

Target(text) == IF text \in DOMAIN NameToPath THEN NameToPath[text] ELSE Nothing

Links(n) ==
    LET texts == vault[n] IN
    KeptOnce([i \in DOMAIN texts |-> Target(texts[i])], LAMBDA t : t \notin {Nothing, n})

\* Mutant: links that were met are skipped before the fanout is counted.
FollowUnvisited(n) ==
    LET links == Kept(graph[n], LAMBDA t : t \notin visited)
    IN  SubSeq(links, 1, MinOf(request.fanout, Len(links)))

Followed(n) == SubSeq(graph[n], 1, MinOf(request.fanout, Len(graph[n])))

-----------------------------------------------------------------------------
(* Ranking, of the results of either search and of both.  A result is met  *)
(* at a place of the loop: a hit at its own, a memory of the link walk     *)
(* after all hits.                                                         *)

Result(m, score, chunk, place) ==
    [memory |-> m, score |-> score, norm |-> <<0, 1>>, chunk |-> chunk, place |-> place]

Over(a, b) == a.norm[1] * b.norm[2] > b.norm[1] * a.norm[2]
Level(a, b) == ~Over(a, b) /\ ~Over(b, a)

Normalized(results) ==
    LET scores == {r.score : r \in results}
        least == CHOOSE s \in scores : \A t \in scores : s <= t
        most == CHOOSE s \in scores : \A t \in scores : t <= s
    IN  {[r EXCEPT !.norm = IF most = least THEN <<1, 1>> ELSE <<r.score - least, most - least>>] :
            r \in results}

\* Mutant: a later result of a memory replaces an earlier one.
LastOfEach(results) ==
    {r \in results : \A s \in results : s.memory = r.memory => s.place <= r.place}

\* Of each memory, the first of the results with its highest score.
BestOfEach(results) ==
    {r \in results : \A s \in results :
        s.memory = r.memory => Over(r, s) \/ (Level(r, s) /\ r.place <= s.place)}

Ahead(a, b) ==
    \/ Over(a, b)
    \/ Level(a, b) /\ a.score > b.score
    \/ Level(a, b) /\ a.score = b.score /\ a.memory < b.memory

\* No two results of different memories are level in all three.
Sorted(results) ==
    [i \in 1 .. Cardinality(results) |->
        CHOOSE r \in results : Cardinality({s \in results : Ahead(s, r)}) = i - 1]

Ranked(results) == UNION {BestOfEach(normal) : normal \in {Normalized(results)}}

-----------------------------------------------------------------------------
(* The steps of a query.                                                   *)

Init ==
    /\ path \in VaultPaths /\ readable \in BOOLEAN
    /\ vault \in Vaults /\ request \in Requests /\ hits \in HitLists
    /\ vector = <<>> /\ graph = [n \in Notes |-> <<>>] /\ seeds = <<>>
    /\ queue = <<>> /\ visited = {} /\ candidates = <<>>
    /\ pc = "validate"
    /\ linkwalk = {} /\ answer = <<>> /\ citations = <<>>

Validate ==
    /\ pc = "validate"
    /\ IF Rejected(request.filter) THEN pc' = "refused" /\ UNCHANGED request
       ELSE /\ pc' = "seed"
            /\ \E labels \in Cleaned(request.filter.labels) :
                  request' = [request EXCEPT !.filter.labels = labels]
    /\ UNCHANGED <<path, readable, vault, hits, vector, graph, seeds, queue, visited, candidates, linkwalk,
                   answer, citations>>

InProject(m) == request.filter.project \in {Nothing, Memory[m].record.project}

\* list_memories_for_filters: LIMIT counts the rows of the project, before
\* labels and dates are looked at.
Listed(limit) ==
    At(Recent, {i \in DOMAIN Recent :
        /\ InProject(Recent[i])
        /\ Cardinality({j \in 1 .. i : InProject(Recent[j])}) <= limit
        /\ RowAccepted(Memory[Recent[i]].record, request.filter)})

NotesOf(ms) == KeptOnce([i \in DOMAIN ms |-> Memory[ms[i]].note], LAMBDA n : n # Nothing)

SeedsFor(results, rows) ==
    LET found == NotesOf([i \in DOMAIN results |-> results[i].memory])
    IN  IF found # <<>> THEN found ELSE NotesOf(rows)

\* The note path of a memory begins with the configured path of the vault, and
\* a relative one is looked up below that path.
SeedResolves(n) == path # "relative" /\ n \in Notes

\* A RetrievalResultRecord has no negative score.
Refusing == \E i \in DOMAIN hits : hits[i].score < 0

\* Without any note the link graph is not built.
HasSeeds ==
    \E m \in {hits[i].memory : i \in DOMAIN hits} \cup ToSet(Listed(MaxOf(request.top_k, 4))) :
        Memory[m].note # Nothing

\* The error of a record, of a file or of a link out of the vault ends the query.
SeedFails ==
    /\ pc = "seed"
    /\ Refusing \/ (~readable /\ HasSeeds)
    /\ pc' = "failed"
    /\ UNCHANGED <<inputs, vector, graph, seeds, queue, visited, candidates, linkwalk, answer, citations>>

Seed ==
    /\ pc = "seed"
    /\ ~Refusing /\ (readable \/ ~HasSeeds)
    /\ \E best \in {Ranked({Result(hits[i].memory, hits[i].score, hits[i].chunk, i) : i \in DOMAIN hits})} :
       \E found \in {Sorted(best)} :
       \E rows \in {Listed(MaxOf(request.top_k, 4))} :
       \E named \in {SeedsFor(found, rows)} :
       \E starts \in {Kept(named, SeedResolves)} :
          /\ vector' = found
          /\ seeds' = starts
          /\ queue' = [i \in DOMAIN starts |-> [note |-> starts[i], depth |-> 0]]
    /\ graph' = [n \in Notes |-> Links(n)]
    /\ pc' = "walk"
    /\ UNCHANGED <<inputs, visited, candidates, linkwalk, answer, citations>>

\* Mutant: the queue is not shortened.
Whole == queue

Rest == Tail(queue)

\* Mutant: one link too far.
OneTooFar(here) ==
    LET next == Kept(Followed(here.note), LAMBDA n : n \notin visited \cup {here.note})
    IN  IF here.depth > request.depth THEN <<>>
        ELSE [i \in DOMAIN next |-> [note |-> next[i], depth |-> here.depth + 1]]

Neighbors(here) ==
    LET next == Kept(Followed(here.note), LAMBDA n : n \notin visited \cup {here.note})
    IN  IF here.depth >= request.depth THEN <<>>
        ELSE [i \in DOMAIN next |-> [note |-> next[i], depth |-> here.depth + 1]]

PopFirst ==
    /\ pc = "walk" /\ queue # <<>>
    /\ LET here == Head(queue) IN
       IF here.note \in visited THEN queue' = Rest /\ UNCHANGED <<visited, candidates>>
       ELSE /\ visited' = visited \cup {here.note}
            /\ candidates' = Append(candidates, here)
            /\ queue' = Rest \o Neighbors(here)
    /\ UNCHANGED <<inputs, vector, graph, seeds, pc, linkwalk, answer, citations>>

Walked ==
    /\ pc = "walk" /\ queue = <<>>
    /\ pc' = "rank"
    /\ UNCHANGED <<inputs, vector, graph, seeds, queue, visited, candidates, linkwalk, answer, citations>>

DepthOf(n) == candidates[CHOOSE i \in DOMAIN candidates : candidates[i].note = n].depth

\* The rows of the notes: a stored path equals that of a candidate only when the
\* path of the vault is canonical.
RankLinkWalk ==
    /\ pc = "rank"
    /\ LET rows == {m \in Memories :
                     /\ path = "canonical" /\ Memory[m].note \in visited
                     /\ TextAccepted(Memory[m].record, request.filter)}
       IN  linkwalk' = Ranked(
             {Result(m, 60 \div (1 + DepthOf(Memory[m].note)) + Memory[m].lexical,
                     Nothing, Len(hits) + 1) : m \in rows})
    /\ pc' = "answer"
    /\ UNCHANGED <<inputs, vector, graph, seeds, queue, visited, candidates, answer, citations>>

Cited(r) == [source |-> Memory[r.memory].source, note |-> Memory[r.memory].note, chunk |-> r.chunk]

Synthesize ==
    /\ pc = "answer"
    /\ \E best \in {BestOfEach(ToSet(vector) \cup linkwalk)} :
       \E top \in {SubSeq(Sorted(best), 1, MinOf(request.top_k, Cardinality(best)))} :
          /\ answer' = top
          /\ citations' = Uniques([i \in DOMAIN top |-> Cited(top[i])])
    /\ pc' = "done"
    /\ UNCHANGED <<inputs, vector, graph, seeds, queue, visited, candidates, linkwalk>>

Next == Validate \/ Seed \/ SeedFails \/ PopFirst \/ Walked \/ RankLinkWalk \/ Synthesize

Spec == Init /\ [][Next]_vars /\ WF_vars(Next)

-----------------------------------------------------------------------------
(* Properties.                                                             *)

\* Reference: the notes at most d links away from a seed, along the links a
\* walk of that fanout follows.
Within[d \in 0 .. request.depth] ==
    IF d = 0 THEN ToSet(seeds)
    ELSE LET W == Within[d - 1] IN W \cup UNION {ToSet(Followed(n)) : n \in W}

\* The walk meets a note once, at its distance from the seeds, and when it ends
\* it has met every note within the depth, whatever the order of seeds and links.
WalkIsBounded ==
    /\ \A i \in DOMAIN candidates :
          /\ LET d == candidates[i].depth
             IN  candidates[i].note \in IF d = 0 THEN Within[0] ELSE Within[d] \ Within[d - 1]
          /\ \A j \in DOMAIN candidates : candidates[i].note = candidates[j].note => i = j
    /\ pc \in {"rank", "answer", "done"} => visited = Within[request.depth]

\* The answer has a memory once, with the better of its normalized scores, and
\* no memory that was found is left out for one that ranks below it, at whatever
\* places of the two lists it was met.
AnswerRanked ==
    pc = "done" =>
        LET found == ToSet(vector) \cup linkwalk
            kept == {answer[i].memory : i \in DOMAIN answer}
        IN  /\ \A i, j \in DOMAIN answer : i < j => answer[i].memory # answer[j].memory /\ Ahead(answer[i], answer[j])
            /\ \A i \in DOMAIN answer : \A r \in found :
                  r.memory = answer[i].memory => ~Over(r, answer[i])
            /\ \A r \in found : r.memory \notin kept =>
                  /\ Len(answer) = request.top_k
                  /\ ~Over(r, answer[Len(answer)])

\* Between the tests of a record: a memory the link walk adds passes the one
\* the rows are put to, as long as the dates can be parsed and those of one year
\* have one form (the texts of others compare differently), and Qdrant is asked
\* for no less than the Python test keeps, as long as a word is spelled the same
\* everywhere.
FiltersAgree ==
    LET f == request.filter IN
    /\ \A x \in linkwalk :
          LET r == Memory[x.memory].record IN
          Comparable({r.date, f.from, f.to} \ {Nothing}) => RowAccepted(r, f)
    /\ pc = "seed" => \A m \in Memories :
          LET r == Memory[m].record IN
          (/\ TextAccepted(r, f)
           /\ \A k, l \in f.labels \cup r.labels : Lower({k}) = Lower({l}) => k = l)
          => SearchAccepts(r, f)

\* Every query ends: the walk ends on every graph, and a query is refused or
\* answered unless the score of a hit is negative or a file of the vault cannot
\* be read or leads out of it - errors no part of the chat service handles.
EveryQueryEnds ==
    <>(pc \in {"refused", "done"} \/ (pc = "failed" /\ (Refusing \/ ~readable)))

\* "Chat combines both retrieval strategies every request" (PHASE_4_TODO.md): the
\* link walk starts at the notes of the vector results, so that it finds again
\* each of them whose note is in the vault and whose row passes the filter.
VectorResultsAreWalked ==
    pc \in {"answer", "done"} =>
        \A r \in ToSet(vector) :
            LET row == Memory[r.memory] IN
            row.note \in Notes /\ TextAccepted(row.record, request.filter) =>
                \E x \in linkwalk : x.memory = r.memory
=============================================================================
