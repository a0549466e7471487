------------------------------- MODULE ChatQuery -------------------------------
(***************************************************************************)
(* The vector pipeline of a chat query (VectorRetrievalService of          *)
(* phase4/service.py) beside the ingestion: it searches Qdrant, then lists *)
(* rows of Postgres, and an attempt may write to both in between.          *)
(*                                                                         *)
(* A result leads from a point to a memory by the file of the payload.     *)
(* (The note path of a payload is relative and that of a row begins with   *)
(* the vault, so the second way, by note, leads nowhere - unless the vault *)
(* is the working directory, which is left out.)                           *)
(***************************************************************************)
EXTENDS MemoryStore

INSTANCE ChatFilters

CONSTANTS
    Filters,    \* validated filters
    TopK,       \* vector_top_k
    ListLimit,  \* rows that are listed: max(3 * vector_top_k, 30) in the code
    MaxQueries  \* bound

ASSUME LimitsAssumption == TopK \in Nat /\ ListLimit \in Nat /\ MaxQueries \in Nat

VARIABLES chat, queries

vars == <<storeVars, chat, queries>>

NoQuery == [pc |-> "idle", filter |-> Nothing, asked |-> FallbackSize, tries |-> 0,
            embedded |-> FALSE, hits |-> {}, results |-> {}]

TypeOK ==
    /\ StoreTypeOK
    /\ chat.pc \in {"idle", "search", "list", "answered", "failed"}
    /\ chat.filter \in Filters \cup {Nothing}
    /\ chat.asked \in {FallbackSize, CollectionSize} /\ chat.tries \in 0 .. 2
    /\ Cardinality(chat.hits) <= TopK
    /\ chat.results \subseteq Keys \X AllIds
    /\ queries \in Nat

Init ==
    /\ StoreInit
    /\ chat = NoQuery /\ queries = 0

Ask ==
    /\ chat.pc \in {"idle", "answered", "failed"}
    /\ queries < MaxQueries
    /\ \E f \in Filters : chat' = [NoQuery EXCEPT !.pc = "search", !.filter = f]
    /\ queries' = queries + 1
    /\ UNCHANGED storeVars

\* The size of the vector of a query: that of the model if it answers, else
\* the one asked for.
QuerySize(model) == IF model THEN ModelSize ELSE chat.asked

\* Whatever is nearest, as many as asked for.
Nearest ==
    LET accepted == {id \in DOMAIN points : SearchAccepts(points[id].record, chat.filter)}
    IN  kSubset(Min({TopK, Cardinality(accepted)}), accepted)

Search ==
    /\ chat.pc = "search"
    /\ \E model \in BOOLEAN :
          /\ QuerySize(model) = CollectionSize
          /\ \E ids \in Nearest :
                chat' = [chat EXCEPT !.pc = "list",
                           !.hits = {[id |-> id, payload |-> points[id]] : id \in ids}]
    /\ UNCHANGED <<storeVars, queries>>

\* Mutant: the second search asks for what the first one did.
SameAgain == chat.asked

Expected == CollectionSize

\* Qdrant names the size it expects.  Asked for that already, or refused a
\* second time, the query fails.
SearchRefused ==
    /\ chat.pc = "search"
    /\ \E model \in BOOLEAN :
          /\ QuerySize(model) # CollectionSize
          /\ chat' = [chat EXCEPT !.tries = @ + 1, !.embedded = model, !.asked = Expected,
                        !.pc = IF chat.asked = CollectionSize \/ chat.tries = 1
                               THEN "failed" ELSE "search"]
    /\ UNCHANGED <<storeVars, queries>>

\* list_memories_for_filters.
Rows ==
    LET inProject == Kept(recent, LAMBDA k : chat.filter.project \in {Nothing, memories[k].record.project})
    IN  Kept(SubSeq(inProject, 1, Min({ListLimit, Len(inProject)})),
                  LAMBDA k : RowAccepted(memories[k].record, chat.filter))

\* Mutant: any row that passed the filters will do.
AnyRow(f) == {Rows[i] : i \in DOMAIN Rows}

\* memory_by_file: of the listed rows of a file, the last one stays.
RowsOf(f) ==
    {Rows[i] : i \in {j \in DOMAIN Rows : Rows[j][1] = f /\ \A k \in DOMAIN Rows : Rows[k][1] = f => k <= j}}

List ==
    /\ chat.pc = "list"
    /\ chat' = [chat EXCEPT !.pc = "answered",
                  !.results = {<<y[1], y[2].id>> : y \in
                    {x \in Stored \X chat.hits :
                        x[1] \in RowsOf(x[2].payload.file) /\ TextAccepted(x[2].payload.record, chat.filter)}}]
    /\ UNCHANGED <<storeVars, queries>>

Chat == Ask \/ Search \/ SearchRefused \/ List

Next == (StoreNext /\ UNCHANGED <<chat, queries>>) \/ Chat

Spec == Init /\ [][Next]_vars

-----------------------------------------------------------------------------
(* Properties.                                                             *)

\* A chunk is cited for a memory that contains it, unless the file was ever
\* ingested with two contents: points of older contents stay, and all points of
\* a file lead to the oldest of its listed memories.
CitedChunkIsOfMemory ==
    \A x \in chat.results :
        LET k == x[1] IN
        \/ x[2] \in memories[k].ids
        \/ \E c, d \in ingested[k[1]] : c # d

\* Without an embedding model the search adapts to the collection; it fails
\* only on vectors of a model that do not fit the collection.
SearchFitsCollection ==
    chat.pc = "failed" => chat.embedded /\ ModelSize # CollectionSize
=============================================================================
