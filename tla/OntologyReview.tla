---------------------------- MODULE OntologyReview ----------------------------
(***************************************************************************)
(* The registry of ontology terms and taxonomy tags: an ingestion that     *)
(* evolves it (OntologyEvolutionService.evolve) beside reviewers who       *)
(* approve, reject and merge its proposals, and the aliases a chat filter  *)
(* is resolved through (phase3/service.py, persistence.py, matcher.py and  *)
(* the proposal endpoints of api.py).                                      *)
(*                                                                         *)
(* Terms and tags are two tables under the same code.  Every repository    *)
(* method is a transaction of its own, so an action is one transaction of  *)
(* one thread with the code up to the next one.  A normalized name is      *)
(* unique in its table and stands for the id of its row; a name is <<its   *)
(* normalized form, its spelling>>, and memories and filters hold names.   *)
(***************************************************************************)
EXTENDS Naturals, Sequences

CONSTANTS
    Terms, Tags,  \* normalized names of the two tables
    Spellings,    \* the ways to write a normalized name
    Hashes,       \* content hashes of the files that are ingested
    Extractions,  \* what the workflow may extract from a content
    Ingests,      \* threads that ingest files
    Reviewers,    \* request threads that decide proposals
    Similar,      \* pairs <<candidate, record>> the matcher scores over its threshold
    Nothing,      \* None
    MaxIngests,   \* bound: calls of evolve
    MaxReviews,   \* bound: proposals a reviewer opens
    MaxFaults     \* bound: operations that an error or a stop cuts short

Records == Terms \cup Tags
Names == Records \X Spellings
Keys == Hashes \X Records  \* _proposal_key
SameTable(r, s) == (r \in Terms) <=> (s \in Terms)

ASSUME TablesAssumption ==
    Terms \cap Tags = {} /\ Nothing \notin Records \cup Spellings \cup Names
ASSUME SimilarAssumption ==
    Similar \subseteq {x \in Records \X Records : SameTable(x[1], x[2])}
ASSUME ExtractionsAssumption ==
    Extractions \subseteq [project : (Terms \X Spellings) \cup {Nothing},
                           entities : SUBSET (Terms \X Spellings), tags : SUBSET (Tags \X Spellings)]
ASSUME BoundsAssumption == MaxIngests \in Nat /\ MaxReviews \in Nat /\ MaxFaults \in Nat

VARIABLES
    \* the database
    registry,   \* status and merged_into of each row of the two tables
    spelling,   \* name of each row, as it was last written
    proposals,  \* status and merged_into of each row of schema_proposals
    audit,      \* rows of schema_proposal_state_events of each proposal
    relations,  \* rows of relations
    memory,     \* names stored with the memory of each content
    \* the threads
    ing, rev,
    \* history and bounds
    contested,  \* proposals two reviewers had in hand at the same time
    broken,     \* proposals whose decision was cut short
    unqueued,   \* records registered without a proposal that could be decided
    aliased,    \* records a reviewer has merged
    respelled,  \* names of rows that a registration has overwritten
    looped,     \* a merge closed a cycle
    begun, opened, faults

database == <<registry, spelling, proposals, audit, relations, memory>>
history == <<contested, broken, unqueued, aliased, respelled, looped, begun, opened, faults>>
vars == <<database, ing, rev, history>>

Decided == {"approved", "rejected", "merged"}
Statuses == {"none", "provisional"} \cup Decided
Row == [status : Statuses, into : Records \cup {Nothing}]
NoRow == [status |-> "none", into |-> Nothing]

IngestState == [pc : {"idle", "tags", "match", "propose"}, hash : Hashes \cup {Nothing},
                project : (Terms \X Spellings) \cup {Nothing}, todo : SUBSET Names,
                ends : SUBSET (Terms \X Spellings), snap : [Records -> Statuses],
                names : [Records -> Spellings \cup {Nothing}], cand : Records \cup {Nothing},
                mapped : SUBSET Names]
IdleIngest == [pc |-> "idle", hash |-> Nothing, project |-> Nothing, todo |-> {}, ends |-> {},
               snap |-> [r \in Records |-> "none"], names |-> [r \in Records |-> Nothing],
               cand |-> Nothing, mapped |-> {}]

ReviewState == [pc : {"idle", "record", "again", "write"}, key : Keys \cup {Nothing},
                verdict : Row, from : Statuses]
IdleReview == [pc |-> "idle", key |-> Nothing, verdict |-> NoRow, from |-> "none"]

DatabaseOK ==
    /\ registry \in [Records -> Row]
    /\ spelling \in [Records -> Spellings \cup {Nothing}]
    /\ proposals \in [Keys -> Row]
    /\ audit \in [Keys -> Seq([from : Statuses, to : Decided])]
    /\ relations \subseteq Terms \X Terms
    /\ memory \in [Hashes -> SUBSET Names]

ThreadsOK ==
    /\ ing \in [Ingests -> IngestState]
    /\ rev \in [Reviewers -> ReviewState]

HistoryOK ==
    /\ contested \subseteq Keys /\ broken \subseteq Keys
    /\ unqueued \subseteq Records /\ aliased \subseteq Records /\ respelled \subseteq Names
    /\ looped \in BOOLEAN
    /\ begun \in Nat /\ opened \in Nat /\ faults \in Nat

TypeOK == DatabaseOK /\ ThreadsOK /\ HistoryOK

Init ==
    /\ registry = [r \in Records |-> NoRow]
    /\ spelling = [r \in Records |-> Nothing]
    /\ proposals = [k \in Keys |-> NoRow]
    /\ audit = [k \in Keys |-> <<>>]
    /\ relations = {}
    /\ memory = [h \in Hashes |-> {}]
    /\ ing = [t \in Ingests |-> IdleIngest]
    /\ rev = [p \in Reviewers |-> IdleReview]
    /\ contested = {} /\ broken = {} /\ unqueued = {} /\ aliased = {} /\ respelled = {}
    /\ looped = FALSE
    /\ begun = 0 /\ opened = 0 /\ faults = 0

InHand(p, k) == rev[p].pc # "idle" /\ rev[p].key = k
\* p has written the record of its proposal and not yet the proposal.
Halfway(p, k) == rev[p].pc \in {"again", "write"} /\ rev[p].key = k

-----------------------------------------------------------------------------
(* Aliases.                                                                *)

\* Mutant: only the first merged_into is followed.
OneHop(r) ==
    [n \in 0 .. 10 |-> IF n = 0 \/ registry[r].into = Nothing THEN r ELSE registry[r].into]

\* The record n steps of merged_into from r, or the last one before that.
Hops(r) ==
    LET hop[n \in 0 .. 10] ==
          IF n = 0 THEN r
          ELSE LET last == hop[n - 1] IN IF registry[last].into = Nothing THEN last ELSE registry[last].into
    IN  hop

Resolve(r) == Hops(r)[10]

\* What a chat filter by n is resolved to: the name the row at the end has now.
Answer(n) == IF spelling[n[1]] = Nothing THEN n ELSE <<Resolve(n[1]), spelling[Resolve(n[1])]>>

\* The memories it selects: names are compared with their spelling.
Found(n) == {h \in Hashes : Answer(n) \in memory[h]}

-----------------------------------------------------------------------------
(* evolve, in thread t of the ingestion.                                   *)

\* The first read, of the terms.  The workflow may extract something else from
\* the same content when it is run again.
ReadTerms(t) ==
    /\ ing[t].pc = "idle"
    /\ begun < MaxIngests
    /\ \E h \in Hashes, x \in Extractions :
          ing' = [ing EXCEPT ![t] =
            [IdleIngest EXCEPT
              !.pc = "tags", !.hash = h, !.project = x.project,
              !.todo = ({x.project} \ {Nothing}) \cup x.entities \cup x.tags,
              !.ends = IF x.project = Nothing THEN {} ELSE x.entities \ {x.project},
              !.snap = [r \in Records |-> IF r \in Terms THEN registry[r].status ELSE "none"],
              !.names = [r \in Records |-> IF r \in Terms THEN spelling[r] ELSE Nothing]]]
    /\ begun' = begun + 1
    /\ UNCHANGED <<database, rev, contested, broken, unqueued, aliased, respelled, looped, opened,
                   faults>>

\* The second one, of the tags.
ReadTags(t) ==
    /\ ing[t].pc = "tags"
    /\ ing' = [ing EXCEPT ![t].pc = "match",
                          ![t].snap = [r \in Records |-> IF r \in Tags THEN registry[r].status
                                                                       ELSE @[r]],
                          ![t].names = [r \in Records |-> IF r \in Tags THEN spelling[r] ELSE @[r]]]
    /\ UNCHANGED <<database, rev, history>>

\* The project first, then the entities, then the tags.
Upcoming(t) ==
    LET todo == ing[t].todo IN
    IF ing[t].project \in todo THEN {ing[t].project}
    ELSE LET terms == {c \in todo : c[1] \in Terms} IN IF terms # {} THEN terms ELSE todo

\* What the matcher may answer: the record of that normalized name, else one
\* that is similar enough; rejected and merged records do not count.
Matches(t, c) ==
    LET live == {r \in Records : ing[t].snap[r] \in {"provisional", "approved"}}
    IN  IF c[1] \in live THEN {c[1]} ELSE {r \in live : <<c[1], r>> \in Similar}

\* Mutant: the memory gets the name as this note spells it.
ReuseAsWritten(t) ==
    /\ ing[t].pc = "match"
    /\ \E c \in Upcoming(t) : \E r \in Matches(t, c) :
          ing' = [ing EXCEPT ![t].todo = @ \ {c}, ![t].mapped = @ \cup {<<r, c[2]>>}]
    /\ UNCHANGED <<database, rev, history>>

\* The memory gets the name the record had when the registry was read.
Reuse(t) ==
    /\ ing[t].pc = "match"
    /\ \E c \in Upcoming(t) : \E r \in Matches(t, c) :
          ing' = [ing EXCEPT ![t].todo = @ \ {c}, ![t].mapped = @ \cup {<<r, ing[t].names[r]>>}]
    /\ UNCHANGED <<database, rev, history>>

\* The upsert of a candidate without a match ...
Upserted(row) == [row EXCEPT !.status = IF @ = "approved" THEN @ ELSE "provisional"]

\* ... which gives the row the name of the candidate, whatever it had before.
Register(t) ==
    /\ ing[t].pc = "match"
    /\ \E c \in Upcoming(t) :
          LET r == c[1]
              k == <<ing[t].hash, r>> IN
          /\ Matches(t, c) = {}
          /\ registry' = [registry EXCEPT ![r] = Upserted(@)]
          /\ spelling' = [spelling EXCEPT ![r] = c[2]]
          /\ ing' = [ing EXCEPT ![t].pc = "propose", ![t].cand = r,
                                ![t].todo = @ \ {c}, ![t].mapped = @ \cup {c}]
          /\ unqueued' = IF proposals[k].status \in Decided \/ \E p \in Reviewers : Halfway(p, k)
                         THEN unqueued \cup {r} ELSE unqueued
          /\ respelled' = IF spelling[r] \in {Nothing, c[2]} THEN respelled
                          ELSE respelled \cup {<<r, spelling[r]>>}
    /\ UNCHANGED <<proposals, audit, relations, memory, rev, contested, broken, aliased,
                   looped, begun, opened, faults>>

\* Mutant: the conflict resets the status.
ProposedAfresh(row) == [row EXCEPT !.status = "provisional"]

\* ON CONFLICT (idempotency_key): a proposal that exists keeps its status.
Proposed(row) == IF row.status = "none" THEN [row EXCEPT !.status = "provisional"] ELSE row

Propose(t) ==
    /\ ing[t].pc = "propose"
    /\ proposals' = [proposals EXCEPT ![<<ing[t].hash, ing[t].cand>>] = Proposed(@)]
    /\ ing' = [ing EXCEPT ![t].pc = "match", ![t].cand = Nothing]
    /\ UNCHANGED <<registry, spelling, audit, relations, memory, rev, history>>

\* Mutant: every mapped name, whatever the request named.
AllMapped(t) == IF ing[t].project = Nothing THEN {} ELSE ing[t].mapped

\* The entities whose own name was mapped, spelled as the note spells it, of a
\* project whose own name was.
EdgeEnds(t) ==
    IF ing[t].project \in ing[t].mapped THEN ing[t].ends \cap ing[t].mapped ELSE {}

\* upsert_relation writes provisional whatever was there, and nothing else
\* writes relations.
Relate(t) ==
    /\ ing[t].pc = "match" /\ ing[t].todo = {}
    /\ \E e \in EdgeEnds(t) :
          /\ relations' = relations \cup {<<ing[t].project[1], e[1]>>}
          /\ ing' = [ing EXCEPT ![t].ends = @ \ {e}]
    /\ UNCHANGED <<registry, spelling, proposals, audit, memory, rev, history>>

\* evolve returns and the memory is stored with the names it mapped.
StoreMemory(t) ==
    /\ ing[t].pc = "match" /\ ing[t].todo = {} /\ EdgeEnds(t) = {}
    /\ memory' = [memory EXCEPT ![ing[t].hash] = ing[t].mapped]
    /\ ing' = [ing EXCEPT ![t] = IdleIngest]
    /\ UNCHANGED <<registry, spelling, proposals, audit, relations, rev, history>>

\* An error or a stop: what was written stays, the rest is not done.
IngestFails(t) ==
    /\ ing[t].pc # "idle"
    /\ faults < MaxFaults
    /\ ing' = [ing EXCEPT ![t] = IdleIngest]
    /\ unqueued' = IF ing[t].pc = "propose" THEN unqueued \cup {ing[t].cand} ELSE unqueued
    /\ faults' = faults + 1
    /\ UNCHANGED <<database, rev, contested, broken, aliased, respelled, looped, begun, opened>>

Evolve(t) ==
    \/ ReadTerms(t) \/ ReadTags(t) \/ Reuse(t) \/ Register(t) \/ Propose(t)
    \/ Relate(t) \/ StoreMemory(t) \/ IngestFails(t)

-----------------------------------------------------------------------------
(* approve, reject and merge, in request p.                                *)

Verdicts(r) ==
    {[status |-> s, into |-> Nothing] : s \in {"approved", "rejected"}}
    \cup {[status |-> "merged", into |-> s] :
            s \in {x \in Records : SameTable(x, r) /\ registry[x].status # "none"}}

\* Mutant: the status is not checked.
OpenUnchecked(p) ==
    /\ rev[p].pc = "idle"
    /\ opened < MaxReviews
    /\ opened' = opened + 1
    /\ \E k \in Keys :
          /\ proposals[k].status # "none"
          /\ \E v \in Verdicts(k[2]) :
                rev' = [rev EXCEPT ![p] = [pc |-> "record", key |-> k, verdict |-> v, from |-> "none"]]
          /\ contested' = IF \E q \in Reviewers : InHand(q, k) THEN contested \cup {k} ELSE contested
    /\ UNCHANGED <<database, ing, broken, unqueued, aliased, respelled, looped, begun, faults>>

\* get_proposal, and the only check of its status.
OpenReview(p) ==
    /\ rev[p].pc = "idle"
    /\ opened < MaxReviews
    /\ opened' = opened + 1
    /\ \E k \in Keys :
          /\ proposals[k].status = "provisional"
          /\ \E v \in Verdicts(k[2]) :
                rev' = [rev EXCEPT ![p] = [pc |-> "record", key |-> k, verdict |-> v, from |-> "none"]]
          /\ contested' = IF \E q \in Reviewers : InHand(q, k) THEN contested \cup {k} ELSE contested
    /\ UNCHANGED <<database, ing, broken, unqueued, aliased, respelled, looped, begun, faults>>

\* Mutant: a tag keeps the status it had.
TagNotDecided(p) ==
    LET r == rev[p].key[2]
        v == rev[p].verdict IN
    /\ rev[p].pc = "record"
    /\ registry' = IF r \in Tags THEN registry ELSE [registry EXCEPT ![r] = v]
    /\ rev' = [rev EXCEPT ![p].pc = "again"]
    /\ aliased' = IF v.status = "merged" THEN aliased \cup {r} ELSE aliased
    /\ UNCHANGED <<spelling, proposals, audit, relations, memory, ing, contested, broken, unqueued,
                   respelled, looped, begun, opened, faults>>

\* update_ontology_term_status or update_taxonomy_tag_status.
DecideRecord(p) ==
    LET r == rev[p].key[2]
        v == rev[p].verdict IN
    /\ rev[p].pc = "record"
    /\ registry' = [registry EXCEPT ![r] = v]
    /\ rev' = [rev EXCEPT ![p].pc = "again"]
    /\ aliased' = IF v.status = "merged" THEN aliased \cup {r} ELSE aliased
    /\ looped' = (looped \/ (v.into # Nothing /\ \E n \in 0 .. 10 : Hops(v.into)[n] = r))
    /\ UNCHANGED <<spelling, proposals, audit, relations, memory, ing, contested, broken, unqueued,
                   respelled, begun, opened, faults>>

\* update_proposal_status reads the status again, for the event.
ReadAgain(p) ==
    /\ rev[p].pc = "again"
    /\ rev' = [rev EXCEPT ![p].pc = "write", ![p].from = proposals[rev[p].key].status]
    /\ UNCHANGED <<database, ing, history>>

\* Mutant: the target of a merge is left out.
TargetLost(p) ==
    LET k == rev[p].key IN
    /\ rev[p].pc = "write"
    /\ proposals' = [proposals EXCEPT ![k] = [rev[p].verdict EXCEPT !.into = Nothing]]
    /\ audit' = [audit EXCEPT ![k] =
                   Append(@, [from |-> rev[p].from, to |-> rev[p].verdict.status])]
    /\ rev' = [rev EXCEPT ![p] = IdleReview]
    /\ UNCHANGED <<registry, spelling, relations, memory, ing, history>>

\* ... and writes whatever it is by now, with the event.
DecideProposal(p) ==
    LET k == rev[p].key IN
    /\ rev[p].pc = "write"
    /\ proposals' = [proposals EXCEPT ![k] = rev[p].verdict]
    /\ audit' = [audit EXCEPT ![k] =
                   Append(@, [from |-> rev[p].from, to |-> rev[p].verdict.status])]
    /\ rev' = [rev EXCEPT ![p] = IdleReview]
    /\ UNCHANGED <<registry, spelling, relations, memory, ing, history>>

ReviewFails(p) ==
    /\ rev[p].pc # "idle"
    /\ faults < MaxFaults
    /\ rev' = [rev EXCEPT ![p] = IdleReview]
    /\ broken' = broken \cup {rev[p].key}
    /\ faults' = faults + 1
    /\ UNCHANGED <<database, ing, contested, unqueued, aliased, respelled, looped, begun, opened>>

Review(p) ==
    \/ OpenReview(p) \/ DecideRecord(p) \/ ReadAgain(p) \/ DecideProposal(p) \/ ReviewFails(p)

Next == (\E t \in Ingests : Evolve(t)) \/ (\E p \in Reviewers : Review(p))

Spec == Init /\ [][Next]_vars

-----------------------------------------------------------------------------
(* Properties.                                                             *)

\* Every provisional record has a provisional proposal in the review queue, or
\* a thread that is about to write it - unless the record was registered again
\* under a key that was decided or was being decided, or its thread ended
\* before the proposal.  Both exceptions are for good: later ingestions match
\* the provisional record and propose nothing.
ReviewQueueComplete ==
    \A r \in Records \ unqueued :
        registry[r].status = "provisional" =>
            \/ \E h \in Hashes : proposals[<<h, r>>].status = "provisional"
            \/ \E t \in Ingests : ing[t].pc = "propose" /\ ing[t].cand = r

\* A record that is approved, rejected or merged has a proposal decided just so,
\* or a reviewer about to decide it - unless two reviewers had one of its
\* proposals in hand at once, or a decision was cut short.
DecisionsAgree ==
    \A r \in Records :
        registry[r].status \in Decided =>
            \/ \E h \in Hashes : proposals[<<h, r>>] = registry[r]
            \/ \E h \in Hashes, p \in Reviewers : Halfway(p, <<h, r>>) /\ rev[p].verdict = registry[r]
            \/ \E h \in Hashes : <<h, r>> \in contested \cup broken

\* The audit trail ends with the status of the proposal, and holds the one
\* decision it had unless two reviewers had it in hand at once.
AuditExplains ==
    \A k \in Keys :
        LET n == Len(audit[k]) IN
        /\ n = 0 <=> proposals[k].status \in {"none", "provisional"}
        /\ n > 0 => audit[k][n].to = proposals[k].status
        /\ k \notin contested /\ n > 0 => n = 1 /\ audit[k][1].from = "provisional"

\* A memory is found by a filter with any name it is stored with, as long as
\* that is still the name of its row - whichever names other notes give the
\* record, and however old the registry was that the memory's names come from -
\* unless a reviewer merged the record.  A registration that overwrites the name
\* of a row, or a merge, rewrites neither the memories nor their points, and a
\* merged record that is registered again keeps merged_into.
TaggedIsFound ==
    \A h \in Hashes : \A n \in memory[h] \ respelled :
        n[1] \notin aliased => h \in Found(n)

\* As long as no merge closes a cycle, every alias resolves to a record that is
\* not merged into another, however reviewers interleave.  (With more than eleven
\* records a chain may be longer than the loop of _resolve_merged_record.)
AliasesEnd == ~looped => \A r \in Records : registry[Resolve(r)].into = Nothing

\* Each proposal is proposed once and decided once, whatever ingestion and the
\* reviewers do, except the contested ones.
Decision == INSTANCE ProposalDecision WITH
    outcome <- [k \in Keys |-> IF k \in contested THEN "disputed" ELSE proposals[k].status]
ImplementsDecision == Decision!Spec
=============================================================================
