------------------------- MODULE OntologyReviewProofs -------------------------
(***************************************************************************)
(* For every set of terms, tags and contents, any number of ingesting      *)
(* threads and of reviewers, and any number of faults: the review queue    *)
(* stays complete, decisions and their records agree, the audit trail      *)
(* explains them, each proposal is decided once, and what a memory is      *)
(* stored with is found and resolves to a record that is not merged, with  *)
(* the exceptions the properties name.                                     *)
(***************************************************************************)
EXTENDS OntologyReview, OrderLemmas

\* A thread that is at work has something in hand.
Control ==
    /\ \A t \in Ingests : ing[t].pc # "idle" => ing[t].hash \in Hashes
    /\ \A t \in Ingests : ing[t].pc = "propose" => ing[t].cand \in Records
    /\ \A p \in Reviewers : rev[p].pc # "idle" =>
          rev[p].key \in Keys /\ rev[p].verdict.status \in Decided

\* What is read, proposed or decided of a record is about a row with a name.
Named ==
    /\ \A r \in Records : registry[r].status # "none" => spelling[r] # Nothing
    /\ \A k \in Keys : proposals[k].status # "none" => spelling[k[2]] # Nothing
    /\ \A t \in Ingests :
          /\ \A r \in Records : ing[t].snap[r] # "none" => ing[t].names[r] # Nothing
          /\ ing[t].pc = "propose" => spelling[ing[t].cand] # Nothing
    /\ \A p \in Reviewers : rev[p].pc # "idle" => spelling[rev[p].key[2]] # Nothing

Typed == TypeOK /\ Control /\ Named

\* Who has an uncontested proposal in hand is alone with it, it is still to be
\* decided, and the status read for the event is that.
Alone ==
    \A p \in Reviewers, k \in Keys \ contested :
        InHand(p, k) =>
            /\ proposals[k].status = "provisional"
            /\ rev[p].pc = "write" => rev[p].from = "provisional"
            /\ \A q \in Reviewers : InHand(q, k) => q = p

Audited == AuditExplains /\ Alone

\* A provisional record that was queued has a key nobody is deciding, with a
\* proposal to decide or a thread about to write it.
Queued(r) ==
    \E h \in Hashes :
        /\ proposals[<<h, r>>].status \notin Decided
        /\ \A p \in Reviewers : ~Halfway(p, <<h, r>>)
        /\ \/ proposals[<<h, r>>].status = "provisional"
           \/ \E t \in Ingests : ing[t].pc = "propose" /\ ing[t].cand = r /\ ing[t].hash = h

InQueue ==
    \A r \in Records \ unqueued : registry[r].status = "provisional" => Queued(r)

-----------------------------------------------------------------------------
(* Types.                                                                  *)

LEMMA InitTyped == Init => Typed
<1> SUFFICES ASSUME Init PROVE Typed
  OBVIOUS
<1>1. DatabaseOK
  BY DEF Init, DatabaseOK, Row, NoRow, Statuses
<1>2. ing \in [Ingests -> IngestState]
  BY DEF Init, IdleIngest, IngestState, Statuses
<1>3. rev \in [Reviewers -> ReviewState]
  BY DEF Init, IdleReview, ReviewState, Row, NoRow, Statuses
<1>4. HistoryOK
  BY DEF Init, HistoryOK
<1>5. Control /\ Named
  BY DEF Init, Control, Named, IdleIngest, IdleReview, NoRow
<1> QED
  BY <1>1, <1>2, <1>3, <1>4, <1>5 DEF Typed, TypeOK, ThreadsOK

\* An upsert gives a row a name, and nothing takes it away.
LEMMA EvolveNamed ==
  ASSUME Typed, NEW t \in Ingests, Evolve(t)
  PROVE  Named'
<1>a. DatabaseOK /\ ThreadsOK /\ Control /\ Named
  BY DEF Typed, TypeOK
<1>1. CASE Register(t)
  <2>1. PICK c \in ing[t].todo :
          /\ registry' = [registry EXCEPT ![c[1]] = Upserted(@)]
          /\ spelling' = [spelling EXCEPT ![c[1]] = c[2]]
          /\ ing' = [ing EXCEPT ![t].pc = "propose", ![t].cand = c[1],
                                ![t].todo = @ \ {c}, ![t].mapped = @ \cup {c}]
    BY <1>1 DEF Register, Upcoming
  <2>2. c[1] \in Records /\ c[2] \in Spellings /\ c[2] # Nothing
    BY <1>a, <2>1, TablesAssumption DEF ThreadsOK, IngestState, Names
  <2>3. UNCHANGED <<proposals, rev>>
    BY <1>1 DEF Register
  <2>4. \A r \in Records : /\ spelling[r] # Nothing => spelling'[r] # Nothing
                           /\ r # c[1] => registry'[r] = registry[r]
    BY <1>a, <2>1, <2>2 DEF DatabaseOK
  <2>5. spelling'[c[1]] # Nothing
    BY <1>a, <2>1, <2>2 DEF DatabaseOK
  <2>6. \A u \in Ingests : ing'[u].snap = ing[u].snap /\ ing'[u].names = ing[u].names
    BY <1>a, <2>1 DEF ThreadsOK, IngestState
  <2>7. \A u \in Ingests : ing'[u].pc = "propose" => ing'[u].cand = c[1] \/ ing'[u] = ing[u]
    BY <1>a, <2>1 DEF ThreadsOK, IngestState
  <2>8. \A r \in Records : registry'[r].status # "none" => spelling'[r] # Nothing
    BY <1>a, <2>4, <2>5 DEF Named
  <2>9. \A k \in Keys : proposals'[k].status # "none" => spelling'[k[2]] # Nothing
    BY <1>a, <2>3, <2>4 DEF Named, Keys
  <2>10. \A u \in Ingests : ing'[u].pc = "propose" => spelling'[ing'[u].cand] # Nothing
    BY <1>a, <2>4, <2>5, <2>7 DEF Named, Control
  <2>11. \A p \in Reviewers : rev'[p].pc # "idle" => spelling'[rev'[p].key[2]] # Nothing
    BY <1>a, <2>3, <2>4 DEF Named, Control, Keys
  <2> QED
    BY <1>a, <2>6, <2>8, <2>9, <2>10, <2>11 DEF Named
<1>2. CASE ReadTerms(t)
  <2>1. PICK h \in Hashes, x \in Extractions :
          ing' = [ing EXCEPT ![t] =
            [IdleIngest EXCEPT
              !.pc = "tags", !.hash = h, !.project = x.project,
              !.todo = ({x.project} \ {Nothing}) \cup x.entities \cup x.tags,
              !.ends = IF x.project = Nothing THEN {} ELSE x.entities \ {x.project},
              !.snap = [r \in Records |-> IF r \in Terms THEN registry[r].status ELSE "none"],
              !.names = [r \in Records |-> IF r \in Terms THEN spelling[r] ELSE Nothing]]]
    BY <1>2 DEF ReadTerms
  <2>2. /\ \A u \in Ingests \ {t} : ing'[u] = ing[u]
        /\ ing'[t].pc = "tags"
        /\ \A r \in Records : ing'[t].snap[r] # "none" => ing'[t].names[r] = spelling[r] /\ ing'[t].snap[r] = registry[r].status
    BY <1>a, <2>1 DEF ThreadsOK, IdleIngest
  <2>3. UNCHANGED <<registry, spelling, proposals, rev>>
    BY <1>2 DEF ReadTerms, database
  <2> QED
    BY <1>a, <2>2, <2>3 DEF Named
<1>3. CASE ReadTags(t)
  <2>1. /\ \A u \in Ingests \ {t} : ing'[u] = ing[u]
        /\ ing'[t].pc = "match"
        /\ \A r \in Records :
              \/ ing'[t].names[r] = spelling[r] /\ ing'[t].snap[r] = registry[r].status
              \/ ing'[t].names[r] = ing[t].names[r] /\ ing'[t].snap[r] = ing[t].snap[r]
    BY <1>3, <1>a DEF ReadTags, ThreadsOK, IngestState
  <2>2. UNCHANGED <<registry, spelling, proposals, rev>>
    BY <1>3 DEF ReadTags, database
  <2> QED
    BY <1>a, <2>1, <2>2 DEF Named
<1>4. CASE Propose(t)
  <2>1. /\ \A k \in Keys : proposals'[k] = proposals[k] \/ k[2] = ing[t].cand
        /\ ing[t].pc = "propose"
        /\ UNCHANGED <<registry, spelling, rev>>
    BY <1>4, <1>a DEF Propose, DatabaseOK, Keys, history
  <2>2. \A u \in Ingests : /\ ing'[u].snap = ing[u].snap /\ ing'[u].names = ing[u].names
                           /\ ing'[u].pc = "propose" => ing'[u] = ing[u]
    BY <1>4, <1>a DEF Propose, ThreadsOK, IngestState
  <2> QED
    BY <1>a, <2>1, <2>2 DEF Named
<1>5. CASE Reuse(t) \/ Relate(t)
  <2>1. UNCHANGED <<registry, spelling, proposals, rev>>
    BY <1>5 DEF Reuse, Relate, database
  <2>2. \A u \in Ingests : /\ ing'[u].snap = ing[u].snap /\ ing'[u].names = ing[u].names
                           /\ ing'[u].pc = ing[u].pc /\ ing'[u].cand = ing[u].cand
    <3>1. CASE Reuse(t)
      <4>1. PICK T, M : ing' = [ing EXCEPT ![t].todo = T, ![t].mapped = M]
        BY <3>1 DEF Reuse
      <4> QED
        BY <1>a, <4>1 DEF ThreadsOK, IngestState
    <3>2. CASE Relate(t)
      <4>1. PICK T : ing' = [ing EXCEPT ![t].ends = T]
        BY <3>2 DEF Relate
      <4> QED
        BY <1>a, <4>1 DEF ThreadsOK, IngestState
    <3> QED
      BY <1>5, <3>1, <3>2
  <2> QED
    BY <1>a, <2>1, <2>2 DEF Named
<1>6. CASE StoreMemory(t) \/ IngestFails(t)
  <2>1. UNCHANGED <<registry, spelling, proposals, rev>>
    BY <1>6 DEF StoreMemory, IngestFails, database
  <2>2. ing' = [ing EXCEPT ![t] = IdleIngest]
    BY <1>6 DEF StoreMemory, IngestFails
  <2>3. \A u \in Ingests : ing'[u] = ing[u] \/ ing'[u] = IdleIngest
    BY <1>a, <2>2 DEF ThreadsOK
  <2> QED
    BY <1>a, <2>1, <2>3 DEF Named, IdleIngest
<1> QED
  BY <1>1, <1>2, <1>3, <1>4, <1>5, <1>6 DEF Evolve

LEMMA ReviewNamed ==
  ASSUME Typed, NEW p \in Reviewers, Review(p)
  PROVE  Named'
<1>a. DatabaseOK /\ ThreadsOK /\ Control /\ Named
  BY DEF Typed, TypeOK
<1>1. UNCHANGED <<spelling, ing>>
  BY DEF Review, OpenReview, DecideRecord, ReadAgain, DecideProposal, ReviewFails, database
<1>2. \A r \in Records : registry'[r] = registry[r] \/ spelling[r] # Nothing
  <2>1. CASE DecideRecord(p)
    BY <1>a, <2>1 DEF DecideRecord, DatabaseOK, Named
  <2>2. CASE ~DecideRecord(p)
    BY <2>2 DEF Review, OpenReview, ReadAgain, DecideProposal, ReviewFails, database
  <2> QED
    BY <2>1, <2>2
<1>3. \A k \in Keys : proposals'[k] = proposals[k] \/ spelling[k[2]] # Nothing
  <2>1. CASE DecideProposal(p)
    BY <1>a, <2>1 DEF DecideProposal, DatabaseOK, Named
  <2>2. CASE ~DecideProposal(p)
    BY <2>2 DEF Review, OpenReview, DecideRecord, ReadAgain, ReviewFails, database
  <2> QED
    BY <2>1, <2>2
<1>4. \A q \in Reviewers : rev'[q].pc # "idle" => spelling[rev'[q].key[2]] # Nothing
  <2>1. CASE OpenReview(p)
    <3>1. PICK k \in Keys : /\ proposals[k].status = "provisional"
                            /\ \E v \in Verdicts(k[2]) :
                                 rev' = [rev EXCEPT ![p] = [pc |-> "record", key |-> k, verdict |-> v, from |-> "none"]]
      BY <2>1 DEF OpenReview
    <3>2. spelling[k[2]] # Nothing
      BY <1>a, <3>1 DEF Named
    <3> QED
      BY <1>a, <3>1, <3>2 DEF Named, ThreadsOK
  <2>2. CASE DecideRecord(p) \/ ReadAgain(p)
    <3>1. /\ \A q \in Reviewers : rev'[q].key = rev[q].key /\ (q # p => rev'[q].pc = rev[q].pc)
          /\ rev[p].pc # "idle"
      BY <1>a, <2>2 DEF DecideRecord, ReadAgain, ThreadsOK, ReviewState
    <3> QED
      BY <1>a, <3>1 DEF Named
  <2>3. CASE DecideProposal(p) \/ ReviewFails(p)
    <3>1. \A q \in Reviewers : rev'[q] = rev[q] \/ rev'[q].pc = "idle"
      BY <1>a, <2>3 DEF DecideProposal, ReviewFails, ThreadsOK, IdleReview
    <3> QED
      BY <1>a, <3>1 DEF Named
  <2> QED
    BY <2>1, <2>2, <2>3 DEF Review
<1> QED
  BY <1>a, <1>1, <1>2, <1>3, <1>4 DEF Named

LEMMA EvolveTyped ==
  ASSUME Typed, NEW t \in Ingests, Evolve(t)
  PROVE  Typed'
<1>0. looped' \in BOOLEAN
  BY Zenon
  DEF Typed, TypeOK, HistoryOK, Evolve, ReadTerms, ReadTags, Reuse, Register, Propose, Relate, StoreMemory,
      IngestFails, history
<1>a. DatabaseOK /\ ThreadsOK /\ HistoryOK /\ Control /\ Named
  BY DEF Typed, TypeOK
<1>b. Named'
  BY EvolveNamed
<1>1. CASE ReadTerms(t)
  <2>1. PICK h \in Hashes, x \in Extractions :
          ing' = [ing EXCEPT ![t] =
            [IdleIngest EXCEPT
              !.pc = "tags", !.hash = h, !.project = x.project,
              !.todo = ({x.project} \ {Nothing}) \cup x.entities \cup x.tags,
              !.ends = IF x.project = Nothing THEN {} ELSE x.entities \ {x.project},
              !.snap = [r \in Records |-> IF r \in Terms THEN registry[r].status ELSE "none"],
              !.names = [r \in Records |-> IF r \in Terms THEN spelling[r] ELSE Nothing]]]
    BY <1>1 DEF ReadTerms
  <2>2. x \in [project : (Terms \X Spellings) \cup {Nothing},
               entities : SUBSET (Terms \X Spellings), tags : SUBSET (Tags \X Spellings)]
    BY ExtractionsAssumption
  <2>3. /\ [r \in Records |-> IF r \in Terms THEN registry[r].status ELSE "none"] \in [Records -> Statuses]
        /\ [r \in Records |-> IF r \in Terms THEN spelling[r] ELSE Nothing] \in [Records -> Spellings \cup {Nothing}]
    BY <1>a DEF DatabaseOK, Row, Statuses
  <2>5. Terms \X Spellings \subseteq Names /\ Tags \X Spellings \subseteq Names
    BY DEF Names, Records
  <2>6. /\ ({x.project} \ {Nothing}) \cup x.entities \cup x.tags \subseteq Names
        /\ (IF x.project = Nothing THEN {} ELSE x.entities \ {x.project}) \subseteq Terms \X Spellings
        /\ x.project \in (Terms \X Spellings) \cup {Nothing}
    BY <2>2, <2>5
  <2>7. IdleIngest \in IngestState
    BY DEF IdleIngest, IngestState, Statuses
  <2>8. [IdleIngest EXCEPT
              !.pc = "tags", !.hash = h, !.project = x.project,
              !.todo = ({x.project} \ {Nothing}) \cup x.entities \cup x.tags,
              !.ends = IF x.project = Nothing THEN {} ELSE x.entities \ {x.project},
              !.snap = [r \in Records |-> IF r \in Terms THEN registry[r].status ELSE "none"],
              !.names = [r \in Records |-> IF r \in Terms THEN spelling[r] ELSE Nothing]] \in IngestState
    BY <2>3, <2>6, <2>7 DEF IngestState
  <2>4. ing'[t] \in IngestState /\ ing'[t].hash \in Hashes /\ ing'[t].pc = "tags"
    BY <1>a, <2>1, <2>8 DEF ThreadsOK, IdleIngest
  <2>a. DatabaseOK'
    BY <1>a, <1>1, <2>1, <2>4 DEF ReadTerms, DatabaseOK, Control, database, history
  <2>b. ThreadsOK'
    BY <1>a, <1>1, <2>1, <2>4 DEF ReadTerms, ThreadsOK, Control, database, history
  <2>c. HistoryOK'
    BY <1>0, <1>a, <1>1, <2>1, <2>4 DEF ReadTerms, HistoryOK, ThreadsOK, Control, database, history
  <2>d. Control'
    BY <1>a, <1>1, <2>1, <2>4 DEF ReadTerms, ThreadsOK, Control, database, history
  <2> QED
    BY <1>b, <2>a, <2>b, <2>c, <2>d DEF Typed, TypeOK
<1>2. CASE ReadTags(t)
  <2>1. /\ [r \in Records |-> IF r \in Tags THEN registry[r].status ELSE ing[t].snap[r]] \in [Records -> Statuses]
        /\ [r \in Records |-> IF r \in Tags THEN spelling[r] ELSE ing[t].names[r]] \in [Records -> Spellings \cup {Nothing}]
    BY <1>a DEF DatabaseOK, ThreadsOK, Row, IngestState
  <2>a. DatabaseOK'
    BY <1>a, <1>2 DEF ReadTags, DatabaseOK, database
  <2>2. ing[t] \in IngestState
    BY <1>a DEF ThreadsOK
  <2>3. [ing[t] EXCEPT !.pc = "match",
           !.snap = [r \in Records |-> IF r \in Tags THEN registry[r].status ELSE ing[t].snap[r]],
           !.names = [r \in Records |-> IF r \in Tags THEN spelling[r] ELSE ing[t].names[r]]] \in IngestState
    BY <2>1, <2>2 DEF IngestState
  <2>b. ThreadsOK'
    BY <1>a, <1>2, <2>3 DEF ReadTags, ThreadsOK
  <2>c. HistoryOK'
    BY <1>0, <1>a, <1>2 DEF ReadTags, HistoryOK, history
  <2>4. /\ \A u \in Ingests \ {t} : ing'[u] = ing[u]
        /\ ing'[t].pc = "match" /\ ing'[t].hash = ing[t].hash /\ ing[t].pc = "tags"
        /\ rev' = rev
    BY <1>a, <1>2, <2>2 DEF ReadTags, ThreadsOK, IngestState
  <2>d. Control'
    BY <1>a, <2>4 DEF Control
  <2> QED
    BY <1>b, <2>a, <2>b, <2>c, <2>d DEF Typed, TypeOK
<1>3. CASE Reuse(t)
  <2>9. PICK c \in Upcoming(t) : \E r \in Matches(t, c) :
          ing' = [ing EXCEPT ![t].todo = @ \ {c}, ![t].mapped = @ \cup {<<r, ing[t].names[r]>>}]
    BY <1>3 DEF Reuse
  <2>0. PICK r \in Matches(t, c) :
          ing' = [ing EXCEPT ![t].todo = @ \ {c}, ![t].mapped = @ \cup {<<r, ing[t].names[r]>>}]
    BY <2>9
  <2> DEFINE n == <<r, ing[t].names[r]>>
  <2>1. ing' = [ing EXCEPT ![t].todo = @ \ {c}, ![t].mapped = @ \cup {n}]
    BY <2>0
  <2>2. UNCHANGED <<database, rev, history>>
    BY <1>3 DEF Reuse
  <2>a. DatabaseOK'
    BY <1>a, <2>2 DEF DatabaseOK, database
  <2>3. ing[t] \in IngestState
    BY <1>a DEF ThreadsOK
  <2>6. r \in Records /\ ing[t].snap[r] # "none"
    BY DEF Matches
  <2>7. n \in Names
    BY <1>a, <2>3, <2>6 DEF Named, IngestState, Names
  <2> HIDE DEF n
  <2>4. ing[t].todo \ {c} \subseteq Names /\ ing[t].mapped \cup {n} \subseteq Names
    BY <2>3, <2>7 DEF IngestState
  <2>5. [ing[t] EXCEPT !.todo = @ \ {c}, !.mapped = @ \cup {n}] \in IngestState
    BY <2>3, <2>4 DEF IngestState
  <2>b. ThreadsOK'
    BY <1>a, <2>1, <2>2, <2>5 DEF ThreadsOK
  <2>c. HistoryOK'
    BY <1>0, <1>a, <2>2 DEF HistoryOK, history
  <2>d. Control'
    BY <1>a, <2>1, <2>2 DEF ThreadsOK, Control
  <2> QED
    BY <1>b, <2>a, <2>b, <2>c, <2>d DEF Typed, TypeOK
<1>4. CASE Register(t)
  <2>1. PICK c \in ing[t].todo :
          /\ registry' = [registry EXCEPT ![c[1]] = Upserted(@)]
          /\ spelling' = [spelling EXCEPT ![c[1]] = c[2]]
          /\ ing' = [ing EXCEPT ![t].pc = "propose", ![t].cand = c[1],
                                ![t].todo = @ \ {c}, ![t].mapped = @ \cup {c}]
          /\ unqueued' = unqueued \cup {c[1]} \/ unqueued' = unqueued
          /\ respelled' = IF spelling[c[1]] \in {Nothing, c[2]} THEN respelled
                          ELSE respelled \cup {<<c[1], spelling[c[1]]>>}
    BY <1>4 DEF Register, Upcoming
  <2>0. ing[t] \in IngestState /\ c \in Names
    BY <1>a, <2>1 DEF ThreadsOK, IngestState
  <2>2. c[1] \in Records /\ c[2] \in Spellings
    BY <2>0 DEF Names
  <2>3. /\ UNCHANGED <<proposals, audit, relations, memory, rev, contested, broken, aliased>>
        /\ UNCHANGED <<begun, opened, faults>>
        /\ ing[t].pc = "match"
    BY <1>4 DEF Register
  <2>4. Upserted(registry[c[1]]) \in Row
    BY <1>a, <2>2 DEF Upserted, DatabaseOK, Row, Statuses, Decided
  <2>a. DatabaseOK'
    BY <1>a, <2>1, <2>2, <2>3, <2>4 DEF DatabaseOK
  <2>6. ing[t].todo \ {c} \subseteq Names /\ ing[t].mapped \cup {c} \subseteq Names
    BY <2>0 DEF IngestState
  <2>7. [ing[t] EXCEPT !.pc = "propose", !.cand = c[1], !.todo = @ \ {c}, !.mapped = @ \cup {c}] \in IngestState
    BY <2>0, <2>2, <2>6 DEF IngestState
  <2>5. ing'[t] \in IngestState /\ ing'[t].hash \in Hashes /\ ing'[t].cand \in Records
    <3>1. ing'[t] = [ing[t] EXCEPT !.pc = "propose", !.cand = c[1], !.todo = @ \ {c}, !.mapped = @ \cup {c}]
      BY <1>a, <2>1 DEF ThreadsOK
    <3>2. ing'[t].hash = ing[t].hash /\ ing'[t].cand = c[1]
      BY <2>0, <3>1 DEF IngestState
    <3> QED
      BY <1>a, <2>2, <2>3, <2>7, <3>1, <3>2 DEF Control
  <2>b. ThreadsOK'
    BY <1>a, <2>1, <2>3, <2>5 DEF ThreadsOK
  <2>8. spelling[c[1]] \in Spellings \cup {Nothing}
    BY <1>a, <2>2 DEF DatabaseOK
  <2>9. respelled' \subseteq Names
    BY <1>a, <2>1, <2>2, <2>8 DEF HistoryOK, Names
  <2>c. HistoryOK'
    BY <1>0, <1>a, <2>1, <2>2, <2>3, <2>9 DEF HistoryOK
  <2>d. Control'
    BY <1>a, <2>1, <2>3, <2>5 DEF ThreadsOK, Control
  <2> QED
    BY <1>b, <2>a, <2>b, <2>c, <2>d DEF Typed, TypeOK
<1>5. CASE Propose(t)
  <2>1. <<ing[t].hash, ing[t].cand>> \in Keys /\ ing[t].cand \in Records
    BY <1>a, <1>5 DEF Propose, Control, Keys
  <2>3. ing[t] \in IngestState
    BY <1>a DEF ThreadsOK
  <2>5. [ing[t] EXCEPT !.pc = "match", !.cand = Nothing] \in IngestState
    BY <2>3 DEF IngestState
  <2>2. ing'[t] \in IngestState
    BY <1>a, <1>5, <2>5 DEF Propose, ThreadsOK
  <2>a. DatabaseOK'
    BY <1>a, <1>5, <2>1 DEF Propose, DatabaseOK, Proposed, Row, Statuses
  <2>b. ThreadsOK'
    BY <1>a, <1>5, <2>2 DEF Propose, ThreadsOK
  <2>c. HistoryOK'
    BY <1>0, <1>a, <1>5 DEF Propose, HistoryOK, history
  <2>d. Control'
    BY <1>a, <1>5 DEF Propose, ThreadsOK, Control
  <2> QED
    BY <1>b, <2>a, <2>b, <2>c, <2>d DEF Typed, TypeOK
<1>6. CASE Relate(t)
  <2>1. PICK e \in EdgeEnds(t) :
          /\ relations' = relations \cup {<<ing[t].project[1], e[1]>>}
          /\ ing' = [ing EXCEPT ![t].ends = @ \ {e}]
    BY <1>6 DEF Relate
  <2>7. ing[t] \in IngestState /\ ing[t].project \in ing[t].mapped /\ e \in ing[t].ends
    BY <1>a, <2>1 DEF EdgeEnds, ThreadsOK
  <2>8. ing[t].project \in Terms \X Spellings /\ e \in Terms \X Spellings
    BY <2>7, TablesAssumption DEF IngestState
  <2>2. <<ing[t].project[1], e[1]>> \in Terms \X Terms
    BY <2>8
  <2>3. UNCHANGED <<registry, spelling, proposals, audit, memory, rev, history>>
    BY <1>6 DEF Relate
  <2>a. DatabaseOK'
    BY <1>a, <2>1, <2>2, <2>3 DEF DatabaseOK
  <2>4. ing[t] \in IngestState
    BY <1>a DEF ThreadsOK
  <2>5. ing[t].ends \ {e} \subseteq Terms \X Spellings
    BY <2>4 DEF IngestState
  <2>6. [ing[t] EXCEPT !.ends = @ \ {e}] \in IngestState
    BY <2>4, <2>5 DEF IngestState
  <2>b. ThreadsOK'
    BY <1>a, <2>1, <2>3, <2>6 DEF ThreadsOK
  <2>c. HistoryOK'
    BY <1>0, <1>a, <2>3 DEF HistoryOK, history
  <2>d. Control'
    BY <1>a, <2>1, <2>3 DEF ThreadsOK, Control
  <2> QED
    BY <1>b, <2>a, <2>b, <2>c, <2>d DEF Typed, TypeOK
<1>7. CASE StoreMemory(t)
  <2>a. DatabaseOK'
    BY <1>a, <1>7 DEF StoreMemory, DatabaseOK, Control, database, history, ThreadsOK, IngestState
  <2>b. ThreadsOK'
    BY <1>a, <1>7 DEF StoreMemory, ThreadsOK, Control, database, history, IngestState, IdleIngest, Statuses
  <2>c. HistoryOK'
    BY <1>0, <1>a, <1>7 DEF StoreMemory, HistoryOK, ThreadsOK, Control, database, history
  <2>d. Control'
    BY <1>a, <1>7 DEF StoreMemory, ThreadsOK, Control, database, history, IdleIngest
  <2> QED
    BY <1>b, <2>a, <2>b, <2>c, <2>d DEF Typed, TypeOK
<1>8. CASE IngestFails(t)
  <2>a. DatabaseOK'
    BY <1>a, <1>8 DEF IngestFails, DatabaseOK, Control, database, history
  <2>b. ThreadsOK'
    BY <1>a, <1>8 DEF IngestFails, ThreadsOK, Control, database, history, IngestState, IdleIngest, Statuses
  <2>c. HistoryOK'
    BY <1>0, <1>a, <1>8 DEF IngestFails, HistoryOK, ThreadsOK, Control, database, history
  <2>d. Control'
    BY <1>a, <1>8 DEF IngestFails, ThreadsOK, Control, database, history, IdleIngest
  <2> QED
    BY <1>b, <2>a, <2>b, <2>c, <2>d DEF Typed, TypeOK
<1> QED
  BY <1>1, <1>2, <1>3, <1>4, <1>5, <1>6, <1>7, <1>8 DEF Evolve

LEMMA ReviewTyped ==
  ASSUME Typed, NEW p \in Reviewers, Review(p)
  PROVE  Typed'
<1>0. looped' \in BOOLEAN
  <2>1. CASE DecideRecord(p)
    BY <2>1, Zenon DEF DecideRecord
  <2> QED
    BY <2>1, Zenon
    DEF Typed, TypeOK, HistoryOK, Review, OpenReview, ReadAgain, DecideProposal, ReviewFails, history
<1>a. DatabaseOK /\ ThreadsOK /\ HistoryOK /\ Control /\ Named
  BY DEF Typed, TypeOK
<1>b. Named'
  BY ReviewNamed
<1>1. CASE OpenReview(p)
  <2>0. PICK k \in Keys :
          /\ \E v \in Verdicts(k[2]) :
                rev' = [rev EXCEPT ![p] = [pc |-> "record", key |-> k, verdict |-> v, from |-> "none"]]
          /\ contested' = contested \cup {k} \/ contested' = contested
    BY <1>1 DEF OpenReview
  <2>1. PICK v \in Verdicts(k[2]) :
          rev' = [rev EXCEPT ![p] = [pc |-> "record", key |-> k, verdict |-> v, from |-> "none"]]
    BY <2>0
  <2>2. v \in Row /\ v.status \in Decided
    BY <2>1 DEF Verdicts, Row, Statuses, Decided
  <2>a. DatabaseOK'
    BY <1>a, <1>1, <2>0, <2>1, <2>2 DEF OpenReview, DatabaseOK, Control, database, history
  <2>b. ThreadsOK'
    BY <1>a, <1>1, <2>0, <2>1, <2>2 DEF OpenReview, ThreadsOK, Control, database, history, ReviewState, Statuses
  <2>c. HistoryOK'
    BY <1>0, <1>a, <1>1, <2>0, <2>1, <2>2 DEF OpenReview, HistoryOK, ThreadsOK, Control, database, history
  <2>d. Control'
    BY <1>a, <1>1, <2>0, <2>1, <2>2 DEF OpenReview, ThreadsOK, Control, database, history
  <2> QED
    BY <1>b, <2>a, <2>b, <2>c, <2>d DEF Typed, TypeOK
<1>2. CASE DecideRecord(p)
  <2>a. DatabaseOK'
    BY <1>a, <1>2 DEF DecideRecord, DatabaseOK, Control, database, history, ThreadsOK, ReviewState
  <2>b. ThreadsOK'
    BY <1>a, <1>2 DEF DecideRecord, ThreadsOK, Control, database, history, ReviewState
  <2>c. HistoryOK'
    BY <1>0, <1>a, <1>2 DEF DecideRecord, HistoryOK, ThreadsOK, Control, database, history, ReviewState, Keys
  <2>d. Control'
    BY <1>a, <1>2 DEF DecideRecord, ThreadsOK, Control, database, history
  <2> QED
    BY <1>b, <2>a, <2>b, <2>c, <2>d DEF Typed, TypeOK
<1>3. CASE ReadAgain(p)
  <2>a. DatabaseOK'
    BY <1>a, <1>3 DEF ReadAgain, DatabaseOK, Control, database, history
  <2>b. ThreadsOK'
    BY <1>a, <1>3 DEF ReadAgain, ThreadsOK, Control, database, history, DatabaseOK, ReviewState, Row
  <2>c. HistoryOK'
    BY <1>0, <1>a, <1>3 DEF ReadAgain, HistoryOK, ThreadsOK, Control, database, history
  <2>d. Control'
    BY <1>a, <1>3 DEF ReadAgain, ThreadsOK, Control, database, history
  <2> QED
    BY <1>b, <2>a, <2>b, <2>c, <2>d DEF Typed, TypeOK
<1>4. CASE DecideProposal(p)
  <2>1. rev[p].key \in Keys /\ rev[p].verdict \in Row /\ rev[p].verdict.status \in Decided
    BY <1>a, <1>4 DEF DecideProposal, Control, ThreadsOK, ReviewState
  <2>2. [from |-> rev[p].from, to |-> rev[p].verdict.status] \in [from : Statuses, to : Decided]
    BY <1>a, <2>1 DEF ThreadsOK, ReviewState
  <2>4. audit[rev[p].key] \in Seq([from : Statuses, to : Decided])
    BY <1>a, <2>1 DEF DatabaseOK
  <2>5. \A S : \A e \in S, u \in Seq(S) : Append(u, e) \in Seq(S)
    OBVIOUS
  <2>6. Append(audit[rev[p].key], [from |-> rev[p].from, to |-> rev[p].verdict.status])
          \in Seq([from : Statuses, to : Decided])
    BY <2>2, <2>4, <2>5, Zenon
  <2>3. audit' \in [Keys -> Seq([from : Statuses, to : Decided])]
    BY <1>a, <1>4, <2>1, <2>6 DEF DecideProposal, DatabaseOK
  <2>a. DatabaseOK'
    BY <1>a, <1>4, <2>1, <2>3 DEF DecideProposal, DatabaseOK
  <2>b. ThreadsOK'
    BY <1>a, <1>4 DEF DecideProposal, ThreadsOK, ReviewState, IdleReview, NoRow, Row, Statuses
  <2>c. HistoryOK'
    BY <1>0, <1>a, <1>4 DEF DecideProposal, HistoryOK, history
  <2>d. Control'
    BY <1>a, <1>4 DEF DecideProposal, ThreadsOK, Control, IdleReview
  <2> QED
    BY <1>b, <2>a, <2>b, <2>c, <2>d DEF Typed, TypeOK
<1>5. CASE ReviewFails(p)
  <2>a. DatabaseOK'
    BY <1>a, <1>5 DEF ReviewFails, DatabaseOK, Control, database, history
  <2>b. ThreadsOK'
    BY <1>a, <1>5 DEF ReviewFails, ThreadsOK, Control, database, history, ReviewState, IdleReview, NoRow, Row, Statuses
  <2>c. HistoryOK'
    BY <1>0, <1>a, <1>5 DEF ReviewFails, HistoryOK, ThreadsOK, Control, database, history
  <2>d. Control'
    BY <1>a, <1>5 DEF ReviewFails, ThreadsOK, Control, database, history, IdleReview
  <2> QED
    BY <1>b, <2>a, <2>b, <2>c, <2>d DEF Typed, TypeOK
<1> QED
  BY <1>1, <1>2, <1>3, <1>4, <1>5 DEF Review

LEMMA NextTyped == Typed /\ [Next]_vars => Typed'
<1> SUFFICES ASSUME Typed, [Next]_vars PROVE Typed'
  OBVIOUS
<1>1. CASE UNCHANGED vars
  BY <1>1 DEF vars, database, history, Typed, TypeOK, DatabaseOK, ThreadsOK, HistoryOK, Control, Named
<1> QED
  BY <1>1, EvolveTyped, ReviewTyped DEF Next

\* The types of the tables and threads hold, and a thread at work has its row
\* in hand.
THEOREM TypeCorrect == Spec => []TypeOK
<1>1. Typed => TypeOK
  BY DEF Typed
<1> QED
  BY <1>1, InitTyped, NextTyped, PTL DEF Spec

-----------------------------------------------------------------------------
(* The audit trail.                                                        *)

\* An ingestion changes a proposal only by proposing it.
LEMMA EvolveProposes ==
  ASSUME Typed, NEW t \in Ingests, Evolve(t)
  PROVE  /\ UNCHANGED <<audit, rev, contested, broken>>
         /\ \A k \in Keys :
              \/ proposals'[k] = proposals[k]
              \/ proposals[k].status = "none" /\ proposals'[k].status = "provisional"
<1>1. CASE Propose(t)
  <2>1. <<ing[t].hash, ing[t].cand>> \in Keys
    BY <1>1 DEF Propose, Typed, Control, Keys
  <2>2. proposals \in [Keys -> Row]
    BY DEF Typed, TypeOK, DatabaseOK
  <2> QED
    BY <1>1, <2>1, <2>2 DEF Propose, Proposed, Row, history
<1>2. CASE ~Propose(t)
  BY <1>2
  DEF Evolve, ReadTerms, ReadTags, Reuse, Register, Relate, StoreMemory, IngestFails, database, history
<1> QED
  BY <1>1, <1>2

LEMMA InitAudited == Init => Audited
  BY DEF Init, Audited, AuditExplains, Alone, InHand, NoRow, IdleReview, Keys

LEMMA EvolveAudited ==
  ASSUME Typed, Audited, NEW t \in Ingests, Evolve(t)
  PROVE  Audited'
<1>1. /\ UNCHANGED <<audit, rev, contested>>
      /\ \A k \in Keys :
           \/ proposals'[k] = proposals[k]
           \/ proposals[k].status = "none" /\ proposals'[k].status = "provisional"
  BY EvolveProposes
<1>2. audit \in [Keys -> Seq([from : Statuses, to : Decided])]
  BY DEF Typed, TypeOK, DatabaseOK
<1>3. AuditExplains'
  BY <1>1, <1>2 DEF Audited, AuditExplains
<1>4. Alone'
  BY <1>1 DEF Audited, Alone, InHand
<1> QED
  BY <1>3, <1>4 DEF Audited

LEMMA ReviewAudited ==
  ASSUME Typed, Audited, NEW p \in Reviewers, Review(p)
  PROVE  Audited'
<1>a. /\ rev \in [Reviewers -> ReviewState]
      /\ audit \in [Keys -> Seq([from : Statuses, to : Decided])]
      /\ proposals \in [Keys -> Row]
  BY DEF Typed, TypeOK, DatabaseOK, ThreadsOK
<1>1. CASE OpenReview(p)
  <2>1. PICK k \in Keys :
          /\ proposals[k].status = "provisional"
          /\ \E v \in Verdicts(k[2]) :
                rev' = [rev EXCEPT ![p] = [pc |-> "record", key |-> k, verdict |-> v, from |-> "none"]]
          /\ contested' = IF \E q \in Reviewers : InHand(q, k) THEN contested \cup {k} ELSE contested
    BY <1>1 DEF OpenReview
  <2>2. PICK v : rev' = [rev EXCEPT ![p] = [pc |-> "record", key |-> k, verdict |-> v, from |-> "none"]]
    BY <2>1
  <2>3. UNCHANGED <<audit, proposals>>
    BY <1>1 DEF OpenReview, database
  <2>4. AuditExplains'
    BY <2>1, <2>3 DEF Audited, AuditExplains
  <2>5. ASSUME NEW q \in Reviewers, NEW l \in Keys \ contested', InHand(q, l)'
        PROVE  /\ proposals'[l].status = "provisional"
               /\ rev'[q].pc = "write" => rev'[q].from = "provisional"
               /\ \A o \in Reviewers : InHand(o, l)' => o = q
    <3>1. l \notin contested
      BY <2>1, <2>5
    <3>2. CASE l = k
      <4>1. \A o \in Reviewers : ~InHand(o, k)
        BY <2>1, <2>5, <3>2
      <4> QED
        BY <1>a, <2>1, <2>2, <2>3, <2>5, <3>2, <4>1 DEF InHand
    <3>3. CASE l # k
      BY <1>a, <2>2, <2>3, <2>5, <3>1, <3>3 DEF InHand, Audited, Alone
    <3> QED
      BY <3>2, <3>3
  <2>6. Alone'
    BY <2>5 DEF Alone
  <2> QED
    BY <2>4, <2>6 DEF Audited
<1>2. CASE DecideRecord(p)
  BY <1>a, <1>2 DEF DecideRecord, Audited, AuditExplains, Alone, InHand
<1>3. CASE ReadAgain(p)
  <2>1. rev' = [rev EXCEPT ![p].pc = "write", ![p].from = proposals[rev[p].key].status]
    BY <1>3 DEF ReadAgain
  <2>2. UNCHANGED <<audit, proposals, contested>> /\ rev[p].pc # "idle"
    BY <1>3 DEF ReadAgain, database, history
  <2> QED
    BY <1>a, <2>1, <2>2 DEF Audited, AuditExplains, Alone, InHand
<1>4. CASE DecideProposal(p)
  <2> DEFINE k == rev[p].key
             e == [from |-> rev[p].from, to |-> rev[p].verdict.status]
  <2>1. /\ proposals' = [proposals EXCEPT ![k] = rev[p].verdict]
        /\ audit' = [audit EXCEPT ![k] = Append(@, e)]
        /\ rev' = [rev EXCEPT ![p] = IdleReview]
        /\ UNCHANGED contested
        /\ rev[p].pc = "write"
    BY <1>4 DEF DecideProposal, history
  <2>2. k \in Keys /\ rev[p].verdict.status \in Decided
    BY <2>1 DEF Typed, Control
  <2>3. audit[k] \in Seq([from : Statuses, to : Decided])
    BY <1>a, <2>2
  <2>4. \A l \in Keys \ {k} : proposals'[l] = proposals[l] /\ audit'[l] = audit[l]
    BY <1>a, <2>1
  <2>5. proposals'[k] = rev[p].verdict /\ audit'[k] = Append(audit[k], e)
    BY <1>a, <2>1, <2>2
  <2>6. k \notin contested =>
          proposals[k].status = "provisional" /\ rev[p].from = "provisional" /\ \A q \in Reviewers : InHand(q, k) => q = p
    BY <2>1, <2>2 DEF Audited, Alone, InHand
  <2>7. AuditExplains'
    <3> SUFFICES ASSUME NEW l \in Keys
                 PROVE  /\ Len(audit'[l]) = 0 <=> proposals'[l].status \in {"none", "provisional"}
                        /\ Len(audit'[l]) > 0 => audit'[l][Len(audit'[l])].to = proposals'[l].status
                        /\ l \notin contested' /\ Len(audit'[l]) > 0 =>
                             Len(audit'[l]) = 1 /\ audit'[l][1].from = "provisional"
      BY DEF AuditExplains
    <3>1. CASE l # k
      BY <2>1, <2>4, <3>1 DEF Audited, AuditExplains
    <3>2. CASE l = k
      <4>1. Len(audit'[k]) = Len(audit[k]) + 1 /\ Len(audit[k]) \in Nat
        BY <2>3, <2>5
      <4>2. audit'[k][Len(audit[k]) + 1] = e
        BY <2>3, <2>5
      <4>3. k \notin contested => Len(audit[k]) = 0
        BY <2>6, <2>2 DEF Audited, AuditExplains
      <4> QED
        BY <2>1, <2>2, <2>5, <2>6, <3>2, <4>1, <4>2, <4>3 DEF Decided
    <3> QED
      BY <3>1, <3>2
  <2>8. Alone'
    <3> SUFFICES ASSUME NEW q \in Reviewers, NEW l \in Keys \ contested, InHand(q, l)'
                 PROVE  /\ proposals'[l].status = "provisional"
                        /\ rev'[q].pc = "write" => rev'[q].from = "provisional"
                        /\ \A o \in Reviewers : InHand(o, l)' => o = q
      BY <2>1 DEF Alone
    <3>1. q # p
      BY <1>a, <2>1 DEF InHand, IdleReview
    <3>2. InHand(q, l)
      BY <1>a, <2>1, <3>1 DEF InHand
    <3>3. l # k
      BY <2>6, <3>1, <3>2
    <3>4. ASSUME NEW o \in Reviewers, InHand(o, l)' PROVE InHand(o, l)
      BY <1>a, <2>1, <3>4 DEF InHand, IdleReview
    <3>5. /\ proposals[l].status = "provisional"
          /\ rev[q].pc = "write" => rev[q].from = "provisional"
          /\ \A o \in Reviewers : InHand(o, l) => o = q
      BY <3>2 DEF Audited, Alone
    <3>6. rev'[q] = rev[q] /\ proposals'[l] = proposals[l]
      BY <1>a, <2>1, <2>4, <3>1, <3>3
    <3> QED
      BY <3>4, <3>5, <3>6
  <2> QED
    BY <2>7, <2>8 DEF Audited
<1>5. CASE ReviewFails(p)
  <2>1. rev' = [rev EXCEPT ![p] = IdleReview] /\ UNCHANGED <<audit, proposals, contested>>
    BY <1>5 DEF ReviewFails, database
  <2> QED
    BY <1>a, <2>1 DEF Audited, AuditExplains, Alone, InHand, IdleReview
<1> QED
  BY <1>1, <1>2, <1>3, <1>4, <1>5 DEF Review

LEMMA NextAudited == Typed /\ Audited /\ [Next]_vars => Audited'
<1> SUFFICES ASSUME Typed, Audited, [Next]_vars PROVE Audited'
  OBVIOUS
<1>1. CASE UNCHANGED vars
  BY <1>1 DEF vars, database, history, Audited, AuditExplains, Alone, InHand
<1> QED
  BY <1>1, EvolveAudited, ReviewAudited DEF Next

LEMMA AlwaysAudited == Spec => [](Typed /\ Audited)
  BY InitTyped, NextTyped, InitAudited, NextAudited, PTL DEF Spec

\* The audit trail of a proposal ends with its status and holds one decision,
\* unless two reviewers had it in hand at once: the status is tested in one
\* transaction and written in another.
THEOREM TrailExplains == Spec => []AuditExplains
<1>1. Audited => AuditExplains
  BY DEF Audited
<1> QED
  BY <1>1, AlwaysAudited, PTL

-----------------------------------------------------------------------------
(* The review queue.                                                       *)

LEMMA InitInQueue == Init => InQueue
  BY DEF Init, InQueue, NoRow

\* A step that changes no table keeps what is queued, if it lets go of a
\* candidate only by naming it in unqueued, and goes on with no decision.
LEMMA KeepsQueue ==
  ASSUME InQueue,
         UNCHANGED <<registry, proposals>>, unqueued \subseteq unqueued',
         \A t \in Ingests : ing[t].pc = "propose" /\ ing[t].cand \notin unqueued' => ing'[t] = ing[t],
         \A p \in Reviewers, k \in Keys : Halfway(p, k)' => Halfway(p, k)
  PROVE  InQueue'
<1> SUFFICES ASSUME NEW r \in Records \ unqueued', registry'[r].status = "provisional"
             PROVE  Queued(r)'
  BY DEF InQueue
<1>1. Queued(r)
  BY DEF InQueue
<1>2. PICK h \in Hashes :
        /\ proposals[<<h, r>>].status \notin Decided
        /\ \A p \in Reviewers : ~Halfway(p, <<h, r>>)
        /\ \/ proposals[<<h, r>>].status = "provisional"
           \/ \E t \in Ingests : ing[t].pc = "propose" /\ ing[t].cand = r /\ ing[t].hash = h
  BY <1>1 DEF Queued
<1>3. <<h, r>> \in Keys
  BY DEF Keys
<1> QED
  BY <1>2, <1>3 DEF Queued

LEMMA EvolveInQueue ==
  ASSUME Typed, InQueue, NEW t \in Ingests, Evolve(t)
  PROVE  InQueue'
<1>a. /\ ing \in [Ingests -> IngestState]
      /\ registry \in [Records -> Row]
      /\ proposals \in [Keys -> Row]
  BY DEF Typed, TypeOK, DatabaseOK, ThreadsOK
<1>1. CASE Register(t)
  <2>0. PICK d \in Upcoming(t) :
          /\ registry' = [registry EXCEPT ![d[1]] = Upserted(@)]
          /\ ing' = [ing EXCEPT ![t].pc = "propose", ![t].cand = d[1],
                                ![t].todo = @ \ {d}, ![t].mapped = @ \cup {d}]
          /\ unqueued' = IF proposals[<<ing[t].hash, d[1]>>].status \in Decided
                            \/ \E p \in Reviewers : Halfway(p, <<ing[t].hash, d[1]>>)
                         THEN unqueued \cup {d[1]} ELSE unqueued
    BY <1>1 DEF Register
  <2> DEFINE c == d[1]
  <2>1. /\ registry' = [registry EXCEPT ![c] = Upserted(@)]
        /\ ing' = [ing EXCEPT ![t].pc = "propose", ![t].cand = c,
                              ![t].todo = @ \ {d}, ![t].mapped = @ \cup {d}]
        /\ unqueued' = IF proposals[<<ing[t].hash, c>>].status \in Decided
                          \/ \E p \in Reviewers : Halfway(p, <<ing[t].hash, c>>)
                       THEN unqueued \cup {c} ELSE unqueued
    BY <2>0
  <2> HIDE DEF c
  <2>2. UNCHANGED <<proposals, rev>> /\ ing[t].pc = "match" /\ ing[t].hash \in Hashes
    BY <1>1 DEF Register, Typed, Control
  <2> SUFFICES ASSUME NEW r \in Records \ unqueued', registry'[r].status = "provisional"
               PROVE  Queued(r)'
    BY DEF InQueue
  <2>3. CASE r = c
    <3>1. proposals[<<ing[t].hash, r>>].status \notin Decided
      BY <2>1, <2>3
    <3>2. \A p \in Reviewers : ~Halfway(p, <<ing[t].hash, r>>)
      BY <2>1, <2>3
    <3>3. ing'[t].pc = "propose" /\ ing'[t].cand = r /\ ing'[t].hash = ing[t].hash
      BY <1>a, <2>1, <2>3 DEF IngestState
    <3> QED
      BY <2>2, <3>1, <3>2, <3>3 DEF Queued, Halfway
  <2>4. CASE r # c
    <3>1. registry[r].status = "provisional" /\ r \notin unqueued
      BY <1>a, <2>1, <2>4
    <3>2. Queued(r)
      BY <3>1 DEF InQueue
    <3>3. \A u \in Ingests : ing[u].pc = "propose" => ing'[u] = ing[u]
      BY <1>a, <2>1, <2>2
    <3> QED
      BY <2>2, <3>2, <3>3 DEF Queued, Halfway
  <2> QED
    BY <2>3, <2>4
<1>2. CASE Propose(t)
  <2> DEFINE k == <<ing[t].hash, ing[t].cand>>
  <2>1. /\ proposals' = [proposals EXCEPT ![k] = Proposed(@)]
        /\ UNCHANGED <<registry, rev, unqueued>>
        /\ k \in Keys
    BY <1>2 DEF Propose, Typed, Control, Keys, history
  <2> SUFFICES ASSUME NEW r \in Records \ unqueued, registry[r].status = "provisional"
               PROVE  Queued(r)'
    BY <2>1 DEF InQueue
  <2>2. PICK h \in Hashes :
          /\ proposals[<<h, r>>].status \notin Decided
          /\ \A p \in Reviewers : ~Halfway(p, <<h, r>>)
          /\ \/ proposals[<<h, r>>].status = "provisional"
             \/ \E u \in Ingests : ing[u].pc = "propose" /\ ing[u].cand = r /\ ing[u].hash = h
    BY DEF InQueue, Queued
  <2>3. <<h, r>> \in Keys
    BY DEF Keys
  <2>4. \A p \in Reviewers : ~Halfway(p, <<h, r>>)'
    BY <2>1, <2>2 DEF Halfway
  <2>5. CASE <<h, r>> = k
    <3>1. proposals'[<<h, r>>].status = "provisional"
      BY <1>a, <2>1, <2>2, <2>5 DEF Proposed, Row, Statuses
    <3> QED
      BY <2>4, <3>1 DEF Queued, Decided
  <2>6. CASE <<h, r>> # k
    <3>1. proposals'[<<h, r>>] = proposals[<<h, r>>]
      BY <1>a, <2>1, <2>3, <2>6
    <3>2. \A u \in Ingests \ {t} : ing'[u] = ing[u]
      BY <1>2, <1>a DEF Propose
    <3>3. ~(ing[t].cand = r /\ ing[t].hash = h)
      BY <2>6
    <3> QED
      BY <2>2, <2>4, <3>1, <3>2, <3>3 DEF Queued
  <2> QED
    BY <2>5, <2>6
<1>3. CASE ~Register(t) /\ ~Propose(t)
  <2>1. UNCHANGED <<registry, proposals, rev>>
    BY <1>3
    DEF Evolve, ReadTerms, ReadTags, Reuse, Relate, StoreMemory, IngestFails, database
  <2>2. \A u \in Ingests \ {t} : ing'[u] = ing[u]
    BY <1>3, <1>a DEF Evolve, ReadTerms, ReadTags, Reuse, Relate, StoreMemory, IngestFails
  <2>3. ing[t].pc = "propose" => IngestFails(t)
    BY <1>3 DEF Evolve, ReadTerms, ReadTags, Reuse, Relate, StoreMemory
  <2>4. unqueued \subseteq unqueued' /\ (ing[t].pc = "propose" => ing[t].cand \in unqueued')
    BY <1>3, <2>3 DEF Evolve, ReadTerms, ReadTags, Reuse, Relate, StoreMemory, IngestFails, history
  <2>5. \A u \in Ingests : ing[u].pc = "propose" /\ ing[u].cand \notin unqueued' => ing'[u] = ing[u]
    BY <2>2, <2>4
  <2>6. \A p \in Reviewers, k \in Keys : Halfway(p, k)' => Halfway(p, k)
    BY <2>1 DEF Halfway
  <2> QED
    BY <2>1, <2>4, <2>5, <2>6, KeepsQueue
<1> QED
  BY <1>1, <1>2, <1>3

LEMMA ReviewInQueue ==
  ASSUME Typed, InQueue, NEW p \in Reviewers, Review(p)
  PROVE  InQueue'
<1>a. /\ rev \in [Reviewers -> ReviewState]
      /\ registry \in [Records -> Row]
      /\ proposals \in [Keys -> Row]
  BY DEF Typed, TypeOK, DatabaseOK, ThreadsOK
<1>1. CASE OpenReview(p) \/ ReadAgain(p) \/ ReviewFails(p)
  <2>1. UNCHANGED <<registry, proposals, ing, unqueued>>
    BY <1>1 DEF OpenReview, ReadAgain, ReviewFails, database, history
  <2>2. \A q \in Reviewers \ {p} : rev'[q] = rev[q]
    BY <1>1, <1>a DEF OpenReview, ReadAgain, ReviewFails
  <2>3. rev'[p].pc \in {"record", "idle"} \/ (rev[p].pc = "again" /\ rev'[p].key = rev[p].key)
    <3>1. CASE OpenReview(p)
      <4>1. PICK k \in Keys : \E v \in Verdicts(k[2]) :
              rev' = [rev EXCEPT ![p] = [pc |-> "record", key |-> k, verdict |-> v, from |-> "none"]]
        BY <3>1 DEF OpenReview
      <4> QED
        BY <1>a, <4>1
    <3>2. CASE ReadAgain(p)
      BY <1>a, <3>2 DEF ReadAgain, ReviewState
    <3>3. CASE ReviewFails(p)
      BY <1>a, <3>3 DEF ReviewFails, IdleReview
    <3> QED
      BY <1>1, <3>1, <3>2, <3>3
  <2>4. \A q \in Reviewers, k \in Keys : Halfway(q, k)' => Halfway(q, k)
    BY <2>2, <2>3 DEF Halfway
  <2> QED
    BY <2>1, <2>4, KeepsQueue
<1>2. CASE DecideRecord(p)
  <2> DEFINE c == rev[p].key[2]
  <2>1. /\ registry' = [registry EXCEPT ![c] = rev[p].verdict]
        /\ rev' = [rev EXCEPT ![p].pc = "again"]
        /\ UNCHANGED <<proposals, ing, unqueued>>
        /\ rev[p].pc = "record"
    BY <1>2 DEF DecideRecord
  <2>2. c \in Records /\ rev[p].verdict.status \in Decided
    BY <2>1 DEF Typed, Control, Keys
  <2> SUFFICES ASSUME NEW r \in Records \ unqueued, registry'[r].status = "provisional"
               PROVE  Queued(r)'
    BY <2>1 DEF InQueue
  <2>3. r # c
    BY <1>a, <2>1, <2>2 DEF Decided
  <2>4. Queued(r)
    BY <1>a, <2>1, <2>3 DEF InQueue
  <2>5. \A q \in Reviewers, h \in Hashes : Halfway(q, <<h, r>>)' => Halfway(q, <<h, r>>)
    BY <1>a, <2>1, <2>3 DEF Halfway, ReviewState
  <2> QED
    BY <2>1, <2>4, <2>5 DEF Queued
<1>3. CASE DecideProposal(p)
  <2> DEFINE k == rev[p].key
  <2>1. /\ proposals' = [proposals EXCEPT ![k] = rev[p].verdict]
        /\ rev' = [rev EXCEPT ![p] = IdleReview]
        /\ UNCHANGED <<registry, ing, unqueued>>
        /\ Halfway(p, k)
    BY <1>3 DEF DecideProposal, history, Halfway
  <2> SUFFICES ASSUME NEW r \in Records \ unqueued, registry[r].status = "provisional"
               PROVE  Queued(r)'
    BY <2>1 DEF InQueue
  <2>2. PICK h \in Hashes :
          /\ proposals[<<h, r>>].status \notin Decided
          /\ \A q \in Reviewers : ~Halfway(q, <<h, r>>)
          /\ \/ proposals[<<h, r>>].status = "provisional"
             \/ \E u \in Ingests : ing[u].pc = "propose" /\ ing[u].cand = r /\ ing[u].hash = h
    BY DEF InQueue, Queued
  <2>3. <<h, r>> # k /\ <<h, r>> \in Keys
    BY <2>1, <2>2 DEF Keys
  <2>4. proposals'[<<h, r>>] = proposals[<<h, r>>]
    BY <1>a, <2>1, <2>3
  <2>5. \A q \in Reviewers : ~Halfway(q, <<h, r>>)'
    BY <1>a, <2>1, <2>2 DEF Halfway, IdleReview
  <2> QED
    BY <2>1, <2>2, <2>4, <2>5 DEF Queued
<1> QED
  BY <1>1, <1>2, <1>3 DEF Review

\* Every provisional record can be decided by a reviewer or is about to be, but
\* for those registered again under a decided key and those whose thread ended.
THEOREM QueueComplete == Spec => []ReviewQueueComplete
<1>1. Typed /\ InQueue /\ [Next]_vars => InQueue'
  <2> SUFFICES ASSUME Typed, InQueue, [Next]_vars PROVE InQueue'
    OBVIOUS
  <2>1. CASE UNCHANGED vars
    <3>1. UNCHANGED <<registry, proposals, ing, rev, unqueued>>
      BY <2>1 DEF vars, database, history
    <3>2. \A p \in Reviewers, k \in Keys : Halfway(p, k)' => Halfway(p, k)
      BY <3>1 DEF Halfway
    <3> QED
      BY <3>1, <3>2, KeepsQueue
  <2> QED
    BY <2>1, EvolveInQueue, ReviewInQueue DEF Next
<1>2. InQueue => ReviewQueueComplete
  BY DEF InQueue, Queued, ReviewQueueComplete
<1> QED
  BY <1>1, <1>2, InitTyped, NextTyped, InitInQueue, PTL DEF Spec

-----------------------------------------------------------------------------
(* Records and proposals.                                                  *)

\* What DecisionsAgree says of one record.
Agrees(r) ==
    \/ \E h \in Hashes : proposals[<<h, r>>] = registry[r]
    \/ \E h \in Hashes, p \in Reviewers : Halfway(p, <<h, r>>) /\ rev[p].verdict = registry[r]
    \/ \E h \in Hashes : <<h, r>> \in contested \cup broken

LEMMA EvolveAgrees ==
  ASSUME Typed, DecisionsAgree, NEW t \in Ingests, Evolve(t)
  PROVE  DecisionsAgree'
<1>a. registry \in [Records -> Row]
  BY DEF Typed, TypeOK, DatabaseOK
<1>1. /\ UNCHANGED <<rev, contested, broken>>
      /\ \A k \in Keys : proposals'[k] = proposals[k] \/ proposals[k].status = "none"
  BY EvolveProposes
<1>2. \A r \in Records : registry'[r] = registry[r] \/ registry'[r].status = "provisional"
  <2>1. CASE Register(t)
    <3>1. PICK c \in ing[t].todo : registry' = [registry EXCEPT ![c[1]] = Upserted(@)]
      BY <2>1 DEF Register, Upcoming
    <3>2. c[1] \in Records
      BY <3>1 DEF Typed, TypeOK, ThreadsOK, IngestState, Names
    <3>3. Upserted(registry[c[1]]) = registry[c[1]] \/ Upserted(registry[c[1]]).status = "provisional"
      BY <1>a, <3>2 DEF Upserted, Row
    <3> QED
      BY <1>a, <3>1, <3>2, <3>3
  <2>2. CASE ~Register(t)
    BY <2>2
    DEF Evolve, ReadTerms, ReadTags, Reuse, Propose, Relate, StoreMemory, IngestFails, database
  <2> QED
    BY <2>1, <2>2
<1> SUFFICES ASSUME NEW r \in Records, registry'[r].status \in Decided PROVE Agrees(r)'
  BY DEF DecisionsAgree, Agrees
<1>3. registry'[r] = registry[r]
  BY <1>2 DEF Decided
<1>4. Agrees(r)
  BY <1>3 DEF DecisionsAgree, Agrees
<1>5. \A h \in Hashes : proposals[<<h, r>>] = registry[r] => proposals'[<<h, r>>] = registry[r]
  BY <1>1, <1>3 DEF Keys, Decided
<1> QED
  BY <1>1, <1>3, <1>4, <1>5 DEF Agrees, Halfway

LEMMA ReviewAgrees ==
  ASSUME Typed, Audited, DecisionsAgree, NEW p \in Reviewers, Review(p)
  PROVE  DecisionsAgree'
<1>a. /\ rev \in [Reviewers -> ReviewState]
      /\ registry \in [Records -> Row]
      /\ proposals \in [Keys -> Row]
  BY DEF Typed, TypeOK, DatabaseOK, ThreadsOK
<1> SUFFICES ASSUME NEW r \in Records, registry'[r].status \in Decided PROVE Agrees(r)'
  BY DEF DecisionsAgree, Agrees
<1>b. registry'[r] = registry[r] => Agrees(r)
  BY DEF DecisionsAgree, Agrees
<1>1. CASE OpenReview(p)
  <2>1. UNCHANGED <<registry, proposals, broken>> /\ contested \subseteq contested'
    BY <1>1 DEF OpenReview, database
  <2>2. rev[p].pc = "idle" /\ \A q \in Reviewers \ {p} : rev'[q] = rev[q]
    BY <1>1, <1>a DEF OpenReview
  <2> QED
    BY <1>b, <2>1, <2>2 DEF Agrees, Halfway
<1>2. CASE DecideRecord(p)
  <2> DEFINE c == rev[p].key[2]
  <2>1. /\ registry' = [registry EXCEPT ![c] = rev[p].verdict]
        /\ rev' = [rev EXCEPT ![p].pc = "again"]
        /\ UNCHANGED <<proposals, contested, broken>>
        /\ rev[p].pc = "record"
    BY <1>2 DEF DecideRecord
  <2>2. rev[p].key \in Keys
    BY <2>1 DEF Typed, Control
  <2>3. CASE r = c
    <3>1. PICK h \in Hashes : rev[p].key = <<h, r>>
      BY <2>2, <2>3 DEF Keys
    <3>2. Halfway(p, <<h, r>>)' /\ rev'[p].verdict = registry'[r]
      BY <1>a, <2>1, <2>3, <3>1 DEF Halfway, ReviewState
    <3> QED
      BY <3>2 DEF Agrees
  <2>4. CASE r # c
    <3>1. registry'[r] = registry[r]
      BY <1>a, <2>1, <2>4
    <3>2. \A q \in Reviewers, k \in Keys : Halfway(q, k) =>
            Halfway(q, k)' /\ rev'[q].verdict = rev[q].verdict
      BY <1>a, <2>1 DEF Halfway, ReviewState
    <3> QED
      BY <1>b, <2>1, <3>1, <3>2 DEF Agrees, Keys
  <2> QED
    BY <2>3, <2>4
<1>3. CASE ReadAgain(p)
  <2>1. UNCHANGED <<registry, proposals, contested, broken>>
    BY <1>3 DEF ReadAgain, database, history
  <2>2. \A q \in Reviewers, k \in Keys : Halfway(q, k) =>
          Halfway(q, k)' /\ rev'[q].verdict = rev[q].verdict
    BY <1>a, <1>3 DEF ReadAgain, Halfway, ReviewState
  <2> QED
    BY <1>b, <2>1, <2>2 DEF Agrees, Keys
<1>4. CASE DecideProposal(p)
  <2> DEFINE k == rev[p].key
  <2>1. /\ proposals' = [proposals EXCEPT ![k] = rev[p].verdict]
        /\ rev' = [rev EXCEPT ![p] = IdleReview]
        /\ UNCHANGED <<registry, contested, broken>>
        /\ rev[p].pc = "write"
    BY <1>4 DEF DecideProposal, history
  <2>2. k \in Keys /\ InHand(p, k)
    BY <2>1 DEF Typed, Control, InHand
  <2>3. CASE \E h \in Hashes : proposals[<<h, r>>] = registry[r]
    <3>1. PICK h \in Hashes : proposals[<<h, r>>] = registry[r]
      BY <2>3
    <3>2. CASE <<h, r>> = k
      <4>1. proposals[k].status # "provisional"
        BY <2>1, <3>1, <3>2 DEF Decided
      <4>2. k \in contested
        BY <2>2, <4>1 DEF Audited, Alone
      <4> QED
        BY <2>1, <3>2, <4>2 DEF Agrees
    <3>3. CASE <<h, r>> # k
      <4>1. proposals'[<<h, r>>] = registry'[r]
        BY <1>a, <2>1, <3>1, <3>3 DEF Keys
      <4> QED
        BY <4>1 DEF Agrees
    <3> QED
      BY <3>2, <3>3
  <2>4. CASE \E h \in Hashes, q \in Reviewers : Halfway(q, <<h, r>>) /\ rev[q].verdict = registry[r]
    <3>1. PICK h \in Hashes, q \in Reviewers : Halfway(q, <<h, r>>) /\ rev[q].verdict = registry[r]
      BY <2>4
    <3>2. CASE q = p
      <4>1. proposals'[<<h, r>>] = registry'[r]
        BY <1>a, <2>1, <2>2, <3>1, <3>2 DEF Halfway
      <4> QED
        BY <4>1 DEF Agrees
    <3>3. CASE q # p
      <4>1. Halfway(q, <<h, r>>)' /\ rev'[q].verdict = registry'[r]
        BY <1>a, <2>1, <3>1, <3>3 DEF Halfway
      <4> QED
        BY <4>1 DEF Agrees
    <3> QED
      BY <3>2, <3>3
  <2>5. CASE \E h \in Hashes : <<h, r>> \in contested \cup broken
    BY <2>1, <2>5 DEF Agrees
  <2> QED
    BY <1>b, <2>1, <2>3, <2>4, <2>5 DEF Agrees
<1>5. CASE ReviewFails(p)
  <2>1. /\ rev' = [rev EXCEPT ![p] = IdleReview]
        /\ broken' = broken \cup {rev[p].key}
        /\ UNCHANGED <<registry, proposals, contested>>
    BY <1>5 DEF ReviewFails, database
  <2>2. Agrees(r)
    BY <1>b, <2>1
  <2>3. CASE \E h \in Hashes, q \in Reviewers : Halfway(q, <<h, r>>) /\ rev[q].verdict = registry[r]
    <3>1. PICK h \in Hashes, q \in Reviewers : Halfway(q, <<h, r>>) /\ rev[q].verdict = registry[r]
      BY <2>3
    <3>2. CASE q = p
      <4>1. <<h, r>> \in broken'
        BY <2>1, <3>1, <3>2 DEF Halfway
      <4> QED
        BY <4>1 DEF Agrees
    <3>3. CASE q # p
      <4>1. Halfway(q, <<h, r>>)' /\ rev'[q].verdict = registry'[r]
        BY <1>a, <2>1, <3>1, <3>3 DEF Halfway
      <4> QED
        BY <4>1 DEF Agrees
    <3> QED
      BY <3>2, <3>3
  <2> QED
    BY <2>1, <2>2, <2>3 DEF Agrees
<1> QED
  BY <1>1, <1>2, <1>3, <1>4, <1>5 DEF Review

\* A decided record has a proposal decided just so, or a reviewer about to decide
\* it, unless one of its proposals was contested or its decision cut short.
THEOREM DecisionsMatch == Spec => []DecisionsAgree
<1>1. Init => DecisionsAgree
  BY DEF Init, DecisionsAgree, NoRow, Decided
<1>2. Typed /\ Audited /\ DecisionsAgree /\ [Next]_vars => DecisionsAgree'
  <2> SUFFICES ASSUME Typed, Audited, DecisionsAgree, [Next]_vars PROVE DecisionsAgree'
    OBVIOUS
  <2>1. CASE UNCHANGED vars
    BY <2>1 DEF vars, database, history, DecisionsAgree, Halfway
  <2> QED
    BY <2>1, EvolveAgrees, ReviewAgrees DEF Next
<1> QED
  BY <1>1, <1>2, AlwaysAudited, PTL DEF Spec

-----------------------------------------------------------------------------
(* The refinement of ProposalDecision.                                     *)

Outcome == [k \in Keys |-> IF k \in contested THEN "disputed" ELSE proposals[k].status]

LEMMA EvolveDecides ==
  ASSUME Typed, NEW t \in Ingests, Evolve(t)
  PROVE  Outcome' = Outcome \/ \E k \in Keys : Decision!Propose(k)
<1>1. CASE Propose(t)
  <2> DEFINE k == <<ing[t].hash, ing[t].cand>>
  <2>1. /\ proposals' = [proposals EXCEPT ![k] = Proposed(@)]
        /\ UNCHANGED contested
        /\ k \in Keys
    BY <1>1 DEF Propose, Typed, Control, Keys, history
  <2>2. proposals \in [Keys -> Row]
    BY DEF Typed, TypeOK, DatabaseOK
  <2>3. CASE proposals[k].status = "none" /\ k \notin contested
    <3>1. Outcome[k] = "none"
      BY <2>1, <2>3 DEF Outcome
    <3>2. proposals'[k].status = "provisional"
      BY <2>1, <2>2, <2>3 DEF Proposed, Row
    <3>3. Outcome' = [Outcome EXCEPT ![k] = "provisional"]
      BY <2>1, <2>2, <2>3, <3>2 DEF Outcome
    <3> QED
      BY <2>1, <3>1, <3>3 DEF Outcome, Decision!Propose, Decision!Become
  <2>4. CASE proposals[k].status # "none" \/ k \in contested
    <3>1. \A l \in Keys : l \in contested \/ proposals'[l].status = proposals[l].status
      BY <2>1, <2>2, <2>4 DEF Proposed
    <3> QED
      BY <2>1, <3>1 DEF Outcome
  <2> QED
    BY <2>3, <2>4
<1>2. CASE ~Propose(t)
  <2>1. UNCHANGED <<proposals, contested>>
    BY <1>2
    DEF Evolve, ReadTerms, ReadTags, Reuse, Register, Relate, StoreMemory, IngestFails, database, history
  <2> QED
    BY <2>1 DEF Outcome
<1> QED
  BY <1>1, <1>2

LEMMA ReviewDecides ==
  ASSUME Typed, Audited, NEW p \in Reviewers, Review(p)
  PROVE  Outcome' = Outcome \/ \E k \in Keys : Decision!Decide(k)
<1>a. proposals \in [Keys -> Row]
  BY DEF Typed, TypeOK, DatabaseOK
<1>1. CASE OpenReview(p)
  <2>1. PICK k \in Keys :
          /\ proposals[k].status = "provisional"
          /\ contested' = contested \cup {k} \/ contested' = contested
    BY <1>1 DEF OpenReview
  <2>2. UNCHANGED proposals
    BY <1>1 DEF OpenReview, database
  <2>3. CASE contested' = contested
    BY <2>2, <2>3 DEF Outcome
  <2>4. CASE contested' = contested \cup {k} /\ k \notin contested
    <3>1. Outcome[k] = "provisional"
      BY <2>1, <2>4 DEF Outcome
    <3>2. Outcome' = [Outcome EXCEPT ![k] = "disputed"]
      BY <2>1, <2>2, <2>4 DEF Outcome
    <3>3. Decision!Become(k, "provisional", "disputed")
      BY <3>1, <3>2 DEF Outcome, Decision!Become
    <3> QED
      BY <2>1, <3>3 DEF Decision!Decide, Decision!Outcomes
  <2>5. CASE contested' = contested \cup {k} /\ k \in contested
    <3>1. contested' = contested
      BY <2>5
    <3> QED
      BY <2>2, <3>1 DEF Outcome
  <2> QED
    BY <2>1, <2>3, <2>4, <2>5
<1>2. CASE DecideProposal(p)
  <2> DEFINE k == rev[p].key
             o == rev[p].verdict.status
  <2>1. /\ proposals' = [proposals EXCEPT ![k] = rev[p].verdict]
        /\ UNCHANGED contested
        /\ k \in Keys /\ InHand(p, k) /\ o \in Decided
    BY <1>2 DEF DecideProposal, Typed, Control, InHand, history
  <2>2. CASE k \in contested
    <3>1. \A l \in Keys : l \in contested \/ proposals'[l].status = proposals[l].status
      BY <1>a, <2>1, <2>2
    <3> QED
      BY <2>1, <3>1 DEF Outcome
  <2>3. CASE k \notin contested
    <3>1. Outcome[k] = "provisional"
      BY <2>1, <2>3 DEF Outcome, Audited, Alone
    <3>2. proposals'[k].status = o
      BY <1>a, <2>1
    <3>3. Outcome' = [Outcome EXCEPT ![k] = o]
      BY <1>a, <2>1, <2>3, <3>2 DEF Outcome
    <3>5. o \in Decision!Outcomes \ {"none", "provisional"}
      BY <2>1 DEF Decision!Outcomes, Decided
    <3>6. Decision!Decide(k)
      BY <3>1, <3>3, <3>5 DEF Outcome, Decision!Decide, Decision!Become
    <3> QED
      BY <2>1, <3>6
  <2> QED
    BY <2>2, <2>3
<1>3. CASE DecideRecord(p) \/ ReadAgain(p) \/ ReviewFails(p)
  <2>1. UNCHANGED <<proposals, contested>>
    BY <1>3 DEF DecideRecord, ReadAgain, ReviewFails, database, history
  <2> QED
    BY <2>1 DEF Outcome
<1> QED
  BY <1>1, <1>2, <1>3 DEF Review

\* Registry, proposals and reviewers implement a queue in which a proposal is
\* proposed once and decided once, or disputed.
THEOREM DecidedOnce == Spec => ImplementsDecision
<1>1. Init => Decision!Init
  BY DEF Init, Decision!Init, NoRow
<1>2. Typed /\ Audited /\ [Next]_vars => [Decision!Next]_Outcome
  <2> SUFFICES ASSUME Typed, Audited, [Next]_vars PROVE Outcome' = Outcome \/ Decision!Next
    BY DEF Outcome
  <2>1. CASE UNCHANGED vars
    BY <2>1 DEF vars, database, history, Outcome
  <2> QED
    BY <2>1, EvolveDecides, ReviewDecides DEF Next, Decision!Next
<1> QED
  BY <1>1, <1>2, AlwaysAudited, PTL DEF Spec, ImplementsDecision, Decision!Spec, Outcome

-----------------------------------------------------------------------------
(* Aliases.                                                                *)

\* Only a merge sets merged_into, within the table, and it is remembered.
Aliased ==
    /\ \A r \in Records \ aliased : registry[r].into = Nothing
    /\ \A r \in Records : registry[r].into # Nothing => SameTable(registry[r].into, r)
    /\ \A p \in Reviewers : rev[p].pc # "idle" =>
          /\ rev[p].verdict.status # "merged" => rev[p].verdict.into = Nothing
          /\ rev[p].verdict.into # Nothing => SameTable(rev[p].verdict.into, rev[p].key[2])

\* g follows merged_into for m steps.
Chain(reg, g, m) ==
    g \in [0 .. m -> Records] /\ \A n \in 1 .. m : g[n] = reg[g[n - 1]].into

\* A merge that closes a cycle of at most eleven records is seen.
NoCycle ==
    looped \/ \A m \in 1 .. 11 : \A g : Chain(registry, g, m) => g[0] # g[m]

\* An ingestion leaves merged_into and the reviewers alone.
LEMMA EvolveKeepsInto ==
  ASSUME Typed, NEW t \in Ingests, Evolve(t)
  PROVE  /\ UNCHANGED <<rev, aliased>>
         /\ looped' = looped
         /\ \A r \in Records : registry'[r].into = registry[r].into
<1>1. registry \in [Records -> Row]
  BY DEF Typed, TypeOK, DatabaseOK
<1>2. CASE Register(t)
  <2>1. PICK c \in Upcoming(t) : registry' = [registry EXCEPT ![c[1]] = Upserted(@)]
    BY <1>2 DEF Register
  <2>2. \A row \in Row : Upserted(row).into = row.into
    BY DEF Upserted, Row
  <2>3. \A r \in Records : registry'[r].into = registry[r].into
    BY <1>1, <2>1, <2>2
  <2>4. UNCHANGED <<rev, aliased>> /\ looped' = looped
    BY <1>2, Zenon DEF Register
  <2> QED
    BY <2>3, <2>4
<1>3. CASE ~Register(t)
  BY <1>3, Zenon
  DEF Evolve, ReadTerms, ReadTags, Reuse, Propose, Relate, StoreMemory, IngestFails, database, history
<1> QED
  BY <1>2, <1>3

\* A verdict that is not a merge has no target, and a merge stays in its table.
LEMMA ReviewAliases ==
  ASSUME Typed, Aliased, NEW p \in Reviewers, Review(p)
  PROVE  Aliased'
<1>a. /\ registry \in [Records -> Row] /\ rev \in [Reviewers -> ReviewState]
      /\ rev[p].pc # "idle" => rev[p].key \in Keys /\ rev[p].key[2] \in Records
      /\ rev[p].verdict \in Row
  BY DEF Typed, TypeOK, DatabaseOK, ThreadsOK, Control, ReviewState, Keys
<1>1. CASE OpenReview(p)
  <2>1. PICK k \in Keys : \E v \in Verdicts(k[2]) :
          rev' = [rev EXCEPT ![p] = [pc |-> "record", key |-> k, verdict |-> v, from |-> "none"]]
    BY <1>1 DEF OpenReview
  <2>2. PICK v \in Verdicts(k[2]) :
          rev' = [rev EXCEPT ![p] = [pc |-> "record", key |-> k, verdict |-> v, from |-> "none"]]
    BY <2>1
  <2>3. /\ v.status # "merged" => v.into = Nothing
        /\ v.into # Nothing => SameTable(v.into, k[2])
    BY DEF Verdicts
  <2>4. UNCHANGED <<registry, aliased>>
    BY <1>1 DEF OpenReview, database
  <2> QED
    BY <1>a, <2>2, <2>3, <2>4 DEF Aliased
<1>2. CASE DecideRecord(p)
  <2> DEFINE r == rev[p].key[2]
             v == rev[p].verdict
  <2>1. /\ registry' = [registry EXCEPT ![r] = v]
        /\ rev' = [rev EXCEPT ![p].pc = "again"]
        /\ aliased' = IF v.status = "merged" THEN aliased \cup {r} ELSE aliased
        /\ rev[p].pc = "record"
    BY <1>2 DEF DecideRecord
  <2>2. r \in Records
    BY <1>a, <2>1
  <2>3. /\ v.status # "merged" => v.into = Nothing
        /\ v.into # Nothing => SameTable(v.into, r)
    BY <2>1 DEF Aliased
  <2>4. registry'[r] = v /\ \A s \in Records \ {r} : registry'[s] = registry[s]
    BY <1>a, <2>1, <2>2
  <2> HIDE DEF r, v
  <2>5. \A s \in Records \ aliased' : registry'[s].into = Nothing
    BY <2>1, <2>2, <2>3, <2>4 DEF Aliased
  <2>6. \A s \in Records : registry'[s].into # Nothing => SameTable(registry'[s].into, s)
    BY <2>2, <2>3, <2>4 DEF Aliased
  <2>7. \A q \in Reviewers : /\ rev'[q].verdict = rev[q].verdict /\ rev'[q].key = rev[q].key
                             /\ rev'[q].pc # "idle" => rev[q].pc # "idle"
    BY <1>a, <2>1
  <2> QED
    BY <2>5, <2>6, <2>7 DEF Aliased
<1>3. CASE ReadAgain(p) \/ DecideProposal(p) \/ ReviewFails(p)
  <2>1. UNCHANGED <<registry, aliased>>
    BY <1>3 DEF ReadAgain, DecideProposal, ReviewFails, database, history
  <2>2. \A q \in Reviewers : \/ rev'[q].pc = "idle"
                             \/ /\ rev'[q].verdict = rev[q].verdict /\ rev'[q].key = rev[q].key
                                /\ rev'[q].pc # "idle" => rev[q].pc # "idle"
    <3>1. CASE ReadAgain(p)
      BY <1>a, <3>1 DEF ReadAgain
    <3>2. CASE DecideProposal(p)
      BY <1>a, <3>2 DEF DecideProposal, IdleReview
    <3>3. CASE ReviewFails(p)
      BY <1>a, <3>3 DEF ReviewFails, IdleReview
    <3> QED
      BY <1>3, <3>1, <3>2, <3>3
  <2> QED
    BY <2>1, <2>2 DEF Aliased
<1> QED
  BY <1>1, <1>2, <1>3 DEF Review

LEMMA InitAliased == Init => Aliased
BY DEF Init, Aliased, NoRow, IdleReview

LEMMA NextAliased == Typed /\ Aliased /\ [Next]_vars => Aliased'
<1> SUFFICES ASSUME Typed, Aliased, [Next]_vars PROVE Aliased'
  OBVIOUS
<1>1. CASE UNCHANGED vars
  BY <1>1 DEF vars, database, history, Aliased
<1>2. ASSUME NEW t \in Ingests, Evolve(t) PROVE Aliased'
  BY <1>2, EvolveKeepsInto DEF Aliased
<1> QED
  BY <1>1, <1>2, ReviewAliases DEF Next

LEMMA HopSteps ==
  ASSUME registry \in [Records -> Row], NEW r \in Records
  PROVE  /\ Hops(r) \in [0 .. 10 -> Records]
         /\ Hops(r)[0] = r
         /\ \A n \in 1 .. 10 :
              Hops(r)[n] = IF registry[Hops(r)[n - 1]].into = Nothing THEN Hops(r)[n - 1]
                           ELSE registry[Hops(r)[n - 1]].into
<1> DEFINE step == [s \in Records |-> IF registry[s].into = Nothing THEN s ELSE registry[s].into]
           Is(h) == h = [n \in 0 .. 10 |->
                           IF n = 0 THEN r
                           ELSE IF registry[h[n - 1]].into = Nothing THEN h[n - 1]
                           ELSE registry[h[n - 1]].into]
<1>1. step \in [Records -> Records]
  BY DEF Row
<1>2. \A s \in Records : step[s] = IF registry[s].into = Nothing THEN s ELSE registry[s].into
  OBVIOUS
<1>3. Hops(r) = CHOOSE h : Is(h)
  BY DEF Hops
<1> HIDE DEF step
<1>4. PICK g : Iterates(Records, r, step, 10, g)
  BY <1>1, Iterated
<1>5. g \in [0 .. 10 -> Records] /\ g[0] = r /\ \A n \in 1 .. 10 : g[n] = step[g[n - 1]]
  BY <1>4 DEF Iterates
<1>6. Is(g)
  <2>1. ASSUME NEW n \in 0 .. 10, n # 0
        PROVE  g[n] = IF registry[g[n - 1]].into = Nothing THEN g[n - 1] ELSE registry[g[n - 1]].into
    BY <1>2, <1>5, <2>1
  <2> QED
    BY <1>5, <2>1
<1>7. Is(Hops(r))
  <2> HIDE DEF Is
  <2> QED
    BY <1>3, <1>6
<1>8. \A n \in 0 .. 10 :
        Hops(r)[n] = IF n = 0 THEN r
                     ELSE IF registry[Hops(r)[n - 1]].into = Nothing THEN Hops(r)[n - 1]
                     ELSE registry[Hops(r)[n - 1]].into
  BY <1>7
<1>9. DOMAIN Hops(r) = 0 .. 10 /\ Hops(r) = [n \in 0 .. 10 |-> Hops(r)[n]]
  BY <1>7
<1> HIDE DEF Is
<1> DEFINE T == {n \in Nat : n \in 0 .. 10 => Hops(r)[n] \in Records}
<1>10. 0 \in T
  BY <1>8
<1>11. ASSUME NEW n \in Nat, n \in T PROVE n + 1 \in T
  <2> SUFFICES ASSUME n + 1 \in 0 .. 10 PROVE Hops(r)[n + 1] \in Records
    OBVIOUS
  <2>1. n \in 0 .. 10 /\ n + 1 # 0 /\ (n + 1) - 1 = n
    OBVIOUS
  <2>2. Hops(r)[n] \in Records
    BY <1>11, <2>1
  <2>3. Hops(r)[n + 1] = IF registry[Hops(r)[n]].into = Nothing THEN Hops(r)[n]
                         ELSE registry[Hops(r)[n]].into
    BY <1>8, <2>1
  <2> QED
    BY <2>2, <2>3 DEF Row
<1>12. \A n \in 0 .. 10 : Hops(r)[n] \in Records
  <2>1. Nat \subseteq T
    <3> HIDE DEF T
    <3> QED
      BY <1>10, <1>11, Induction
  <2> QED
    BY <2>1
<1> QED
  BY <1>8, <1>9, <1>12

\* Where merged_into leads from r, Hops leads.
LEMMA HopsFollow ==
  ASSUME registry \in [Records -> Row], NEW r \in Records,
         NEW m \in 0 .. 10, NEW h, Chain(registry, h, m), h[0] = r
  PROVE  \A n \in 0 .. m : Hops(r)[n] = h[n]
<1> DEFINE T == {n \in Nat : n \in 0 .. m => Hops(r)[n] = h[n]}
<1>1. 0 \in T
  BY HopSteps
<1>2. ASSUME NEW n \in Nat, n \in T PROVE n + 1 \in T
  <2> SUFFICES ASSUME n + 1 \in 0 .. m PROVE Hops(r)[n + 1] = h[n + 1]
    OBVIOUS
  <2>1. n \in 0 .. m /\ n + 1 \in 1 .. m /\ n + 1 \in 1 .. 10 /\ (n + 1) - 1 = n
    OBVIOUS
  <2>2. Hops(r)[n] = h[n]
    BY <1>2, <2>1
  <2>3. h[n + 1] = registry[h[n]].into /\ h[n + 1] \in Records
    BY <2>1 DEF Chain
  <2>4. Hops(r)[n + 1] = IF registry[Hops(r)[n]].into = Nothing THEN Hops(r)[n]
                         ELSE registry[Hops(r)[n]].into
    BY <2>1, HopSteps
  <2>5. h[n + 1] # Nothing
    BY <2>3, TablesAssumption
  <2> QED
    BY <2>2, <2>3, <2>4, <2>5
<1> QED
  <2>1. Nat \subseteq T
    <3> HIDE DEF T
    <3> QED
      BY <1>1, <1>2, Induction
  <2> QED
    BY <2>1

\* From the record a cycle passes through after r, the cycle leads back to r.
LEMMA CycleTurned ==
  ASSUME NEW reg \in [Records -> Row], NEW m \in 1 .. 11, NEW g, Chain(reg, g, m), g[0] = g[m],
         NEW k \in 0 .. m - 1
  PROVE  \E h : Chain(reg, h, m - 1) /\ h[0] = reg[g[k]].into /\ h[m - 1] = g[k]
<1> DEFINE h == [n \in 0 .. m - 1 |-> IF k + 1 + n <= m THEN g[k + 1 + n] ELSE g[(k + 1 + n) - m]]
<1>1. g \in [0 .. m -> Records] /\ \A n \in 1 .. m : g[n] = reg[g[n - 1]].into
  BY DEF Chain
<1>2. \A n \in 0 .. m - 1 : IF k + 1 + n <= m THEN k + 1 + n \in 1 .. m
                            ELSE (k + 1 + n) - m \in 1 .. m
  OBVIOUS
<1>3. h \in [0 .. m - 1 -> Records]
  BY <1>1, <1>2
<1>4. ASSUME NEW n \in 1 .. m - 1 PROVE h[n] = reg[h[n - 1]].into
  <2>0. n \in 0 .. m - 1 /\ n - 1 \in 0 .. m - 1 /\ k + 1 + (n - 1) = k + n
    OBVIOUS
  <2>1. CASE k + 1 + n <= m
    <3>1. k + n <= m /\ k + 1 + n \in 1 .. m /\ (k + 1 + n) - 1 = k + n
      BY <2>1
    <3>2. h[n] = g[k + 1 + n] /\ h[n - 1] = g[k + n]
      BY <2>0, <2>1, <3>1
    <3>3. g[k + 1 + n] = reg[g[k + n]].into
      BY <1>1, <3>1
    <3> QED
      BY <3>2, <3>3
  <2>2. CASE k + n = m
    <3>1. ~(k + 1 + n <= m) /\ (k + 1 + n) - m = 1 /\ 1 \in 1 .. m /\ 1 - 1 = 0 /\ k + n <= m
      BY <2>2
    <3>2. h[n] = g[1] /\ h[n - 1] = g[m]
      <4>1. h[n] = g[(k + 1 + n) - m]
        BY <2>0, <3>1
      <4>2. h[n - 1] = g[k + n]
        BY <2>0, <3>1
      <4> QED
        BY <2>2, <3>1, <4>1, <4>2
    <3>3. g[1] = reg[g[0]].into
      BY <1>1, <3>1
    <3> QED
      BY <3>2, <3>3
  <2>3. CASE k + n > m
    <3>1. /\ ~(k + 1 + n <= m) /\ ~(k + n <= m) /\ (k + 1 + n) - m \in 1 .. m
          /\ ((k + 1 + n) - m) - 1 = (k + n) - m
      BY <2>3
    <3>2. h[n] = g[(k + 1 + n) - m] /\ h[n - 1] = g[(k + n) - m]
      <4>1. h[n] = g[(k + 1 + n) - m]
        BY <2>0, <3>1
      <4>2. h[n - 1] = IF k + 1 + (n - 1) <= m THEN g[k + 1 + (n - 1)] ELSE g[(k + 1 + (n - 1)) - m]
        BY <2>0
      <4> QED
        BY <2>0, <3>1, <4>1, <4>2
    <3>3. g[(k + 1 + n) - m] = reg[g[(k + n) - m]].into
      BY <1>1, <3>1
    <3> QED
      BY <3>2, <3>3
  <2> QED
    BY <2>1, <2>2, <2>3
<1>5. h[0] = reg[g[k]].into
  <2>1. k + 1 + 0 <= m /\ k + 1 \in 1 .. m /\ (k + 1) - 1 = k /\ k + 1 + 0 = k + 1 /\ 0 \in 0 .. m - 1
    OBVIOUS
  <2>2. h[0] = g[k + 1]
    BY <2>1
  <2> QED
    BY <1>1, <2>1, <2>2
<1>6. h[m - 1] = g[k]
  <2>0. m - 1 \in 0 .. m - 1 /\ k + 1 + (m - 1) = k + m /\ (k + m) - m = k
    OBVIOUS
  <2>1. h[m - 1] = IF k + 1 + (m - 1) <= m THEN g[k + 1 + (m - 1)] ELSE g[(k + 1 + (m - 1)) - m]
    BY <2>0
  <2>2. h[m - 1] = IF k + m <= m THEN g[k + m] ELSE g[k]
    BY <2>0, <2>1
  <2>3. CASE k = 0
    BY <2>2, <2>3
  <2>4. CASE k # 0
    <3>1. ~(k + m <= m)
      BY <2>4
    <3> QED
      BY <2>2, <3>1
  <2> QED
    BY <2>3, <2>4
<1> HIDE DEF h
<1> QED
  BY <1>3, <1>4, <1>5, <1>6 DEF Chain

LEMMA DecideNoCycle ==
  ASSUME Typed, NoCycle, NEW p \in Reviewers, DecideRecord(p)
  PROVE  NoCycle'
<1> DEFINE r == rev[p].key[2]
           v == rev[p].verdict
<1>1. /\ registry' = [registry EXCEPT ![r] = v]
      /\ looped' = (looped \/ (v.into # Nothing /\ \E n \in 0 .. 10 : Hops(v.into)[n] = r))
      /\ rev[p].pc = "record"
  BY Zenon DEF DecideRecord
<1>2. registry \in [Records -> Row] /\ v \in Row /\ r \in Records
  BY <1>1 DEF Typed, TypeOK, DatabaseOK, ThreadsOK, Control, ReviewState, Keys
<1>3. /\ registry' \in [Records -> Row] /\ registry'[r] = v
      /\ \A s \in Records \ {r} : registry'[s] = registry[s]
  BY <1>1, <1>2
<1> HIDE DEF r, v
<1> SUFFICES ASSUME ~looped', NEW m \in 1 .. 11, NEW g, Chain(registry', g, m), g[0] = g[m]
             PROVE  FALSE
  BY DEF NoCycle
<1>4. ~looped /\ ~(v.into # Nothing /\ \E n \in 0 .. 10 : Hops(v.into)[n] = r)
  BY <1>1, Zenon
<1>5. g \in [0 .. m -> Records] /\ \A n \in 1 .. m : g[n] = registry'[g[n - 1]].into /\ n - 1 \in 0 .. m - 1
  BY DEF Chain
<1>6. CASE \A k \in 0 .. m - 1 : g[k] # r
  <2>1. \A n \in 1 .. m : g[n - 1] \in Records \ {r}
    BY <1>5, <1>6
  <2>2. Chain(registry, g, m)
    BY <1>3, <1>5, <2>1 DEF Chain
  <2> QED
    BY <1>4, <2>2 DEF NoCycle
<1>7. ASSUME NEW k \in 0 .. m - 1, g[k] = r PROVE FALSE
  <2>1. PICK h : Chain(registry', h, m - 1) /\ h[0] = registry'[g[k]].into /\ h[m - 1] = g[k]
    BY <1>3, CycleTurned
  <2>2. h \in [0 .. m - 1 -> Records] /\ \A n \in 1 .. m - 1 : h[n] = registry'[h[n - 1]].into
    BY <2>1 DEF Chain
  <2> DEFINE J == {j \in Nat : j \in 0 .. m - 1 /\ h[j] = r}
  <2>3. m - 1 \in J /\ J \subseteq Nat
    BY <1>7, <2>1
  <2> HIDE DEF J
  <2>4. PICK j \in J : \A i \in J : j <= i
    BY <2>3, Least
  <2>5. j \in 0 .. m - 1 /\ j \in 0 .. 10 /\ h[j] = r
    BY <2>4 DEF J
  <2>6. \A n \in 0 .. m - 1 : n < j => h[n] # r
    BY <2>4 DEF J
  <2> DEFINE f == [n \in 0 .. j |-> h[n]]
  <2>7. Chain(registry, f, j)
    <3>1. f \in [0 .. j -> Records]
      BY <2>2, <2>5
    <3>2. ASSUME NEW n \in 1 .. j PROVE f[n] = registry[f[n - 1]].into
      <4>1. n \in 1 .. m - 1 /\ n - 1 \in 0 .. m - 1 /\ n - 1 < j /\ n \in 0 .. j /\ n - 1 \in 0 .. j
        BY <2>5
      <4>2. h[n - 1] \in Records \ {r}
        BY <2>2, <2>6, <4>1
      <4>3. h[n] = registry[h[n - 1]].into
        BY <1>3, <2>2, <4>1, <4>2
      <4> QED
        BY <4>1, <4>3
    <3> HIDE DEF f
    <3> QED
      BY <3>1, <3>2 DEF Chain
  <2>8. f[0] = v.into /\ f[j] = r /\ v.into \in Records
    <3>1. h[0] = v.into
      BY <1>3, <1>7, <2>1
    <3>2. 0 \in 0 .. j /\ j \in 0 .. j /\ 0 \in 0 .. m - 1
      BY <2>5
    <3>3. f[0] = h[0] /\ f[j] = h[j] /\ h[0] \in Records
      BY <2>2, <3>2
    <3> QED
      BY <2>5, <3>1, <3>3
  <2> HIDE DEF f
  <2>9. Hops(v.into)[j] = f[j]
    <3>1. \A n \in 0 .. j : Hops(v.into)[n] = f[n]
      BY <1>2, <2>5, <2>7, <2>8, HopsFollow
    <3> QED
      BY <2>5, <3>1
  <2>10. v.into # Nothing
    BY <2>8, TablesAssumption
  <2> QED
    BY <1>4, <2>5, <2>8, <2>9, <2>10
<1> QED
  BY <1>6, <1>7

LEMMA InitNoCycle == Init => NoCycle
<1> SUFFICES ASSUME Init, NEW m \in 1 .. 11, NEW g, Chain(registry, g, m), g[0] = g[m] PROVE FALSE
  BY DEF NoCycle
<1>1. 1 \in 1 .. m /\ 1 - 1 = 0 /\ 0 \in 0 .. m /\ 1 \in 0 .. m
  OBVIOUS
<1>2. g[1] = registry[g[0]].into /\ g[0] \in Records /\ g[1] \in Records
  BY <1>1 DEF Chain
<1>3. g[1] = Nothing
  BY <1>2 DEF Init, NoRow
<1> QED
  BY <1>2, <1>3, TablesAssumption

LEMMA SameIntoNoCycle ==
  ASSUME NoCycle, looped' = looped, \A r \in Records : registry'[r].into = registry[r].into
  PROVE  NoCycle'
<1>1. \A m \in 1 .. 11 : \A g : Chain(registry', g, m) => Chain(registry, g, m)
  <2>1. ASSUME NEW m \in 1 .. 11, NEW g, Chain(registry', g, m) PROVE Chain(registry, g, m)
    <3>1. \A n \in 1 .. m : n - 1 \in 0 .. m
      OBVIOUS
    <3> QED
      BY <2>1, <3>1 DEF Chain
  <2> QED
    BY <2>1
<1> QED
  BY <1>1, Zenon DEF NoCycle

LEMMA NextNoCycle == Typed /\ NoCycle /\ [Next]_vars => NoCycle'
<1> SUFFICES ASSUME Typed, NoCycle, [Next]_vars PROVE NoCycle'
  OBVIOUS
<1>1. CASE UNCHANGED vars
  <2>1. looped' = looped /\ registry' = registry
    BY <1>1, Zenon DEF vars, database, history
  <2> QED
    BY <2>1, SameIntoNoCycle
<1>2. ASSUME NEW t \in Ingests, Evolve(t) PROVE NoCycle'
  BY <1>2, EvolveKeepsInto, SameIntoNoCycle
<1>3. ASSUME NEW p \in Reviewers, Review(p) PROVE NoCycle'
  <2>1. CASE DecideRecord(p)
    BY <2>1, DecideNoCycle
  <2>2. CASE ~DecideRecord(p)
    <3>1. looped' = looped /\ registry' = registry
      BY <1>3, <2>2, Zenon DEF Review, OpenReview, ReadAgain, DecideProposal, ReviewFails, database, history
    <3> QED
      BY <3>1, SameIntoNoCycle
  <2> QED
    BY <2>1, <2>2
<1> QED
  BY <1>1, <1>2, <1>3 DEF Next

LEMMA AlwaysAliased == Spec => [](Typed /\ Aliased /\ NoCycle)
BY InitTyped, NextTyped, InitAliased, NextAliased, InitNoCycle, NextNoCycle, PTL DEF Spec

-----------------------------------------------------------------------------
(* Spellings.                                                              *)

\* n is the name of its row, or a registration has overwritten it.
IsOrWas(n) == n \in respelled \/ spelling[n[1]] = n[2]

\* The names that were read of the registry, mapped and stored are names the
\* rows have or had.
Spelled ==
    /\ \A h \in Hashes : \A n \in memory[h] : IsOrWas(n)
    /\ \A t \in Ingests : \A n \in ing[t].mapped : IsOrWas(n)
    /\ \A t \in Ingests : \A r \in Records :
          ing[t].names[r] # Nothing => IsOrWas(<<r, ing[t].names[r]>>)

LEMMA InitSpelled == Init => Spelled
BY DEF Init, Spelled, IdleIngest

LEMMA EvolveSpelled ==
  ASSUME Typed, Spelled, NEW t \in Ingests, Evolve(t)
  PROVE  Spelled'
<1>a. DatabaseOK /\ ThreadsOK /\ Control
  BY DEF Typed, TypeOK
<1>1. CASE Register(t)
  <2>1. PICK c \in ing[t].todo :
          /\ spelling' = [spelling EXCEPT ![c[1]] = c[2]]
          /\ ing' = [ing EXCEPT ![t].pc = "propose", ![t].cand = c[1],
                                ![t].todo = @ \ {c}, ![t].mapped = @ \cup {c}]
          /\ respelled' = IF spelling[c[1]] \in {Nothing, c[2]} THEN respelled
                          ELSE respelled \cup {<<c[1], spelling[c[1]]>>}
          /\ UNCHANGED memory
    BY <1>1 DEF Register, Upcoming
  <2>2. c \in Names /\ c[1] \in Records /\ c[2] \in Spellings
    BY <1>a, <2>1 DEF ThreadsOK, IngestState, Names
  <2>3. ASSUME NEW n \in Names, IsOrWas(n) PROVE IsOrWas(n)'
    <3>1. n[1] \in Records /\ n[2] \in Spellings /\ n[2] # Nothing /\ n = <<n[1], n[2]>>
      BY TablesAssumption DEF Names
    <3>2. CASE n \in respelled
      BY <2>1, <3>2 DEF IsOrWas
    <3>3. CASE n[1] # c[1]
      BY <1>a, <2>1, <2>2, <2>3, <3>1, <3>3 DEF IsOrWas, DatabaseOK
    <3>4. CASE n[1] = c[1] /\ n[2] = c[2]
      BY <1>a, <2>1, <2>2, <3>4 DEF IsOrWas, DatabaseOK
    <3>5. CASE n[1] = c[1] /\ n[2] # c[2] /\ n \notin respelled
      <4>1. spelling[c[1]] = n[2] /\ spelling[c[1]] \notin {Nothing, c[2]}
        BY <2>3, <3>1, <3>5 DEF IsOrWas
      <4>2. n = <<c[1], spelling[c[1]]>>
        BY <3>1, <3>5, <4>1
      <4> QED
        BY <2>1, <4>1, <4>2 DEF IsOrWas
    <3> QED
      BY <3>2, <3>3, <3>4, <3>5
  <2>4. IsOrWas(c)'
    BY <1>a, <2>1, <2>2 DEF IsOrWas, DatabaseOK
  <2>5. \A h \in Hashes : \A n \in memory'[h] : IsOrWas(n)'
    BY <1>a, <2>1, <2>3 DEF Spelled, DatabaseOK
  <2>6. \A u \in Ingests : /\ ing'[u].names = ing[u].names
                           /\ ing'[u].mapped \subseteq ing[u].mapped \cup {c}
                           /\ ing[u].mapped \subseteq Names
                           /\ ing[u].names \in [Records -> Spellings \cup {Nothing}]
    BY <1>a, <2>1 DEF ThreadsOK, IngestState
  <2>7. \A u \in Ingests : \A n \in ing'[u].mapped : IsOrWas(n)'
    BY <2>3, <2>4, <2>6 DEF Spelled
  <2>8. ASSUME NEW u \in Ingests, NEW r \in Records, ing'[u].names[r] # Nothing
        PROVE  IsOrWas(<<r, ing[u].names[r]>>)'
    <3>1. <<r, ing[u].names[r]>> \in Names /\ IsOrWas(<<r, ing[u].names[r]>>)
      BY <2>6, <2>8 DEF Spelled, Names
    <3>2. PICK n \in Names : n = <<r, ing[u].names[r]>> /\ IsOrWas(n)
      BY <3>1
    <3>3. IsOrWas(n)'
      BY <2>3, <3>2
    <3>4. n = <<r, ing'[u].names[r]>>
      BY <2>6, <3>2
    <3> QED
      BY <3>3, <3>4 DEF IsOrWas
  <2> QED
    BY <2>5, <2>7, <2>8 DEF Spelled
<1>2. CASE ~Register(t)
  <2>1. UNCHANGED <<spelling, respelled>>
    BY <1>2 DEF Evolve, ReadTerms, ReadTags, Reuse, Propose, Relate, StoreMemory, IngestFails, database, history
  <2>2. \A u \in Ingests \ {t} : ing'[u] = ing[u]
    BY <1>2, <1>a DEF Evolve, ReadTerms, ReadTags, Reuse, Propose, Relate, StoreMemory, IngestFails, ThreadsOK
  <2>3. \A n : IsOrWas(n)' <=> IsOrWas(n)
    BY <2>1 DEF IsOrWas
  <2>4. \A h \in Hashes : memory'[h] = memory[h] \/ memory'[h] = ing[t].mapped
    BY <1>2, <1>a DEF Evolve, ReadTerms, ReadTags, Reuse, Propose, Relate, StoreMemory, IngestFails, database, DatabaseOK
  <2>5. \A h \in Hashes : \A n \in memory'[h] : IsOrWas(n)
    BY <2>4 DEF Spelled
  <2>6. /\ \A n \in ing'[t].mapped : IsOrWas(n)
        /\ \A r \in Records : ing'[t].names[r] # Nothing => IsOrWas(<<r, ing'[t].names[r]>>)
    <3>1. CASE ReadTerms(t)
      <4>1. ing'[t].mapped = {} /\ \A r \in Records : ing'[t].names[r] \in {spelling[r], Nothing}
        BY <1>a, <3>1 DEF ReadTerms, ThreadsOK, IdleIngest
      <4> QED
        BY <4>1 DEF IsOrWas
    <3>2. CASE ReadTags(t)
      <4>1. ing'[t].mapped = ing[t].mapped /\ \A r \in Records : ing'[t].names[r] \in {spelling[r], ing[t].names[r]}
        BY <1>a, <3>2 DEF ReadTags, ThreadsOK, IngestState
      <4> QED
        BY <4>1 DEF Spelled, IsOrWas
    <3>3. CASE Reuse(t)
      <4>0. PICK c \in Upcoming(t) : \E r \in Matches(t, c) :
              ing' = [ing EXCEPT ![t].todo = @ \ {c}, ![t].mapped = @ \cup {<<r, ing[t].names[r]>>}]
        BY <3>3 DEF Reuse
      <4>1. PICK r \in Matches(t, c) :
              ing' = [ing EXCEPT ![t].todo = @ \ {c}, ![t].mapped = @ \cup {<<r, ing[t].names[r]>>}]
        BY <4>0
      <4>2. ing'[t].mapped = ing[t].mapped \cup {<<r, ing[t].names[r]>>} /\ ing'[t].names = ing[t].names
        BY <1>a, <4>1 DEF ThreadsOK, IngestState
      <4>3. r \in Records /\ ing[t].names[r] # Nothing
        BY DEF Matches, Typed, Named
      <4> QED
        BY <4>2, <4>3 DEF Spelled
    <3>4. CASE Propose(t) \/ Relate(t)
      <4>1. ing'[t].mapped = ing[t].mapped /\ ing'[t].names = ing[t].names
        BY <1>a, <3>4 DEF Propose, Relate, ThreadsOK, IngestState
      <4> QED
        BY <4>1 DEF Spelled
    <3>5. CASE StoreMemory(t) \/ IngestFails(t)
      <4>1. ing'[t] = IdleIngest
        BY <1>a, <3>5 DEF StoreMemory, IngestFails, ThreadsOK
      <4> QED
        BY <4>1 DEF IdleIngest
    <3> QED
      BY <1>2, <3>1, <3>2, <3>3, <3>4, <3>5 DEF Evolve
  <2> QED
    BY <2>2, <2>3, <2>5, <2>6 DEF Spelled
<1> QED
  BY <1>1, <1>2

LEMMA NextSpelled == Typed /\ Spelled /\ [Next]_vars => Spelled'
<1> SUFFICES ASSUME Typed, Spelled, [Next]_vars PROVE Spelled'
  OBVIOUS
<1>1. CASE UNCHANGED vars
  BY <1>1 DEF vars, database, history, Spelled, IsOrWas
<1>2. ASSUME NEW p \in Reviewers, Review(p) PROVE Spelled'
  <2>1. UNCHANGED <<spelling, respelled, memory, ing>>
    BY <1>2 DEF Review, OpenReview, DecideRecord, ReadAgain, DecideProposal, ReviewFails, database, history
  <2> QED
    BY <2>1 DEF Spelled, IsOrWas
<1> QED
  BY <1>1, <1>2, EvolveSpelled DEF Next

\* A record without merged_into resolves to itself.
LEMMA ResolvesToItself ==
  ASSUME registry \in [Records -> Row], NEW r \in Records, registry[r].into = Nothing
  PROVE  Resolve(r) = r
<1> DEFINE T == {n \in Nat : n \in 0 .. 10 => Hops(r)[n] = r}
<1>1. 0 \in T
  BY HopSteps
<1>2. ASSUME NEW n \in Nat, n \in T PROVE n + 1 \in T
  <2> SUFFICES ASSUME n + 1 \in 0 .. 10 PROVE Hops(r)[n + 1] = r
    OBVIOUS
  <2>1. n \in 0 .. 10 /\ n + 1 \in 1 .. 10 /\ (n + 1) - 1 = n
    OBVIOUS
  <2>2. Hops(r)[n] = r
    BY <1>2, <2>1
  <2> QED
    BY <2>1, <2>2, HopSteps
<1>3. Nat \subseteq T
  <2> HIDE DEF T
  <2> QED
    BY <1>1, <1>2, Induction
<1> QED
  BY <1>3 DEF Resolve

\* A memory is found by a filter with any name it is stored with, whatever the
\* notes call the record since, until a registration overwrites the name of the
\* row or a reviewer merges the record.
THEOREM TaggedAlwaysFound == Spec => []TaggedIsFound
<1>1. Typed /\ Aliased /\ Spelled => TaggedIsFound
  <2> SUFFICES ASSUME Typed, Aliased, Spelled, NEW h \in Hashes, NEW n \in memory[h] \ respelled,
                      n[1] \notin aliased
               PROVE  h \in Found(n)
    BY DEF TaggedIsFound
  <2>1. registry \in [Records -> Row] /\ n \in Names
    BY DEF Typed, TypeOK, DatabaseOK
  <2>2. n[1] \in Records /\ n[2] \in Spellings /\ n[2] # Nothing /\ n = <<n[1], n[2]>>
    BY <2>1, TablesAssumption DEF Names
  <2>3. spelling[n[1]] = n[2]
    BY DEF Spelled, IsOrWas
  <2>4. Resolve(n[1]) = n[1]
    BY <2>1, <2>2, ResolvesToItself DEF Aliased
  <2>5. Answer(n) = n
    BY <2>2, <2>3, <2>4 DEF Answer
  <2> QED
    BY <2>5 DEF Found
<1> QED
  BY <1>1, InitTyped, NextTyped, InitAliased, NextAliased, InitSpelled, NextSpelled, PTL DEF Spec

-----------------------------------------------------------------------------
(* The ends of the aliases.                                                *)

\* A chain that passes a record twice holds a cycle.
LEMMA RepeatCycles ==
  ASSUME NEW h, Chain(registry, h, 11), NEW x \in 0 .. 11, NEW y \in 0 .. 11, x < y, h[x] = h[y]
  PROVE  \E m \in 1 .. 11 : \E g : Chain(registry, g, m) /\ g[0] = g[m]
<1>1. h \in [0 .. 11 -> Records] /\ \A n \in 1 .. 11 : h[n] = registry[h[n - 1]].into
  BY DEF Chain
<1> DEFINE m == y - x
           g == [n \in 0 .. m |-> h[x + n]]
<1>2. m \in 1 .. 11 /\ x + m = y /\ x + 0 = x /\ 0 \in 0 .. m /\ m \in 0 .. m
  OBVIOUS
<1>3. \A n \in 0 .. m : x + n \in 0 .. 11
  OBVIOUS
<1>4. g \in [0 .. m -> Records]
  BY <1>1, <1>3
<1>5. ASSUME NEW n \in 1 .. m PROVE g[n] = registry[g[n - 1]].into
  <2>1. n \in 0 .. m /\ n - 1 \in 0 .. m /\ x + n \in 1 .. 11 /\ (x + n) - 1 = x + (n - 1)
    OBVIOUS
  <2>2. g[n] = h[x + n] /\ g[n - 1] = h[x + (n - 1)]
    BY <2>1
  <2>3. h[x + n] = registry[h[(x + n) - 1]].into
    BY <1>1, <2>1
  <2> QED
    BY <2>1, <2>2, <2>3
<1>6. g[0] = g[m]
  BY <1>2
<1> HIDE DEF m, g
<1>7. Chain(registry, g, m)
  BY <1>4, <1>5 DEF Chain
<1> QED
  BY <1>2, <1>6, <1>7

\* What does not end after ten steps is a chain of eleven.
LEMMA LongChain ==
  ASSUME Typed, NEW r \in Records, registry[Resolve(r)].into # Nothing
  PROVE  \E h : Chain(registry, h, 11) /\ \A n \in 0 .. 10 : h[n] = Hops(r)[n]
<1>1. registry \in [Records -> Row]
  BY DEF Typed, TypeOK, DatabaseOK
<1> DEFINE H == Hops(r)
<1>2. /\ H \in [0 .. 10 -> Records]
      /\ \A n \in 1 .. 10 : H[n] = IF registry[H[n - 1]].into = Nothing THEN H[n - 1]
                                   ELSE registry[H[n - 1]].into
  BY <1>1, HopSteps
<1>3. registry[H[10]].into # Nothing
  BY DEF Resolve
<1> HIDE DEF H
<1> DEFINE T == {n \in Nat : n \in 0 .. 10 => registry[H[10 - n]].into # Nothing}
<1>4. 0 \in T
  BY <1>3
<1>5. ASSUME NEW n \in Nat, n \in T PROVE n + 1 \in T
  <2> SUFFICES ASSUME n + 1 \in 0 .. 10, registry[H[10 - (n + 1)]].into = Nothing PROVE FALSE
    OBVIOUS
  <2>1. n \in 0 .. 10 /\ 10 - n \in 1 .. 10 /\ (10 - n) - 1 = 10 - (n + 1)
    OBVIOUS
  <2>2. H[10 - n] = H[10 - (n + 1)]
    BY <1>2, <2>1
  <2> QED
    BY <1>5, <2>1, <2>2
<1>6. \A n \in 0 .. 10 : registry[H[n]].into # Nothing
  <2>1. Nat \subseteq T
    <3> HIDE DEF T
    <3> QED
      BY <1>4, <1>5, Induction
  <2>2. \A n \in 0 .. 10 : 10 - n \in Nat /\ 10 - n \in 0 .. 10 /\ 10 - (10 - n) = n
    OBVIOUS
  <2> QED
    BY <2>1, <2>2
<1> DEFINE h == [n \in 0 .. 11 |-> IF n = 11 THEN registry[H[10]].into ELSE H[n]]
<1>7. Chain(registry, h, 11)
  <2>1. registry[H[10]].into \in Records
    BY <1>1, <1>2, <1>3 DEF Row
  <2>2. \A n \in 0 .. 11 : n # 11 => n \in 0 .. 10
    OBVIOUS
  <2>3. h \in [0 .. 11 -> Records]
    BY <1>2, <2>1, <2>2
  <2>4. ASSUME NEW n \in 1 .. 11 PROVE h[n] = registry[h[n - 1]].into
    <3>1. n - 1 \in 0 .. 10 /\ n - 1 \in 0 .. 11 /\ n \in 0 .. 11 /\ n - 1 # 11
      OBVIOUS
    <3>2. h[n - 1] = H[n - 1]
      BY <3>1
    <3>3. CASE n = 11
      BY <3>1, <3>2, <3>3
    <3>4. CASE n # 11
      <4>1. n \in 1 .. 10 /\ h[n] = H[n]
        BY <3>1, <3>4
      <4> QED
        BY <1>2, <1>6, <3>1, <3>2, <4>1
    <3> QED
      BY <3>3, <3>4
  <2> HIDE DEF h
  <2> QED
    BY <2>3, <2>4 DEF Chain
<1>8. \A n \in 0 .. 10 : h[n] = H[n]
  <2>1. \A n \in 0 .. 10 : n \in 0 .. 11 /\ n # 11
    OBVIOUS
  <2> QED
    BY <2>1
<1> HIDE DEF h
<1> QED
  BY <1>7, <1>8 DEF H

\* As long as no merge closes a cycle, _resolve_merged_record ends at a record
\* that is not merged, or has read eleven records and none of them twice: only
\* the length of a chain can keep it from the end.
AliasesEndOrAreLong ==
    ~looped => \A r \in Records :
        \/ registry[Resolve(r)].into = Nothing
        \/ \A m, n \in 0 .. 10 : Hops(r)[m] = Hops(r)[n] => m = n

LEMMA NoRepeat ==
  ASSUME NoCycle, ~looped, NEW h, Chain(registry, h, 11), NEW m \in 0 .. 11, NEW n \in 0 .. 11, h[m] = h[n]
  PROVE  m = n
<1>1. ~(m < n)
  BY RepeatCycles DEF NoCycle
<1>2. ~(n < m)
  BY RepeatCycles DEF NoCycle
<1> QED
  BY <1>1, <1>2

\* As long as no merge closes a cycle, and in tables of any size, an alias resolves
\* to a record that is not merged, or its chain is longer than the ten hops of
\* _resolve_merged_record.
THEOREM AliasesAlwaysEndOrAreLong == Spec => []AliasesEndOrAreLong
<1>1. Typed /\ NoCycle => AliasesEndOrAreLong
  <2> SUFFICES ASSUME Typed, NoCycle, ~looped, NEW r \in Records, registry[Resolve(r)].into # Nothing,
                      NEW m \in 0 .. 10, NEW n \in 0 .. 10, Hops(r)[m] = Hops(r)[n]
               PROVE  m = n
    BY DEF AliasesEndOrAreLong
  <2>1. PICK h : Chain(registry, h, 11) /\ \A k \in 0 .. 10 : h[k] = Hops(r)[k]
    BY LongChain
  <2>2. m \in 0 .. 11 /\ n \in 0 .. 11 /\ h[m] = h[n]
    BY <2>1
  <2> QED
    BY <2>1, <2>2, NoRepeat
<1> QED
  BY <1>1, AlwaysAliased, PTL

\* No table holds more records than _resolve_merged_record reads.
FewRecords ==
    /\ IsFiniteSet(Terms) /\ Cardinality(Terms) <= 11
    /\ IsFiniteSet(Tags) /\ Cardinality(Tags) <= 11

\* Eleven steps of merged_into in a table of at most eleven records pass a
\* record twice.
LEMMA PassedTwice ==
  ASSUME FewRecords, Aliased, NEW h, Chain(registry, h, 11)
  PROVE  \E x, y \in 0 .. 11 : x # y /\ h[x] = h[y]
<1>1. h \in [0 .. 11 -> Records] /\ \A n \in 1 .. 11 : h[n] = registry[h[n - 1]].into
  BY DEF Chain
<1> DEFINE S == IF h[0] \in Terms THEN Terms ELSE Tags
           T == {n \in Nat : n \in 0 .. 11 => h[n] \in S}
<1>2. 0 \in T
  BY <1>1 DEF Records
<1>3. ASSUME NEW n \in Nat, n \in T PROVE n + 1 \in T
  <2> SUFFICES ASSUME n + 1 \in 0 .. 11 PROVE h[n + 1] \in S
    OBVIOUS
  <2>1. n \in 0 .. 11 /\ n + 1 \in 1 .. 11 /\ (n + 1) - 1 = n
    OBVIOUS
  <2>2. h[n] \in S /\ h[n] \in Records
    BY <1>1, <1>3, <2>1
  <2>3. h[n + 1] = registry[h[n]].into /\ h[n + 1] \in Records
    BY <1>1, <2>1
  <2>4. h[n + 1] # Nothing
    BY <2>3, TablesAssumption
  <2>5. SameTable(h[n + 1], h[n])
    BY <2>2, <2>3, <2>4 DEF Aliased
  <2> QED
    BY <2>2, <2>3, <2>5, TablesAssumption DEF SameTable, Records
<1>4. \A n \in 0 .. 11 : h[n] \in S
  <2>1. Nat \subseteq T
    <3> HIDE DEF T
    <3> QED
      BY <1>2, <1>3, Induction
  <2> QED
    BY <2>1
<1>5. IsFiniteSet(S) /\ Cardinality(S) <= 11 /\ Cardinality(S) \in Nat
  BY FS_CardinalityType DEF FewRecords
<1> HIDE DEF S, T
<1>6. IsFiniteSet(0 .. 11) /\ Cardinality(0 .. 11) = 12
  <2>1. 0 \in Int /\ 11 \in Int /\ ~(0 > 11) /\ 11 - 0 + 1 = 12
    OBVIOUS
  <2>2. Cardinality(0 .. 11) = IF 0 > 11 THEN 0 ELSE 11 - 0 + 1
    BY <2>1, FS_Interval, Zenon
  <2> QED
    BY <2>1, <2>2, FS_Interval, Zenon
<1>7. h \in [0 .. 11 -> S]
  BY <1>1, <1>4
<1>8. Cardinality(S) < Cardinality(0 .. 11)
  BY <1>5, <1>6
<1> QED
  BY <1>5, <1>6, <1>7, <1>8, FS_PigeonHole

\* As long as no merge closes a cycle, every alias of a table of at most eleven
\* records resolves to a record that is not merged.
THEOREM AliasesAlwaysEnd == FewRecords /\ Spec => []AliasesEnd
<1>1. FewRecords /\ Typed /\ Aliased /\ NoCycle => AliasesEnd
  <2> SUFFICES ASSUME FewRecords, Typed, Aliased, NoCycle, ~looped, NEW r \in Records,
                      registry[Resolve(r)].into # Nothing
               PROVE  FALSE
    BY DEF AliasesEnd
  <2>1. PICK h : Chain(registry, h, 11)
    BY LongChain
  <2>2. PICK x \in 0 .. 11, y \in 0 .. 11 : x # y /\ h[x] = h[y]
    BY <2>1, PassedTwice
  <2> QED
    BY <2>1, <2>2, NoRepeat
<1>2. FewRecords => FewRecords'
  BY DEF FewRecords
<1> QED
  BY <1>1, <1>2, InitTyped, NextTyped, InitAliased, NextAliased, InitNoCycle, NextNoCycle, PTL DEF Spec
=============================================================================
