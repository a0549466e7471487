---------------------------- MODULE ChatQueryProofs ----------------------------
(***************************************************************************)
(* For any files, contents and records, any number of threads, attempts    *)
(* and faults, and every size of chunks and vectors: rows are backed by    *)
(* points and notes, points belong to a file that had their chunk, cited   *)
(* chunks belong to their memory, a search fails only on vectors that do   *)
(* not fit, and lists and answers keep within their limits.                *)
(***************************************************************************)
EXTENDS ChatQuery, OrderLemmas

Writing == {"points", "note", "row", "chunks"}

Shapes ==
    /\ disk \in [Files -> Contents]
    /\ \A id \in DOMAIN points : id \in AllIds /\ points[id] \in Payload
    /\ memories \in [Keys -> Row \cup {Nothing}]
    /\ chunks \in [Keys -> SUBSET AllIds]
    /\ att \in [Threads -> Attempt]
    /\ ingested \in [Files -> SUBSET Contents]
    /\ completed \subseteq Keys

\* What the position of a thread says of its attempt.
Control ==
    /\ \A t \in Threads : att[t].pc # "idle" => att[t].file \in Files /\ att[t].hash \in Contents
    /\ \A t \in Threads : att[t].pc \in Writing =>
          /\ att[t].text \in ingested[att[t].file]
          /\ att[t].record \in Extracted
          /\ att[t].hash \notin Opaque => att[t].text = att[t].hash

Typed == Shapes /\ Control

-----------------------------------------------------------------------------
(* Attempts are well-formed.                                               *)

\* The chunks of a content are chunks.
LEMMA IdsAreChunks == \A c \in Contents : Ids(c) \subseteq AllIds
BY DEF AllIds

\* The attempt of a thread may be replaced by another.
LEMMA Replaced ==
    ASSUME att \in [Threads -> Attempt], NEW t \in Threads, NEW a \in Attempt,
           att' = [att EXCEPT ![t] = a]
    PROVE  att' \in [Threads -> Attempt] /\ att'[t] = a /\ \A u \in Threads \ {t} : att'[u] = att[u]
OBVIOUS

LEMMA InitTyped == Init => Typed
<1> SUFFICES ASSUME Init PROVE Typed
  OBVIOUS
<1>1. Shapes
  BY DEF Init, StoreInit, Shapes, Idle, Attempt
<1>2. Control
  BY DEF Init, StoreInit, Control, Idle, Writing
<1> QED
  BY <1>1, <1>2 DEF Typed

\* What a thread that is not idle has in hand.
LEMMA InHand ==
    ASSUME Typed, NEW t \in Threads, att[t].pc # "idle"
    PROVE  /\ att[t] \in Attempt /\ att[t].file \in Files /\ att[t].hash \in Contents
           /\ Key(t) \in Keys /\ Key(t)[1] = att[t].file /\ Key(t)[2] = att[t].hash
           /\ att[t].pc \in Writing =>
                /\ att[t].text \in Contents /\ att[t].text \in ingested[att[t].file]
                /\ att[t].record \in Extracted /\ Ids(att[t].text) \subseteq AllIds
                /\ att[t].hash \notin Opaque => att[t].text = att[t].hash
<1>1. att[t] \in Attempt /\ att[t].file \in Files /\ att[t].hash \in Contents
  BY DEF Typed, Shapes, Control
<1>2. Key(t) \in Keys /\ Key(t)[1] = att[t].file /\ Key(t)[2] = att[t].hash
  BY <1>1 DEF Key, Keys
<1>3. ASSUME att[t].pc \in Writing
      PROVE  /\ att[t].text \in Contents /\ att[t].text \in ingested[att[t].file]
             /\ att[t].record \in Extracted /\ Ids(att[t].text) \subseteq AllIds
             /\ att[t].hash \notin Opaque => att[t].text = att[t].hash
  <2>1. /\ att[t].text \in ingested[att[t].file] /\ att[t].record \in Extracted
        /\ att[t].hash \notin Opaque => att[t].text = att[t].hash
    BY <1>3 DEF Typed, Control
  <2>2. att[t].text \in Contents
    BY <2>1, <1>1 DEF Typed, Shapes
  <2> QED
    BY <2>1, <2>2, IdsAreChunks
<1> QED
  BY <1>1, <1>2, <1>3

\* What a step does to the attempt of its thread: where it may lead, and that
\* file, hash, text and record stay once they are known.
LEMMA Moves ==
    ASSUME Typed, NEW t \in Threads, Execute(t)
    PROVE  /\ att' \in [Threads -> Attempt]
           /\ \A u \in Threads \ {t} : att'[u] = att[u]
           /\ att'[t].pc # "idle" => att'[t].file \in Files /\ att'[t].hash \in Contents
           /\ att[t].pc \in Writing /\ att'[t].pc \in Writing =>
                 /\ att'[t].file = att[t].file /\ att'[t].hash = att[t].hash
                 /\ att'[t].text = att[t].text /\ att'[t].record = att[t].record
<1> DEFINE Goal ==
      /\ att' \in [Threads -> Attempt]
      /\ \A u \in Threads \ {t} : att'[u] = att[u]
      /\ att'[t].pc # "idle" => att'[t].file \in Files /\ att'[t].hash \in Contents
      /\ att[t].pc \in Writing /\ att'[t].pc \in Writing =>
            /\ att'[t].file = att[t].file /\ att'[t].hash = att[t].hash
            /\ att'[t].text = att[t].text /\ att'[t].record = att[t].record
<1>1. att \in [Threads -> Attempt] /\ att[t] \in Attempt /\ Idle \in Attempt
  BY DEF Typed, Shapes, Attempt, Idle
<1>2. ASSUME NEW pc \in {"workflow", "late", "points", "note", "row", "chunks"}, att[t].pc # "idle",
             att' = [att EXCEPT ![t].pc = pc]
      PROVE  Goal
  <2> DEFINE a == [att[t] EXCEPT !.pc = pc]
  <2>1. a \in Attempt
    BY <1>1 DEF Attempt
  <2>2. /\ a.file = att[t].file /\ a.hash = att[t].hash /\ a.text = att[t].text
        /\ a.record = att[t].record
    BY <1>1 DEF Attempt
  <2>3. att' = [att EXCEPT ![t] = a]
    BY <1>2
  <2>4. att' \in [Threads -> Attempt] /\ att'[t] = a /\ \A u \in Threads \ {t} : att'[u] = att[u]
    <3> HIDE DEF a
    <3> QED
      BY <1>1, <2>1, <2>3
  <2>5. att[t].file \in Files /\ att[t].hash \in Contents
    BY <1>2 DEF Typed, Control
  <2> QED
    BY <2>2, <2>4, <2>5
<1>3. ASSUME att' = [att EXCEPT ![t] = Idle]
      PROVE  Goal
  BY <1>1, <1>3 DEF Idle, Writing
<1>4. CASE Read(t)
  <2>1. PICK f \in Files : att' = [att EXCEPT ![t] = [Idle EXCEPT !.pc = "workflow", !.file = f, !.hash = disk[f]]]
    BY <1>4 DEF Read
  <2> DEFINE a == [Idle EXCEPT !.pc = "workflow", !.file = f, !.hash = disk[f]]
  <2>2. disk[f] \in Contents
    BY DEF Typed, Shapes
  <2>3. a \in Attempt /\ a.file = f /\ a.hash = disk[f] /\ a.pc = "workflow"
    BY <2>2 DEF Idle, Attempt
  <2>4. att' \in [Threads -> Attempt] /\ att'[t] = a /\ \A u \in Threads \ {t} : att'[u] = att[u]
    <3> HIDE DEF a
    <3> QED
      BY <1>1, <2>1, <2>3 DEF a
  <2>5. att[t].pc = "idle"
    BY <1>4 DEF Read
  <2> QED
    BY <2>2, <2>3, <2>4, <2>5 DEF Writing
<1>5. CASE RunWorkflow(t)
  <2>1. PICK r \in Extracted, size \in Vectors :
          att' = [att EXCEPT ![t].pc = "points", ![t].text = Normalized(t), ![t].record = r, ![t].size = size]
    BY <1>5 DEF RunWorkflow
  <2>2. att[t].pc = "workflow"
    BY <1>5 DEF RunWorkflow
  <2>3. att[t].file \in Files /\ att[t].hash \in Contents /\ Normalized(t) \in Contents
    BY <2>2 DEF Typed, Shapes, Control, Normalized
  <2> DEFINE a == [att[t] EXCEPT !.pc = "points", !.text = Normalized(t), !.record = r, !.size = size]
  <2>4. size \in Nat
    BY StoreAssumption DEF Vectors, FallbackSize
  <2>5. a \in Attempt /\ a.file = att[t].file /\ a.hash = att[t].hash
    BY <1>1, <2>3, <2>4 DEF Attempt
  <2>6. att' = [att EXCEPT ![t] = a]
    BY <1>1, <2>1
  <2>7. att' \in [Threads -> Attempt] /\ att'[t] = a /\ \A u \in Threads \ {t} : att'[u] = att[u]
    <3> HIDE DEF a
    <3> QED
      BY <1>1, <2>5, <2>6
  <2> QED
    BY <2>2, <2>3, <2>5, <2>7 DEF Writing
<1>6. CASE TimeOut(t)
  BY <1>6, <1>2 DEF TimeOut
<1>7. CASE UpsertPoints(t)
  BY <1>7, <1>2 DEF UpsertPoints
<1>8. CASE WriteNote(t)
  BY <1>8, <1>2 DEF WriteNote
<1>9. CASE PersistMemory(t)
  BY <1>9, <1>2 DEF PersistMemory
<1>10. CASE PersistChunk(t)
  <2>1. att' = att /\ att[t].pc = "chunks"
    BY <1>10 DEF PersistChunk
  <2> QED
    BY <1>1, <2>1 DEF Typed, Control
<1>11. CASE Complete(t)
  BY <1>11, <1>3 DEF Complete
<1>12. CASE Interrupt(t)
  BY <1>12, <1>3 DEF Interrupt
<1>13. CASE Fail(t)
  BY <1>13, <1>3 DEF Fail
<1> QED
  BY <1>4, <1>5, <1>6, <1>7, <1>8, <1>9, <1>10, <1>11, <1>12, <1>13 DEF Execute

\* A step of a thread leaves what was read and stored: it adds to the texts
\* that were read, to the points, the notes, the memories and the chunk rows.
LEMMA Grows ==
    ASSUME Typed, NEW t \in Threads, Execute(t)
    PROVE  /\ \A f \in Files : ingested[f] \subseteq ingested'[f]
           /\ ingested' \in [Files -> SUBSET Contents]
           /\ DOMAIN points \subseteq DOMAIN points'
           /\ DOMAIN notes \subseteq DOMAIN notes'
           /\ disk' = disk
<1> USE DEF Typed, Shapes
<1>1. CASE RunWorkflow(t)
  <2>1. att[t].pc # "idle"
    BY <1>1 DEF RunWorkflow
  <2>2. att[t].file \in Files /\ Normalized(t) \in Contents
    BY <2>1, InHand DEF Normalized
  <2>3. /\ ingested' = [ingested EXCEPT ![att[t].file] = @ \cup {Normalized(t)}]
        /\ points' = points /\ notes' = notes /\ disk' = disk
    BY <1>1 DEF RunWorkflow, stores
  <2> QED
    BY <2>2, <2>3
<1>2. CASE UpsertPoints(t)
  <2>1. points' = Upserted(t) /\ notes' = notes /\ ingested' = ingested /\ disk' = disk
    BY <1>2 DEF UpsertPoints
  <2>2. DOMAIN Upserted(t) = DOMAIN points \cup Ids(att[t].text)
    BY DEF Upserted
  <2> QED
    BY <2>1, <2>2
<1>3. CASE WriteNote(t)
  <2>1. DOMAIN notes' = DOMAIN notes \cup {NoteName[att[t].file]}
    BY <1>3 DEF WriteNote
  <2> QED
    BY <1>3, <2>1 DEF WriteNote
<1>4. ASSUME ~RunWorkflow(t), ~UpsertPoints(t), ~WriteNote(t)
      PROVE  points' = points /\ notes' = notes /\ ingested' = ingested /\ disk' = disk
  BY <1>4 DEF Execute, Read, TimeOut, PersistMemory, PersistChunk, Complete, Interrupt, Fail, stores
<1> QED
  BY <1>1, <1>2, <1>3, <1>4

\* An edit and a query write to no store.
LEMMA Apart ==
    ASSUME Next, ~\E t \in Threads : Execute(t)
    PROVE  UNCHANGED <<points, notes, memories, chunks, att, ingested, completed>>
<1>1. CASE \E f \in Files : Edit(f)
  BY <1>1 DEF Edit, stores
<1>2. CASE Chat
  BY <1>2 DEF Chat, Ask, Search, SearchRefused, List, storeVars, stores
<1> QED
  BY <1>1, <1>2 DEF Next, StoreNext

LEMMA TypedStep == Typed /\ [Next]_vars => Typed'
<1> SUFFICES ASSUME Typed, [Next]_vars PROVE Typed'
  OBVIOUS
<1>1. ASSUME NEW t \in Threads, Execute(t) PROVE Shapes'
  <2>1. disk' \in [Files -> Contents] /\ ingested' \in [Files -> SUBSET Contents]
    BY <1>1, Grows DEF Typed, Shapes
  <2>2. att' \in [Threads -> Attempt]
    BY <1>1, Moves
  <2>3. \A id \in DOMAIN points' : id \in AllIds /\ points'[id] \in Payload
    <3>1. CASE UpsertPoints(t)
      <4>1. points' = Upserted(t) /\ att[t].pc = "points"
        BY <3>1 DEF UpsertPoints
      <4>2. att[t].file \in Files /\ att[t].record \in Extracted /\ Ids(att[t].text) \subseteq AllIds
        BY <4>1, InHand DEF Writing
      <4>3. [file |-> att[t].file, record |-> att[t].record] \in Payload
        BY <4>2 DEF Payload
      <4> QED
        BY <4>1, <4>2, <4>3 DEF Upserted, Typed, Shapes
    <3>2. CASE ~UpsertPoints(t)
      <4>1. points' = points
        BY <1>1, <3>2 DEF Execute, Read, RunWorkflow, TimeOut, WriteNote, PersistMemory, PersistChunk,
                          Complete, Interrupt, Fail, stores
      <4> QED
        BY <4>1 DEF Typed, Shapes
    <3> QED
      BY <3>1, <3>2
  <2>4. memories' \in [Keys -> Row \cup {Nothing}]
    <3>1. CASE PersistMemory(t)
      <4>1. /\ att[t].pc = "row"
            /\ memories' = [memories EXCEPT ![Key(t)] = [ids |-> Ids(att[t].text), record |-> att[t].record]]
        BY <3>1 DEF PersistMemory
      <4>2. att[t].record \in Extracted /\ Ids(att[t].text) \subseteq AllIds
        BY <4>1, InHand DEF Writing
      <4>3. [ids |-> Ids(att[t].text), record |-> att[t].record] \in Row
        BY <4>2 DEF Row
      <4> QED
        BY <4>1, <4>3 DEF Typed, Shapes
    <3>2. CASE ~PersistMemory(t)
      <4>1. memories' = memories
        BY <1>1, <3>2 DEF Execute, Read, RunWorkflow, TimeOut, UpsertPoints, WriteNote, PersistChunk,
                          Complete, Interrupt, Fail, stores
      <4> QED
        BY <4>1 DEF Typed, Shapes
    <3> QED
      BY <3>1, <3>2
  <2>5. chunks' \in [Keys -> SUBSET AllIds]
    <3>1. CASE PersistChunk(t)
      <4>1. att[t].pc = "chunks"
        BY <3>1 DEF PersistChunk
      <4>2. PICK id \in Unwritten(t) : chunks' = [chunks EXCEPT ![Key(t)] = @ \cup {id}]
        BY <3>1 DEF PersistChunk
      <4>3. id \in AllIds /\ Key(t) \in Keys
        BY <4>1, <4>2, InHand DEF Unwritten, Writing
      <4> QED
        BY <4>2, <4>3 DEF Typed, Shapes
    <3>2. CASE ~PersistChunk(t)
      <4>1. chunks' = chunks
        BY <1>1, <3>2 DEF Execute, Read, RunWorkflow, TimeOut, UpsertPoints, WriteNote, PersistMemory,
                          Complete, Interrupt, Fail, stores
      <4> QED
        BY <4>1 DEF Typed, Shapes
    <3> QED
      BY <3>1, <3>2
  <2>6. completed' \subseteq Keys
    <3>1. CASE Complete(t)
      BY <3>1, InHand DEF Complete, Typed, Shapes
    <3>2. CASE ~Complete(t)
      <4>1. completed' = completed
        BY <1>1, <3>2 DEF Execute, Read, RunWorkflow, TimeOut, UpsertPoints, WriteNote, PersistMemory,
                          PersistChunk, Interrupt, Fail, stores
      <4> QED
        BY <4>1 DEF Typed, Shapes
    <3> QED
      BY <3>1, <3>2
  <2> QED
    BY <2>1, <2>2, <2>3, <2>4, <2>5, <2>6 DEF Shapes
<1>2. ASSUME NEW t \in Threads, Execute(t) PROVE Control'
  <2>1. ASSUME NEW u \in Threads, att'[u].pc # "idle"
        PROVE  att'[u].file \in Files /\ att'[u].hash \in Contents
    <3>1. CASE u = t
      BY <1>2, <2>1, <3>1, Moves
    <3>2. CASE u # t
      <4>1. att'[u] = att[u]
        BY <1>2, <3>2, Moves
      <4> QED
        BY <2>1, <4>1 DEF Typed, Control
    <3> QED
      BY <3>1, <3>2
  <2>2. ASSUME NEW u \in Threads, att'[u].pc \in Writing
        PROVE  /\ att'[u].text \in ingested'[att'[u].file]
               /\ att'[u].record \in Extracted
               /\ att'[u].hash \notin Opaque => att'[u].text = att'[u].hash
    <3>1. ASSUME att[u].pc \in Writing, att'[u].file = att[u].file, att'[u].hash = att[u].hash,
                 att'[u].text = att[u].text, att'[u].record = att[u].record
          PROVE  /\ att'[u].text \in ingested'[att'[u].file]
                 /\ att'[u].record \in Extracted
                 /\ att'[u].hash \notin Opaque => att'[u].text = att'[u].hash
      <4>1. /\ att[u].file \in Files /\ att[u].text \in ingested[att[u].file] /\ att[u].record \in Extracted
            /\ att[u].hash \notin Opaque => att[u].text = att[u].hash
        BY <3>1 DEF Typed, Control, Writing
      <4>2. ingested[att[u].file] \subseteq ingested'[att[u].file]
        BY <1>2, <4>1, Grows
      <4> QED
        BY <3>1, <4>1, <4>2
    <3>2. CASE u # t
      <4>1. att'[u] = att[u]
        BY <1>2, <3>2, Moves
      <4> QED
        BY <2>2, <3>1, <4>1
    <3>3. CASE u = t /\ att[t].pc \in Writing
      <4>1. /\ att'[t].file = att[t].file /\ att'[t].hash = att[t].hash
            /\ att'[t].text = att[t].text /\ att'[t].record = att[t].record
        BY <1>2, <2>2, <3>3, Moves
      <4> QED
        BY <3>1, <3>3, <4>1
    <3>4. CASE u = t /\ att[t].pc \notin Writing
      <4>1. RunWorkflow(t)
        <5>1. att'[t].pc \in Writing
          BY <2>2, <3>4
        <5>2. att \in [Threads -> Attempt]
          BY DEF Typed, Shapes
        <5>3. ~Read(t)
          BY <5>1, <5>2 DEF Read, Idle, Writing
        <5>4. ~TimeOut(t)
          BY <5>1, <5>2 DEF TimeOut, Writing, Attempt
        <5>5. ~Complete(t) /\ ~Interrupt(t) /\ ~Fail(t)
          BY <5>1, <5>2 DEF Complete, Interrupt, Fail, Idle, Writing
        <5>6. ~UpsertPoints(t) /\ ~WriteNote(t) /\ ~PersistMemory(t) /\ ~PersistChunk(t)
          BY <3>4 DEF UpsertPoints, WriteNote, PersistMemory, PersistChunk, Writing
        <5> QED
          BY <1>2, <5>3, <5>4, <5>5, <5>6 DEF Execute
      <4>2. att[t].pc = "workflow" /\ att[t].file \in Files /\ att[t].hash \in Contents
        BY <4>1, InHand DEF RunWorkflow
      <4>3. PICK r \in Extracted, size \in Vectors :
              att' = [att EXCEPT ![t].pc = "points", ![t].text = Normalized(t),
                                 ![t].record = r, ![t].size = size]
        BY <4>1 DEF RunWorkflow
      <4>4. ingested' = [ingested EXCEPT ![att[t].file] = @ \cup {Normalized(t)}]
        BY <4>1 DEF RunWorkflow
      <4>5. att \in [Threads -> Attempt] /\ ingested \in [Files -> SUBSET Contents]
        BY DEF Typed, Shapes
      <4>6. /\ att'[t].file = att[t].file /\ att'[t].hash = att[t].hash
            /\ att'[t].text = Normalized(t) /\ att'[t].record = r
        BY <4>3, <4>5 DEF Attempt
      <4>7. Normalized(t) \in ingested'[att[t].file]
        BY <4>2, <4>4, <4>5
      <4> QED
        BY <3>4, <4>6, <4>7 DEF Normalized
    <3> QED
      BY <3>2, <3>3, <3>4
  <2> QED
    BY <2>1, <2>2 DEF Control
<1>3. ASSUME Next, ~\E t \in Threads : Execute(t) PROVE Typed'
  <2>1. UNCHANGED <<points, notes, memories, chunks, att, ingested, completed>>
    BY <1>3, Apart
  <2>2. disk' \in [Files -> Contents]
    <3>1. CASE \E f \in Files : Edit(f)
      BY <3>1 DEF Edit, Typed, Shapes
    <3>2. CASE Chat
      BY <3>2 DEF Chat, Ask, Search, SearchRefused, List, storeVars, Typed, Shapes
    <3> QED
      BY <1>3, <3>1, <3>2 DEF Next, StoreNext
  <2> QED
    BY <2>1, <2>2 DEF Typed, Shapes, Control
<1>4. CASE UNCHANGED vars
  BY <1>4 DEF vars, storeVars, stores, Typed, Shapes, Control
<1> QED
  BY <1>1, <1>2, <1>3, <1>4 DEF Typed

-----------------------------------------------------------------------------
(* Rows are backed.                                                        *)

\* What is written stays written, for the rows and for the threads that are
\* about to write one; an attempt whose chunk rows are being written has its row.
Backed ==
    /\ \A k \in Stored :
          /\ memories[k].ids \subseteq DOMAIN points
          /\ NoteName[k[1]] \in DOMAIN notes
          /\ k[2] \notin Opaque => memories[k].ids = Ids(k[2])
          /\ \E text \in ingested[k[1]] : memories[k].ids = Ids(text)
    /\ \A k \in Keys : k[2] \notin Opaque => chunks[k] \subseteq Ids(k[2])
    /\ \A k \in completed : k \in Stored /\ (k[2] \notin Opaque => chunks[k] = Ids(k[2]))
    /\ \A t \in Threads :
          /\ att[t].pc \in {"note", "row", "chunks"} => Ids(att[t].text) \subseteq DOMAIN points
          /\ att[t].pc \in {"row", "chunks"} => NoteName[att[t].file] \in DOMAIN notes
          /\ att[t].pc = "chunks" => Key(t) \in Stored

\* A memory is stored until the end.
LEMMA StoredGrows ==
    ASSUME Typed, NEW t \in Threads, Execute(t)
    PROVE  Stored \subseteq Stored'
<1>1. CASE PersistMemory(t)
  <2>1. /\ att[t].pc = "row"
        /\ memories' = [memories EXCEPT ![Key(t)] = [ids |-> Ids(att[t].text), record |-> att[t].record]]
    BY <1>1 DEF PersistMemory
  <2>2. [ids |-> Ids(att[t].text), record |-> att[t].record] \in Row
    BY <2>1, InHand DEF Writing, Row
  <2>3. [ids |-> Ids(att[t].text), record |-> att[t].record] # Nothing
    BY <2>2, RowAssumption
  <2>4. memories \in [Keys -> Row \cup {Nothing}]
    BY DEF Typed, Shapes
  <2> QED
    BY <2>1, <2>3, <2>4 DEF Stored
<1>2. CASE ~PersistMemory(t)
  <2>1. memories' = memories
    BY <1>2 DEF Execute, Read, RunWorkflow, TimeOut, UpsertPoints, WriteNote, PersistChunk,
                Complete, Interrupt, Fail, stores
  <2> QED
    BY <2>1 DEF Stored
<1> QED
  BY <1>1, <1>2

LEMMA InitBacked == Init => Backed
BY DEF Init, StoreInit, Backed, Stored, Idle, Keys

LEMMA BackedStep == Typed /\ Typed' /\ Backed /\ [Next]_vars => Backed'
<1> SUFFICES ASSUME Typed, Typed', Backed, [Next]_vars PROVE Backed'
  OBVIOUS
<1>1. ASSUME NEW t \in Threads, Execute(t) PROVE Backed'
  <2>1. /\ DOMAIN points \subseteq DOMAIN points' /\ DOMAIN notes \subseteq DOMAIN notes'
        /\ Stored \subseteq Stored' /\ \A f \in Files : ingested[f] \subseteq ingested'[f]
    BY <1>1, Grows, StoredGrows
  <2>2. \A u \in Threads \ {t} : att'[u] = att[u]
    BY <1>1, Moves
  <2>3. ASSUME NEW k \in Stored'
        PROVE  /\ memories'[k].ids \subseteq DOMAIN points'
               /\ NoteName[k[1]] \in DOMAIN notes'
               /\ k[2] \notin Opaque => memories'[k].ids = Ids(k[2])
               /\ \E text \in ingested'[k[1]] : memories'[k].ids = Ids(text)
    <3>1. k \in Keys /\ k[1] \in Files
      BY DEF Stored, Keys
    <3>2. CASE PersistMemory(t) /\ k = Key(t)
      <4>1. /\ att[t].pc = "row"
            /\ memories' = [memories EXCEPT ![Key(t)] = [ids |-> Ids(att[t].text), record |-> att[t].record]]
        BY <3>2 DEF PersistMemory
      <4>2. memories'[k].ids = Ids(att[t].text)
        BY <3>1, <3>2, <4>1 DEF Typed, Shapes
      <4>3. /\ k[1] = att[t].file /\ k[2] = att[t].hash /\ att[t].text \in ingested[att[t].file]
            /\ att[t].hash \notin Opaque => att[t].text = att[t].hash
        BY <3>2, <4>1, InHand DEF Writing
      <4>4. Ids(att[t].text) \subseteq DOMAIN points /\ NoteName[att[t].file] \in DOMAIN notes
        BY <4>1 DEF Backed
      <4> QED
        BY <2>1, <3>1, <4>2, <4>3, <4>4
    <3>3. CASE ~(PersistMemory(t) /\ k = Key(t))
      <4>1. memories'[k] = memories[k]
        <5>1. CASE PersistMemory(t)
          BY <3>1, <3>3, <5>1 DEF PersistMemory, Typed, Shapes
        <5>2. CASE ~PersistMemory(t)
          BY <1>1, <5>2 DEF Execute, Read, RunWorkflow, TimeOut, UpsertPoints, WriteNote, PersistChunk,
                            Complete, Interrupt, Fail, stores
        <5> QED
          BY <5>1, <5>2
      <4>2. k \in Stored
        BY <3>1, <4>1 DEF Stored
      <4>3. /\ memories[k].ids \subseteq DOMAIN points
            /\ NoteName[k[1]] \in DOMAIN notes
            /\ k[2] \notin Opaque => memories[k].ids = Ids(k[2])
            /\ \E text \in ingested[k[1]] : memories[k].ids = Ids(text)
        BY <4>2 DEF Backed
      <4> QED
        BY <2>1, <3>1, <4>1, <4>3
    <3> QED
      BY <3>2, <3>3
  <2>4. ASSUME NEW k \in Keys, k[2] \notin Opaque
        PROVE  chunks[k] \subseteq chunks'[k] /\ chunks'[k] \subseteq Ids(k[2])
    <3>1. chunks[k] \subseteq Ids(k[2])
      BY <2>4 DEF Backed
    <3>2. CASE PersistChunk(t)
      <4>1. PICK id \in Unwritten(t) : chunks' = [chunks EXCEPT ![Key(t)] = @ \cup {id}]
        BY <3>2 DEF PersistChunk
      <4>2. att[t].pc = "chunks"
        BY <3>2 DEF PersistChunk
      <4>3. /\ id \in Ids(att[t].text) /\ Key(t) \in Keys /\ Key(t)[2] = att[t].hash
            /\ att[t].hash \notin Opaque => att[t].text = att[t].hash
        BY <4>1, <4>2, InHand DEF Unwritten, Writing
      <4>4. CASE k = Key(t)
        BY <2>4, <3>1, <4>1, <4>3, <4>4 DEF Typed, Shapes
      <4>5. CASE k # Key(t)
        BY <3>1, <4>1, <4>5 DEF Typed, Shapes
      <4> QED
        BY <4>4, <4>5
    <3>3. CASE ~PersistChunk(t)
      <4>1. chunks' = chunks
        BY <1>1, <3>3 DEF Execute, Read, RunWorkflow, TimeOut, UpsertPoints, WriteNote, PersistMemory,
                          Complete, Interrupt, Fail, stores
      <4> QED
        BY <3>1, <4>1
    <3> QED
      BY <3>2, <3>3
  <2>5. ASSUME NEW k \in completed'
        PROVE  k \in Stored' /\ (k[2] \notin Opaque => chunks'[k] = Ids(k[2]))
    <3>1. k \in Keys
      BY DEF Typed, Shapes
    <3>2. CASE k \in completed
      BY <2>1, <2>4, <3>1, <3>2 DEF Backed
    <3>3. CASE k \notin completed
      <4>1. Complete(t)
        BY <1>1, <3>3 DEF Execute, Read, RunWorkflow, TimeOut, UpsertPoints, WriteNote, PersistMemory,
                          PersistChunk, Interrupt, Fail, stores
      <4>2. k = Key(t) /\ att[t].pc = "chunks" /\ Unwritten(t) = {}
        BY <3>3, <4>1 DEF Complete
      <4>3. /\ Key(t)[2] = att[t].hash
            /\ att[t].hash \notin Opaque => att[t].text = att[t].hash
        BY <4>2, InHand DEF Writing
      <4>4. Key(t) \in Stored
        BY <4>2 DEF Backed
      <4>5. Ids(att[t].text) \subseteq chunks[Key(t)]
        BY <4>2 DEF Unwritten
      <4>6. chunks' = chunks
        BY <4>1 DEF Complete, stores
      <4> QED
        BY <2>1, <2>4, <3>1, <4>2, <4>3, <4>4, <4>5, <4>6
    <3> QED
      BY <3>2, <3>3
  <2>6. ASSUME NEW u \in Threads
        PROVE  /\ att'[u].pc \in {"note", "row", "chunks"} => Ids(att'[u].text) \subseteq DOMAIN points'
               /\ att'[u].pc \in {"row", "chunks"} => NoteName[att'[u].file] \in DOMAIN notes'
               /\ att'[u].pc = "chunks" => Key(u)' \in Stored'
    <3> DEFINE Same == /\ att'[u].pc = att[u].pc /\ att'[u].file = att[u].file
                       /\ att'[u].hash = att[u].hash /\ att'[u].text = att[u].text
               Goal == /\ att'[u].pc \in {"note", "row", "chunks"} => Ids(att'[u].text) \subseteq DOMAIN points'
                       /\ att'[u].pc \in {"row", "chunks"} => NoteName[att'[u].file] \in DOMAIN notes'
                       /\ att'[u].pc = "chunks" => Key(u)' \in Stored'
    <3>1. ASSUME Same PROVE Goal
      <4>1. /\ att[u].pc \in {"note", "row", "chunks"} => Ids(att[u].text) \subseteq DOMAIN points
            /\ att[u].pc \in {"row", "chunks"} => NoteName[att[u].file] \in DOMAIN notes
            /\ att[u].pc = "chunks" => Key(u) \in Stored
        BY DEF Backed
      <4>2. Key(u)' = Key(u)
        BY <3>1 DEF Key
      <4> QED
        BY <2>1, <3>1, <4>1, <4>2
    <3>2. CASE u # t
      BY <2>2, <3>1, <3>2
    <3>3. att \in [Threads -> Attempt] /\ att[t] \in Attempt
      BY DEF Typed, Shapes
    <3>4. CASE u = t /\ UpsertPoints(t)
      <4>1. att' = [att EXCEPT ![t].pc = "note"] /\ points' = Upserted(t)
        BY <3>4 DEF UpsertPoints
      <4>2. att'[t].pc = "note" /\ att'[t].text = att[t].text
        BY <3>3, <4>1 DEF Attempt
      <4>3. DOMAIN points' = DOMAIN points \cup Ids(att[t].text)
        BY <4>1 DEF Upserted
      <4> QED
        BY <3>4, <4>2, <4>3
    <3>5. CASE u = t /\ WriteNote(t)
      <4>1. att' = [att EXCEPT ![t].pc = "row"] /\ att[t].pc = "note" /\ points' = points
        BY <3>5 DEF WriteNote
      <4>2. att'[t].pc = "row" /\ att'[t].text = att[t].text /\ att'[t].file = att[t].file
        BY <3>3, <4>1 DEF Attempt
      <4>3. DOMAIN notes' = DOMAIN notes \cup {NoteName[att[t].file]}
        BY <3>5 DEF WriteNote
      <4>4. Ids(att[t].text) \subseteq DOMAIN points
        BY <4>1 DEF Backed
      <4> QED
        BY <3>5, <4>1, <4>2, <4>3, <4>4
    <3>6. CASE u = t /\ PersistMemory(t)
      <4>1. /\ att' = [att EXCEPT ![t].pc = "chunks"] /\ att[t].pc = "row"
            /\ points' = points /\ notes' = notes
            /\ memories' = [memories EXCEPT ![Key(t)] = [ids |-> Ids(att[t].text), record |-> att[t].record]]
        BY <3>6 DEF PersistMemory
      <4>2. att'[t].pc = "chunks" /\ att'[t].text = att[t].text /\ att'[t].file = att[t].file /\ att'[t].hash = att[t].hash
        BY <3>3, <4>1 DEF Attempt
      <4>3. Ids(att[t].text) \subseteq DOMAIN points /\ NoteName[att[t].file] \in DOMAIN notes
        BY <4>1 DEF Backed
      <4>4. Key(t)' = Key(t)
        BY <4>2 DEF Key
      <4>5. Key(t) \in Keys /\ [ids |-> Ids(att[t].text), record |-> att[t].record] \in Row
        BY <4>1, InHand DEF Writing, Row
      <4>6. memories'[Key(t)] # Nothing
        BY <4>1, <4>5, RowAssumption DEF Typed, Shapes
      <4>7. Key(t) \in Stored'
        BY <4>5, <4>6 DEF Stored
      <4> QED
        BY <3>6, <4>1, <4>2, <4>3, <4>4, <4>7
    <3>7. CASE u = t /\ PersistChunk(t)
      BY <3>1, <3>7 DEF PersistChunk
    <3>8. CASE u = t /\ ~UpsertPoints(t) /\ ~WriteNote(t) /\ ~PersistMemory(t) /\ ~PersistChunk(t)
      <4>1. att'[t].pc \notin {"note", "row", "chunks"}
        <5>1. CASE Read(t)
          <6>1. PICK f \in Files :
                  att' = [att EXCEPT ![t] = [Idle EXCEPT !.pc = "workflow", !.file = f, !.hash = disk[f]]]
            BY <5>1 DEF Read
          <6> QED
            BY <3>3, <6>1 DEF Idle
        <5>2. CASE RunWorkflow(t)
          <6>1. PICK r \in Extracted, size \in Vectors :
                  att' = [att EXCEPT ![t].pc = "points", ![t].text = Normalized(t),
                                     ![t].record = r, ![t].size = size]
            BY <5>2 DEF RunWorkflow
          <6> QED
            BY <3>3, <6>1 DEF Attempt
        <5>3. CASE TimeOut(t)
          BY <3>3, <5>3 DEF TimeOut, Attempt
        <5>4. CASE Complete(t) \/ Interrupt(t) \/ Fail(t)
          <6>1. att' = [att EXCEPT ![t] = Idle]
            BY <5>4 DEF Complete, Interrupt, Fail
          <6> QED
            BY <3>3, <6>1 DEF Idle
        <5> QED
          BY <1>1, <3>8, <5>1, <5>2, <5>3, <5>4 DEF Execute
      <4> QED
        BY <3>8, <4>1
    <3> QED
      BY <3>2, <3>4, <3>5, <3>6, <3>7, <3>8
  <2> QED
    BY <2>3, <2>4, <2>5, <2>6 DEF Backed
<1>2. CASE Next /\ ~\E t \in Threads : Execute(t)
  <2>1. UNCHANGED <<points, notes, memories, chunks, att, ingested, completed>>
    BY <1>2, Apart
  <2> QED
    BY <2>1 DEF Backed, Stored, Key
<1>3. CASE UNCHANGED vars
  BY <1>3 DEF vars, storeVars, stores, Backed, Stored, Key
<1> QED
  BY <1>1, <1>2, <1>3

\* A memory row names points that are there, its note exists, and once an
\* attempt has completed, row and chunk rows are those of the content.
THEOREM RowsBacked == Spec => []RowsAreBacked
<1>1. Typed /\ Backed => RowsAreBacked
  BY DEF Typed, Shapes, Backed, RowsAreBacked, Stored
<1> QED
  BY <1>1, InitTyped, TypedStep, InitBacked, BackedStep, PTL DEF Spec

-----------------------------------------------------------------------------
(* Points belong to a file that had their chunk.                           *)

\* The points of a text of a file are there and lead to it, but those whose
\* chunk another file had as well.
Holds(f, text) ==
    \A id \in Ids(text) :
        \/ id \in DOMAIN points /\ points[id].file = f
        \/ \E g \in Files \ {f} : \E other \in ingested[g] : id \in Ids(other)

Owned ==
    /\ \A id \in DOMAIN points : \E text \in ingested[points[id].file] : id \in Ids(text)
    /\ \A k \in completed : k[2] \notin Opaque => Holds(k[1], k[2])
    /\ \A t \in Threads : att[t].pc \in {"note", "row", "chunks"} => Holds(att[t].file, att[t].text)

\* What a step of a thread does to a point: it keeps it, or leads it to the
\* file of the thread, which has read a text with its chunk.
LEMMA PointsStep ==
    ASSUME Typed, NEW t \in Threads, Execute(t), NEW id \in DOMAIN points'
    PROVE  \/ id \in DOMAIN points /\ points'[id] = points[id]
           \/ /\ UpsertPoints(t) /\ points'[id].file = att[t].file
              /\ id \in Ids(att[t].text) /\ att[t].text \in ingested'[att[t].file]
              /\ att[t].file \in Files
<1>1. CASE UpsertPoints(t)
  <2>1. points' = Upserted(t) /\ att[t].pc = "points" /\ ingested' = ingested
    BY <1>1 DEF UpsertPoints
  <2>2. att[t].file \in Files /\ att[t].text \in ingested'[att[t].file]
    BY <2>1, InHand DEF Writing
  <2> QED
    BY <1>1, <2>1, <2>2 DEF Upserted
<1>2. CASE ~UpsertPoints(t)
  BY <1>2 DEF Execute, Read, RunWorkflow, TimeOut, WriteNote, PersistMemory, PersistChunk,
              Complete, Interrupt, Fail, stores
<1> QED
  BY <1>1, <1>2

LEMMA HoldsOn ==
    ASSUME Typed, NEW t \in Threads, Execute(t), NEW f \in Files, NEW text, Holds(f, text)
    PROVE  Holds(f, text)'
<1>1. /\ DOMAIN points \subseteq DOMAIN points'
      /\ \A g \in Files : ingested[g] \subseteq ingested'[g]
  BY Grows
<1>2. ASSUME NEW id \in Ids(text)
      PROVE  \/ id \in DOMAIN points' /\ points'[id].file = f
             \/ \E g \in Files \ {f} : \E other \in ingested'[g] : id \in Ids(other)
  <2>1. CASE id \in DOMAIN points /\ points[id].file = f
    <3>1. id \in DOMAIN points'
      BY <1>1, <2>1
    <3>2. CASE points'[id] = points[id]
      BY <2>1, <3>1, <3>2
    <3>3. CASE /\ points'[id].file = att[t].file /\ id \in Ids(att[t].text)
               /\ att[t].text \in ingested'[att[t].file] /\ att[t].file \in Files
      BY <3>1, <3>3
    <3> QED
      BY <3>1, <3>2, <3>3, PointsStep
  <2>2. CASE \E g \in Files \ {f} : \E other \in ingested[g] : id \in Ids(other)
    BY <1>1, <2>2
  <2> QED
    BY <1>2, <2>1, <2>2 DEF Holds
<1> QED
  BY <1>2 DEF Holds

LEMMA InitOwned == Init => Owned
BY DEF Init, StoreInit, Owned, Idle

LEMMA OwnedStep == Typed /\ Typed' /\ Backed /\ Owned /\ [Next]_vars => Owned'
<1> SUFFICES ASSUME Typed, Typed', Backed, Owned, [Next]_vars PROVE Owned'
  OBVIOUS
<1>1. ASSUME NEW t \in Threads, Execute(t) PROVE Owned'
  <2>1. \A u \in Threads \ {t} : att'[u] = att[u]
    BY <1>1, Moves
  <2>2. ASSUME NEW id \in DOMAIN points'
        PROVE  \E text \in ingested'[points'[id].file] : id \in Ids(text)
    <3>1. CASE id \in DOMAIN points /\ points'[id] = points[id]
      <4>1. points[id].file \in Files
        BY <3>1 DEF Typed, Shapes, Payload
      <4>2. \E text \in ingested[points[id].file] : id \in Ids(text)
        BY <3>1 DEF Owned
      <4> QED
        BY <1>1, <3>1, <4>1, <4>2, Grows
    <3> QED
      BY <1>1, <3>1, PointsStep
  <2>3. ASSUME NEW k \in completed', k[2] \notin Opaque
        PROVE  Holds(k[1], k[2])'
    <3>1. k[1] \in Files
      BY DEF Typed, Shapes, Keys
    <3>2. Holds(k[1], k[2])
      <4>1. CASE k \in completed
        BY <2>3, <4>1 DEF Owned
      <4>2. CASE k \notin completed
        <5>1. Complete(t)
          BY <1>1, <4>2 DEF Execute, Read, RunWorkflow, TimeOut, UpsertPoints, WriteNote, PersistMemory,
                            PersistChunk, Interrupt, Fail, stores
        <5>2. k = Key(t) /\ att[t].pc = "chunks"
          BY <4>2, <5>1 DEF Complete
        <5>3. k[1] = att[t].file /\ k[2] = att[t].text
          BY <2>3, <5>2, InHand DEF Writing
        <5> QED
          BY <5>2, <5>3 DEF Owned
      <4> QED
        BY <4>1, <4>2
    <3> HIDE <2>3
    <3> QED
      BY <1>1, <3>1, <3>2, HoldsOn
  <2>4. ASSUME NEW u \in Threads, att'[u].pc \in {"note", "row", "chunks"}
        PROVE  Holds(att[u].file, att[u].text)'
    <3>1. att[u].pc \in Writing
      <4>1. CASE u # t
        BY <2>1, <2>4, <4>1 DEF Writing
      <4>2. CASE u = t
        <5>1. att \in [Threads -> Attempt]
          BY DEF Typed, Shapes
        <5>2. ~Read(t) /\ ~Complete(t) /\ ~Interrupt(t) /\ ~Fail(t)
          <6>1. ~Read(t)
            BY <2>4, <4>2, <5>1 DEF Read, Idle
          <6>2. ~Complete(t) /\ ~Interrupt(t) /\ ~Fail(t)
            BY <2>4, <4>2, <5>1 DEF Complete, Interrupt, Fail, Idle
          <6> QED
            BY <6>1, <6>2
        <5>3. ~RunWorkflow(t)
          <6>1. ASSUME RunWorkflow(t) PROVE att'[t].pc = "points"
            <7>1. PICK r \in Extracted, size \in Vectors :
                    att' = [att EXCEPT ![t].pc = "points", ![t].text = Normalized(t),
                                       ![t].record = r, ![t].size = size]
              BY <6>1 DEF RunWorkflow
            <7> QED
              BY <5>1, <7>1 DEF Attempt
          <6> QED
            BY <2>4, <4>2, <6>1
        <5>4. ~TimeOut(t)
          BY <2>4, <4>2, <5>1 DEF TimeOut, Attempt
        <5> QED
          BY <1>1, <4>2, <5>2, <5>3, <5>4
             DEF Execute, UpsertPoints, WriteNote, PersistMemory, PersistChunk, Writing
      <4> QED
        BY <4>1, <4>2
    <3>2. att'[u].file = att[u].file /\ att'[u].text = att[u].text
      <4>1. CASE u # t
        BY <2>1, <4>1
      <4>2. CASE u = t
        BY <1>1, <2>4, <3>1, <4>2, Moves DEF Writing
      <4> QED
        BY <4>1, <4>2
    <3>3. att[u].file \in Files
      BY <3>1, InHand DEF Writing
    <3>4. CASE att[u].pc \in {"note", "row", "chunks"}
      <4>1. Holds(att[u].file, att[u].text)
        BY <3>4 DEF Owned
      <4> DEFINE f == att[u].file
                 text == att[u].text
      <4>2. \A id \in Ids(text) :
               \/ id \in DOMAIN points' /\ points'[id].file = f
               \/ \E g \in Files \ {f} : \E other \in ingested'[g] : id \in Ids(other)
        <5> HIDE DEF f, text
        <5> SUFFICES ASSUME NEW id \in Ids(text)
                     PROVE  \/ id \in DOMAIN points' /\ points'[id].file = f
                            \/ \E g \in Files \ {f} : \E other \in ingested'[g] : id \in Ids(other)
          OBVIOUS
        <5>1. \/ id \in DOMAIN points /\ points[id].file = f
              \/ \E g \in Files \ {f} : \E other \in ingested[g] : id \in Ids(other)
          BY <4>1 DEF Holds, f, text
        <5>2. CASE \E g \in Files \ {f} : \E other \in ingested[g] : id \in Ids(other)
          BY <1>1, <5>2, Grows
        <5>3. CASE id \in DOMAIN points /\ points[id].file = f
          <6>1. id \in DOMAIN points'
            BY <1>1, <5>3, Grows
          <6> QED
            BY <1>1, <5>3, <6>1, PointsStep
        <5> QED
          BY <5>1, <5>2, <5>3
      <4> QED
        BY <3>2, <4>2 DEF Holds
    <3>5. CASE att[u].pc \notin {"note", "row", "chunks"}
      <4>1. u = t
        BY <2>1, <2>4, <3>5
      <4>2. UpsertPoints(t)
        <5>1. att[t].pc = "points" /\ att \in [Threads -> Attempt]
          BY <3>1, <3>5, <4>1 DEF Writing, Typed, Shapes
        <5>2. ~Interrupt(t) /\ ~Fail(t)
          BY <2>4, <4>1, <5>1 DEF Interrupt, Fail, Idle
        <5> QED
          BY <1>1, <5>1, <5>2
             DEF Execute, Read, RunWorkflow, TimeOut, WriteNote, PersistMemory, PersistChunk, Complete
      <4>3. points' = Upserted(t)
        BY <4>2 DEF UpsertPoints
      <4>4. \A id \in Ids(att[t].text) : id \in DOMAIN points' /\ points'[id].file = att[t].file
        BY <4>3 DEF Upserted
      <4> QED
        BY <3>2, <4>1, <4>4 DEF Holds
    <3> QED
      BY <3>4, <3>5
  <2> QED
    BY <2>2, <2>3, <2>4 DEF Owned
<1>2. CASE Next /\ ~\E t \in Threads : Execute(t)
  <2>1. UNCHANGED <<points, notes, memories, chunks, att, ingested, completed>>
    BY <1>2, Apart
  <2> QED
    BY <2>1 DEF Owned, Holds
<1>3. CASE UNCHANGED vars
  BY <1>3 DEF vars, storeVars, stores, Owned, Holds
<1> QED
  BY <1>1, <1>2, <1>3

\* A point leads to a file that had its chunk, and a completed content keeps
\* its points unless another file had the chunk.
THEOREM PointsOwned == Spec => []PointsBelong
<1>1. Owned => PointsBelong
  BY DEF Owned, Holds, PointsBelong
<1> QED
  BY <1>1, InitTyped, TypedStep, InitBacked, BackedStep, InitOwned, OwnedStep, PTL DEF Spec

-----------------------------------------------------------------------------
(* Queries.                                                                *)

QueryTyped ==
    chat \in [pc : {"idle", "search", "list", "answered", "failed"},
              filter : Filters \cup {Nothing},
              asked : {FallbackSize, CollectionSize},
              tries : Nat,
              embedded : BOOLEAN,
              hits : SUBSET [id : AllIds, payload : Payload],
              results : SUBSET (Keys \X AllIds)]

\* A hit had its chunk read from the file of its payload; a result leads from
\* such a chunk to a memory of the same file; a search that was refused once
\* asks for the size of the collection.
Cited ==
    /\ \A h \in chat.hits : \E text \in ingested[h.payload.file] : h.id \in Ids(text)
    /\ \A x \in chat.results :
          x[1] \in Stored /\ \E text \in ingested[x[1][1]] : x[2] \in Ids(text)

Adapted ==
    /\ chat.tries = 1 => chat.asked = CollectionSize
    /\ chat.pc = "failed" => chat.embedded /\ ModelSize # CollectionSize

LEMMA InitQuery == Init => QueryTyped /\ Cited /\ Adapted
<1> SUFFICES ASSUME Init PROVE QueryTyped /\ Cited /\ Adapted
  OBVIOUS
<1>1. chat = NoQuery
  BY DEF Init
<1>2. QueryTyped
  BY <1>1 DEF QueryTyped, NoQuery
<1>3. Cited /\ Adapted
  BY <1>1 DEF Cited, Adapted, NoQuery
<1> QED
  BY <1>2, <1>3

LEMMA QueryStep == Typed /\ QueryTyped /\ [Next]_vars => QueryTyped'
<1> SUFFICES ASSUME Typed, QueryTyped, [Next]_vars PROVE QueryTyped'
  OBVIOUS
<1> USE DEF QueryTyped
<1>1. CASE Ask
  <2>1. PICK f \in Filters : chat' = [NoQuery EXCEPT !.pc = "search", !.filter = f]
    BY <1>1 DEF Ask
  <2> QED
    BY <2>1 DEF NoQuery
<1>2. CASE Search
  <2>1. PICK ids \in Nearest :
          chat' = [chat EXCEPT !.pc = "list", !.hits = {[id |-> id, payload |-> points[id]] : id \in ids}]
    BY <1>2 DEF Search
  <2>2. ids \subseteq DOMAIN points
    BY DEF Nearest, kSubset
  <2>3. \A id \in ids : id \in AllIds /\ points[id] \in Payload
    BY <2>2 DEF Typed, Shapes
  <2>4. {[id |-> id, payload |-> points[id]] : id \in ids} \subseteq [id : AllIds, payload : Payload]
    BY <2>3
  <2> QED
    BY <2>1, <2>4
<1>3. CASE SearchRefused
  <2>1. PICK model \in BOOLEAN :
          chat' = [chat EXCEPT !.tries = @ + 1, !.embedded = model, !.asked = Expected,
                     !.pc = IF chat.asked = CollectionSize \/ chat.tries = 1
                            THEN "failed" ELSE "search"]
    BY <1>3 DEF SearchRefused
  <2>2. Expected \in {FallbackSize, CollectionSize} /\ chat.tries + 1 \in Nat
    BY DEF Expected
  <2> QED
    BY <2>1, <2>2, Zenon
<1>4. CASE List
  <2>1. chat' = [chat EXCEPT !.pc = "answered",
                   !.results = {<<y[1], y[2].id>> : y \in
                     {x \in Stored \X chat.hits :
                         x[1] \in RowsOf(x[2].payload.file) /\ TextAccepted(x[2].payload.record, chat.filter)}}]
    BY <1>4 DEF List
  <2>2. \A x \in Stored \X chat.hits : <<x[1], x[2].id>> \in Keys \X AllIds
    BY DEF Stored
  <2>3. {<<y[1], y[2].id>> : y \in
           {x \in Stored \X chat.hits :
               x[1] \in RowsOf(x[2].payload.file) /\ TextAccepted(x[2].payload.record, chat.filter)}}
        \subseteq Keys \X AllIds
    BY <2>2
  <2> QED
    BY <2>1, <2>3
<1>5. CASE chat' = chat
  BY <1>5
<1> QED
  BY <1>1, <1>2, <1>3, <1>4, <1>5 DEF Next, Chat, vars

LEMMA CitedStep == Typed /\ Owned /\ QueryTyped /\ Cited /\ [Next]_vars => Cited'
<1> SUFFICES ASSUME Typed, Owned, QueryTyped, Cited, [Next]_vars PROVE Cited'
  OBVIOUS
<1>1. CASE Ask
  <2>1. PICK f \in Filters : chat' = [NoQuery EXCEPT !.pc = "search", !.filter = f]
    BY <1>1 DEF Ask
  <2>2. chat'.hits = {} /\ chat'.results = {}
    BY <2>1 DEF NoQuery
  <2> QED
    BY <2>2 DEF Cited
<1>2. CASE Search
  <2>1. PICK ids \in Nearest :
          chat' = [chat EXCEPT !.pc = "list", !.hits = {[id |-> id, payload |-> points[id]] : id \in ids}]
    BY <1>2 DEF Search
  <2>2. ids \subseteq DOMAIN points
    BY DEF Nearest, kSubset
  <2>3. chat'.hits = {[id |-> id, payload |-> points[id]] : id \in ids} /\ chat'.results = chat.results
    BY <2>1 DEF QueryTyped
  <2>4. UNCHANGED <<ingested, memories>>
    BY <1>2 DEF Search, storeVars, stores
  <2>5. \A h \in chat'.hits : \E text \in ingested'[h.payload.file] : h.id \in Ids(text)
    BY <2>2, <2>3, <2>4 DEF Owned
  <2> QED
    BY <2>3, <2>4, <2>5 DEF Cited, Stored
<1>3. CASE SearchRefused
  <2>1. chat'.hits = chat.hits /\ chat'.results = chat.results
    BY <1>3 DEF SearchRefused, QueryTyped
  <2>2. UNCHANGED <<ingested, memories>>
    BY <1>3 DEF SearchRefused, storeVars, stores
  <2> QED
    BY <2>1, <2>2 DEF Cited, Stored
<1>4. CASE List
  <2>1. chat' = [chat EXCEPT !.pc = "answered",
                   !.results = {<<y[1], y[2].id>> : y \in
                     {x \in Stored \X chat.hits :
                         x[1] \in RowsOf(x[2].payload.file) /\ TextAccepted(x[2].payload.record, chat.filter)}}]
    BY <1>4 DEF List
  <2>2. UNCHANGED <<ingested, memories>>
    BY <1>4 DEF List, storeVars, stores
  <2>3. chat'.hits = chat.hits
    BY <2>1 DEF QueryTyped
  <2>4. ASSUME NEW r \in chat'.results
        PROVE  r[1] \in Stored /\ \E text \in ingested[r[1][1]] : r[2] \in Ids(text)
    <3>1. r \in {<<y[1], y[2].id>> : y \in
                  {x \in Stored \X chat.hits :
                      x[1] \in RowsOf(x[2].payload.file) /\ TextAccepted(x[2].payload.record, chat.filter)}}
      BY <2>1 DEF QueryTyped
    <3>2. PICK x \in Stored \X chat.hits : x[1] \in RowsOf(x[2].payload.file) /\ r = <<x[1], x[2].id>>
      BY <3>1
    <3>3. x[1][1] = x[2].payload.file
      BY <3>2 DEF RowsOf
    <3>4. x[1] \in Stored /\ \E text \in ingested[x[2].payload.file] : x[2].id \in Ids(text)
      BY DEF Cited
    <3> QED
      BY <3>2, <3>3, <3>4
  <2> QED
    BY <2>2, <2>3, <2>4 DEF Cited, Stored
<1>5. ASSUME NEW t \in Threads, Execute(t), chat' = chat PROVE Cited'
  <2>1. Stored \subseteq Stored' /\ \A f \in Files : ingested[f] \subseteq ingested'[f]
    BY <1>5, Grows, StoredGrows
  <2>2. \A h \in chat.hits : h.payload.file \in Files
    BY DEF QueryTyped, Payload
  <2>3. \A x \in chat.results : x[1][1] \in Files
    BY DEF QueryTyped, Keys
  <2> QED
    BY <1>5, <2>1, <2>2, <2>3 DEF Cited
<1>6. CASE chat' = chat /\ UNCHANGED <<ingested, memories>>
  BY <1>6 DEF Cited, Stored
<1>7. CASE StoreNext /\ UNCHANGED <<chat, queries>>
  <2>1. CASE \E f \in Files : Edit(f)
    BY <1>6, <1>7, <2>1 DEF Edit, stores
  <2> QED
    BY <1>5, <1>7, <2>1 DEF StoreNext
<1>8. CASE UNCHANGED vars
  BY <1>6, <1>8 DEF vars, storeVars, stores
<1> QED
  BY <1>1, <1>2, <1>3, <1>4, <1>7, <1>8 DEF Next, Chat

LEMMA AdaptedStep == QueryTyped /\ Adapted /\ [Next]_vars => Adapted'
<1> SUFFICES ASSUME QueryTyped, Adapted, [Next]_vars PROVE Adapted'
  OBVIOUS
<1>1. CASE Ask
  <2>1. PICK f \in Filters : chat' = [NoQuery EXCEPT !.pc = "search", !.filter = f]
    BY <1>1 DEF Ask
  <2>2. chat'.pc = "search" /\ chat'.tries = 0
    BY <2>1 DEF NoQuery
  <2> QED
    BY <2>2 DEF Adapted
<1>2. CASE Search
  <2>1. chat'.pc = "list" /\ chat'.tries = chat.tries /\ chat'.asked = chat.asked
    BY <1>2 DEF Search, QueryTyped
  <2> QED
    BY <2>1 DEF Adapted
<1>3. CASE SearchRefused
  <2>1. PICK model \in BOOLEAN :
          /\ QuerySize(model) # CollectionSize
          /\ chat' = [chat EXCEPT !.tries = @ + 1, !.embedded = model, !.asked = Expected,
                        !.pc = IF chat.asked = CollectionSize \/ chat.tries = 1
                               THEN "failed" ELSE "search"]
    BY <1>3 DEF SearchRefused
  <2>2. chat'.asked = CollectionSize
    BY <2>1 DEF QueryTyped, Expected
  <2>3. ASSUME chat'.pc = "failed" PROVE chat'.embedded /\ ModelSize # CollectionSize
    <3>1. chat.asked = CollectionSize
      BY <2>1, <2>3 DEF QueryTyped, Adapted
    <3>2. model = TRUE /\ ModelSize # CollectionSize
      BY <2>1, <3>1 DEF QuerySize
    <3>3. chat'.embedded = model
      BY <2>1, Zenon DEF QueryTyped
    <3> QED
      BY <3>2, <3>3
  <2> QED
    BY <2>2, <2>3 DEF Adapted
<1>4. CASE List
  <2>1. chat'.pc = "answered" /\ chat'.tries = chat.tries /\ chat'.asked = chat.asked
    BY <1>4 DEF List, QueryTyped
  <2> QED
    BY <2>1 DEF Adapted
<1>5. CASE chat' = chat
  BY <1>5 DEF Adapted
<1> QED
  BY <1>1, <1>2, <1>3, <1>4, <1>5 DEF Next, Chat, vars

\* A chunk is cited for a memory that contains it, unless the file was
\* ingested with two contents.
THEOREM ChunksCited == Spec => []CitedChunkIsOfMemory
<1>1. Typed /\ Backed /\ QueryTyped /\ Cited => CitedChunkIsOfMemory
  <2> SUFFICES ASSUME Backed, Cited, NEW x \in chat.results,
                      ~\E c, d \in ingested[x[1][1]] : c # d
               PROVE  x[2] \in memories[x[1]].ids
    BY DEF CitedChunkIsOfMemory
  <2>1. PICK c \in ingested[x[1][1]] : memories[x[1]].ids = Ids(c)
    BY DEF Backed, Cited
  <2>2. PICK d \in ingested[x[1][1]] : x[2] \in Ids(d)
    BY DEF Cited
  <2>3. c = d
    OBVIOUS
  <2> QED
    BY <2>1, <2>2, <2>3
<1> QED
  BY <1>1, InitTyped, TypedStep, InitBacked, BackedStep, InitOwned, OwnedStep, InitQuery, QueryStep,
     CitedStep, PTL DEF Spec

\* A search fails only on vectors of a model that do not fit the collection.
THEOREM SearchFits == Spec => []SearchFitsCollection
<1>1. Adapted => SearchFitsCollection
  BY DEF Adapted, SearchFitsCollection
<1> QED
  BY <1>1, InitTyped, TypedStep, InitQuery, QueryStep, AdaptedStep, PTL DEF Spec

-----------------------------------------------------------------------------
(* What is listed and how much is found.                                   *)

\* The keys of the memories, each once.
Listing ==
    /\ recent \in Seq(Keys)
    /\ \A i, j \in 1 .. Len(recent) : recent[i] = recent[j] => i = j
    /\ {recent[i] : i \in 1 .. Len(recent)} = Stored

Written ==
    /\ \A n \in DOMAIN notes : notes[n] \in Payload
    /\ IsFiniteSet(DOMAIN points)

Limited ==
    /\ chat.tries \in 0 .. 2 /\ (chat.pc = "search" => chat.tries <= 1)
    /\ IsFiniteSet(chat.hits) /\ Cardinality(chat.hits) <= TopK
    /\ queries \in Nat

LEMMA InitListing == Init => Listing /\ Written /\ Limited
<1> SUFFICES ASSUME Init PROVE Listing /\ Written /\ Limited
  OBVIOUS
<1>1. Listing
  <2>1. recent = <<>> /\ Stored = {}
    BY DEF Init, StoreInit, Stored
  <2>2. Len(<<>>) = 0 /\ <<>> \in Seq(Keys) /\ 1 .. 0 = {}
    OBVIOUS
  <2> QED
    BY <2>1, <2>2 DEF Listing
<1>2. Written
  <2>1. DOMAIN points = {} /\ DOMAIN notes = {}
    BY DEF Init, StoreInit
  <2> QED
    BY <2>1, FS_EmptySet DEF Written
<1>3. Limited
  <2>1. chat.tries = 0 /\ chat.hits = {} /\ queries = 0
    BY DEF Init, NoQuery
  <2> QED
    BY <2>1, FS_EmptySet, LimitsAssumption DEF Limited
<1> QED
  BY <1>1, <1>2, <1>3

\* A memory that is written goes to the front of the list, once.
LEMMA RenewedList ==
    ASSUME Typed, Listing, NEW t \in Threads, PersistMemory(t)
    PROVE  Listing'
<1> DEFINE k == Key(t)
           I == {i \in DOMAIN recent : recent[i] # k}
           kept == At(recent, I)
           row == [ids |-> Ids(att[t].text), record |-> att[t].record]
<1>1. /\ att[t].pc = "row" /\ memories' = [memories EXCEPT ![k] = row]
      /\ recent' = <<k>> \o kept
  BY DEF PersistMemory, Renewed, Kept
<1>2. /\ k \in Keys /\ att[t].record \in Extracted /\ Ids(att[t].text) \subseteq AllIds
      /\ memories \in [Keys -> Row \cup {Nothing}]
  BY <1>1, InHand DEF Typed, Shapes, Writing
<1>3. row # Nothing
  BY <1>2, RowAssumption DEF Row
<1> HIDE DEF row, k
<1>4. Stored' = Stored \cup {k}
  BY <1>1, <1>2, <1>3 DEF Stored
<1>5. recent \in Seq(Keys) /\ Len(recent) \in Nat /\ DOMAIN recent = 1 .. Len(recent)
  BY LenProperties DEF Listing
<1>6. I \in SUBSET (1 .. Len(recent)) /\ \A i \in 1 .. Len(recent) : i \in I <=> recent[i] # k
  BY <1>5
<1> HIDE DEF I
<1>7. kept \in Seq(Keys) /\ Len(kept) \in Nat
  BY <1>5, <1>6, AtPlaces, LenProperties
<1>8. {kept[i] : i \in 1 .. Len(kept)} = {recent[i] : i \in I}
  BY <1>5, <1>6, AtRange
<1>9. \A i, j \in 1 .. Len(kept) : kept[i] = kept[j] => i = j
  <2>1. \A i, j \in I : recent[i] = recent[j] => i = j
    BY <1>6 DEF Listing
  <2> QED
    BY <1>5, <1>6, <2>1, AtOnce
<1>10. {recent[i] : i \in I} = Stored \ {k}
  BY <1>6 DEF Listing
<1> HIDE DEF kept
<1>11. /\ <<k>> \o kept \in Seq(Keys) /\ Len(<<k>> \o kept) = Len(kept) + 1
       /\ (<<k>> \o kept)[1] = k
       /\ \A i \in 1 .. Len(kept) : (<<k>> \o kept)[i + 1] = kept[i]
  BY <1>2, <1>7
<1>12. \A i \in 1 .. Len(kept) : kept[i] \in Stored \ {k}
  BY <1>8, <1>10
<1>13. \A i \in 1 .. Len(kept) + 1 : i = 1 \/ (i - 1 \in 1 .. Len(kept) /\ i = (i - 1) + 1)
  BY <1>7
<1> DEFINE new == <<k>> \o kept
<1>14. new \in Seq(Keys) /\ Len(new) = Len(kept) + 1 /\ new[1] = k
  BY <1>11
<1>15. \A i \in 1 .. Len(kept) : new[i + 1] = kept[i] /\ i + 1 \in 1 .. Len(new)
  BY <1>7, <1>11
<1>16. \A i \in 1 .. Len(new) : i = 1 \/ (i - 1 \in 1 .. Len(kept) /\ new[i] = kept[i - 1])
  <2> SUFFICES ASSUME NEW i \in 1 .. Len(new), i # 1 PROVE i - 1 \in 1 .. Len(kept) /\ new[i] = kept[i - 1]
    OBVIOUS
  <2>1. i - 1 \in 1 .. Len(kept) /\ i = (i - 1) + 1
    BY <1>7, <1>13, <1>14
  <2> QED
    BY <1>15, <2>1
<1> HIDE DEF new
<1>17. ASSUME NEW i \in 1 .. Len(new), NEW j \in 1 .. Len(new), new[i] = new[j] PROVE i = j
  <2>1. CASE i = 1 /\ j = 1
    BY <2>1
  <2>2. CASE i = 1 /\ j # 1
    BY <1>12, <1>14, <1>16, <1>17, <2>2
  <2>3. CASE i # 1 /\ j = 1
    BY <1>12, <1>14, <1>16, <1>17, <2>3
  <2>4. CASE i # 1 /\ j # 1
    <3>1. i - 1 = j - 1
      BY <1>9, <1>16, <1>17, <2>4
    <3> QED
      BY <1>7, <1>14, <3>1
  <2> QED
    BY <2>1, <2>2, <2>3, <2>4
<1>18. {new[i] : i \in 1 .. Len(new)} = Stored \cup {k}
  <2>1. \A i \in 1 .. Len(new) : new[i] \in Stored \cup {k}
    BY <1>12, <1>14, <1>16
  <2>2. 1 \in 1 .. Len(new)
    BY <1>7, <1>14
  <2>3. \A s \in Stored \ {k} : \E i \in 1 .. Len(new) : new[i] = s
    <3> SUFFICES ASSUME NEW s \in Stored \ {k} PROVE \E i \in 1 .. Len(new) : new[i] = s
      OBVIOUS
    <3>1. PICK i \in 1 .. Len(kept) : kept[i] = s
      BY <1>8, <1>10
    <3> QED
      BY <1>15, <3>1
  <2> QED
    BY <1>14, <2>1, <2>2, <2>3
<1>19. recent' = new
  BY <1>1 DEF new
<1> QED
  BY <1>4, <1>14, <1>17, <1>18, <1>19 DEF Listing

LEMMA ListingStep == Typed /\ Listing /\ [Next]_vars => Listing'
<1> SUFFICES ASSUME Typed, Listing, [Next]_vars PROVE Listing'
  OBVIOUS
<1>1. CASE UNCHANGED <<memories, recent>>
  BY <1>1 DEF Listing, Stored
<1>2. ASSUME NEW t \in Threads, Execute(t) PROVE Listing'
  <2>1. CASE PersistMemory(t)
    BY <2>1, RenewedList
  <2>2. CASE ~PersistMemory(t)
    BY <1>1, <1>2, <2>2
    DEF Execute, Read, RunWorkflow, TimeOut, UpsertPoints, WriteNote, PersistChunk, Complete, Interrupt,
        Fail, stores
  <2> QED
    BY <2>1, <2>2
<1>3. CASE \E f \in Files : Edit(f)
  BY <1>1, <1>3 DEF Edit, stores
<1>4. CASE Chat
  BY <1>1, <1>4 DEF Chat, Ask, Search, SearchRefused, List, storeVars, stores
<1>5. CASE UNCHANGED vars
  BY <1>1, <1>5 DEF vars, storeVars, stores
<1> QED
  BY <1>2, <1>3, <1>4, <1>5 DEF Next, StoreNext

\* A text has finitely many chunks.
LEMMA FewChunks ==
    ASSUME NEW text \in Contents
    PROVE  IsFiniteSet(Ids(text))
<1>1. Len(text) \in Nat
  BY StoreAssumption, LenProperties
<1>2. IsFiniteSet(0 .. Len(text))
  BY <1>1, FS_Interval
<1>3. IsFiniteSet(Chunked(text))
  <2>1. Chunked(text) \in SUBSET (0 .. Len(text))
    BY DEF Chunked
  <2> QED
    BY <1>2, <2>1, FS_Subset
<1> DEFINE f == [i \in Chunked(text) |-> [index |-> i, text |-> Piece(text, i)]]
<1>4. f \in Surjection(Chunked(text), Ids(text))
  <2>1. f \in [Chunked(text) -> Ids(text)]
    BY DEF Ids
  <2>2. \A id \in Ids(text) : \E i \in Chunked(text) : f[i] = id
    BY DEF Ids
  <2> QED
    BY <2>1, <2>2 DEF Surjection
<1> QED
  BY <1>3, <1>4, FS_Surjection

LEMMA WrittenStep == Typed /\ Written /\ [Next]_vars => Written'
<1> SUFFICES ASSUME Typed, Written, [Next]_vars PROVE Written'
  OBVIOUS
<1>1. CASE UNCHANGED <<points, notes>>
  BY <1>1 DEF Written
<1>2. ASSUME NEW t \in Threads, Execute(t) PROVE Written'
  <2>1. CASE UpsertPoints(t)
    <3>1. points' = Upserted(t) /\ notes' = notes /\ att[t].pc = "points"
      BY <2>1 DEF UpsertPoints
    <3>2. DOMAIN Upserted(t) = DOMAIN points \cup Ids(att[t].text)
      BY DEF Upserted
    <3>3. IsFiniteSet(Ids(att[t].text))
      BY <3>1, InHand, FewChunks DEF Writing
    <3>4. IsFiniteSet(DOMAIN points')
      BY <3>1, <3>2, <3>3, FS_Union DEF Written
    <3> QED
      BY <3>1, <3>4 DEF Written
  <2>2. CASE WriteNote(t)
    <3> DEFINE new == [file |-> att[t].file, record |-> att[t].record]
               name == NoteName[att[t].file]
    <3>1. /\ att[t].pc = "note" /\ points' = points
          /\ notes' = [n \in DOMAIN notes \cup {name} |-> IF n = name THEN new ELSE notes[n]]
      BY <2>2 DEF WriteNote
    <3>2. new \in Payload
      BY <3>1, InHand DEF Payload, Writing
    <3> HIDE DEF new, name
    <3>3. \A n \in DOMAIN notes' : notes'[n] \in Payload
      BY <3>1, <3>2 DEF Written
    <3> QED
      BY <3>1, <3>3 DEF Written
  <2>3. CASE ~UpsertPoints(t) /\ ~WriteNote(t)
    BY <1>1, <1>2, <2>3
    DEF Execute, Read, RunWorkflow, TimeOut, PersistMemory, PersistChunk, Complete, Interrupt, Fail, stores
  <2> QED
    BY <2>1, <2>2, <2>3
<1>3. CASE \E f \in Files : Edit(f)
  BY <1>1, <1>3 DEF Edit, stores
<1>4. CASE Chat
  BY <1>1, <1>4 DEF Chat, Ask, Search, SearchRefused, List, storeVars, stores
<1>5. CASE UNCHANGED vars
  BY <1>1, <1>5 DEF vars, storeVars, stores
<1> QED
  BY <1>2, <1>3, <1>4, <1>5 DEF Next, StoreNext

\* No more points are found than were asked for.
LEMMA NearestAreFew ==
    ASSUME Written, NEW ids \in Nearest
    PROVE  IsFiniteSet(ids) /\ Cardinality(ids) <= TopK /\ ids \subseteq DOMAIN points
<1> DEFINE accepted == {id \in DOMAIN points : SearchAccepts(points[id].record, chat.filter)}
           n == Cardinality(accepted)
<1>1. accepted \in SUBSET DOMAIN points
  OBVIOUS
<1>2. ids \in SUBSET accepted /\ Cardinality(ids) = Min({TopK, n})
  BY DEF Nearest, kSubset
<1> HIDE DEF accepted
<1>3. IsFiniteSet(accepted) /\ n \in Nat
  BY <1>1, FS_Subset, FS_CardinalityType DEF Written
<1>4. IsFiniteSet(ids)
  BY <1>2, <1>3, FS_Subset
<1> HIDE DEF n
<1>5. \E x \in {TopK, n} : \A y \in {TopK, n} : x =< y
  BY <1>3, LimitsAssumption
<1>6. Min({TopK, n}) \in {TopK, n} /\ \A y \in {TopK, n} : Min({TopK, n}) =< y
  BY <1>5 DEF Min
<1> QED
  BY <1>1, <1>2, <1>4, <1>6

LEMMA LimitedStep == Written /\ QueryTyped /\ Limited /\ [Next]_vars => Limited'
<1> SUFFICES ASSUME Written, QueryTyped, Limited, [Next]_vars PROVE Limited'
  OBVIOUS
<1>1. CASE Ask
  <2>1. PICK f \in Filters : chat' = [NoQuery EXCEPT !.pc = "search", !.filter = f]
    BY <1>1 DEF Ask
  <2>2. chat'.tries = 0 /\ chat'.hits = {} /\ queries' = queries + 1
    BY <1>1, <2>1 DEF Ask, NoQuery
  <2> QED
    BY <2>2, FS_EmptySet, LimitsAssumption DEF Limited
<1>2. CASE Search
  <2>1. PICK ids \in Nearest :
          chat' = [chat EXCEPT !.pc = "list", !.hits = {[id |-> id, payload |-> points[id]] : id \in ids}]
    BY <1>2 DEF Search
  <2> DEFINE found == {[id |-> id, payload |-> points[id]] : id \in ids}
             f == [id \in ids |-> [id |-> id, payload |-> points[id]]]
  <2>2. chat'.pc = "list" /\ chat'.tries = chat.tries /\ chat'.hits = found /\ queries' = queries
    BY <1>2, <2>1 DEF Search, QueryTyped
  <2>3. IsFiniteSet(ids) /\ Cardinality(ids) <= TopK
    BY NearestAreFew
  <2>4. f \in Surjection(ids, found)
    BY DEF Surjection
  <2> HIDE DEF f, found
  <2>5. IsFiniteSet(found) /\ Cardinality(found) <= Cardinality(ids)
    BY <2>3, <2>4, FS_Surjection
  <2>6. Cardinality(found) \in Nat /\ Cardinality(ids) \in Nat
    BY <2>3, <2>5, FS_CardinalityType
  <2> QED
    BY <2>2, <2>3, <2>5, <2>6, LimitsAssumption DEF Limited
<1>3. CASE SearchRefused
  <2>1. PICK model \in BOOLEAN :
          chat' = [chat EXCEPT !.tries = @ + 1, !.embedded = model, !.asked = Expected,
                     !.pc = IF chat.asked = CollectionSize \/ chat.tries = 1
                            THEN "failed" ELSE "search"]
    BY <1>3 DEF SearchRefused
  <2>2. /\ chat'.tries = chat.tries + 1 /\ chat'.hits = chat.hits /\ queries' = queries
        /\ chat'.pc = IF chat.asked = CollectionSize \/ chat.tries = 1 THEN "failed" ELSE "search"
        /\ chat.pc = "search"
    BY <1>3, <2>1 DEF SearchRefused, QueryTyped
  <2> QED
    BY <2>2 DEF Limited
<1>4. CASE List
  <2>1. chat'.pc = "answered" /\ chat'.tries = chat.tries /\ chat'.hits = chat.hits /\ queries' = queries
    BY <1>4 DEF List, QueryTyped
  <2> QED
    BY <2>1 DEF Limited
<1>5. CASE UNCHANGED <<chat, queries>>
  BY <1>5 DEF Limited
<1> QED
  BY <1>1, <1>2, <1>3, <1>4, <1>5 DEF Next, Chat, vars

\* The stores and the query are well-formed: each memory is listed once, and no
\* more is found than was asked for.
THEOREM TypeCorrect == Spec => []TypeOK
<1>1. Listing => {recent[i] : i \in DOMAIN recent} = Stored /\ Len(recent) = Cardinality(Stored)
  <2> SUFFICES ASSUME Listing
               PROVE  {recent[i] : i \in DOMAIN recent} = Stored /\ Len(recent) = Cardinality(Stored)
    OBVIOUS
  <2>1. Len(recent) \in Nat /\ DOMAIN recent = 1 .. Len(recent) /\ recent \in [1 .. Len(recent) -> Keys]
    BY LenProperties DEF Listing
  <2>2. recent \in [1 .. Len(recent) -> Stored]
    BY <2>1 DEF Listing
  <2>3. recent \in Bijection(1 .. Len(recent), Stored)
    <3>1. recent \in Injection(1 .. Len(recent), Stored)
      BY <2>2 DEF Injection, IsInjective, Listing
    <3>2. recent \in Surjection(1 .. Len(recent), Stored)
      BY <2>2 DEF Surjection, Listing
    <3> QED
      BY <3>1, <3>2 DEF Bijection
  <2>4. IsFiniteSet(1 .. Len(recent)) /\ Cardinality(1 .. Len(recent)) = Len(recent)
    BY <2>1, FS_Interval
  <2>5. Cardinality(Stored) = Cardinality(1 .. Len(recent))
    BY <2>3, <2>4, FS_Bijection DEF ExistsBijection
  <2> QED
    BY <2>1, <2>4, <2>5 DEF Listing
<1>2. Typed /\ Listing /\ Written => StoreTypeOK
  BY <1>1 DEF Typed, Shapes, Written, StoreTypeOK
<1>3. QueryTyped /\ Limited /\ StoreTypeOK => TypeOK
  BY DEF QueryTyped, Limited, TypeOK
<1> QED
  BY <1>2, <1>3, InitTyped, TypedStep, InitQuery, QueryStep, InitListing, ListingStep, WrittenStep,
     LimitedStep, PTL DEF Spec

=============================================================================
