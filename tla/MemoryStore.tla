------------------------------ MODULE MemoryStore ------------------------------
(***************************************************************************)
(* What an ingestion writes, and where: the points of Qdrant, the notes of *)
(* the vault, and the rows of canonical_memories and memory_chunks in      *)
(* Postgres (phase2/service.py, adapters.py, persistence.py), from what    *)
(* the workflow made of the file (workflow_runner.py, handlers.py,         *)
(* workflow_handlers.py, extraction_service.py).  No transaction spans the *)
(* stores: each write is an action, and an attempt may end before any.     *)
(*                                                                         *)
(* A content is a sequence of letters and stands for its own hash.  An     *)
(* opaque one is taken for no text: white space, or a text that contains   *)
(* {{ and }} or begins with phase2., which the handlers take for a binding *)
(* of the workflow that was not resolved.  An attempt is one call of       *)
(* _execute_single_file: of a new file run, or of a retry.                 *)
(***************************************************************************)
EXTENDS Naturals, Sequences, FiniteSets, FiniteSetsExt, Subsequences

CONSTANTS
    Files, Contents,
    Opaque,         \* the contents that are taken for no text
    ChunkSize,      \* 600 in the code
    NoteName,       \* the name of the note of each file
    Extracted,      \* records (project, labels, date) a model may extract
    ModelSize,      \* dimensions of the vectors of the embedding model
    CollectionSize, \* ... and of the collection in Qdrant
    Threads,        \* the worker and the requests that execute file runs
    Nothing,        \* None
    MaxAttempts, MaxEdits, MaxFaults  \* bounds

FallbackSize == 32  \* _embed_deterministic

ASSUME StoreAssumption ==
    /\ Contents \subseteq Seq(Nat) /\ Opaque \subseteq Contents
    /\ ChunkSize \in Nat \ {0}
    /\ ModelSize \in Nat /\ CollectionSize \in Nat
    /\ MaxAttempts \in Nat /\ MaxEdits \in Nat /\ MaxFaults \in Nat

Keys == Files \X Contents  \* UNIQUE(source_id, file_path, content_hash)

VARIABLES
    disk,      \* content of each file
    points,    \* Qdrant: payload of each point
    notes,     \* the file and record each note was written for
    memories,  \* canonical_memories: a row for each key, or Nothing
    recent,    \* their keys by updated_at, the latest first
    chunks,    \* memory_chunks: ids of the rows of each memory
    att,       \* the attempt in hand of each thread
    \* history and bounds
    ingested,  \* texts the workflow has read of each file
    completed, \* keys of the attempts that ended well
    attempts, edits, faults

stores == <<points, notes, memories, recent, chunks>>
bounds == <<attempts, edits, faults>>
storeVars == <<disk, stores, att, ingested, completed, bounds>>

-----------------------------------------------------------------------------
(* Chunks.                                                                 *)

\* chunk_document, by the indexes of the chunks.
Chunked(text) == {i \in 0 .. Len(text) : text \notin Opaque /\ i * ChunkSize < Len(text)}

Piece(text, i) == SubSeq(text, i * ChunkSize + 1, Min({(i + 1) * ChunkSize, Len(text)}))

\* sha256 of index and text: the same in every file.
Ids(text) == {[index |-> i, text |-> Piece(text, i)] : i \in Chunked(text)}

\* All vectors of a file come from the model, or all are hashes of the texts.
Vectors == {ModelSize, FallbackSize}

AllIds == UNION {Ids(c) : c \in Contents}
Payload == [file : Files, record : Extracted]
Row == [ids : SUBSET AllIds, record : Extracted]

ASSUME RowAssumption == Nothing \notin Row

Attempt == [pc : {"idle", "workflow", "late", "points", "note", "row", "chunks"},
            file : Files \cup {Nothing},
            hash : Contents \cup {Nothing}, text : Contents \cup {Nothing},
            record : Extracted \cup {Nothing}, size : Nat]
Idle == [pc |-> "idle", file |-> Nothing, hash |-> Nothing, text |-> Nothing,
         record |-> Nothing, size |-> 0]

Stored == {k \in Keys : memories[k] # Nothing}

StoreTypeOK ==
    /\ disk \in [Files -> Contents]
    /\ \A id \in DOMAIN points : id \in AllIds /\ points[id] \in Payload
    /\ \A n \in DOMAIN notes : notes[n] \in Payload
    /\ memories \in [Keys -> Row \cup {Nothing}]
    /\ {recent[i] : i \in DOMAIN recent} = Stored /\ Len(recent) = Cardinality(Stored)
    /\ chunks \in [Keys -> SUBSET AllIds]
    /\ att \in [Threads -> Attempt]
    /\ ingested \in [Files -> SUBSET Contents]
    /\ completed \subseteq Keys

StoreInit ==
    /\ disk \in [Files -> Contents]
    /\ points = << >> /\ notes = << >>
    /\ memories = [k \in Keys |-> Nothing]
    /\ recent = <<>>
    /\ chunks = [k \in Keys |-> {}]
    /\ att = [t \in Threads |-> Idle]
    /\ ingested = [f \in Files |-> {}] /\ completed = {}
    /\ attempts = 0 /\ edits = 0 /\ faults = 0

Key(t) == <<att[t].file, att[t].hash>>

-----------------------------------------------------------------------------
(* An attempt.                                                             *)

\* _read_file, and the call of the workflow.
Read(t) ==
    /\ att[t].pc = "idle"
    /\ attempts < MaxAttempts
    /\ \E f \in Files :
          att' = [att EXCEPT ![t] = [Idle EXCEPT !.pc = "workflow", !.file = f, !.hash = disk[f]]]
    /\ attempts' = attempts + 1
    /\ UNCHANGED <<disk, stores, ingested, completed, edits, faults>>

\* Mutant: normalize_file reads every file once more.
ReadTwice(t) == disk[att[t].file]

\* normalize_file reads the file once more when it was given no text.
Normalized(t) == IF att[t].hash \in Opaque THEN disk[att[t].file] ELSE att[t].hash

\* normalize_file, chunk_document, embed_chunks and the models, and what
\* extract() takes from them.
RunWorkflow(t) ==
    /\ att[t].pc = "workflow"
    /\ \E r \in Extracted, size \in Vectors :
          att' = [att EXCEPT ![t].pc = "points", ![t].text = Normalized(t),
                             ![t].record = r, ![t].size = size]
    /\ ingested' = [ingested EXCEPT ![att[t].file] = @ \cup {Normalized(t)}]
    /\ UNCHANGED <<disk, stores, completed, bounds>>

\* The timeout of the stage passes.  The end of the with block waits for the
\* workflow all the same, and what it returns then is thrown away.
TimeOut(t) ==
    /\ att[t].pc = "workflow"
    /\ faults < MaxFaults
    /\ att' = [att EXCEPT ![t].pc = "late"]
    /\ faults' = faults + 1
    /\ UNCHANGED <<disk, stores, ingested, completed, attempts, edits>>

\* Mutant: the collection is created anew for the call.
Recreated(t) ==
    [id \in Ids(att[t].text) |-> [file |-> att[t].file, record |-> att[t].record]]

\* One PUT: a point that exists is overwritten.
Upserted(t) ==
    LET new == [file |-> att[t].file, record |-> att[t].record] IN
    [id \in DOMAIN points \cup Ids(att[t].text) |->
        IF id \in Ids(att[t].text) THEN new ELSE points[id]]

\* Qdrant refuses vectors of another size; no chunks, no call.
UpsertPoints(t) ==
    /\ att[t].pc = "points"
    /\ Ids(att[t].text) # {} => att[t].size = CollectionSize
    /\ points' = Upserted(t)
    /\ att' = [att EXCEPT ![t].pc = "note"]
    /\ UNCHANGED <<disk, notes, memories, recent, chunks, ingested, completed, bounds>>

WriteNote(t) ==
    LET name == NoteName[att[t].file] IN
    /\ att[t].pc = "note"
    /\ notes' = [n \in DOMAIN notes \cup {name} |->
                   IF n = name THEN [file |-> att[t].file, record |-> att[t].record] ELSE notes[n]]
    /\ att' = [att EXCEPT ![t].pc = "row"]
    /\ UNCHANGED <<disk, points, memories, recent, chunks, ingested, completed, bounds>>

\* Mutant: a memory that is written again is listed twice.
Prepended(t) == <<Key(t)>> \o recent

\* updated_at is now.
Renewed(t) == <<Key(t)>> \o Kept(recent, LAMBDA k : k # Key(t))

PersistMemory(t) ==
    /\ att[t].pc = "row"
    /\ memories' = [memories EXCEPT ![Key(t)] = [ids |-> Ids(att[t].text), record |-> att[t].record]]
    /\ recent' = Renewed(t)
    /\ att' = [att EXCEPT ![t].pc = "chunks"]
    /\ UNCHANGED <<disk, points, notes, chunks, ingested, completed, bounds>>

\* Chunks are written one by one, in their order; the last one ends the attempt.
Unwritten(t) == {id \in Ids(att[t].text) : id \notin chunks[Key(t)]}

PersistChunk(t) ==
    /\ att[t].pc = "chunks"
    /\ \E id \in Unwritten(t) :
          /\ \A other \in Unwritten(t) : id.index <= other.index
          /\ chunks' = [chunks EXCEPT ![Key(t)] = @ \cup {id}]
    /\ UNCHANGED <<disk, points, notes, memories, recent, att, ingested, completed, bounds>>

Complete(t) ==
    /\ att[t].pc = "chunks" /\ Unwritten(t) = {}
    /\ completed' = completed \cup {Key(t)}
    /\ att' = [att EXCEPT ![t] = Idle]
    /\ UNCHANGED <<disk, stores, ingested, bounds>>

\* An error of a store or the workflow, or a stop of the process.
Interrupt(t) ==
    /\ att[t].pc \notin {"idle", "late"}
    /\ faults < MaxFaults
    /\ att' = [att EXCEPT ![t] = Idle]
    /\ faults' = faults + 1
    /\ UNCHANGED <<disk, stores, ingested, completed, attempts, edits>>

\* The failures that need no fault: the workflow is late, or the vectors do not fit.
Fail(t) ==
    /\ \/ att[t].pc = "late"
       \/ att[t].pc = "points" /\ Ids(att[t].text) # {} /\ att[t].size # CollectionSize
    /\ att' = [att EXCEPT ![t] = Idle]
    /\ UNCHANGED <<disk, stores, ingested, completed, bounds>>

Edit(f) ==
    /\ edits < MaxEdits
    /\ \E c \in Contents \ {disk[f]} : disk' = [disk EXCEPT ![f] = c]
    /\ edits' = edits + 1
    /\ UNCHANGED <<stores, att, ingested, completed, attempts, faults>>

Execute(t) ==
    \/ Read(t) \/ RunWorkflow(t) \/ TimeOut(t)
    \/ UpsertPoints(t) \/ WriteNote(t) \/ PersistMemory(t) \/ PersistChunk(t)
    \/ Complete(t) \/ Interrupt(t) \/ Fail(t)

StoreNext == (\E t \in Threads : Execute(t)) \/ (\E f \in Files : Edit(f))

-----------------------------------------------------------------------------
(* Properties of the stores.                                               *)

\* Whatever attempts were cut short, repeated or run side by side: a memory
\* row names points that are there and its note exists, and once an attempt on
\* a content has completed, its row names exactly the chunks of the content and
\* those are its chunk rows.  (The memory of an opaque content has the chunks
\* of what the workflow read: none, or those of a text written in between.)
RowsAreBacked ==
    \A k \in Stored :
        /\ memories[k].ids \subseteq DOMAIN points
        /\ NoteName[k[1]] \in DOMAIN notes
        /\ k[2] \notin Opaque => chunks[k] \subseteq memories[k].ids
        /\ k[2] \notin Opaque /\ k \in completed =>
              memories[k].ids = Ids(k[2]) /\ chunks[k] = Ids(k[2])

\* A point belongs to a file that had its chunk, and a file keeps the points of
\* a completed content unless another file had the same chunk at the same place:
\* its ids are shared, the latest attempt owns the payload, and the vector
\* search no longer leads to the other file.
PointsBelong ==
    /\ \A id \in DOMAIN points : \E text \in ingested[points[id].file] : id \in Ids(text)
    /\ \A k \in completed : k[2] \notin Opaque => \A id \in Ids(k[2]) :
          \/ id \in DOMAIN points /\ points[id].file = k[1]
          \/ \E f \in Files \ {k[1]} : \E text \in ingested[f] : id \in Ids(text)
=============================================================================
