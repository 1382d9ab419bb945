----------------------- MODULE EmbeddingRuntimeProofs -----------------------
(***************************************************************************)
(* For any notes, contents, models, batch size and bounds: the variables   *)
(* of EmbeddingRuntime keep their types (TypeCorrect), the vectors of a    *)
(* note, in memory and on disk, are whole and of one model (WholeNotes),   *)
(* the runtime is an intent queue (IntentQueue), the newest intent wins,   *)
(* no work and no good vectors are lost, a note nobody has work for is     *)
(* current, nothing is published before a first pass and nothing is        *)
(* written after the drop.                                                 *)
(*                                                                         *)
(* TypeOK is split by the parts of the state; what the coordinator has in  *)
(* hand (WorkInHand) is what makes the split inductive. Three invariants   *)
(* carry the rest: the generations of queued and claimed work (InOrder),   *)
(* what flags, gate and cache say of each other at each point of the task  *)
(* (Accounted), and, note by note, how events, intents, the work in hand   *)
(* and the store follow the file (Follows).                                *)
(***************************************************************************)
EXTENDS EmbeddingRuntime, FiniteSetTheorems, TLAPS

USE DEF vars, vaultVars, workVars, phaseVars, stateVars, storeVars, ctrlVars,
        batchVars, cacheVars, taskVars, diskVars, boundVars

\* Files, the index and the events under way keep their types: only the
\* editor, the watcher and a restart touch them.
LEMMA VaultNext == ASSUME VaultTypeOK, [Next]_vars PROVE VaultTypeOK'
<1> USE DEF VaultTypeOK
<1>1. CASE UNCHANGED vaultVars
  BY <1>1
<1>2. ASSUME NEW n \in Notes, NEW c \in Contents \cup {Absent}, Edit(n, c)
      PROVE VaultTypeOK'
  BY <1>2 DEF Edit
<1>3. ASSUME NEW n \in Notes, Notice(n) PROVE VaultTypeOK'
  BY <1>3 DEF Notice, Event
<1>4. CASE Reindex
  BY <1>4 DEF Reindex, Event
<1>5. CASE Submit
  BY <1>5 DEF Submit
<1>6. CASE Crash \/ Respawn
  BY <1>6 DEF Crash, Respawn, Spawn
<1>7. CASE Timers \/ Coordinator \/ BeginDrop \/ EndDrop
  BY <1>7, <1>1 DEF Timers, Coordinator, BeginDrop, EndDrop, PersistRetryDue, RetryDue,
    LoadModel, LoadModelFails, MigrateCache, OpenStore, StopBeforeOpen, Finalize,
    TakeDueBatch, Wait, Wake, ReadMetadata, PrepareNote, PrepareReadFails,
    CommitRemove, RequeueFailedRead, SkipUnchanged, CommitUpsert,
    PrepareTaskFails, StartInference, Infer, EndBatch, EncodeCache, EnterGate,
    CheckLiveAgain, ReplaceCache, WriteFails, Stop
<1> QED
  BY <1>1, <1>2, <1>3, <1>4, <1>5, <1>6, <1>7 DEF Next, Watcher

\* The first pass builds one intent for each of the notes it starts with
\* (run_coordinator); their order is a number because there are finitely many.
LEMMA IntentsForType ==
  ASSUME NEW S \in SUBSET Notes, NEW gen \in Nat
  PROVE  IntentsFor(S, gen) \in [S -> Work]
<1>1. \A n \in S : Cardinality({m \in S : m <= n}) \in Nat
  BY FS_Subset, FS_CardinalityType, NotesAssumption
<1> QED
  BY <1>1 DEF IntentsFor, Intent, Work

\* requeue_failure puts back work of the batch, so the queue keeps its type.
LEMMA RequeueFailureType ==
  ASSUME StateTypeOK, TaskTypeOK, NEW S \in SUBSET InBatch, RequeueFailure(S)
  PROVE  /\ pending' \in [Notes -> Work \cup {Absent}]
         /\ inflight' \in [Notes -> Nat \cup {Absent}]
         /\ remaining' \subseteq Notes /\ failures' \subseteq Notes
         /\ permit' \in BOOLEAN
<1> DEFINE again == {n \in S : IsCurrent(n)}
<1>1. \A n \in again : [batch[n] EXCEPT !.due = FALSE] \in Work
  BY DEF TaskTypeOK, InBatch, Work
<1> QED
  BY <1>1 DEF RequeueFailure, StateTypeOK, InBatch

\* finish_success and the discarding of stale work only take entries away.
LEMMA FinishType ==
  ASSUME StateTypeOK, NEW n \in Notes, FinishSuccess(n) \/ Discard(n)
  PROVE  /\ pending' \in [Notes -> Work \cup {Absent}]
         /\ inflight' \in [Notes -> Nat \cup {Absent}]
         /\ remaining' \subseteq Notes /\ failures' \subseteq Notes
         /\ permit' \in BOOLEAN
BY DEF StateTypeOK, FinishSuccess, Discard

\* RuntimeState keeps its type: what enters the queue is an intent from a
\* notice, from the first pass or from a failed batch.
LEMMA StateNext ==
  ASSUME StateTypeOK, TaskTypeOK, VaultTypeOK, [Next]_vars PROVE StateTypeOK'
<1> USE DEF StateTypeOK
<1>1. CASE UNCHANGED <<stateVars, ctrlVars>>
  BY <1>1
<1>2. CASE Submit
  <2>1. hand.note \in Notes /\ hand.kind \in {"upsert", "remove"}
    BY <1>2 DEF Submit, VaultTypeOK, Event
  <2>2. Intent(nextGen + 1, hand.kind) \in Work
    BY <2>1 DEF Intent, Work
  <2>3. pending' \in [Notes -> Work \cup {Absent}] /\ nextGen' \in Nat
    <3>1. CASE live
      <4>1. pending' = [pending EXCEPT ![hand.note] = Intent(nextGen + 1, hand.kind)]
        BY <1>2, <3>1 DEF Submit
      <4>2. nextGen' = nextGen + 1
        BY <1>2, <3>1 DEF Submit
      <4> QED
        BY <2>1, <2>2, <4>1, <4>2
    <3>2. CASE ~live
      BY <1>2, <3>2 DEF Submit
    <3> QED
      BY <3>1, <3>2
  <2> QED
    BY <1>2, <2>3 DEF Submit
<1>3. CASE OpenStore
  <2> DEFINE fresh == {n \in paths : pending[n] = Absent}
  <2>1. fresh \in SUBSET Notes
    BY DEF TaskTypeOK
  <2>2. nextGen + Cardinality(fresh) \in Nat
    BY <2>1, FS_Subset, FS_CardinalityType, NotesAssumption
  <2>3. IntentsFor(fresh, nextGen) \in [fresh -> Work]
    BY <2>1, IntentsForType
  <2>4. pending' \in [Notes -> Work \cup {Absent}]
    BY <1>3, <2>3 DEF OpenStore
  <2>5. queryable' \in BOOLEAN
    BY <1>3 DEF OpenStore
  <2> QED
    BY <1>3, <2>2, <2>4, <2>5 DEF OpenStore, TaskTypeOK
<1>4. CASE Finalize
  BY <1>4 DEF Finalize
<1>5. ASSUME NEW n \in Notes, RetryDue(n) PROVE StateTypeOK'
  <2>1. [pending[n] EXCEPT !.due = TRUE] \in Work
    BY <1>5 DEF RetryDue, Work
  <2> QED
    BY <1>5, <2>1 DEF RetryDue
<1>6. CASE TakeDueBatch
  BY <1>6 DEF TakeDueBatch, Due, Work
<1>7. CASE Wake
  BY <1>7 DEF Wake
<1>8. CASE PrepareTaskFails
  BY <1>8, RequeueFailureType DEF PrepareTaskFails
<1>9. ASSUME NEW n \in Notes, CommitRemove(n) PROVE StateTypeOK'
  BY <1>9, FinishType DEF CommitRemove
<1>10. ASSUME NEW n \in Notes, RequeueFailedRead(n) PROVE StateTypeOK'
  BY <1>10, RequeueFailureType DEF RequeueFailedRead
<1>11. ASSUME NEW n \in Notes, SkipUnchanged(n) PROVE StateTypeOK'
  BY <1>11, FinishType DEF SkipUnchanged
<1>12. ASSUME NEW reply \in Replies, Infer(reply) PROVE StateTypeOK'
  BY <1>12, RequeueFailureType DEF Infer
<1>13. ASSUME NEW n \in Notes, CommitUpsert(n) PROVE StateTypeOK'
  BY <1>13, FinishType, RequeueFailureType DEF CommitUpsert
<1>14. CASE EnterGate \/ CheckLiveAgain \/ ReplaceCache \/ WriteFails \/ BeginDrop \/ EndDrop
  BY <1>14 DEF EnterGate, CheckLiveAgain, ReplaceCache, WriteFails, BeginDrop, EndDrop
<1>15. CASE Crash \/ Respawn
  <2> DEFINE present == {n \in Notes : disk[n] # Absent}
  <2>1. Cardinality(present) \in Nat
    BY FS_Subset, FS_CardinalityType, NotesAssumption
  <2>2. IntentsFor(present, 0) \in [present -> Work]
    BY IntentsForType
  <2>3. pending' \in [Notes -> Work \cup {Absent}]
    BY <1>15, <2>2 DEF Crash, Respawn, Spawn
  <2> QED
    BY <1>15, <2>1, <2>3 DEF Crash, Respawn, Spawn, Nothing
<1>16. CASE \/ \E n \in Notes, c \in Contents \cup {Absent} : Edit(n, c)
            \/ \E n \in Notes : \/ Notice(n) \/ PrepareNote(n)
                                \/ PrepareReadFails(n)
            \/ Reindex \/ PersistRetryDue
            \/ LoadModel \/ LoadModelFails \/ MigrateCache \/ StopBeforeOpen
            \/ Wait \/ ReadMetadata \/ StartInference \/ EndBatch
            \/ EncodeCache \/ Stop
  BY <1>1, <1>16 DEF Edit, Notice, PrepareNote, PrepareReadFails, Reindex,
    PersistRetryDue, LoadModel, LoadModelFails, MigrateCache, StopBeforeOpen,
    Wait, ReadMetadata, StartInference, EndBatch, EncodeCache, Stop
<1> QED
  BY <1>1, <1>2, <1>3, <1>4, <1>5, <1>6, <1>7, <1>8, <1>9, <1>10, <1>11,
     <1>12, <1>13, <1>14, <1>15, <1>16
  DEF Next, Watcher, Timers, Coordinator

\* A prepared note carries the hash of contents that exist (prepare_batch).
LEMMA PrepareWorkType ==
  ASSUME TaskTypeOK, VaultTypeOK, NEW n \in Notes
  PROVE  PrepareWork(n) \in Prepared
BY ContentsAssumption DEF PrepareWork, Prepared, VaultTypeOK, TaskTypeOK, Hash

\* The coordinator's local variables keep their types.
LEMMA TaskNext ==
  ASSUME TaskTypeOK, StateTypeOK, VaultTypeOK, [Next]_vars PROVE TaskTypeOK'
<1> USE DEF TaskTypeOK
<1>1. CASE UNCHANGED taskVars
  BY <1>1
<1>2. CASE LoadModel \/ LoadModelFails \/ MigrateCache \/ StopBeforeOpen \/ Stop
  BY <1>2 DEF LoadModel, LoadModelFails, MigrateCache, StopBeforeOpen, Stop,
    Indexed
<1>11. CASE \/ Finalize \/ Wait \/ Wake \/ StartInference \/ EndBatch
            \/ PersistRetryDue
  BY <1>11 DEF Finalize, Wait, Wake, StartInference, EndBatch, PersistRetryDue,
    StateTypeOK
<1>12. CASE ReadMetadata
  BY <1>12 DEF ReadMetadata, VaultTypeOK
<1>13. CASE EncodeCache \/ EnterGate \/ CheckLiveAgain \/ ReplaceCache \/ WriteFails
  BY <1>13 DEF EncodeCache, EnterGate, CheckLiveAgain, ReplaceCache, WriteFails
<1>3. CASE OpenStore
  BY <1>3 DEF OpenStore
<1>4. CASE TakeDueBatch
  BY <1>4 DEF TakeDueBatch, Nothing, StateTypeOK
<1>5. ASSUME NEW n \in Notes, PrepareNote(n) PROVE TaskTypeOK'
  BY <1>5, PrepareWorkType DEF PrepareNote
<1>6. ASSUME NEW n \in Notes, PrepareReadFails(n) PROVE TaskTypeOK'
  BY <1>6 DEF PrepareReadFails, Prepared
<1>7. CASE PrepareTaskFails \/ \E reply \in Replies : Infer(reply)
  BY <1>7 DEF PrepareTaskFails, Infer, Nothing
<1>8. ASSUME NEW n \in Notes,
             CommitRemove(n) \/ RequeueFailedRead(n) \/ SkipUnchanged(n)
             \/ CommitUpsert(n)
      PROVE  TaskTypeOK'
  BY <1>8 DEF CommitRemove, RequeueFailedRead, SkipUnchanged, CommitUpsert,
    Leave, HasNote
<1>9. CASE Crash \/ Respawn
  BY <1>9 DEF Crash, Respawn, Spawn, Nothing
<1>10. CASE \/ \E n \in Notes, c \in Contents \cup {Absent} : Edit(n, c)
            \/ Watcher \/ (\E n \in Notes : RetryDue(n)) \/ BeginDrop \/ EndDrop
  BY <1>1, <1>10 DEF Edit, Watcher, Notice, Reindex, Submit, RetryDue,
    BeginDrop, EndDrop
<1> QED
  BY <1>1, <1>2, <1>3, <1>4, <1>5, <1>6, <1>7, <1>8, <1>9, <1>10,
     <1>11, <1>12, <1>13
  DEF Next, Timers, Coordinator

\* What a commit stores are vectors.
LEMMA VectorsOfType ==
  ASSUME NEW hash \in Hash, NEW head \in Bodies \cup {Absent},
         NEW sp \in Spaces
  PROVE  VectorsOf(hash, head, sp) \in Vectors /\ PartOf(hash, sp) \in Vectors
<1>1. Pieces[hash.body] \in Nat
  BY PiecesAssumption DEF Hash
<1>2. [i \in 1..Pieces[hash.body] |-> hash] \in Seq(Hash)
  BY <1>1
<1>3. <<hash>> \in Seq(Hash)
  OBVIOUS
<1> QED
  BY <1>2, <1>3 DEF VectorsOf, PartOf, NoVectors, Vectors

\* The empty store holds vectors of nothing.
LEMMA NoVectorsType == NoVectors \in Vectors
<1>1. <<>> \in Seq(Hash)
  OBVIOUS
<1> QED
  BY <1>1 DEF NoVectors, Vectors

-----------------------------------------------------------------------------
(* What the coordinator holds at each point of a batch, and what the store, *)
(* the encoded bytes and the cache file therefore contain.                  *)

\* Work prepared for embedding carries a content with at least one chunk.
UpsertsHaveChunks ==
    \A n \in Notes : item[n] # Absent /\ item[n].kind = "upsert" =>
        /\ item[n].hash \in Hash /\ item[n].head \in Bodies
        /\ Pieces[item[n].hash.body] > 0

\* Only changed notes reach the provider, only a full answer is committed, and
\* the writer has something to write.
HeldAtPc ==
    /\ pc = "apply" => \A n \in InBatch : item[n] # Absent
    /\ pc \in {"embed", "commit"} =>
          \A n \in InBatch : item[n] # Absent /\ item[n].kind = "upsert"
    /\ pc = "commit" => answer = "vectors"
    /\ pc \in {"encoded", "write", "rename"} => bytes # Absent

WorkInHand == UpsertsHaveChunks /\ HeldAtPc

\* Work prepared for embedding has a chunk, because a note without chunks is
\* prepared as a removal (prepare_batch).
LEMMA UpsertsNext ==
  ASSUME UpsertsHaveChunks, TaskTypeOK, VaultTypeOK, [Next]_vars
  PROVE  UpsertsHaveChunks'
<1> USE DEF UpsertsHaveChunks
<1>1. CASE UNCHANGED item
  BY <1>1
<1>2. CASE item' = Nothing
  BY <1>2 DEF Nothing
<1>3. ASSUME NEW n \in Notes, Leave(n) PROVE UpsertsHaveChunks'
  BY <1>3 DEF Leave, TaskTypeOK
<1>4. ASSUME NEW n \in Notes, PrepareNote(n) PROVE UpsertsHaveChunks'
  <2>1. PrepareWork(n).kind = "upsert" =>
           /\ PrepareWork(n).hash \in Hash /\ PrepareWork(n).head \in Bodies
           /\ Pieces[PrepareWork(n).hash.body] > 0
    <3> SUFFICES ASSUME PrepareWork(n).kind = "upsert"
                 PROVE  /\ PrepareWork(n).hash \in Hash
                        /\ PrepareWork(n).head \in Bodies
                        /\ Pieces[PrepareWork(n).hash.body] > 0
      OBVIOUS
    <3>1. /\ meta[n] # Absent /\ disk[n] # Absent
          /\ Pieces[disk[n].body] # 0
          /\ PrepareWork(n) =
               [kind |-> "upsert",
                hash |-> [title |-> meta[n].title, body |-> disk[n].body],
                head |-> meta[n].body]
      BY DEF PrepareWork
    <3>2. meta[n] \in Hash /\ disk[n] \in Hash
      BY <3>1, ContentsAssumption DEF TaskTypeOK, VaultTypeOK
    <3>3. Pieces[disk[n].body] > 0
      BY <3>1, <3>2, PiecesAssumption DEF Hash
    <3> QED
      BY <3>1, <3>2, <3>3 DEF Hash
  <2> QED
    BY <1>4, <2>1 DEF PrepareNote, TaskTypeOK
<1>5. ASSUME NEW n \in Notes, PrepareReadFails(n) PROVE UpsertsHaveChunks'
  BY <1>5 DEF PrepareReadFails, TaskTypeOK
<1> QED
  BY <1>1, <1>2, <1>3, <1>4, <1>5
  DEF Next, Watcher, Timers, Coordinator, Edit, Notice, Reindex, Submit,
    PersistRetryDue, RetryDue, BeginDrop, EndDrop, Crash, Respawn, Spawn,
    LoadModel, LoadModelFails, MigrateCache, OpenStore, StopBeforeOpen, Finalize,
    TakeDueBatch, Wait, Wake, ReadMetadata,
    CommitRemove, RequeueFailedRead, SkipUnchanged, CommitUpsert,
    PrepareTaskFails, StartInference, Infer, EndBatch, EncodeCache, EnterGate,
    CheckLiveAgain, ReplaceCache, WriteFails, Stop

\* What the coordinator holds fits its program point, in every step from one
\* point to the next (process_batch, persist_dirty).
LEMMA HeldNext ==
  ASSUME HeldAtPc, TaskTypeOK, StoreTypeOK, VaultTypeOK, [Next]_vars
  PROVE  HeldAtPc'
<1> USE DEF HeldAtPc, InBatch
<1>1. CASE UNCHANGED <<pc, batch, item, answer, bytes>>
  BY <1>1
<1>2. CASE pc' \notin {"apply", "embed", "commit", "encoded", "write", "rename"}
  BY <1>2
<1>3. ASSUME NEW n \in Notes, PrepareNote(n) \/ PrepareReadFails(n)
      PROVE  HeldAtPc'
  <2>1. item'[n] # Absent
    <3>1. item'[n] \in Prepared
      BY <1>3, PrepareWorkType
      DEF PrepareNote, PrepareReadFails, TaskTypeOK, Prepared
    <3> QED
      BY <3>1, AbsentAssumption
  <2>2. pc' = "apply" => \A m \in InBatch' : item'[m] # Absent
    BY <1>3, <2>1 DEF PrepareNote, PrepareReadFails, Unprepared, TaskTypeOK
  <2>3. pc' \in {"apply", "prepare"}
    BY <1>3 DEF PrepareNote, PrepareReadFails
  <2> QED
    BY <2>2, <2>3
<1>4. ASSUME NEW n \in Notes,
             CommitRemove(n) \/ RequeueFailedRead(n) \/ SkipUnchanged(n)
             \/ CommitUpsert(n)
      PROVE  HeldAtPc'
  BY <1>4 DEF CommitRemove, RequeueFailedRead, SkipUnchanged, CommitUpsert,
    Leave, TaskTypeOK
<1>5. CASE StartInference
  BY <1>5 DEF StartInference
<1>6. ASSUME NEW reply \in Replies, Infer(reply) PROVE HeldAtPc'
  BY <1>6 DEF Infer, Accepted
<1>7. CASE EncodeCache \/ EnterGate \/ CheckLiveAgain
  <2>1. [store |-> store, first |-> firstPass, space |-> space] # Absent
    BY AbsentAssumption DEF CacheFile, StoreTypeOK
  <2> QED
    BY <1>7, <2>1 DEF EncodeCache, EnterGate, CheckLiveAgain
<1> QED
  BY <1>1, <1>2, <1>3, <1>4, <1>5, <1>6, <1>7
  DEF Next, Watcher, Timers, Coordinator, Edit, Notice, Reindex, Submit,
    PersistRetryDue, RetryDue, BeginDrop, EndDrop, Crash, Respawn, Spawn,
    LoadModel, LoadModelFails, MigrateCache, OpenStore, StopBeforeOpen, Finalize,
    TakeDueBatch, Wait, Wake, ReadMetadata,
    PrepareTaskFails, EndBatch, CheckLiveAgain, ReplaceCache, WriteFails, Stop

\* The vectors in memory, those being written and those in the file keep
\* their types: each commit stores the vectors of one accepted answer.
LEMMA StoreNext ==
  ASSUME StoreTypeOK, WorkInHand, TaskTypeOK, [Next]_vars PROVE StoreTypeOK'
<1> USE DEF StoreTypeOK
<1>1. CASE UNCHANGED <<store, firstPass, space, bytes, cache, legacy>>
  BY <1>1
<1>2. CASE MigrateCache
  BY <1>2, LegaciesAssumption DEF MigrateCache
<1>3. CASE OpenStore
  <2>1. Loaded(cache) \in [Notes -> Vectors]
    BY NoVectorsType DEF Loaded, Loadable, NoStore, CacheFile
  <2>2. Retained(Loaded(cache)) \in [Notes -> Vectors]
    BY <2>1, NoVectorsType DEF Retained
  <2>3. firstPass' \in BOOLEAN
    BY <1>3 DEF OpenStore, Loadable, CacheFile
  <2> QED
    BY <1>3, <2>2, <2>3 DEF OpenStore
<1>4. CASE Finalize
  BY <1>4 DEF Finalize
<1>5. ASSUME NEW n \in Notes, CommitRemove(n) PROVE StoreTypeOK'
  BY <1>5, NoVectorsType DEF CommitRemove
<1>6. ASSUME NEW n \in Notes, CommitUpsert(n) PROVE StoreTypeOK'
  <2>1. item[n].hash \in Hash /\ item[n].head \in Bodies
    BY <1>6 DEF CommitUpsert, WorkInHand, HeldAtPc, UpsertsHaveChunks
  <2>2. /\ VectorsOf(item[n].hash, item[n].head, space) \in Vectors
        /\ PartOf(item[n].hash, space) \in Vectors
    BY <2>1, VectorsOfType
  <2> QED
    BY <1>6, <2>2 DEF CommitUpsert
<1>7. CASE EncodeCache
  BY <1>7 DEF EncodeCache, CacheFile
<1>8. CASE CheckLiveAgain \/ ReplaceCache \/ WriteFails
  BY <1>8 DEF CheckLiveAgain, ReplaceCache, WriteFails
<1>9. CASE Crash \/ Respawn
  BY <1>9, NoVectorsType DEF Crash, Respawn, Spawn, NoStore
<1> QED
  BY <1>1, <1>2, <1>3, <1>4, <1>5, <1>6, <1>7, <1>8, <1>9
  DEF Next, Watcher, Timers, Coordinator, Edit, Notice, Reindex, Submit,
    PersistRetryDue, RetryDue, BeginDrop, EndDrop,
    LoadModel, LoadModelFails, StopBeforeOpen,
    TakeDueBatch, Wait, Wake, ReadMetadata, PrepareNote, PrepareReadFails,
    RequeueFailedRead, SkipUnchanged,
    PrepareTaskFails, StartInference, Infer, EndBatch, EnterGate, Stop

\* The counters of edits, failures and restarts stay within their bounds.
LEMMA BoundsNext == ASSUME BoundsTypeOK, [Next]_vars PROVE BoundsTypeOK'
<1> USE BoundsAssumption DEF BoundsTypeOK
<1>1. CASE UNCHANGED boundVars
  BY <1>1
<1>2. CASE Fault
  BY <1>2 DEF Fault
<1>3. CASE restarts < MaxRestarts /\ restarts' = restarts + 1
           /\ UNCHANGED <<edits, faults>>
  BY <1>3
<1>4. CASE edits < MaxEdits /\ edits' = edits + 1
           /\ UNCHANGED <<faults, restarts>>
  BY <1>4
<1> QED
  BY <1>1, <1>2, <1>3, <1>4
  DEF Next, Watcher, Timers, Coordinator, Edit, Notice, Reindex, Submit,
    PersistRetryDue, RetryDue, BeginDrop, EndDrop, Crash, Respawn,
    LoadModel, LoadModelFails, MigrateCache, OpenStore, StopBeforeOpen, Finalize,
    TakeDueBatch, Wait, Wake, ReadMetadata, PrepareNote, PrepareReadFails,
    CommitRemove, RequeueFailedRead, SkipUnchanged, CommitUpsert,
    PrepareTaskFails, StartInference, Infer, EndBatch, EncodeCache, EnterGate,
    CheckLiveAgain, ReplaceCache, WriteFails, Stop

\* The state a process starts in, whatever cache was left, is of the types.
LEMMA TypeInit == ASSUME Init PROVE TypeOK /\ WorkInHand
<1> DEFINE present == {n \in Notes : disk[n] # Absent}
<1>1. VaultTypeOK
  BY DEF Init, VaultTypeOK
<1>2. StateTypeOK
  <2>1. Cardinality(present) \in Nat
    BY FS_Subset, FS_CardinalityType, NotesAssumption
  <2>2. IntentsFor(present, 0) \in [present -> Work]
    BY IntentsForType
  <2>3. pending \in [Notes -> Work \cup {Absent}]
    BY <2>2 DEF Init
  <2> QED
    BY <2>1, <2>3 DEF Init, StateTypeOK, Nothing
<1>3. TaskTypeOK
  BY DEF Init, TaskTypeOK, Nothing
<1>4. StoreTypeOK
  BY NoVectorsType DEF Init, StoreTypeOK, NoStore
<1>5. BoundsTypeOK
  BY BoundsAssumption DEF Init, BoundsTypeOK
<1>6. WorkInHand
  BY DEF Init, WorkInHand, UpsertsHaveChunks, HeldAtPc, Nothing
<1> QED
  BY <1>1, <1>2, <1>3, <1>4, <1>5, <1>6 DEF TypeOK

\* Every variable keeps its type, and what the coordinator has in hand fits
\* the point its task has reached (run_coordinator, process_batch).
THEOREM TypeCorrect == Spec => [](TypeOK /\ WorkInHand)
<1>1. Init => TypeOK /\ WorkInHand
  BY TypeInit
<1>2. TypeOK /\ WorkInHand /\ [Next]_vars => (TypeOK /\ WorkInHand)'
  BY VaultNext, StateNext, TaskNext, StoreNext, BoundsNext, UpsertsNext, HeldNext
  DEF TypeOK, WorkInHand
<1> QED
  BY <1>1, <1>2, PTL DEF Spec

-----------------------------------------------------------------------------
(* Notes are embedded as a whole.                                          *)

BytesAreWhole ==
    bytes # Absent => \A n \in Notes : Whole(bytes.store[n], bytes.space)

\* An accepted answer covers every chunk of the content, so what a commit
\* stores is whole (commit_upsert_chunks).
LEMMA CommittedIsWhole ==
  ASSUME NEW hash \in Hash, Pieces[hash.body] > 0, NEW head, NEW sp
  PROVE  Whole(VectorsOf(hash, head, sp), sp)
BY AbsentAssumption DEF Whole, VectorsOf

\* Wholeness survives every step: stores change by whole commits, by removals
\* of whole notes and by loading a cache of the space, and the file by a rename.
LEMMA WholeNext ==
  ASSUME NotesAreWhole, BytesAreWhole, TypeOK, WorkInHand, [Next]_vars
  PROVE  (NotesAreWhole /\ BytesAreWhole)'
<1> USE DEF NotesAreWhole, BytesAreWhole
<1>1. CASE UNCHANGED <<store, space, bytes, cache>>
  BY <1>1 DEF Whole
<1>2. CASE MigrateCache
  BY <1>2, LegaciesAssumption DEF MigrateCache, Whole, TypeOK, StoreTypeOK
<1>3. CASE OpenStore
  <2>1. \A n \in Notes : Whole(Retained(Loaded(cache))[n], space)
    BY DEF Retained, Loaded, Loadable, NoStore, Whole
  <2> QED
    BY <1>3, <2>1 DEF OpenStore, Whole
<1>4. ASSUME NEW n \in Notes, CommitRemove(n) PROVE NotesAreWhole' /\ BytesAreWhole'
  BY <1>4 DEF CommitRemove, Whole, TypeOK, StoreTypeOK
<1>5. ASSUME NEW n \in Notes, CommitUpsert(n) PROVE NotesAreWhole' /\ BytesAreWhole'
  <2>1. /\ item[n].hash \in Hash /\ Pieces[item[n].hash.body] > 0
        /\ answer = "vectors"
    BY <1>5 DEF CommitUpsert, WorkInHand, HeldAtPc, UpsertsHaveChunks
  <2>2. Whole(VectorsOf(item[n].hash, item[n].head, space), space)
    BY <2>1, CommittedIsWhole
  <2>3. \A m \in Notes : Whole(store'[m], space)
    BY <1>5, <2>1, <2>2 DEF CommitUpsert, TypeOK, StoreTypeOK
  <2>4. UNCHANGED <<space, bytes, cache>>
    BY <1>5 DEF CommitUpsert
  <2> QED
    BY <2>3, <2>4 DEF Whole
<1>6. CASE EncodeCache
  BY <1>6 DEF EncodeCache, Whole
<1>7. CASE CheckLiveAgain \/ ReplaceCache \/ WriteFails
  BY <1>7, AbsentAssumption DEF CheckLiveAgain, ReplaceCache, WriteFails, Whole
<1>8. CASE Crash \/ Respawn
  BY <1>8 DEF Crash, Respawn, Spawn, Whole, NoStore
<1> QED
  BY <1>1, <1>2, <1>3, <1>4, <1>5, <1>6, <1>7, <1>8
  DEF Next, Watcher, Timers, Coordinator, Edit, Notice, Reindex, Submit,
    PersistRetryDue, RetryDue, BeginDrop, EndDrop,
    LoadModel, LoadModelFails, StopBeforeOpen, Finalize,
    TakeDueBatch, Wait, Wake, ReadMetadata, PrepareNote, PrepareReadFails,
    RequeueFailedRead, SkipUnchanged,
    PrepareTaskFails, StartInference, Infer, EndBatch, EnterGate, Stop

\* In memory and in the cache file, chunks and summary of a note come from one
\* commit of one model (commit_upsert_chunks, load_for_space, persist_store).
THEOREM WholeNotes == Spec => []NotesAreWhole
<1>1. Init => NotesAreWhole /\ BytesAreWhole
  BY DEF Init, NotesAreWhole, BytesAreWhole, Whole, NoStore
<1>2. NotesAreWhole /\ BytesAreWhole /\ TypeOK /\ WorkInHand /\ [Next]_vars
        => (NotesAreWhole /\ BytesAreWhole)'
  BY WholeNext
<1> QED
  BY <1>1, <1>2, TypeCorrect, PTL DEF Spec


-----------------------------------------------------------------------------
(* The invariants.                                                         *)

\* Work in flight is the work of the batch: there is no other while the
\* runtime is live.
InflightIsBatch(n) ==
    /\ batch[n] # Absent => inflight[n] = batch[n].gen
    /\ live /\ batch[n] = Absent => inflight[n] = Absent

\* Generations have been handed out, and queued work is newer than work in
\* flight for the same note.
Ordered(n) ==
    /\ pending[n] # Absent => pending[n].gen \in 1..nextGen
    /\ inflight[n] # Absent => inflight[n] \in 1..nextGen
    /\ pending[n] # Absent /\ inflight[n] # Absent => inflight[n] < pending[n].gen

\* Before the store is open there is no work in flight, no result and no error.
Fresh ==
    /\ inflight = Nothing /\ remaining = {} /\ failures = {}
    /\ ~complete /\ ~persistError /\ ~queryable

InOrder ==
    /\ \A n \in Notes : InflightIsBatch(n) /\ Ordered(n)
    /\ InBatch # {} => pc \in {"meta", "prepare", "apply", "embed", "commit", "stopped"}
    /\ pc \in {"load", "migrate", "open", "failed"} => ~started
    /\ ~started => pc \in {"load", "migrate", "open", "failed", "stopped"} /\ Fresh

\* The gate is held exactly while the cache file is written, never after the
\* drop; and what is being written, served or complained of is what the flags
\* say.
Accounted ==
    /\ gate <=> pc \in {"write", "rename"}
    /\ dropped => ~live /\ ~gate
    /\ pc \in {"encoded", "write", "rename"} =>
          dirty /\ bytes.first = firstPass /\ bytes.space = space
    /\ complete => remaining = {} /\ firstPass
    /\ queryable => firstPass
    /\ complete /\ HasVectors(store) => queryable
    /\ persistError => dirty
    /\ NothingHalfPublished

\* A note whose first pass is open or whose failure is recorded has work.
Remembered == live => remaining \cup failures \subseteq Outstanding

\* Nobody in front of the queue has something to say about note n.
Heard(n) == n \notin owed /\ (hand = Absent \/ hand.note # n)

\* The index follows the file, as far as the watcher has come.
IndexFollows(n) ==
    n \notin owed =>
        /\ hand = Absent \/ hand.note # n => index[n] = disk[n]
        /\ hand # Absent /\ hand.note = n =>
              /\ hand.kind = "remove" <=> disk[n] = Absent
              /\ hand.indexed => index[n] = disk[n]

\* So does the work: a removal means there is no file, what was read is what
\* is in the file, and a note without work has the vectors of the file.
WorkFollows(n) ==
    live /\ Heard(n) =>
        /\ pending[n] # Absent /\ pending[n].kind = "remove" => disk[n] = Absent
        /\ pending[n] = Absent =>
              /\ pc \in {"migrate", "open"} /\ n \notin paths => disk[n] = Absent
              /\ batch[n] # Absent =>
                    /\ batch[n].kind = "remove" => disk[n] = Absent
                    /\ pc = "prepare" => meta[n] = disk[n]
                    /\ item[n] # Absent =>
                          /\ item[n].kind = "remove" => Reflects(NoVectors, disk[n])
                          /\ item[n].kind = "upsert" => item[n].hash = disk[n]
              /\ started /\ batch[n] = Absent => Reflects(store[n], disk[n])

Follows(n) == IndexFollows(n) /\ WorkFollows(n)

RuntimeInv ==
    /\ TypeOK /\ WorkInHand /\ NotesAreWhole /\ BytesAreWhole
    /\ InOrder /\ Accounted /\ Remembered /\ \A n \in Notes : Follows(n)

-----------------------------------------------------------------------------
(* Generations.                                                            *)

\* The intents of a first pass take fresh generations, one for each note
\* (spawn_with_cache_sources, run_coordinator).
LEMMA IntentsForOrder ==
  ASSUME NEW S \in SUBSET Notes, NEW gen \in Nat
  PROVE  /\ Cardinality(S) \in Nat
         /\ \A n \in S : IntentsFor(S, gen)[n].gen \in gen + 1 .. gen + Cardinality(S)
         /\ \A n, m \in S : n # m => IntentsFor(S, gen)[n].gen # IntentsFor(S, gen)[m].gen
<1> DEFINE upTo(n) == {m \in S : m <= n}
<1>1. IsFiniteSet(S) /\ Cardinality(S) \in Nat
  BY FS_Subset, FS_CardinalityType, NotesAssumption
<1>2. \A n \in S : /\ IsFiniteSet(upTo(n)) /\ Cardinality(upTo(n)) \in Nat
                   /\ Cardinality(upTo(n)) <= Cardinality(S)
  <2> TAKE n \in S
  <2>1. upTo(n) \in SUBSET S
    OBVIOUS
  <2> QED
    BY <1>1, <2>1, FS_Subset, FS_CardinalityType
<1>3. \A n \in S : Cardinality(upTo(n)) # 0
  <2> TAKE n \in S
  <2>1. n \in upTo(n)
    BY NotesAssumption
  <2> QED
    BY <1>2, <2>1, FS_EmptySet
<1>4. \A n, m \in S : n < m => Cardinality(upTo(n)) # Cardinality(upTo(m))
  <2> TAKE n, m \in S
  <2> HAVE n < m
  <2>1. upTo(n) \subseteq upTo(m)
    <3> SUFFICES ASSUME NEW k \in S, k <= n PROVE k <= m
      OBVIOUS
    <3>1. k \in Nat /\ n \in Nat /\ m \in Nat
      BY NotesAssumption
    <3> QED
      BY <3>1
  <2>2. m \in upTo(m) /\ m \notin upTo(n)
    BY NotesAssumption
  <2> QED
    BY <1>2, <2>1, <2>2, FS_Subset
<1>5. \A n \in S : IntentsFor(S, gen)[n].gen = gen + Cardinality(upTo(n))
  BY DEF IntentsFor, Intent
<1> HIDE DEF upTo
<1>6. \A n \in S : IntentsFor(S, gen)[n].gen \in gen + 1 .. gen + Cardinality(S)
  BY <1>1, <1>2, <1>3, <1>5
<1>7. ASSUME NEW n \in S, NEW m \in S, n # m
      PROVE  IntentsFor(S, gen)[n].gen # IntentsFor(S, gen)[m].gen
  <2>1. n < m \/ m < n
    BY <1>7, NotesAssumption
  <2> QED
    BY <1>2, <1>4, <1>5, <2>1
<1> QED
  BY <1>1, <1>6, <1>7

\* Work in hand is current exactly if nothing newer is queued (state_generation).
LEMMA CurrentMeans ==
  ASSUME StateTypeOK, TaskTypeOK, NEW n \in InBatch,
         InflightIsBatch(n), Ordered(n)
  PROVE  /\ IsCurrent(n) <=> pending[n] = Absent
         /\ inflight[n] = batch[n].gen /\ inflight[n] # Absent
<1>1. n \in Notes /\ batch[n] # Absent /\ batch[n] \in Work
  BY DEF InBatch, TaskTypeOK
<1>2. inflight[n] = batch[n].gen /\ inflight[n] \in Nat
  BY <1>1 DEF InflightIsBatch, Work
<1>3. pending[n] # Absent => pending[n].gen # inflight[n]
  BY <1>1, <1>2, AbsentAssumption DEF Ordered, StateTypeOK, Work
<1> QED
  BY <1>1, <1>2, <1>3, AbsentAssumption DEF IsCurrent, StateGeneration

\* A batch that failed goes back to the queue, but for the notes with a newer
\* intent there (requeue_failure).
LEMMA RequeueGives ==
  ASSUME StateTypeOK, TaskTypeOK, NEW S \in SUBSET InBatch,
         \A n \in Notes : InflightIsBatch(n) /\ Ordered(n), RequeueFailure(S)
  PROVE  /\ \A n \in S :
              /\ inflight'[n] = Absent /\ pending'[n] # Absent
              /\ pending[n] # Absent => pending'[n] = pending[n]
              /\ pending[n] = Absent => /\ pending'[n].gen = inflight[n]
                                        /\ pending'[n].kind = batch[n].kind
         /\ \A n \in Notes \ S : inflight'[n] = inflight[n] /\ pending'[n] = pending[n]
         /\ remaining' \subseteq remaining
         /\ remaining' \cup failures' \subseteq remaining \cup failures \cup S
<1>1. ASSUME NEW n \in S
      PROVE  /\ inflight'[n] = Absent /\ pending'[n] # Absent
             /\ pending[n] # Absent => pending'[n] = pending[n]
             /\ pending[n] = Absent => /\ pending'[n].gen = inflight[n]
                                       /\ pending'[n].kind = batch[n].kind
  <2>1. n \in InBatch /\ n \in Notes /\ batch[n] \in Work
    BY DEF InBatch, TaskTypeOK
  <2>2. /\ IsCurrent(n) <=> pending[n] = Absent
        /\ inflight[n] = batch[n].gen
    BY <2>1, CurrentMeans
  <2>3. /\ [batch[n] EXCEPT !.due = FALSE] # Absent
        /\ [batch[n] EXCEPT !.due = FALSE].gen = batch[n].gen
        /\ [batch[n] EXCEPT !.due = FALSE].kind = batch[n].kind
    BY <2>1, AbsentAssumption DEF Work
  <2>4. inflight'[n] = Absent
    BY <2>1 DEF RequeueFailure
  <2>5. pending'[n] = IF IsCurrent(n) THEN [batch[n] EXCEPT !.due = FALSE]
                                      ELSE pending[n]
    BY <2>1 DEF RequeueFailure
  <2> QED
    BY <2>2, <2>3, <2>4, <2>5
<1>2. \A n \in Notes \ S : inflight'[n] = inflight[n] /\ pending'[n] = pending[n]
  BY DEF RequeueFailure
<1>3. /\ remaining' \subseteq remaining
      /\ remaining' \cup failures' \subseteq remaining \cup failures \cup S
  BY DEF RequeueFailure
<1> QED
  BY <1>1, <1>2, <1>3

\* Every intent of the state a runtime starts in is of the first generations.
LEMMA SpawnOrder ==
  ASSUME NEW S \in SUBSET Notes, NEW q, NEW l,
         l = Cardinality(S),
         q = [n \in Notes |-> IF n \in S THEN IntentsFor(S, 0)[n] ELSE Absent]
  PROVE  \A n \in Notes : q[n] # Absent => q[n].gen \in 1..l
BY IntentsForOrder

\* Queued work stays newer than work in flight, and work in flight is that of
\* the batch (submit, take_due_batch, requeue_failure, finish_success).
LEMMA GensNext ==
  ASSUME TypeOK, InOrder, [Next]_vars
  PROVE  (\A n \in Notes : InflightIsBatch(n) /\ Ordered(n))'
<1> USE DEF TypeOK, InOrder
<1> DEFINE Gens == \A n \in Notes : InflightIsBatch(n) /\ Ordered(n)
<1> SUFFICES Gens'
  OBVIOUS
<1>1. CASE UNCHANGED <<nextGen, pending, inflight, batch, live>>
  BY <1>1 DEF InflightIsBatch, Ordered
<1>2. CASE BeginDrop
  BY <1>2 DEF BeginDrop, InflightIsBatch, Ordered
<1>3. CASE Submit
  <2>1. CASE ~live
    BY <1>3, <2>1, <1>1 DEF Submit
  <2>2. CASE live
    <3>1. /\ nextGen' = nextGen + 1
          /\ pending' = [pending EXCEPT ![hand.note] = Intent(nextGen + 1, hand.kind)]
          /\ UNCHANGED <<inflight, batch, live>>
      BY <1>3, <2>2 DEF Submit
    <3>2. \A n \in Notes : Ordered(n)'
      BY <3>1, AbsentAssumption DEF Ordered, Intent, StateTypeOK, Work
    <3> QED
      BY <3>1, <3>2 DEF InflightIsBatch
  <2> QED
    BY <2>1, <2>2
<1>4. CASE OpenStore
  <2> DEFINE fresh == {n \in paths : pending[n] = Absent}
  <2>1. fresh \in SUBSET Notes /\ nextGen \in Nat
    BY DEF TaskTypeOK, StateTypeOK
  <2>2. /\ Cardinality(fresh) \in Nat
        /\ \A n \in fresh : IntentsFor(fresh, nextGen)[n].gen
                              \in nextGen + 1 .. nextGen + Cardinality(fresh)
    BY <2>1, IntentsForOrder
  <2>3. /\ pending' = [n \in Notes |-> IF n \in fresh THEN IntentsFor(fresh, nextGen)[n]
                                                      ELSE pending[n]]
        /\ nextGen' = nextGen + Cardinality(fresh)
        /\ UNCHANGED <<inflight, batch, live>>
    BY <1>4 DEF OpenStore
  <2>4. inflight = Nothing
    BY <1>4 DEF OpenStore, Fresh
  <2> HIDE DEF fresh
  <2>5. \A n \in Notes : Ordered(n)'
    BY <2>1, <2>2, <2>3, <2>4 DEF Ordered, Nothing
  <2> QED
    BY <2>3, <2>5 DEF InflightIsBatch
<1>5. ASSUME NEW n \in Notes, RetryDue(n) PROVE Gens'
  <2>1. [pending[n] EXCEPT !.due = TRUE].gen = pending[n].gen
    BY <1>5 DEF RetryDue, StateTypeOK, Work
  <2> QED
    BY <1>5, <2>1 DEF RetryDue, InflightIsBatch, Ordered, StateTypeOK
<1>6. CASE TakeDueBatch
  <2>1. PICK S \in SUBSET Due :
          /\ batch'    = [n \in Notes |-> IF n \in S THEN pending[n] ELSE Absent]
          /\ inflight' = [n \in Notes |-> IF n \in S THEN pending[n].gen
                                                     ELSE inflight[n]]
          /\ pending'  = [n \in Notes |-> IF n \in S THEN Absent ELSE pending[n]]
    BY <1>6 DEF TakeDueBatch
  <2>2. InBatch = {} /\ UNCHANGED <<nextGen, live>>
    BY <1>6 DEF TakeDueBatch
  <2>3. \A n \in Notes : batch[n] = Absent
    BY <2>2 DEF InBatch
  <2> QED
    BY <2>1, <2>2, <2>3 DEF InflightIsBatch, Ordered, Due
<1>7. ASSUME NEW S \in SUBSET InBatch, RequeueFailure(S), UNCHANGED <<nextGen, live>>,
             \A n \in Notes : batch'[n] = IF n \in S THEN Absent ELSE batch[n]
      PROVE  Gens'
  <2>1. /\ \A n \in S :
              /\ inflight'[n] = Absent /\ pending'[n] # Absent
              /\ pending[n] # Absent => pending'[n] = pending[n]
              /\ pending[n] = Absent => pending'[n].gen = inflight[n]
        /\ \A n \in Notes \ S : inflight'[n] = inflight[n] /\ pending'[n] = pending[n]
    BY <1>7, RequeueGives
  <2>2. \A n \in S : inflight[n] # Absent
    BY CurrentMeans DEF InBatch
  <2> QED
    BY <1>7, <2>1, <2>2 DEF InflightIsBatch, Ordered
<1>8. ASSUME NEW n \in Notes, FinishSuccess(n) \/ Discard(n), Leave(n),
             UNCHANGED <<nextGen, live>>
      PROVE  Gens'
  BY <1>8 DEF FinishSuccess, Discard, Leave, InflightIsBatch, Ordered,
    StateTypeOK, TaskTypeOK
<1>9. ASSUME NEW n \in Notes, Leave(n), ~live,
             UNCHANGED <<nextGen, pending, inflight, live>>
      PROVE  Gens'
  BY <1>9 DEF Leave, InflightIsBatch, Ordered, TaskTypeOK
<1>10. CASE PrepareTaskFails \/ \E reply \in Replies : Infer(reply)
  <2>1. CASE RequeueFailure(InBatch) /\ batch' = Nothing /\ UNCHANGED <<nextGen, live>>
    BY <1>7, <2>1 DEF Nothing, InBatch
  <2> QED
    BY <1>1, <1>10, <2>1 DEF PrepareTaskFails, Infer
<1>11. ASSUME NEW n \in Notes, RequeueFailure({n}), Leave(n), n \in InBatch,
              UNCHANGED <<nextGen, live>>
       PROVE  Gens'
  <2>1. \A m \in Notes : batch'[m] = IF m \in {n} THEN Absent ELSE batch[m]
    BY <1>11 DEF Leave, TaskTypeOK
  <2> QED
    BY <1>7, <1>11, <2>1
<1>12. ASSUME NEW n \in Notes,
              CommitRemove(n) \/ RequeueFailedRead(n) \/ SkipUnchanged(n) \/ CommitUpsert(n)
       PROVE  Gens'
  BY <1>8, <1>9, <1>11, <1>12
  DEF CommitRemove, RequeueFailedRead, SkipUnchanged, CommitUpsert
<1>13. CASE Crash \/ Respawn
  <2> DEFINE present == {n \in Notes : disk[n] # Absent}
  <2>1. /\ nextGen' = Cardinality(present)
        /\ pending' = [n \in Notes |-> IF n \in present THEN IntentsFor(present, 0)[n]
                                                        ELSE Absent]
        /\ inflight' = Nothing /\ batch' = Nothing
    BY <1>13 DEF Crash, Respawn, Spawn
  <2>2. present \in SUBSET Notes
    OBVIOUS
  <2> HIDE DEF present
  <2>3. \A n \in Notes : pending'[n] # Absent => pending'[n].gen \in 1..nextGen'
    BY <2>1, <2>2, SpawnOrder
  <2> QED
    BY <2>1, <2>3 DEF InflightIsBatch, Ordered, Nothing
<1> QED
  BY <1>1, <1>2, <1>3, <1>4, <1>5, <1>6, <1>10, <1>12, <1>13
  DEF Next, Watcher, Timers, Coordinator, Edit, Notice, Reindex,
    PersistRetryDue, EndDrop, LoadModel, LoadModelFails, MigrateCache,
    StopBeforeOpen, Finalize, Wait, Wake, ReadMetadata, PrepareNote,
    PrepareReadFails, StartInference, EndBatch, EncodeCache,
    EnterGate, CheckLiveAgain, ReplaceCache, WriteFails, Stop

\* A batch is in hand only between its taking and its end, and nothing is in
\* flight, counted or complained of before the store is open (run_coordinator).
LEMMA InOrderNext == ASSUME TypeOK, WorkInHand, InOrder, [Next]_vars PROVE InOrder'
<1> USE DEF TypeOK, InOrder
<1> DEFINE Phases ==
      /\ InBatch # {} => pc \in {"meta", "prepare", "apply", "embed", "commit", "stopped"}
      /\ pc \in {"load", "migrate", "open", "failed"} => ~started
      /\ ~started => pc \in {"load", "migrate", "open", "failed", "stopped"} /\ Fresh
<1>1. (\A n \in Notes : InflightIsBatch(n) /\ Ordered(n))'
  BY GensNext
<1>2. SUFFICES Phases'
  BY <1>1
<1> USE DEF InBatch, Fresh
<1>3. CASE UNCHANGED <<pc, batch, started, complete, persistError, queryable, inflight,
                       remaining, failures>>
  BY <1>3
<1>4. CASE /\ started /\ UNCHANGED started
           /\ pc' \notin {"load", "migrate", "open", "failed"}
           /\ InBatch' # {} => pc' \in {"meta", "prepare", "apply", "embed", "commit", "stopped"}
  BY <1>4
<1>5. CASE LoadModel \/ LoadModelFails \/ MigrateCache \/ StopBeforeOpen \/ Stop
  BY <1>5 DEF LoadModel, LoadModelFails, MigrateCache, StopBeforeOpen, Stop
<1>6. CASE OpenStore
  BY <1>6 DEF OpenStore
<1>7. CASE Crash \/ Respawn
  BY <1>7 DEF Crash, Respawn, Spawn, Nothing
<1>8. CASE TakeDueBatch
  BY <1>4, <1>8 DEF TakeDueBatch
<1>9. CASE \/ Finalize \/ Wait \/ Wake \/ ReadMetadata \/ PrepareTaskFails
           \/ StartInference \/ EndBatch \/ EncodeCache \/ EnterGate
           \/ CheckLiveAgain \/ ReplaceCache \/ WriteFails
           \/ (\E reply \in Replies : Infer(reply))
           \/ (\E n \in Notes : PrepareNote(n) \/ PrepareReadFails(n))
  BY <1>4, <1>9
  DEF Finalize, Wait, Wake, ReadMetadata, PrepareTaskFails, StartInference,
    EndBatch, EncodeCache, EnterGate, CheckLiveAgain, ReplaceCache, WriteFails,
    Infer, PrepareNote, PrepareReadFails, Nothing
<1>10. ASSUME NEW n \in Notes,
              CommitRemove(n) \/ RequeueFailedRead(n) \/ SkipUnchanged(n) \/ CommitUpsert(n)
       PROVE  Phases'
  BY <1>4, <1>10
  DEF CommitRemove, RequeueFailedRead, SkipUnchanged, CommitUpsert
<1>11. ASSUME NEW n \in Notes, RetryDue(n) PROVE Phases'
  BY <1>11 DEF RetryDue
<1>12. CASE \/ \E n \in Notes, c \in Contents \cup {Absent} : Edit(n, c)
            \/ \E n \in Notes : Notice(n)
            \/ Reindex \/ Submit \/ PersistRetryDue \/ BeginDrop \/ EndDrop
  BY <1>3, <1>12 DEF Edit, Notice, Reindex, Submit, PersistRetryDue, BeginDrop, EndDrop
<1> QED
  BY <1>3, <1>5, <1>6, <1>7, <1>8, <1>9, <1>10, <1>11, <1>12
  DEF Next, Watcher, Timers, Coordinator

-----------------------------------------------------------------------------
(* Flags, gate and cache.                                                  *)

\* The gate, the cache being written and the published flags agree in every
\* step (finalize_reconciliation_if_complete, persist_dirty, RuntimeControl::drop).
LEMMA AccountedNext ==
  ASSUME TypeOK, WorkInHand, InOrder, Accounted, [Next]_vars PROVE Accounted'
<1> USE DEF TypeOK, Accounted, NothingHalfPublished, Loadable
<1>1. CASE UNCHANGED <<pc, gate, dropped, live, dirty, bytes, firstPass, space, complete,
                       remaining, queryable, store, persistError, cache>>
  BY <1>1 DEF HasVectors, HasNote
<1>2. CASE /\ pc \notin {"encoded", "write", "rename"}
           /\ pc' \notin {"encoded", "write", "rename"}
           /\ UNCHANGED <<gate, dropped, live, dirty, bytes, firstPass, space, complete,
                          queryable, store, persistError, cache>>
           /\ remaining' \subseteq remaining
  BY <1>2 DEF HasVectors, HasNote
<1>3. CASE MigrateCache
  BY <1>3 DEF MigrateCache, HasVectors, HasNote, InOrder, Fresh
<1>4. CASE OpenStore
  <2>1. ~complete /\ ~persistError /\ ~gate
    BY <1>4 DEF OpenStore, InOrder, Fresh
  <2>2. queryable' => firstPass' /\ Loadable(cache) /\ cache.first
    BY <1>4 DEF OpenStore, Publishable
  <2>3. UNCHANGED <<complete, persistError, gate, dropped, live, cache, space>>
    BY <1>4 DEF OpenStore
  <2>4. pc' = "finalize"
    BY <1>4 DEF OpenStore
  <2> QED
    BY <2>1, <2>2, <2>3, <2>4, <1>4
<1>5. CASE Finalize
  <2>1. CASE live /\ started /\ ~complete /\ remaining = {}
    <3>1. /\ complete' = TRUE /\ firstPass' = TRUE
          /\ queryable' = (queryable \/ Indexed = {} \/ HasVectors(store))
          /\ UNCHANGED <<store, remaining, gate, dropped, live, persistError, space, cache, bytes>>
          /\ dirty' = (dirty \/ ~firstPass)
          /\ pc = "finalize" /\ pc' = "loop"
      BY <1>5, <2>1 DEF Finalize
    <3>2. HasVectors(store)' => queryable'
      BY <3>1 DEF HasVectors, HasNote
    <3> QED
      BY <2>1, <3>1, <3>2
  <2>2. CASE ~(live /\ started /\ ~complete /\ remaining = {})
    BY <1>2, <1>5, <2>2 DEF Finalize
  <2> QED
    BY <2>1, <2>2
<1>6. ASSUME NEW n \in Notes, CommitRemove(n) PROVE Accounted'
  <2>1. HasVectors(store)' => HasVectors(store)
    BY <1>6 DEF CommitRemove, HasVectors, HasNote, NoVectors, StoreTypeOK
  <2>2. /\ pc = "apply" /\ remaining' \subseteq remaining
        /\ UNCHANGED <<pc, gate, dropped, live, bytes, firstPass, space, complete,
                       queryable, persistError, cache>>
        /\ dirty => dirty'
    BY <1>6 DEF CommitRemove, FinishSuccess, Discard
  <2> QED
    BY <2>1, <2>2
<1>7. ASSUME NEW n \in Notes, CommitUpsert(n) PROVE Accounted'
  <2>1. answer = "vectors"
    BY <1>7 DEF CommitUpsert, WorkInHand, HeldAtPc
  <2>2. /\ pc = "commit" /\ remaining' \subseteq remaining
        /\ UNCHANGED <<pc, gate, dropped, live, bytes, firstPass, space, complete,
                       persistError, cache>>
        /\ dirty => dirty'
        /\ \/ UNCHANGED <<store, queryable>>
           \/ queryable' = (queryable \/ complete)
    BY <1>7, <2>1 DEF CommitUpsert, FinishSuccess, Discard
  <2>3. CASE UNCHANGED <<store, queryable>>
    BY <2>2, <2>3 DEF HasVectors, HasNote
  <2>4. CASE queryable' = (queryable \/ complete)
    BY <2>2, <2>4
  <2> QED
    BY <2>2, <2>3, <2>4
<1>8. CASE EncodeCache
  BY <1>8 DEF EncodeCache, HasVectors, HasNote
<1>9. CASE EnterGate \/ CheckLiveAgain
  BY <1>9 DEF EnterGate, CheckLiveAgain, HasVectors, HasNote
<1>10. CASE ReplaceCache
  <2>1. /\ pc = "rename" /\ pc' = "loop" /\ gate' = FALSE /\ cache' = bytes
        /\ persistError' = FALSE
        /\ UNCHANGED <<complete, remaining, queryable, store, firstPass, space, live,
                       dropped>>
    BY <1>10 DEF ReplaceCache
  <2>2. cache' # Absent /\ cache'.first = firstPass /\ cache'.space = space
    BY <2>1 DEF WorkInHand, HeldAtPc
  <2> QED
    BY <2>1, <2>2 DEF HasVectors, HasNote
<1>11. CASE WriteFails
  BY <1>11 DEF WriteFails, HasVectors, HasNote
<1>12. CASE BeginDrop \/ EndDrop
  BY <1>12 DEF BeginDrop, EndDrop, HasVectors, HasNote
<1>13. CASE Crash \/ Respawn
  BY <1>13 DEF Crash, Respawn, Spawn
<1>14. ASSUME NEW S \in SUBSET Notes, RequeueFailure(S) PROVE remaining' \subseteq remaining
  BY <1>14 DEF RequeueFailure
<1>15. CASE PrepareTaskFails \/ \E reply \in Replies : Infer(reply)
  BY <1>2, <1>14, <1>15 DEF PrepareTaskFails, Infer, InBatch
<1>16. ASSUME NEW n \in Notes, RequeueFailedRead(n) \/ SkipUnchanged(n) PROVE Accounted'
  BY <1>2, <1>14, <1>16 DEF RequeueFailedRead, SkipUnchanged, FinishSuccess, Discard
<1>17. CASE \/ LoadModel \/ LoadModelFails \/ StopBeforeOpen \/ TakeDueBatch \/ Wait
            \/ Wake \/ ReadMetadata \/ StartInference \/ EndBatch \/ Stop
            \/ \E n \in Notes : PrepareNote(n) \/ PrepareReadFails(n)
  BY <1>2, <1>17
  DEF LoadModel, LoadModelFails, StopBeforeOpen, TakeDueBatch, Wait, Wake,
    ReadMetadata, StartInference, EndBatch, Stop, PrepareNote, PrepareReadFails
<1>18. ASSUME NEW n \in Notes, RetryDue(n) PROVE Accounted'
  BY <1>1, <1>2, <1>18 DEF RetryDue
<1>19. CASE \/ \E n \in Notes, c \in Contents \cup {Absent} : Edit(n, c)
            \/ (\E n \in Notes : Notice(n)) \/ Reindex \/ Submit \/ PersistRetryDue
  BY <1>1, <1>19 DEF Edit, Notice, Reindex, Submit, PersistRetryDue
<1> QED
  BY <1>1, <1>3, <1>4, <1>5, <1>6, <1>7, <1>8, <1>9, <1>10, <1>11, <1>12, <1>13,
     <1>15, <1>16, <1>17, <1>18, <1>19
  DEF Next, Watcher, Timers, Coordinator

\* A note leaves the work that is left, or the failures, with its work done, and
\* keeps work otherwise (finish_success, requeue_failure).
LEMMA RememberedNext ==
  ASSUME TypeOK, InOrder, Remembered, [Next]_vars PROVE Remembered'
<1> USE DEF TypeOK, InOrder, Remembered, Outstanding
<1>1. CASE UNCHANGED <<pending, inflight, remaining, failures, live>>
  BY <1>1
<1>2. CASE ~live'
  BY <1>2
<1>3. ASSUME NEW S \in SUBSET InBatch, RequeueFailure(S), UNCHANGED live
      PROVE  Remembered'
  <2>1. /\ \A n \in S : pending'[n] # Absent
        /\ \A n \in Notes \ S : inflight'[n] = inflight[n] /\ pending'[n] = pending[n]
        /\ remaining' \cup failures' \subseteq remaining \cup failures \cup S
    BY <1>3, RequeueGives
  <2>2. S \subseteq Notes /\ remaining' \subseteq Notes /\ failures' \subseteq Notes
    BY <1>3, RequeueFailureType DEF InBatch
  <2> QED
    BY <1>3, <2>1, <2>2 DEF StateTypeOK
<1>4. ASSUME NEW n \in InBatch, UNCHANGED live,
             IF IsCurrent(n) THEN FinishSuccess(n) ELSE Discard(n)
      PROVE  Remembered'
  <2>1. ~IsCurrent(n) => pending[n] # Absent
    BY CurrentMeans DEF InBatch
  <2> QED
    BY <1>4, <2>1 DEF FinishSuccess, Discard, StateTypeOK
<1>5. CASE Submit
  <2>1. hand.note \in Notes /\ hand.kind \in {"upsert", "remove"}
    BY <1>5 DEF Submit, VaultTypeOK, Event
  <2>2. Intent(nextGen + 1, hand.kind) # Absent
    <3>1. Intent(nextGen + 1, hand.kind) \in Work
      BY <2>1 DEF Intent, Work, StateTypeOK
    <3> QED
      BY <3>1, AbsentAssumption
  <2>3. CASE live
    <3>1. /\ pending' = [pending EXCEPT ![hand.note] = Intent(nextGen + 1, hand.kind)]
          /\ UNCHANGED <<inflight, remaining, failures, live>>
      BY <1>5, <2>3 DEF Submit
    <3>2. Outstanding \subseteq Outstanding'
      BY <2>1, <2>2, <3>1 DEF StateTypeOK
    <3> QED
      BY <3>1, <3>2
  <2> QED
    BY <1>1, <1>5, <2>3 DEF Submit
<1>6. CASE OpenStore
  <2> DEFINE fresh == {n \in paths : pending[n] = Absent}
  <2>1. fresh \in SUBSET Notes /\ nextGen \in Nat /\ paths \subseteq Notes
    BY DEF TaskTypeOK, StateTypeOK
  <2>2. IntentsFor(fresh, nextGen) \in [fresh -> Work]
    BY <2>1, IntentsForType
  <2>3. \A n \in fresh : IntentsFor(fresh, nextGen)[n] # Absent
    BY <2>2, AbsentAssumption
  <2>4. \A n \in paths : pending'[n] # Absent
    BY <1>6, <2>1, <2>3 DEF OpenStore
  <2>5. failures' = {} /\ remaining' = paths
    BY <1>6 DEF OpenStore, Fresh
  <2> QED
    BY <2>1, <2>4, <2>5
<1>7. CASE TakeDueBatch
  BY <1>7, AbsentAssumption DEF TakeDueBatch, StateTypeOK, Work, Due
<1>8. ASSUME NEW n \in Notes, RetryDue(n) PROVE Remembered'
  <2>1. [pending[n] EXCEPT !.due = TRUE] # Absent
    BY <1>8, AbsentAssumption DEF RetryDue, StateTypeOK, Work
  <2> QED
    BY <1>8, <2>1 DEF RetryDue, StateTypeOK
<1>9. CASE PrepareTaskFails \/ \E reply \in Replies : Infer(reply)
  BY <1>1, <1>3, <1>9 DEF PrepareTaskFails, Infer
<1>10. ASSUME NEW n \in Notes,
              CommitRemove(n) \/ RequeueFailedRead(n) \/ SkipUnchanged(n) \/ CommitUpsert(n)
       PROVE  Remembered'
  BY <1>1, <1>3, <1>4, <1>10
  DEF CommitRemove, RequeueFailedRead, SkipUnchanged, CommitUpsert
<1>11. CASE Crash \/ Respawn
  BY <1>11 DEF Crash, Respawn, Spawn
<1> QED
  BY <1>1, <1>2, <1>5, <1>6, <1>7, <1>8, <1>9, <1>10, <1>11
  DEF Next, Watcher, Timers, Coordinator, Edit, Notice, Reindex,
    PersistRetryDue, BeginDrop, EndDrop, LoadModel, LoadModelFails, MigrateCache,
    StopBeforeOpen, Finalize, Wait, Wake, ReadMetadata, PrepareNote,
    PrepareReadFails, StartInference, EndBatch, EncodeCache,
    EnterGate, CheckLiveAgain, ReplaceCache, WriteFails, Stop

-----------------------------------------------------------------------------
(* The work follows the files.                                             *)

\* The watcher takes an event, looks at the file and updates the index: as long
\* as no newer event is there, what it found still holds (process_event).
LEMMA IndexFollowsNext ==
  ASSUME VaultTypeOK, [Next]_vars, NEW n \in Notes, IndexFollows(n)
  PROVE  IndexFollows(n)'
<1> USE AbsentAssumption DEF IndexFollows, VaultTypeOK
<1>1. CASE UNCHANGED vaultVars
  BY <1>1
<1>2. ASSUME NEW m \in Notes, NEW c \in Contents \cup {Absent}, Edit(m, c)
      PROVE  IndexFollows(n)'
  BY <1>2 DEF Edit
<1>3. ASSUME NEW m \in Notes, Notice(m) PROVE IndexFollows(n)'
  <2> DEFINE next == [note |-> m, indexed |-> FALSE,
                      kind |-> IF disk[m] = Absent THEN "remove" ELSE "upsert"]
  <2>1. hand = Absent /\ m \in owed /\ owed' = owed \ {m} /\ hand' = next
        /\ UNCHANGED <<disk, index>>
    BY <1>3 DEF Notice
  <2>2. next # Absent /\ next.note = m /\ ~next.indexed
        /\ (next.kind = "remove" <=> disk[m] = Absent)
    <3>1. next \in Event
      BY DEF Event
    <3> QED
      BY <3>1
  <2> HIDE DEF next
  <2> QED
    BY <2>1, <2>2
<1>4. CASE Reindex
  <2>1. hand # Absent /\ hand \in Event /\ UNCHANGED <<disk, owed>>
    BY <1>4 DEF Reindex
  <2>2. index'[n] = IF n = hand.note
                    THEN IF hand.kind = "remove" THEN Absent ELSE disk[hand.note]
                    ELSE index[n]
    BY <1>4 DEF Reindex
  <2>3. \/ hand.kind = "upsert" /\ disk[hand.note] = Absent /\ hand' = Absent
        \/ hand'.note = hand.note /\ hand'.kind = hand.kind /\ hand' # Absent
    BY <1>4 DEF Reindex, Event
  <2> QED
    BY <2>1, <2>2, <2>3
<1>5. CASE Submit
  BY <1>5 DEF Submit
<1>6. CASE Crash \/ Respawn
  BY <1>6 DEF Crash, Respawn, Spawn
<1>7. CASE Timers \/ Coordinator \/ BeginDrop \/ EndDrop
  BY <1>7, <1>1 DEF Timers, Coordinator, BeginDrop, EndDrop, PersistRetryDue, RetryDue,
    LoadModel, LoadModelFails, MigrateCache, OpenStore, StopBeforeOpen, Finalize,
    TakeDueBatch, Wait, Wake, ReadMetadata, PrepareNote, PrepareReadFails,
    CommitRemove, RequeueFailedRead, SkipUnchanged, CommitUpsert,
    PrepareTaskFails, StartInference, Infer, EndBatch, EncodeCache, EnterGate,
    CheckLiveAgain, ReplaceCache, WriteFails, Stop
<1> QED
  BY <1>1, <1>2, <1>3, <1>4, <1>5, <1>6, <1>7 DEF Next, Watcher

\* A step that says nothing of note n changes nothing for it.
LEMMA Untouched ==
  ASSUME NEW n \in Notes, WorkFollows(n),
         Heard(n)' => Heard(n), live' => live,
         disk'[n] = disk[n], pending'[n] = pending[n], batch'[n] = batch[n],
         meta'[n] = meta[n], item'[n] = item[n], store'[n] = store[n],
         started' = started, paths' = paths,
         pc' = pc \/ pc' \notin {"migrate", "open", "prepare"}
  PROVE  WorkFollows(n)'
BY DEF WorkFollows

\* The changes of a note reach the queue: once its event is dealt with, the
\* intent that is queued says whether there is a file (submit).
LEMMA WatcherFollows ==
  ASSUME VaultTypeOK, StateTypeOK, NEW n \in Notes, IndexFollows(n), WorkFollows(n),
         \/ \E m \in Notes, c \in Contents \cup {Absent} : Edit(m, c)
         \/ Watcher
  PROVE  WorkFollows(n)'
<1> USE AbsentAssumption DEF VaultTypeOK
<1>1. CASE Heard(n)' => Heard(n)
  <2>1. CASE UNCHANGED pending
    <3>1. UNCHANGED <<live, batch, meta, item, store, started, paths, pc>>
      BY DEF Edit, Watcher, Notice, Reindex, Submit
    <3>2. Heard(n)' => disk'[n] = disk[n]
      BY DEF Edit, Watcher, Notice, Reindex, Submit, Heard
    <3> QED
      BY <1>1, <2>1, <3>1, <3>2 DEF WorkFollows
  <2>2. CASE Submit /\ live /\ hand.note # n
    BY <1>1, <2>2, Untouched DEF Submit, StateTypeOK
  <2>3. CASE Submit /\ live /\ hand.note = n
    BY <1>1, <2>3 DEF Submit, Heard, WorkFollows
  <2> QED
    BY <2>1, <2>2, <2>3 DEF Edit, Watcher, Notice, Reindex, Submit
<1>2. CASE Heard(n)' /\ ~Heard(n)
  <2>1. hand # Absent /\ hand.note = n /\ n \notin owed /\ Submit
    <3>1. CASE \E m \in Notes, c \in Contents \cup {Absent} : Edit(m, c)
      BY <1>2, <3>1 DEF Edit, Heard
    <3>2. ASSUME NEW m \in Notes, Notice(m) PROVE FALSE
      <4>1. hand'.note = m /\ hand' \in Event
        BY <3>2 DEF Notice, Event
      <4>2. hand = Absent /\ owed' = owed \ {m}
        BY <3>2 DEF Notice
      <4> QED
        BY <1>2, <4>1, <4>2 DEF Heard
    <3>3. CASE Reindex
      BY <1>2, <3>3 DEF Reindex, Heard, IndexFollows, Event
    <3>4. CASE Submit
      BY <1>2, <3>4 DEF Submit, Heard
    <3> QED
      BY <3>1, <3>2, <3>3, <3>4 DEF Watcher
  <2>2. CASE ~live
    BY <2>1, <2>2 DEF Submit, WorkFollows
  <2>3. CASE live
    <3>1. pending' = [pending EXCEPT ![n] = Intent(nextGen + 1, hand.kind)]
      BY <2>1, <2>3 DEF Submit
    <3>2. hand.kind \in {"upsert", "remove"}
      BY <2>1 DEF Event
    <3>3. Intent(nextGen + 1, hand.kind) \in Work
      BY <3>2 DEF Intent, Work, StateTypeOK
    <3>4. pending'[n] # Absent /\ pending'[n].kind = hand.kind
      BY <3>1, <3>3 DEF StateTypeOK, Intent
    <3>5. hand.kind = "remove" => disk[n] = Absent
      BY <2>1 DEF IndexFollows
    <3>6. disk' = disk
      BY <2>1 DEF Submit
    <3> QED
      BY <3>4, <3>5, <3>6 DEF WorkFollows
  <2> QED
    BY <2>2, <2>3
<1> QED
  BY <1>1, <1>2

\* An intent that comes back from a failed batch still says whether there is a
\* file, unless a newer one is queued (requeue_failure).
LEMMA RequeueFollows ==
  ASSUME TypeOK, InOrder, NEW S \in SUBSET InBatch, RequeueFailure(S),
         NEW n \in Notes, WorkFollows(n),
         Heard(n)' = Heard(n), live' = live, disk'[n] = disk[n],
         n \notin S => batch'[n] = batch[n] /\ item'[n] = item[n],
         meta'[n] = meta[n], store'[n] = store[n], started' = started, paths' = paths,
         pc' = pc \/ pc' \notin {"migrate", "open", "prepare"}
  PROVE  WorkFollows(n)'
<1>1. /\ \A m \in S :
              /\ pending'[m] # Absent
              /\ pending[m] # Absent => pending'[m] = pending[m]
              /\ pending[m] = Absent => pending'[m].kind = batch[m].kind
      /\ \A m \in Notes \ S : pending'[m] = pending[m]
  BY RequeueGives DEF TypeOK, InOrder
<1>2. CASE n \notin S
  BY <1>1, <1>2, Untouched
<1>3. CASE n \in S
  BY <1>1, <1>3 DEF WorkFollows, InBatch
<1> QED
  BY <1>2, <1>3

\* What the preparation makes of an intent is what the file says, if nobody has
\* a newer event or intent for it (prepare_batch).
LEMMA PrepareFollows ==
  ASSUME TypeOK, NEW n \in InBatch, live, Heard(n), pending[n] = Absent,
         pc = "prepare", WorkFollows(n)
  PROVE  /\ PrepareWork(n).kind = "remove" => Reflects(NoVectors, disk[n])
         /\ PrepareWork(n).kind = "upsert" => PrepareWork(n).hash = disk[n]
<1>1. meta[n] = disk[n] /\ (batch[n].kind = "remove" => disk[n] = Absent)
  BY DEF WorkFollows, InBatch
<1>2. disk[n] # Absent => disk[n] = [title |-> disk[n].title, body |-> disk[n].body]
  BY ContentsAssumption DEF TypeOK, VaultTypeOK, InBatch, Hash
<1> QED
  BY <1>1, <1>2 DEF PrepareWork, Reflects

\* Work that is done leaves the vectors of the file behind: a removal none, an
\* unchanged note those it has, a commit those of the answer.
LEMMA DoneFollows ==
  ASSUME TypeOK, NotesAreWhole, UpsertsHaveChunks, NEW n \in InBatch,
         live, Heard(n), pending[n] = Absent, WorkFollows(n), item[n] # Absent
  PROVE  /\ item[n].kind = "remove" => Reflects(NoVectors, disk[n])
         /\ item[n].kind = "upsert" =>
              /\ Unchanged(n) => Reflects(store[n], disk[n])
              /\ Reflects(VectorsOf(item[n].hash, item[n].head, space), disk[n])
<1>1. /\ n \in Notes
      /\ item[n].kind = "remove" => Reflects(NoVectors, disk[n])
      /\ item[n].kind = "upsert" => item[n].hash = disk[n]
  BY DEF WorkFollows, InBatch
<1>2. SUFFICES ASSUME item[n].kind = "upsert"
               PROVE  /\ Unchanged(n) => Reflects(store[n], disk[n])
                      /\ Reflects(VectorsOf(item[n].hash, item[n].head, space), disk[n])
  BY <1>1
<1>3. disk[n] \in Hash /\ disk[n] # Absent /\ Pieces[disk[n].body] > 0
  BY <1>1, <1>2, AbsentAssumption DEF UpsertsHaveChunks
<1>4. Pieces[disk[n].body] # 0
  BY <1>3, PiecesAssumption DEF Hash
<1>5. Reflects(VectorsOf(item[n].hash, item[n].head, space), disk[n])
  BY <1>1, <1>2, <1>3, <1>4 DEF Reflects, VectorsOf
<1>6. ASSUME Unchanged(n) PROVE store[n].summary = disk[n]
  <2>1. store[n].chunks # <<>> /\ store[n].chunks[1] = disk[n]
    BY <1>1, <1>2, <1>6 DEF Unchanged
  <2>2. store[n] = VectorsOf(store[n].summary, store[n].head, space)
        /\ Pieces[store[n].summary.body] > 0
        /\ store[n].summary # Absent
    BY <1>1, <2>1 DEF NotesAreWhole, Whole, NoVectors
  <2>3. store[n].chunks = [i \in 1..Pieces[store[n].summary.body] |-> store[n].summary]
    <3>1. \A h, b, sp : VectorsOf(h, b, sp).chunks = [i \in 1..Pieces[h.body] |-> h]
      BY DEF VectorsOf
    <3>2. store[n].chunks = VectorsOf(store[n].summary, store[n].head, space).chunks
      BY <2>2
    <3> QED
      BY <3>1, <3>2
  <2>4. store[n].summary \in Hash
    BY <1>1, <2>2 DEF TypeOK, StoreTypeOK, Vectors
  <2>5. 1 \in 1..Pieces[store[n].summary.body]
    BY <2>2, <2>4, PiecesAssumption DEF Hash
  <2> QED
    BY <2>1, <2>3, <2>5
<1> QED
  BY <1>3, <1>4, <1>5, <1>6 DEF Reflects

\* The first pass queues every note the index had; the others have no file
\* (run_coordinator).
LEMMA OpenFollows ==
  ASSUME TypeOK, InOrder, NEW n \in Notes, WorkFollows(n), OpenStore
  PROVE  WorkFollows(n)'
<1> DEFINE fresh == {m \in paths : pending[m] = Absent}
<1>1. fresh \in SUBSET Notes /\ nextGen \in Nat
  BY DEF TypeOK, TaskTypeOK, StateTypeOK
<1>2. IntentsFor(fresh, nextGen) \in [fresh -> Work]
  BY <1>1, IntentsForType
<1>3. \A m \in fresh : /\ IntentsFor(fresh, nextGen)[m] # Absent
                       /\ IntentsFor(fresh, nextGen)[m].kind = "upsert"
  BY <1>2, AbsentAssumption DEF IntentsFor, Intent
<1>4. pending'[n] = IF n \in fresh THEN IntentsFor(fresh, nextGen)[n] ELSE pending[n]
  BY DEF OpenStore
<1>5. /\ UNCHANGED <<disk, owed, hand, live, batch, paths>>
      /\ pc = "open" /\ pc' = "finalize"
      /\ n \notin paths => store'[n] = NoVectors
  BY DEF OpenStore, Retained
<1>6. batch[n] = Absent
  BY <1>5 DEF InOrder, InBatch
<1>7. Heard(n)' = Heard(n)
  BY <1>5 DEF Heard
<1>8. CASE n \in paths
  BY <1>3, <1>4, <1>5, <1>7, <1>8 DEF WorkFollows
<1>9. CASE n \notin paths
  BY <1>4, <1>5, <1>6, <1>7, <1>9 DEF WorkFollows, Reflects
<1> QED
  BY <1>8, <1>9

\* A new runtime starts with an intent for every note there is (Spawn).
LEMMA SpawnFollows ==
  ASSUME NEW n \in Notes, Crash \/ Respawn PROVE WorkFollows(n)'
<1> DEFINE present == {m \in Notes : disk[m] # Absent}
<1>1. /\ pending'[n] = IF n \in present THEN IntentsFor(present, 0)[n] ELSE Absent
      /\ batch'[n] = Absent /\ started' = FALSE /\ pc' = "load" /\ UNCHANGED disk
  BY DEF Crash, Respawn, Spawn, Nothing
<1>2. n \in present => IntentsFor(present, 0)[n].kind = "upsert"
  BY DEF IntentsFor, Intent
<1> QED
  BY <1>1, <1>2 DEF WorkFollows

\* The work in every step: taken with its kind, read after the index, done as
\* the file says, or back in the queue (process_batch).
LEMMA WorkFollowsNext ==
  ASSUME TypeOK, WorkInHand, NotesAreWhole, InOrder, [Next]_vars,
         NEW n \in Notes, IndexFollows(n), WorkFollows(n)
  PROVE  WorkFollows(n)'
<1> USE DEF TypeOK
<1>1. CASE /\ UNCHANGED <<disk, owed, hand, pending, paths, batch, meta, item, store, started>>
           /\ live' => live
           /\ pc' = pc \/ pc' \notin {"migrate", "open", "prepare"}
  BY <1>1, Untouched DEF Heard
<1>2. CASE \/ \E m \in Notes, c \in Contents \cup {Absent} : Edit(m, c)
           \/ Watcher
  BY <1>2, WatcherFollows
<1>3. CASE LoadModel
  <2>1. batch[n] = Absent /\ ~started /\ pc' # "prepare"
    BY <1>3 DEF LoadModel, InOrder, InBatch
  <2>2. UNCHANGED <<disk, owed, hand, pending, batch, started, live>>
    BY <1>3 DEF LoadModel
  <2>3. live => paths' = Indexed
    BY <1>3 DEF LoadModel
  <2>4. Heard(n)' = Heard(n)
    BY <2>2 DEF Heard
  <2> QED
    BY <2>1, <2>2, <2>3, <2>4 DEF WorkFollows, IndexFollows, Heard, Indexed
<1>4. CASE MigrateCache
  <2>1. /\ UNCHANGED <<disk, owed, hand, pending, paths, batch, meta, item, store, started, live>>
        /\ pc = "migrate" /\ pc' \in {"open", "stopped"}
    BY <1>4 DEF MigrateCache
  <2> QED
    BY <2>1 DEF WorkFollows, Heard
<1>5. CASE OpenStore
  BY <1>5, OpenFollows
<1>6. ASSUME NEW m \in Notes, RetryDue(m) PROVE WorkFollows(n)'
  <2>1. /\ UNCHANGED <<disk, owed, hand, paths, batch, meta, item, store, started, live>>
        /\ pc' = pc \/ pc' = "loop"
        /\ pending[m] # Absent /\ pending' = [pending EXCEPT ![m].due = TRUE]
    BY <1>6 DEF RetryDue
  <2>2. Heard(n)' = Heard(n)
    BY <2>1 DEF Heard
  <2>3. CASE n = m
    <3>1. pending[n] \in Work /\ pending'[n] = [pending[n] EXCEPT !.due = TRUE]
      BY <2>1, <2>3 DEF StateTypeOK
    <3>2. pending'[n] # Absent /\ pending'[n].kind = pending[n].kind
      BY <3>1, AbsentAssumption DEF Work
    <3> QED
      BY <2>1, <2>2, <2>3, <3>2 DEF WorkFollows
  <2>4. CASE n # m
    <3>1. pending'[n] = pending[n]
      BY <2>1, <2>4 DEF StateTypeOK
    <3> QED
      BY <2>1, <2>2, <3>1, Untouched
  <2> QED
    BY <2>3, <2>4
<1>7. CASE TakeDueBatch
  <2>1. PICK S \in SUBSET Due :
          /\ batch'    = [m \in Notes |-> IF m \in S THEN pending[m] ELSE Absent]
          /\ pending'  = [m \in Notes |-> IF m \in S THEN Absent ELSE pending[m]]
    BY <1>7 DEF TakeDueBatch
  <2>2. /\ UNCHANGED <<disk, owed, hand, paths, store, started, live>>
        /\ pc = "loop" /\ pc' = "meta" /\ item'[n] = Absent
    BY <1>7 DEF TakeDueBatch, Nothing
  <2>3. batch[n] = Absent /\ Heard(n)' = Heard(n)
    BY <2>2 DEF InOrder, InBatch, Heard
  <2>4. n \in S => pending[n] # Absent
    BY DEF Due
  <2> QED
    BY <2>1, <2>2, <2>3, <2>4 DEF WorkFollows
<1>8. CASE ReadMetadata
  <2>1. /\ UNCHANGED <<disk, owed, hand, pending, paths, batch, item, store, started, live>>
        /\ pc' = "prepare" /\ (batch[n] # Absent => meta'[n] = index[n])
    BY <1>8 DEF ReadMetadata, InBatch
  <2> QED
    BY <2>1 DEF WorkFollows, IndexFollows, Heard
<1>9. ASSUME NEW m \in Notes, PrepareNote(m) \/ PrepareReadFails(m) PROVE WorkFollows(n)'
  <2>1. /\ UNCHANGED <<disk, owed, hand, pending, paths, batch, meta, store, started, live>>
        /\ pc = "prepare" /\ pc' \in {"prepare", "apply"}
        /\ m \in InBatch
        /\ item'[m] = PrepareWork(m) \/ item'[m].kind = "failed"
        /\ m # n => item'[n] = item[n]
    BY <1>9 DEF PrepareNote, PrepareReadFails, TaskTypeOK, Unprepared
  <2>2. Heard(n)' = Heard(n)
    BY <2>1 DEF Heard
  <2>3. CASE n = m
    BY <2>1, <2>2, <2>3, PrepareFollows DEF WorkFollows
  <2>4. CASE n # m
    BY <2>1, <2>2, <2>4, Untouched
  <2> QED
    BY <2>3, <2>4
<1>10. CASE PrepareTaskFails \/ \E reply \in Replies : Infer(reply)
  <2>1. /\ UNCHANGED <<disk, owed, hand, paths, meta, store, started, live>>
        /\ pc' \in {"finalize", "commit"}
        /\ \/ UNCHANGED <<pending, batch, item>>
           \/ RequeueFailure(InBatch) /\ batch' = Nothing
    BY <1>10 DEF PrepareTaskFails, Infer
  <2>2. Heard(n)' = Heard(n)
    BY <2>1 DEF Heard
  <2>3. CASE UNCHANGED <<pending, batch, item>>
    BY <1>1, <2>1, <2>3
  <2>4. CASE RequeueFailure(InBatch) /\ batch' = Nothing
    <3>1. CASE n \in InBatch
      BY <2>1, <2>2, <2>4, <3>1, RequeueFollows
    <3>2. CASE n \notin InBatch
      <4>1. pending'[n] = pending[n] /\ batch'[n] = Absent /\ batch[n] = Absent
        BY <2>4, <3>2 DEF RequeueFailure, Nothing, InBatch
      <4> QED
        BY <2>1, <2>2, <4>1 DEF WorkFollows
    <3> QED
      BY <3>1, <3>2
  <2> QED
    BY <2>1, <2>3, <2>4
<1>11. ASSUME NEW m \in Notes,
              CommitRemove(m) \/ RequeueFailedRead(m) \/ SkipUnchanged(m) \/ CommitUpsert(m)
       PROVE  WorkFollows(n)'
  <2>1. /\ UNCHANGED <<disk, owed, hand, paths, meta, started, live, pc>>
        /\ m \in InBatch /\ Leave(m) /\ pc # "prepare"
    BY <1>11 DEF CommitRemove, RequeueFailedRead, SkipUnchanged, CommitUpsert
  <2>2. Heard(n)' = Heard(n)
    BY <2>1 DEF Heard
  <2>3. batch'[m] = Absent /\ (n # m => batch'[n] = batch[n] /\ item'[n] = item[n])
    BY <2>1 DEF Leave, TaskTypeOK
  <2>4. CASE ~live
    BY <2>1, <2>4 DEF WorkFollows
  <2>5. CASE RequeueFailure({m}) /\ UNCHANGED store
    BY <2>1, <2>2, <2>3, <2>5, RequeueFollows
  <2>6. CASE live /\ UNCHANGED pending /\ (n # m => store'[n] = store[n]) /\ n # m
    BY <2>1, <2>2, <2>3, <2>6, Untouched
  <2>7. CASE /\ live /\ UNCHANGED pending /\ n = m
             /\ pending[m] = Absent /\ Heard(m) => Reflects(store'[m], disk[m])
    BY <2>1, <2>2, <2>3, <2>7 DEF WorkFollows
  <2>8. /\ n \in InBatch /\ n = m => (IsCurrent(n) <=> pending[n] = Absent)
    BY CurrentMeans DEF InOrder, InBatch
  <2>9. CASE live /\ CommitRemove(m)
    <3>1. /\ item[m] # Absent /\ item[m].kind = "remove" /\ UNCHANGED pending
          /\ IF IsCurrent(m) THEN store' = [store EXCEPT ![m] = NoVectors]
                             ELSE UNCHANGED store
      BY <2>9 DEF CommitRemove, FinishSuccess, Discard, WorkInHand, HeldAtPc
    <3>2. n # m => store'[n] = store[n]
      BY <3>1 DEF StoreTypeOK
    <3>3. n = m /\ pending[m] = Absent /\ Heard(m) => Reflects(store'[m], disk[m])
      BY <2>1, <2>8, <2>9, <3>1, DoneFollows DEF StoreTypeOK, WorkInHand
    <3> QED
      BY <2>6, <2>7, <2>9, <3>1, <3>2, <3>3
  <2>10. CASE live /\ SkipUnchanged(m)
    <3>1. /\ item[m] # Absent /\ item[m].kind = "upsert" /\ Unchanged(m)
          /\ UNCHANGED <<pending, store>>
      BY <2>10 DEF SkipUnchanged, FinishSuccess, Discard, WorkInHand, HeldAtPc
    <3>2. n = m /\ pending[m] = Absent /\ Heard(m) => Reflects(store'[m], disk[m])
      BY <2>1, <2>10, <3>1, DoneFollows DEF WorkInHand
    <3> QED
      BY <2>6, <2>7, <2>10, <3>1, <3>2
  <2>11. CASE live /\ CommitUpsert(m)
    <3>1. /\ item[m] # Absent /\ item[m].kind = "upsert" /\ answer = "vectors"
      BY <2>11 DEF CommitUpsert, WorkInHand, HeldAtPc
    <3>2. /\ UNCHANGED pending
          /\ IF IsCurrent(m)
             THEN store' = [store EXCEPT ![m] = VectorsOf(item[m].hash, item[m].head, space)]
             ELSE UNCHANGED store
      BY <2>11, <3>1 DEF CommitUpsert, FinishSuccess, Discard
    <3>3. n # m => store'[n] = store[n]
      BY <3>2 DEF StoreTypeOK
    <3>4. n = m /\ pending[m] = Absent /\ Heard(m) => Reflects(store'[m], disk[m])
      BY <2>1, <2>8, <2>11, <3>1, <3>2, DoneFollows DEF StoreTypeOK, WorkInHand
    <3> QED
      BY <2>6, <2>7, <2>11, <3>2, <3>3, <3>4
  <2> QED
    BY <1>11, <2>4, <2>5, <2>9, <2>10, <2>11 DEF RequeueFailedRead
<1>12. CASE Crash \/ Respawn
  BY <1>12, SpawnFollows
<1>13. CASE \/ UNCHANGED vars
            \/ PersistRetryDue \/ BeginDrop \/ EndDrop
            \/ LoadModelFails \/ StopBeforeOpen \/ Finalize
            \/ Wait \/ Wake \/ StartInference \/ EndBatch \/ EncodeCache
            \/ EnterGate \/ CheckLiveAgain \/ ReplaceCache \/ WriteFails \/ Stop
  BY <1>1, <1>13
  DEF PersistRetryDue, BeginDrop, EndDrop, LoadModelFails, StopBeforeOpen, Finalize, Wait, Wake,
    StartInference, EndBatch, EncodeCache, EnterGate, CheckLiveAgain,
    ReplaceCache, WriteFails, Stop
<1> QED
  BY <1>2, <1>3, <1>4, <1>5, <1>6, <1>7, <1>8, <1>9, <1>10, <1>11, <1>12, <1>13
  DEF Next, Timers, Coordinator

-----------------------------------------------------------------------------
(* The theorems.                                                           *)

\* A runtime starts with an intent for every note, nothing in hand and nothing
\* published (spawn_with_cache_sources).
LEMMA RuntimeInit == Init => RuntimeInv
<1> SUFFICES ASSUME Init PROVE RuntimeInv
  OBVIOUS
<1> DEFINE present == {n \in Notes : disk[n] # Absent}
<1>1. TypeOK /\ WorkInHand
  BY TypeInit
<1>2. NotesAreWhole /\ BytesAreWhole
  BY DEF Init, NotesAreWhole, BytesAreWhole, Whole, NoStore
<1>3. /\ nextGen = Cardinality(present)
      /\ pending = [n \in Notes |-> IF n \in present THEN IntentsFor(present, 0)[n]
                                                     ELSE Absent]
      /\ inflight = Nothing /\ batch = Nothing /\ item = Nothing
      /\ index = disk /\ hand = Absent /\ pc = "load" /\ ~started /\ remaining = {}
      /\ failures = {} /\ ~complete /\ ~persistError /\ ~queryable
  BY DEF Init
<1>4. \A n \in Notes : pending[n] # Absent => /\ pending[n].gen \in 1..nextGen
                                              /\ pending[n].kind = "upsert"
  <2>1. present \in SUBSET Notes
    OBVIOUS
  <2>2. \A n \in present : IntentsFor(present, 0)[n].kind = "upsert"
    BY DEF IntentsFor, Intent
  <2> HIDE DEF present
  <2>3. \A n \in Notes : pending[n] # Absent => pending[n].gen \in 1..nextGen
    BY <1>3, <2>1, SpawnOrder
  <2> QED
    BY <1>3, <2>2, <2>3
<1>5. InOrder
  BY <1>3, <1>4 DEF InOrder, InflightIsBatch, Ordered, InBatch, Fresh, Nothing
<1>6. Accounted
  BY DEF Init, Accounted, NothingHalfPublished
<1>7. Remembered
  BY <1>3 DEF Remembered
<1>8. \A n \in Notes : Follows(n)
  BY <1>3, <1>4 DEF Follows, IndexFollows, WorkFollows, Nothing
<1> QED
  BY <1>1, <1>2, <1>5, <1>6, <1>7, <1>8 DEF RuntimeInv

\* Every step of watcher, coordinator, timers, drop and restart keeps the whole.
LEMMA RuntimeNext == ASSUME RuntimeInv, [Next]_vars PROVE RuntimeInv'
<1>1. /\ TypeOK /\ WorkInHand /\ NotesAreWhole /\ BytesAreWhole
      /\ InOrder /\ Accounted /\ Remembered /\ \A n \in Notes : Follows(n)
  BY DEF RuntimeInv
<1>2. TypeOK' /\ WorkInHand'
  BY <1>1, VaultNext, StateNext, TaskNext, StoreNext, BoundsNext, UpsertsNext, HeldNext
  DEF TypeOK, WorkInHand
<1>3. NotesAreWhole' /\ BytesAreWhole'
  BY <1>1, WholeNext
<1>4. InOrder' /\ Accounted' /\ Remembered'
  BY <1>1, InOrderNext, AccountedNext, RememberedNext
<1>5. ASSUME NEW n \in Notes PROVE Follows(n)'
  BY <1>1, IndexFollowsNext, WorkFollowsNext DEF Follows, TypeOK
<1> QED
  BY <1>2, <1>3, <1>4, <1>5 DEF RuntimeInv

\* The invariant of the runtime: generations, flags, gate and cache, and each
\* note's way from the file to its vectors (embedding_runtime.rs as a whole).
THEOREM RuntimeCorrect == Spec => []RuntimeInv
<1>1. Init => RuntimeInv
  BY RuntimeInit
<1>2. RuntimeInv /\ [Next]_vars => RuntimeInv'
  BY RuntimeNext
<1> QED
  BY <1>1, <1>2, PTL DEF Spec

\* A search is answered from the store only after a first pass over every note,
\* of this run or of the run whose cache was loaded (previously_publishable).
THEOREM PublishedWhole == Spec => []NothingHalfPublished
<1>1. RuntimeInv => NothingHalfPublished
  BY DEF RuntimeInv, Accounted
<1> QED
  BY <1>1, RuntimeCorrect, PTL

\* No order of edits, events, overtaken work, failures and retries leaves a
\* note behind: without work for it, its vectors are those of the file.
THEOREM QuietIsCurrent == Spec => []QuietNotesAreCurrent
<1>1. ASSUME RuntimeInv PROVE QuietNotesAreCurrent
  <2> SUFFICES ASSUME started, live, NEW n \in Notes, Quiet(n)
               PROVE  Reflects(store[n], disk[n])
    BY DEF QuietNotesAreCurrent
  <2>1. Heard(n) /\ pending[n] = Absent /\ inflight[n] = Absent
    BY DEF Quiet, Heard
  <2>2. batch[n] = Absent
    BY <1>1, <2>1, CurrentMeans DEF RuntimeInv, TypeOK, InOrder, InBatch
  <2> QED
    BY <1>1, <2>1, <2>2 DEF RuntimeInv, Follows, WorkFollows
<1> QED
  BY <1>1, RuntimeCorrect, PTL

\* The status never forgets work: what is warming or degraded has work under
\* way, what is ready has none left and answers searches (status_for_loaded_state).
THEOREM WorkRemembered == Spec => []WorkIsNeverLost
<1>1. ASSUME RuntimeInv PROVE WorkIsNeverLost
  <2>1. InOrder /\ Accounted /\ Remembered
    BY <1>1 DEF RuntimeInv
  <2>2. Phase = "ready" => complete
    BY DEF Phase
  <2> QED
    BY <2>1, <2>2 DEF WorkIsNeverLost, Accounted, Remembered, Answerable
<1> QED
  BY <1>1, RuntimeCorrect, PTL

\* A newer intent in the queue keeps work in flight from changing the vectors of
\* its note, and is replaced by newer intents only (state_generation).
THEOREM NewestWins == Spec => NewestIntentWins
<1> DEFINE Wins == OneRun => \A n \in Notes :
                     pending[n] # Absent =>
                       /\ store'[n] = store[n]
                       /\ pending'[n] # Absent => pending'[n].gen >= pending[n].gen
<1>1. ASSUME RuntimeInv, [Next]_vars PROVE Wins
  <2> SUFFICES ASSUME OneRun, NEW n \in Notes, pending[n] # Absent
               PROVE  /\ store'[n] = store[n]
                      /\ pending'[n] # Absent => pending'[n].gen >= pending[n].gen
    OBVIOUS
  <2>1. /\ TypeOK /\ WorkInHand /\ started /\ started' /\ live
        /\ \A m \in Notes : InflightIsBatch(m) /\ Ordered(m)
        /\ pending[n].gen \in 1..nextGen /\ nextGen \in Nat
    BY <1>1 DEF RuntimeInv, OneRun, InOrder, Ordered, TypeOK, StateTypeOK
  <2>2. pc # "open"
    BY <1>1, <2>1 DEF RuntimeInv, InOrder
  <2>3. n \in InBatch => ~IsCurrent(n)
    BY <2>1, CurrentMeans DEF TypeOK
  <2>4. pending[n] = pending'[n] => (pending'[n] # Absent => pending'[n].gen >= pending[n].gen)
    BY <2>1
  <2>5. ASSUME NEW S \in SUBSET InBatch, RequeueFailure(S) PROVE pending'[n] = pending[n]
    BY <2>3, <2>5 DEF RequeueFailure
  <2>6. CASE Submit
    <3>1. CASE hand.note = n
      <4>1. nextGen' = nextGen + 1 /\ pending'[n] = Intent(nextGen + 1, hand.kind)
        BY <2>1, <2>6, <3>1 DEF Submit, TypeOK, StateTypeOK
      <4> QED
        BY <2>1, <2>6, <4>1 DEF Intent, Submit
    <3>2. CASE hand.note # n
      BY <2>1, <2>4, <2>6, <3>2 DEF Submit, TypeOK, StateTypeOK
    <3> QED
      BY <3>1, <3>2
  <2>7. ASSUME NEW m \in Notes, RetryDue(m)
        PROVE  /\ store'[n] = store[n]
               /\ pending'[n] # Absent => pending'[n].gen >= pending[n].gen
    <3>1. pending[n] \in Work /\ UNCHANGED store
      BY <2>1, <2>7 DEF TypeOK, StateTypeOK, RetryDue
    <3>2. pending'[n].gen = pending[n].gen
      BY <2>7, <3>1 DEF RetryDue, TypeOK, StateTypeOK, Work
    <3> QED
      BY <2>1, <3>1, <3>2
  <2>8. CASE TakeDueBatch
    BY <2>4, <2>8 DEF TakeDueBatch
  <2>9. ASSUME NEW m \in Notes,
               CommitRemove(m) \/ RequeueFailedRead(m) \/ SkipUnchanged(m) \/ CommitUpsert(m)
        PROVE  store'[n] = store[n] /\ pending'[n] = pending[n]
    <3>1. m \in InBatch
      BY <2>9 DEF CommitRemove, RequeueFailedRead, SkipUnchanged, CommitUpsert
    <3>2. RequeueFailure({m}) \/ UNCHANGED pending
      BY <2>9 DEF CommitRemove, RequeueFailedRead, SkipUnchanged, CommitUpsert,
        FinishSuccess, Discard
    <3>3. n # m => store'[n] = store[n]
      BY <2>1, <2>9 DEF CommitRemove, RequeueFailedRead, SkipUnchanged, CommitUpsert,
        TypeOK, StoreTypeOK
    <3>4. n = m => store' = store
      BY <2>3, <2>9, <3>1 DEF CommitRemove, RequeueFailedRead, SkipUnchanged, CommitUpsert
    <3> QED
      BY <2>5, <3>1, <3>2, <3>3, <3>4
  <2>10. CASE PrepareTaskFails \/ \E reply \in Replies : Infer(reply)
    BY <2>4, <2>5, <2>10 DEF PrepareTaskFails, Infer
  <2>11. CASE Crash \/ Respawn
    BY <2>1, <2>11 DEF Crash, Respawn, Spawn
  <2>12. CASE UNCHANGED <<pending, store>>
    BY <2>4, <2>12
  <2> QED
    BY <1>1, <2>2, <2>4, <2>6, <2>7, <2>8, <2>9, <2>10, <2>11, <2>12
    DEF Next, Watcher, Timers, Coordinator, Edit, Notice, Reindex, OpenStore,
      PersistRetryDue, BeginDrop, EndDrop, LoadModel, LoadModelFails, MigrateCache,
      StopBeforeOpen, Finalize, Wait, Wake, ReadMetadata, PrepareNote,
      PrepareReadFails, StartInference, EndBatch, EncodeCache,
      EnterGate, CheckLiveAgain, ReplaceCache, WriteFails, Stop
<1>2. RuntimeInv /\ [Next]_vars => [Wins]_vars
  BY <1>1
<1> QED
  BY <1>2, RuntimeCorrect, PTL DEF Spec, NewestIntentWins

\* Once RuntimeControl::drop has returned, no write of the dropped runtime
\* reaches its store or the cache file: the gate kept the drop waiting.
THEOREM DropIsFinal == Spec => NoLateWrite
<1>1. ASSUME RuntimeInv, [Next]_vars PROVE dropped /\ dropped' => UNCHANGED <<store, cache>>
  <2> SUFFICES ASSUME dropped, dropped' PROVE UNCHANGED <<store, cache>>
    OBVIOUS
  <2>1. ~live /\ pc # "rename"
    BY <1>1 DEF RuntimeInv, Accounted
  <2> QED
    BY <1>1, <2>1
    DEF Next, Watcher, Timers, Coordinator, Edit, Notice, Reindex, Submit,
      PersistRetryDue, RetryDue, BeginDrop, EndDrop, Crash, Respawn, Spawn,
      LoadModel, LoadModelFails, MigrateCache, OpenStore, StopBeforeOpen, Finalize,
      TakeDueBatch, Wait, Wake, ReadMetadata, PrepareNote, PrepareReadFails,
      CommitRemove, RequeueFailedRead, SkipUnchanged, CommitUpsert,
      PrepareTaskFails, StartInference, Infer, EndBatch, EncodeCache, EnterGate,
      CheckLiveAgain, ReplaceCache, WriteFails, Stop
<1>2. RuntimeInv /\ [Next]_vars => [dropped /\ dropped' => UNCHANGED <<store, cache>>]_vars
  BY <1>1
<1> QED
  BY <1>2, RuntimeCorrect, PTL DEF Spec, NoLateWrite

\* The vectors of a note that is as it was embedded are not given up for a
\* failure or for a removal that was overtaken (requeue_failure, commit_remove).
THEOREM GoodVectorsStay == Spec => LastKnownGood
<1> DEFINE Kept == OneRun => \A n \in Notes :
                     (/\ HasNote(store[n]) /\ store[n].summary = disk[n]
                      /\ index[n] = disk[n]
                      /\ n \notin owed /\ (hand = Absent \/ hand.note # n))
                     => HasNote(store'[n])
<1>1. ASSUME RuntimeInv, [Next]_vars PROVE Kept
  <2> SUFFICES ASSUME OneRun, NEW n \in Notes, HasNote(store[n]),
                      store[n].summary = disk[n], Heard(n)
               PROVE  HasNote(store'[n])
    BY DEF Heard
  <2>1. /\ TypeOK /\ WorkInHand /\ NotesAreWhole /\ Follows(n)
        /\ started /\ started' /\ live
        /\ InflightIsBatch(n) /\ Ordered(n)
    BY <1>1 DEF RuntimeInv, OneRun, InOrder
  <2>2. pc # "open"
    BY <1>1, <2>1 DEF RuntimeInv, InOrder
  <2>3. ~Reflects(NoVectors, disk[n])
    <3>1. disk[n] # Absent /\ Pieces[disk[n].body] > 0
      BY <2>1 DEF NotesAreWhole, Whole, HasNote, NoVectors
    <3>2. disk[n] \in Hash
      BY <2>1, <3>1, ContentsAssumption DEF TypeOK, VaultTypeOK
    <3>3. Pieces[disk[n].body] # 0
      BY <3>1, <3>2, PiecesAssumption DEF Hash
    <3> QED
      BY <3>1, <3>3, AbsentAssumption DEF Reflects, NoVectors
  <2>4. n \in InBatch /\ IsCurrent(n) /\ item[n] # Absent => item[n].kind # "remove"
    BY <2>1, <2>3, CurrentMeans DEF Follows, WorkFollows, TypeOK, InBatch
  <2>5. ASSUME NEW m \in Notes, CommitRemove(m) PROVE HasNote(store'[n])
    <3>1. m \in InBatch /\ item[m] # Absent /\ item[m].kind = "remove"
      BY <2>1, <2>5 DEF CommitRemove, WorkInHand, HeldAtPc
    <3>2. CASE m = n
      BY <2>1, <2>4, <2>5, <3>1, <3>2 DEF CommitRemove
    <3>3. CASE m # n
      BY <2>1, <2>5, <3>3 DEF CommitRemove, TypeOK, StoreTypeOK
    <3> QED
      BY <3>2, <3>3
  <2>6. ASSUME NEW m \in Notes, CommitUpsert(m) PROVE HasNote(store'[n])
    <3>1. m \in InBatch /\ answer = "vectors" /\ item[m].hash \in Hash
      BY <2>1, <2>6 DEF CommitUpsert, WorkInHand, HeldAtPc, UpsertsHaveChunks
    <3>2. HasNote(VectorsOf(item[m].hash, item[m].head, space))
      BY <3>1, AbsentAssumption DEF HasNote, VectorsOf
    <3> QED
      BY <2>1, <2>6, <3>1, <3>2 DEF CommitUpsert, TypeOK, StoreTypeOK
  <2>7. CASE Crash \/ Respawn
    BY <2>1, <2>7 DEF Crash, Respawn, Spawn
  <2>8. CASE UNCHANGED store
    BY <2>8
  <2> QED
    BY <1>1, <2>2, <2>5, <2>6, <2>7, <2>8
    DEF Next, Watcher, Timers, Coordinator, Edit, Notice, Reindex, Submit, OpenStore,
      PersistRetryDue, RetryDue, BeginDrop, EndDrop, LoadModel, LoadModelFails,
      MigrateCache, StopBeforeOpen, Finalize, TakeDueBatch, Wait, Wake,
      ReadMetadata, PrepareNote, PrepareReadFails, RequeueFailedRead,
      SkipUnchanged, PrepareTaskFails, StartInference, Infer, EndBatch, EncodeCache,
      EnterGate, CheckLiveAgain, ReplaceCache, WriteFails, Stop
<1>2. RuntimeInv /\ [Next]_vars => [Kept]_vars
  BY <1>1
<1> QED
  BY <1>2, RuntimeCorrect, PTL DEF Spec, LastKnownGood

-----------------------------------------------------------------------------
(* The runtime implements IntentQueue: each of its steps submits, claims,    *)
(* settles or releases intents as the abstract queue allows, opens the       *)
(* store, starts over, or changes nothing the queue speaks of. The newest    *)
(* intent of a note is the one queued, or else the one in flight             *)
(* (state_generation).                                                       *)

\* Steps that leave generations and vectors alone are no steps of the queue.
LEMMA NoQueueStep ==
  ASSUME UNCHANGED <<started, nextGen, inflight, store>>,
         \A n \in Notes : StateGeneration(n)' = StateGeneration(n)
  PROVE  UNCHANGED Queue!vars
BY DEF Queue!vars

\* Work that is given up, the newest intents staying what they are.
LEMMA ReleaseStep ==
  ASSUME NEW S \in SUBSET Notes, inflight \in [Notes -> Nat \cup {Absent}],
         inflight' = [n \in Notes |-> IF n \in S THEN Absent ELSE inflight[n]],
         UNCHANGED <<started, nextGen, store>>,
         \A n \in Notes : StateGeneration(n)' = StateGeneration(n)
  PROVE  [Queue!Next]_(Queue!vars)
<1>1. CASE S = {}
  <2>1. inflight' = inflight
    BY <1>1
  <2> QED
    BY <2>1, NoQueueStep
<1>2. CASE S # {}
  <2>1. Queue!Release(S)
    BY DEF Queue!Release
  <2> QED
    BY <1>2, <2>1 DEF Queue!Next
<1> QED
  BY <1>1, <1>2

\* requeue_failure releases the whole batch: what was current is queued again
\* under its own generation, what was overtaken leaves the newer intent.
LEMMA RequeueStep ==
  ASSUME TypeOK, InOrder, NEW S \in SUBSET InBatch, RequeueFailure(S),
         UNCHANGED <<started, nextGen, store>>
  PROVE  [Queue!Next]_(Queue!vars)
<1>1. /\ \A n \in S :
            /\ inflight'[n] = Absent /\ pending'[n] # Absent
            /\ pending[n] # Absent => pending'[n] = pending[n]
            /\ pending[n] = Absent => pending'[n].gen = inflight[n]
      /\ \A n \in Notes \ S : inflight'[n] = inflight[n] /\ pending'[n] = pending[n]
  BY RequeueGives DEF TypeOK, InOrder
<1>2. \A n \in Notes : StateGeneration(n)' = StateGeneration(n)
  BY <1>1 DEF StateGeneration
<1>3. inflight' = [n \in Notes |-> IF n \in S THEN Absent ELSE inflight[n]]
  BY DEF RequeueFailure
<1>4. S \in SUBSET Notes /\ inflight \in [Notes -> Nat \cup {Absent}]
  BY DEF InBatch, TypeOK, StateTypeOK
<1> QED
  BY <1>2, <1>3, <1>4, ReleaseStep

\* Work that was overtaken is released, current work is settled; only then may
\* the vectors of its note change (finish_success and the stale-work branches).
LEMMA FinishStep ==
  ASSUME TypeOK, InOrder, NEW n \in InBatch, UNCHANGED <<started, nextGen>>,
         IF IsCurrent(n)
         THEN FinishSuccess(n) /\ \A m \in Notes \ {n} : store'[m] = store[m]
         ELSE Discard(n) /\ UNCHANGED store
  PROVE  [Queue!Next]_(Queue!vars)
<1>1. /\ n \in Notes /\ inflight \in [Notes -> Nat \cup {Absent}]
      /\ IsCurrent(n) <=> pending[n] = Absent
      /\ inflight[n] = batch[n].gen /\ inflight[n] # Absent
  BY CurrentMeans DEF TypeOK, InOrder, InBatch, StateTypeOK
<1>2. inflight' = [inflight EXCEPT ![n] = Absent] /\ UNCHANGED pending
  BY DEF FinishSuccess, Discard
<1>3. CASE IsCurrent(n)
  <2>1. StateGeneration(n) = inflight[n] /\ StateGeneration(n)' = Absent
    BY <1>1, <1>2, <1>3 DEF StateGeneration
  <2>2. \A m \in Notes \ {n} : StateGeneration(m)' = StateGeneration(m)
    BY <1>2 DEF StateGeneration
  <2>3. [m \in Notes |-> StateGeneration(m)]'
          = [[m \in Notes |-> StateGeneration(m)] EXCEPT ![n] = Absent]
    <3> DEFINE g == [m \in Notes |-> StateGeneration(m)]
    <3>1. g' = [m \in Notes |-> IF m = n THEN Absent ELSE StateGeneration(m)]
      BY <2>1, <2>2
    <3> QED
      BY <3>1
  <2>4. Queue!Settle(n)
    BY <1>1, <1>2, <1>3, <2>1, <2>3 DEF Queue!Settle
  <2> QED
    BY <1>1, <2>4 DEF Queue!Next
<1>4. CASE ~IsCurrent(n)
  <2>1. \A m \in Notes : StateGeneration(m)' = StateGeneration(m)
    BY <1>1, <1>2, <1>4 DEF StateGeneration
  <2>2. inflight' = [m \in Notes |-> IF m \in {n} THEN Absent ELSE inflight[m]]
    BY <1>1, <1>2
  <2>3. UNCHANGED store /\ {n} \in SUBSET Notes
    BY <1>1, <1>4
  <2> QED
    BY <1>1, <2>1, <2>2, <2>3, ReleaseStep
<1> QED
  BY <1>3, <1>4

\* submit hands out the next generation; a runtime that is gone submits nothing.
LEMMA SubmitStep ==
  ASSUME TypeOK, InOrder, Submit PROVE [Queue!Next]_(Queue!vars)
<1>1. CASE ~live
  <2>1. UNCHANGED <<started, nextGen, inflight, store, pending>>
    BY <1>1 DEF Submit
  <2>2. \A n \in Notes : StateGeneration(n)' = StateGeneration(n)
    BY <2>1 DEF StateGeneration
  <2> QED
    BY <2>1, <2>2, NoQueueStep
<1>2. CASE live
  <2>1. hand.note \in Notes /\ hand.kind \in {"upsert", "remove"} /\ nextGen \in Nat
    BY DEF Submit, TypeOK, VaultTypeOK, Event, StateTypeOK
  <2>2. PICK n \in Notes : n = hand.note
    BY <2>1
  <2>3. /\ nextGen' = nextGen + 1
        /\ pending' = [pending EXCEPT ![n] = Intent(nextGen + 1, hand.kind)]
        /\ UNCHANGED <<started, inflight, store>>
    BY <1>2, <2>2 DEF Submit
  <2>4. Intent(nextGen + 1, hand.kind) \in Work
    BY <2>1 DEF Intent, Work
  <2>5. pending'[n] # Absent /\ pending'[n].gen = nextGen + 1
    BY <2>3, <2>4, AbsentAssumption DEF Intent, TypeOK, StateTypeOK
  <2>6. StateGeneration(n)' = nextGen + 1
    BY <2>5 DEF StateGeneration
  <2>7. \A m \in Notes \ {n} : StateGeneration(m)' = StateGeneration(m)
    BY <2>3 DEF StateGeneration, TypeOK, StateTypeOK
  <2>8. Queue!Number({n})
    BY <2>1, <2>3, <2>6, <2>7 DEF Queue!Number
  <2>9. Queue!Submit(n)
    BY <2>3, <2>8 DEF Queue!Submit
  <2> QED
    BY <2>9 DEF Queue!Next
<1> QED
  BY <1>1, <1>2

\* Opening the store numbers the notes that have no intent (run_coordinator).
LEMMA OpenStep ==
  ASSUME TypeOK, InOrder, OpenStore PROVE [Queue!Next]_(Queue!vars)
<1> DEFINE fresh == {n \in paths : pending[n] = Absent}
<1>1. fresh \in SUBSET Notes /\ nextGen \in Nat
  BY DEF TypeOK, TaskTypeOK, StateTypeOK
<1>2. /\ Cardinality(fresh) \in Nat
      /\ \A n \in fresh : IntentsFor(fresh, nextGen)[n].gen
                            \in nextGen + 1 .. nextGen + Cardinality(fresh)
      /\ \A n, m \in fresh : n # m => IntentsFor(fresh, nextGen)[n].gen
                                        # IntentsFor(fresh, nextGen)[m].gen
  BY <1>1, IntentsForOrder
<1>3. /\ pending' = [n \in Notes |-> IF n \in fresh THEN IntentsFor(fresh, nextGen)[n]
                                                    ELSE pending[n]]
      /\ nextGen' = nextGen + Cardinality(fresh)
      /\ started' = TRUE /\ UNCHANGED inflight
  BY DEF OpenStore
<1>4. ~started /\ inflight = Nothing
  BY DEF OpenStore, InOrder, Fresh
<1>5. \A n \in fresh : IntentsFor(fresh, nextGen)[n] # Absent
  <2>1. IntentsFor(fresh, nextGen) \in [fresh -> Work]
    BY <1>1, IntentsForType
  <2> QED
    BY <2>1, AbsentAssumption
<1>6. \A n \in fresh : pending[n] = Absent
  OBVIOUS
<1> HIDE DEF fresh
<1>7. \A n \in fresh : StateGeneration(n)' = IntentsFor(fresh, nextGen)[n].gen
  BY <1>1, <1>3, <1>5 DEF StateGeneration
<1>8. \A n \in Notes \ fresh : StateGeneration(n)' = StateGeneration(n)
  BY <1>3 DEF StateGeneration
<1>9. Queue!Number(fresh)
  BY <1>1, <1>2, <1>3, <1>7, <1>8 DEF Queue!Number
<1>10. fresh \in SUBSET {n \in Notes : [m \in Notes |-> StateGeneration(m)][n] = Absent}
  BY <1>1, <1>4, <1>6 DEF StateGeneration, Nothing
<1>11. Queue!Open
  BY <1>3, <1>4, <1>9, <1>10 DEF Queue!Open
<1> QED
  BY <1>11 DEF Queue!Next

\* take_due_batch claims the newest intents of the notes it takes.
LEMMA TakeStep ==
  ASSUME TypeOK, InOrder, TakeDueBatch PROVE [Queue!Next]_(Queue!vars)
<1>1. PICK S \in SUBSET Due :
        /\ S # {}
        /\ inflight' = [n \in Notes |-> IF n \in S THEN pending[n].gen ELSE inflight[n]]
        /\ pending'  = [n \in Notes |-> IF n \in S THEN Absent ELSE pending[n]]
  BY DEF TakeDueBatch
<1>2. S \in (SUBSET Notes) \ {{}} /\ \A n \in S : pending[n] # Absent
  BY <1>1 DEF Due
<1>3. UNCHANGED <<started, nextGen, store>>
  BY DEF TakeDueBatch
<1>4. \A n \in Notes : StateGeneration(n)' = StateGeneration(n)
  BY <1>1, <1>2 DEF StateGeneration
<1>5. \A n \in S : StateGeneration(n) = pending[n].gen
  BY <1>2 DEF StateGeneration
<1>6. Queue!Claim(S)
  BY <1>1, <1>2, <1>3, <1>4, <1>5 DEF Queue!Claim
<1> QED
  BY <1>2, <1>6 DEF Queue!Next

\* A new runtime starts as the queue does (spawn_with_cache_sources).
LEMMA RestartStep ==
  ASSUME Crash \/ Respawn PROVE Queue!Init'
<1> DEFINE present == {n \in Notes : disk[n] # Absent}
<1>1. /\ nextGen' = Cardinality(present)
      /\ pending' = [n \in Notes |-> IF n \in present THEN IntentsFor(present, 0)[n]
                                                      ELSE Absent]
      /\ inflight' = Nothing /\ started' = FALSE
  BY DEF Crash, Respawn, Spawn
<1>2. present \in SUBSET Notes
  OBVIOUS
<1> HIDE DEF present
<1>3. \A n \in Notes : pending'[n] # Absent => pending'[n].gen \in 1..nextGen'
  BY <1>1, <1>2, SpawnOrder
<1>4. \A n \in Notes : StateGeneration(n)' = Absent \/ StateGeneration(n)' \in 1..nextGen'
  BY <1>1, <1>3 DEF StateGeneration, Nothing
<1> QED
  BY <1>1, <1>4 DEF Queue!Init, Nothing

\* The state a runtime starts in is one the queue starts in.
LEMMA QueueInit == ASSUME Init PROVE Queue!Init
<1> DEFINE present == {n \in Notes : disk[n] # Absent}
<1>1. /\ nextGen = Cardinality(present)
      /\ pending = [n \in Notes |-> IF n \in present THEN IntentsFor(present, 0)[n]
                                                     ELSE Absent]
      /\ inflight = Nothing /\ started = FALSE
  BY DEF Init
<1>2. present \in SUBSET Notes
  OBVIOUS
<1> HIDE DEF present
<1>3. \A n \in Notes : pending[n] # Absent => pending[n].gen \in 1..nextGen
  BY <1>1, <1>2, SpawnOrder
<1>4. \A n \in Notes : StateGeneration(n) = Absent \/ StateGeneration(n) \in 1..nextGen
  BY <1>1, <1>3 DEF StateGeneration, Nothing
<1> QED
  BY <1>1, <1>4 DEF Queue!Init, Nothing

\* Every step of the runtime is a step of the queue, or none.
LEMMA QueueStep ==
  ASSUME RuntimeInv, [Next]_vars PROVE [Queue!Next]_(Queue!vars)
<1>1. TypeOK /\ InOrder /\ WorkInHand
  BY DEF RuntimeInv
<1>2. CASE UNCHANGED <<started, nextGen, inflight, store, pending>>
  <2>1. \A n \in Notes : StateGeneration(n)' = StateGeneration(n)
    BY <1>2 DEF StateGeneration
  <2> QED
    BY <1>2, <2>1, NoQueueStep
<1>3. CASE Submit
  BY <1>1, <1>3, SubmitStep
<1>4. CASE OpenStore
  BY <1>1, <1>4, OpenStep
<1>5. CASE TakeDueBatch
  BY <1>1, <1>5, TakeStep
<1>6. ASSUME NEW n \in Notes, RetryDue(n) PROVE [Queue!Next]_(Queue!vars)
  <2>1. pending[n] \in Work /\ pending \in [Notes -> Work \cup {Absent}]
    BY <1>1, <1>6 DEF RetryDue, TypeOK, StateTypeOK
  <2>2. [pending[n] EXCEPT !.due = TRUE] # Absent
        /\ [pending[n] EXCEPT !.due = TRUE].gen = pending[n].gen
    BY <2>1, AbsentAssumption DEF Work
  <2>3. \A m \in Notes : StateGeneration(m)' = StateGeneration(m)
    BY <1>6, <2>1, <2>2 DEF RetryDue, StateGeneration
  <2>4. UNCHANGED <<started, nextGen, inflight, store>>
    BY <1>6 DEF RetryDue
  <2> QED
    BY <2>3, <2>4, NoQueueStep
<1>7. CASE PrepareTaskFails \/ \E reply \in Replies : Infer(reply)
  <2>1. CASE RequeueFailure(InBatch) /\ UNCHANGED <<started, nextGen, store>>
    BY <1>1, <2>1, RequeueStep
  <2> QED
    BY <1>2, <1>7, <2>1 DEF PrepareTaskFails, Infer
<1>8. ASSUME NEW n \in Notes, CommitRemove(n) PROVE [Queue!Next]_(Queue!vars)
  <2>1. CASE live
    <3>1. /\ n \in InBatch /\ UNCHANGED <<started, nextGen>>
          /\ IF IsCurrent(n)
             THEN FinishSuccess(n) /\ store' = [store EXCEPT ![n] = NoVectors]
             ELSE Discard(n) /\ UNCHANGED store
      BY <1>8, <2>1 DEF CommitRemove
    <3> QED
      BY <1>1, <3>1, FinishStep DEF TypeOK, StoreTypeOK
  <2> QED
    BY <1>2, <1>8, <2>1 DEF CommitRemove
<1>9. ASSUME NEW n \in Notes, RequeueFailedRead(n) PROVE [Queue!Next]_(Queue!vars)
  <2>1. {n} \in SUBSET InBatch /\ RequeueFailure({n}) /\ UNCHANGED <<started, nextGen, store>>
    BY <1>9 DEF RequeueFailedRead
  <2> QED
    BY <1>1, <2>1, RequeueStep
<1>10. ASSUME NEW n \in Notes, SkipUnchanged(n) PROVE [Queue!Next]_(Queue!vars)
  <2>1. /\ n \in InBatch /\ UNCHANGED <<started, nextGen, store>>
        /\ IF IsCurrent(n) THEN FinishSuccess(n) ELSE Discard(n)
    BY <1>10 DEF SkipUnchanged
  <2> QED
    BY <1>1, <2>1, FinishStep
<1>11. ASSUME NEW n \in Notes, CommitUpsert(n) PROVE [Queue!Next]_(Queue!vars)
  <2>1. answer = "vectors"
    BY <1>1, <1>11 DEF CommitUpsert, WorkInHand, HeldAtPc
  <2>2. CASE live
    <3>1. /\ n \in InBatch /\ UNCHANGED <<started, nextGen>>
          /\ IF IsCurrent(n)
             THEN FinishSuccess(n)
                  /\ store' = [store EXCEPT ![n] =
                                 VectorsOf(item[n].hash, item[n].head, space)]
             ELSE Discard(n) /\ UNCHANGED store
      BY <1>11, <2>1, <2>2 DEF CommitUpsert
    <3> QED
      BY <1>1, <3>1, FinishStep DEF TypeOK, StoreTypeOK
  <2> QED
    BY <1>2, <1>11, <2>2 DEF CommitUpsert
<1>12. CASE Crash \/ Respawn
  BY <1>12, RestartStep DEF Queue!Next, Queue!Restart
<1> QED
  BY <1>2, <1>3, <1>4, <1>5, <1>6, <1>7, <1>8, <1>9, <1>10, <1>11, <1>12
  DEF Next, Watcher, Timers, Coordinator, Edit, Notice, Reindex,
    PersistRetryDue, BeginDrop, EndDrop, LoadModel, LoadModelFails, MigrateCache,
    StopBeforeOpen, Finalize, Wait, Wake, ReadMetadata, PrepareNote,
    PrepareReadFails, StartInference, EndBatch, EncodeCache,
    EnterGate, CheckLiveAgain, ReplaceCache, WriteFails, Stop

\* The runtime implements the abstract intent queue: an intent is carried out
\* or replaced by a newer one, and vectors change only where the newest intent of
\* a note is carried out (RuntimeState, run_coordinator).
THEOREM RuntimeIsAQueue == Spec => IsAnIntentQueue
<1>1. Init => Queue!Init
  BY QueueInit
<1>2. RuntimeInv /\ [Next]_vars => [Queue!Next]_(Queue!vars)
  BY QueueStep
<1> QED
  BY <1>1, <1>2, RuntimeCorrect, PTL DEF Spec, IsAnIntentQueue, Queue!Spec
=============================================================================
