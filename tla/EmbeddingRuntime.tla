-------------------------- MODULE EmbeddingRuntime --------------------------
(***************************************************************************)
(* The background lifecycle of the semantic index of one vault             *)
(* (src/src/vault/embedding_runtime.rs): the filesystem watcher hands in   *)
(* one intent per changed note, a single coordinator task takes due        *)
(* intents in batches, reads the notes, embeds them and commits the        *)
(* vectors, and the store is written to an on-disk cache by atomic         *)
(* replacement.                                                            *)
(*                                                                         *)
(* Around the coordinator the module keeps just enough of the vault: the   *)
(* notes on disk, the metadata the index holds for them, and the watcher,  *)
(* which refreshes the index first and submits the intent afterwards.      *)
(*                                                                         *)
(* Content is a pair of a title and a body: exactly what the content hash  *)
(* covers.  A vector is never represented by its numbers but by what it    *)
(* was computed from.                                                      *)
(***************************************************************************)
EXTENDS Naturals, Sequences, FiniteSets

CONSTANTS
    Notes,        \* note paths; the numbers are the path order
    Titles,       \* note titles
    Bodies,       \* note bodies, headings included
    Contents,     \* the contents a note may have, pairs of a title and a body
    Pieces,       \* how many chunks chunk_note cuts a body into
    Spaces,       \* embedding-space identities a model can have
    Absent,       \* no note, no vector, no work, no cache
    Legacies,     \* caches an older version may have left behind
    BatchSize,    \* RECONCILE_BATCH_SIZE
    MaxEdits,     \* bound: changes made to the vault from outside
    MaxFaults,    \* bound: failed loads, reads, inferences, writes and tasks
    MaxRestarts   \* bound: crashes and deliberate drops of the runtime

VARIABLES
    \* the vault and the watcher
    disk,         \* content of each note on disk
    index,        \* content each note's index metadata was parsed from
    owed,         \* notes with a filesystem event not handled yet
    hand,         \* the event process_event is busy with
    \* RuntimeState, behind the state mutex
    nextGen,      \* next_generation
    pending,      \* path -> PendingWork
    inflight,     \* path -> generation
    remaining,    \* initial_remaining
    started,      \* initial_started, set together with model and store
    complete,     \* reconciliation_complete
    failures,     \* paths with a recorded failure
    persistError, \* persistence_error is set
    queryable,    \* store_queryable
    permit,       \* notify holds a permit: the next wait returns at once
    \* EmbeddingStore, behind its RwLock
    store,        \* note -> its vectors
    firstPass,    \* first_pass_complete
    \* RuntimeControl
    live,         \* the liveness flag
    gate,         \* lifecycle_gate is held by a cache publication
    dropped,      \* RuntimeControl::drop has returned
    \* the coordinator task
    pc,           \* where the coordinator is
    paths,        \* current_paths read after the model was loaded
    batch,        \* path -> PendingWork taken and not yet dealt with
    meta,         \* index metadata read for the batch
    item,         \* path -> PreparedWork
    answer,       \* what the provider answered for the batch
    dirty,        \* the store has changes the cache has not
    persistDue,   \* persist_retry_at has passed
    bytes,        \* the encoded cache being written
    \* durable state and the environment
    space,        \* space identity of the configured model
    cache,        \* embeddings.bin
    legacy,       \* a cache at an older location (cache_migration_sources)
    edits,        \* changes made so far
    faults,       \* failures so far
    restarts      \* crashes and drops so far

vaultVars  == <<disk, index, owed, hand>>
workVars   == <<pending, inflight, remaining, failures>>
phaseVars  == <<started, complete, persistError, queryable>>
stateVars  == <<nextGen, workVars, phaseVars, permit>>
storeVars  == <<store, firstPass>>
ctrlVars   == <<live, gate, dropped>>
batchVars  == <<batch, meta, item, answer>>
cacheVars  == <<dirty, persistDue, bytes>>
taskVars   == <<pc, paths, batchVars, cacheVars>>
diskVars   == <<space, cache, legacy>>
boundVars  == <<edits, faults, restarts>>
vars == <<vaultVars, stateVars, storeVars, ctrlVars, taskVars, diskVars,
          boundVars>>

-----------------------------------------------------------------------------
(* Values.                                                                 *)

Hash     == [title : Titles, body : Bodies]
Work     == [gen : Nat, kind : {"upsert", "remove"}, due : BOOLEAN]
Vectors  == [chunks  : Seq(Hash),              \* content_hash of chunk 0, 1, ...
             summary : Hash \cup {Absent},     \* content_hash of the summary
             head    : Bodies \cup {Absent},   \* whose headings it was built from
             space   : Spaces \cup {Absent}]   \* the model that made the vectors
Prepared == [kind : {"remove", "failed", "upsert"},
             hash : Hash \cup {Absent}, head : Bodies \cup {Absent}]
Event    == [note : Notes, kind : {"upsert", "remove"}, indexed : BOOLEAN]
CacheFile == [store : [Notes -> Vectors], first : BOOLEAN, space : Spaces]
Replies  == {"vectors", "malformed", "error"}

NoVectors == [chunks |-> <<>>, summary |-> Absent, head |-> Absent,
              space |-> Absent]
Nothing   == [n \in Notes |-> Absent]
NoStore   == [n \in Notes |-> NoVectors]

\* has_note and is_empty of the store
HasNote(v)     == v.chunks # <<>> \/ v.summary # Absent
HasVectors(st) == \E n \in Notes : HasNote(st[n])

\* What a complete commit stores: every chunk and the summary under one hash.
VectorsOf(hash, head, sp) ==
    [chunks |-> [i \in 1..Pieces[hash.body] |-> hash], summary |-> hash,
     head |-> head, space |-> sp]

\* What is left when insert_hashed refuses the second vector of a note.
PartOf(hash, sp) == [NoVectors EXCEPT !.chunks = <<hash>>, !.space = sp]

\* A note has either no vectors or all of one content's.
Whole(v, sp) ==
    \/ v = NoVectors
    \/ /\ v.summary # Absent
       /\ Pieces[v.summary.body] > 0
       /\ v = VectorsOf(v.summary, v.head, sp)

ASSUME NotesAssumption    == Notes \subseteq Nat /\ IsFiniteSet(Notes)
ASSUME ContentsAssumption == Contents \subseteq Hash
ASSUME PiecesAssumption   == Pieces \in [Bodies -> Nat]
ASSUME AbsentAssumption   ==
    /\ Absent \notin Nat /\ Absent \notin Bodies /\ Absent \notin Spaces
    /\ Absent \notin Hash
    /\ Absent \notin Work
    /\ Absent \notin Prepared
    /\ Absent \notin Event
    /\ Absent \notin CacheFile
ASSUME LegaciesAssumption ==
    \A c \in Legacies \ {Absent} :
        c \in CacheFile /\ \A n \in Notes : Whole(c.store[n], c.space)
ASSUME BoundsAssumption   ==
    /\ BatchSize \in Nat \ {0}
    /\ MaxEdits \in Nat /\ MaxFaults \in Nat /\ MaxRestarts \in Nat

Indexed    == {n \in Notes : index[n] # Absent}
InBatch    == {n \in Notes : batch[n] # Absent}
Unprepared == {n \in InBatch : item[n] = Absent}

\* Something of the environment fails.
Fault == faults < MaxFaults /\ faults' = faults + 1 /\ UNCHANGED <<edits, restarts>>

-----------------------------------------------------------------------------
(* RuntimeState helpers.                                                   *)

\* next_generation never hands out a number twice in one run of the process
\* (the wrap at 2^64 is out of reach).
Intent(gen, kind) == [gen |-> gen, kind |-> kind, due |-> TRUE]

\* Mutation: the work in flight is asked first.
InflightGeneration(n) == IF inflight[n] # Absent THEN inflight[n] ELSE pending[n].gen

\* state_generation: the newest intent for a path wins over in-flight work.
StateGeneration(n) == IF pending[n] # Absent THEN pending[n].gen ELSE inflight[n]

IsCurrent(n) == StateGeneration(n) = batch[n].gen

\* Mutation: the work stays in flight.
FinishStillInflight(n) ==
    /\ remaining' = remaining \ {n}
    /\ failures'  = failures \ {n}
    /\ UNCHANGED <<pending, inflight, permit>>

\* finish_success
FinishSuccess(n) ==
    /\ inflight'  = [inflight EXCEPT ![n] = Absent]
    /\ remaining' = remaining \ {n}
    /\ failures'  = failures \ {n}
    /\ UNCHANGED <<pending, permit>>

\* Work whose generation is no longer the newest is dropped without effect.
Discard(n) ==
    /\ inflight' = [inflight EXCEPT ![n] = Absent]
    /\ UNCHANGED <<pending, remaining, failures, permit>>

\* Mutation: failed work is recorded and forgotten.
RecordFailure(S) ==
    LET again == {n \in S : IsCurrent(n)} IN
    /\ inflight'  = [n \in Notes |-> IF n \in S THEN Absent ELSE inflight[n]]
    /\ remaining' = remaining \ again
    /\ failures'  = failures \cup again
    /\ permit'    = TRUE
    /\ UNCHANGED pending

\* requeue_failure for every note of S: only current work comes back, with a
\* retry delay; the coordinator is notified.
RequeueFailure(S) ==
    LET again == {n \in S : IsCurrent(n)} IN
    /\ inflight'  = [n \in Notes |-> IF n \in S THEN Absent ELSE inflight[n]]
    /\ remaining' = remaining \ again
    /\ failures'  = failures \cup again
    /\ pending'   = [n \in Notes |-> IF n \in again
                                     THEN [batch[n] EXCEPT !.due = FALSE]
                                     ELSE pending[n]]
    /\ permit'    = TRUE

\* One intent for every note of S, numbered in path order from gen + 1.
IntentsFor(S, gen) ==
    [n \in S |-> Intent(gen + Cardinality({m \in S : m <= n}), "upsert")]

-----------------------------------------------------------------------------
(* The vault and the watcher, the producer of intents.                     *)

\* A note is created, changed or deleted on disk; the filesystem will say so.
Edit(n, c) ==
    /\ edits < MaxEdits
    /\ c # disk[n]
    /\ disk'  = [disk EXCEPT ![n] = c]
    /\ owed'  = owed \cup {n}
    /\ edits' = edits + 1
    /\ UNCHANGED <<index, hand, faults, restarts>>
    /\ UNCHANGED <<stateVars, storeVars, ctrlVars, taskVars, diskVars>>

\* process_event takes one debounced event and looks whether the file exists.
Notice(n) ==
    /\ n \in owed /\ hand = Absent
    /\ owed' = owed \ {n}
    /\ hand' = [note |-> n, indexed |-> FALSE,
                kind |-> IF disk[n] = Absent THEN "remove" ELSE "upsert"]
    /\ UNCHANGED <<disk, index>>
    /\ UNCHANGED <<stateVars, storeVars, ctrlVars, taskVars, diskVars, boundVars>>

\* Under the index lock the note is forgotten, then parsed again.  A note that
\* went away since stays forgotten and ends the handling of this event; its
\* own event follows.
Reindex ==
    /\ hand # Absent /\ ~hand.indexed
    /\ index' = [index EXCEPT ![hand.note] =
                     IF hand.kind = "remove" THEN Absent ELSE disk[hand.note]]
    /\ hand'  = IF hand.kind = "upsert" /\ disk[hand.note] = Absent
                THEN Absent
                ELSE [hand EXCEPT !.indexed = TRUE]
    /\ UNCHANGED <<disk, owed>>
    /\ UNCHANGED <<stateVars, storeVars, ctrlVars, taskVars, diskVars, boundVars>>

\* Mutation: the coordinator is not notified.
SubmitSilently ==
    /\ hand # Absent /\ hand.indexed
    /\ hand' = Absent
    /\ nextGen' = nextGen + 1
    /\ pending' = [pending EXCEPT ![hand.note] = Intent(nextGen + 1, hand.kind)]
    /\ UNCHANGED <<permit, disk, index, owed>>
    /\ UNCHANGED <<inflight, remaining, failures, phaseVars>>
    /\ UNCHANGED <<storeVars, ctrlVars, taskVars, diskVars, boundVars>>

\* submit: the newest intent for a path replaces the one still queued, and
\* the coordinator is notified.  A weak handle whose runtime is gone submits
\* nothing.
Submit ==
    /\ hand # Absent /\ hand.indexed
    /\ hand' = Absent
    /\ IF live
       THEN /\ nextGen' = nextGen + 1
            /\ pending' = [pending EXCEPT ![hand.note] =
                              Intent(nextGen + 1, hand.kind)]
            /\ permit'  = TRUE
       ELSE UNCHANGED <<nextGen, pending, permit>>
    /\ UNCHANGED <<disk, index, owed>>
    /\ UNCHANGED <<inflight, remaining, failures, phaseVars>>
    /\ UNCHANGED <<storeVars, ctrlVars, taskVars, diskVars, boundVars>>

-----------------------------------------------------------------------------
(* Start of the coordinator.                                               *)

\* loader.await returned a model; the note paths are read right after.
LoadModel ==
    /\ pc = "load"
    /\ pc'    = IF live THEN "migrate" ELSE "stopped"
    /\ paths' = IF live THEN Indexed ELSE paths
    /\ UNCHANGED <<batchVars, cacheVars>>
    /\ UNCHANGED <<vaultVars, stateVars, storeVars, ctrlVars, diskVars, boundVars>>

\* loader.await failed: the status is degraded for good and the task ends.
LoadModelFails ==
    /\ pc = "load"
    /\ Fault
    /\ pc' = "failed"
    /\ UNCHANGED <<paths, batchVars, cacheVars>>
    /\ UNCHANGED <<vaultVars, stateVars, storeVars, ctrlVars, diskVars>>

\* migrate_cache_candidates_to_path under the lifecycle gate: an older cache
\* is copied to the new place unless a cache is already there.
MigrateCache ==
    /\ pc = "migrate"
    /\ ~gate
    /\ pc'    = IF live THEN "open" ELSE "stopped"
    /\ cache' = IF live /\ cache = Absent THEN legacy ELSE cache
    /\ UNCHANGED <<space, legacy>>
    /\ UNCHANGED <<paths, batchVars, cacheVars>>
    /\ UNCHANGED <<vaultVars, stateVars, storeVars, ctrlVars, boundVars>>

\* load_for_space: a cache of another embedding space is rejected.
Loadable(c) == c # Absent /\ c.space = space

\* Mutation: an unfinished cache is as good as a finished one.
PublishableEarly(c) == Loadable(c)

\* previously_publishable: only a cache saved after a first pass is served.
Publishable(c) == Loadable(c) /\ c.first

Loaded(c) == IF Loadable(c) THEN c.store ELSE NoStore

\* retain_paths: vectors of notes that are gone are dropped.
Retained(st) == [n \in Notes |-> IF n \in paths THEN st[n] ELSE NoVectors]

\* The cache is read and pruned, and the store is published to RuntimeState
\* with an intent for every note.
OpenStore ==
    /\ pc = "open"
    /\ live
    /\ LET fresh  == {n \in paths : pending[n] = Absent}
           queued == IntentsFor(fresh, nextGen)
       IN /\ store'     = Retained(Loaded(cache))
          /\ firstPass' = (Loadable(cache) /\ cache.first)
          /\ dirty'     = (store' # Loaded(cache))
          /\ queryable' = (Publishable(cache) /\ (paths = {} \/ HasVectors(store')))
          /\ pending'   = [n \in Notes |-> IF n \in fresh THEN queued[n]
                                                          ELSE pending[n]]
          /\ nextGen'   = nextGen + Cardinality(fresh)
    /\ started'   = TRUE
    /\ remaining' = paths
    /\ pc'        = "finalize"
    /\ UNCHANGED <<inflight, complete, failures, persistError, permit>>
    /\ UNCHANGED <<paths, batchVars, persistDue, bytes>>
    /\ UNCHANGED <<vaultVars, ctrlVars, diskVars, boundVars>>

\* The liveness check after the cache was read.
StopBeforeOpen ==
    /\ pc = "open"
    /\ ~live
    /\ pc' = "stopped"
    /\ UNCHANGED <<paths, batchVars, cacheVars>>
    /\ UNCHANGED <<vaultVars, stateVars, storeVars, ctrlVars, diskVars, boundVars>>

\* finalize_reconciliation_if_complete, after the start and after each batch.
Finalize ==
    /\ pc = "finalize"
    /\ ~gate
    /\ pc' = "loop"
    /\ IF live /\ started /\ ~complete /\ remaining = {}
       THEN /\ complete'  = TRUE
            /\ firstPass' = TRUE
            /\ dirty'     = (dirty \/ ~firstPass)
            /\ queryable' = (queryable \/ Indexed = {} \/ HasVectors(store))
       ELSE UNCHANGED <<complete, firstPass, dirty, queryable>>
    /\ UNCHANGED <<nextGen, workVars, started, persistError, permit>>
    /\ UNCHANGED <<paths, batchVars, persistDue, bytes, store>>
    /\ UNCHANGED <<vaultVars, ctrlVars, diskVars, boundVars>>

-----------------------------------------------------------------------------
(* One batch.                                                              *)

\* retry_delay has passed for a failed note; a wait sleeps no longer than that.
RetryDue(n) ==
    /\ pending[n] # Absent
    /\ ~pending[n].due
    /\ pending' = [pending EXCEPT ![n].due = TRUE]
    /\ pc' = IF pc = "wait" THEN "loop" ELSE pc
    /\ UNCHANGED <<nextGen, inflight, remaining, failures, phaseVars, permit>>
    /\ UNCHANGED <<paths, batchVars, cacheVars>>
    /\ UNCHANGED <<vaultVars, storeVars, ctrlVars, diskVars, boundVars>>

Due == {n \in Notes : pending[n] # Absent /\ pending[n].due}

\* The batch order of take_due_batch: removals first, then by path.
Precedes(n, m) ==
    \/ pending[n].kind = "remove" /\ pending[m].kind = "upsert"
    \/ pending[n].kind = pending[m].kind /\ n < m

\* take_due_batch.  The liveness flag may be cleared just after the loop
\* looked at it.
TakeDueBatch ==
    /\ pc = "loop"
    /\ \E S \in SUBSET Due :
          /\ S # {}
          /\ Cardinality(S) <= BatchSize
          /\ Cardinality(S) < BatchSize => S = Due
          /\ \A n \in S, m \in Due \ S : Precedes(n, m)
          /\ batch'    = [n \in Notes |-> IF n \in S THEN pending[n] ELSE Absent]
          /\ inflight' = [n \in Notes |-> IF n \in S THEN pending[n].gen
                                                     ELSE inflight[n]]
          /\ pending'  = [n \in Notes |-> IF n \in S THEN Absent ELSE pending[n]]
    /\ pc'   = "meta"
    /\ item' = Nothing
    /\ UNCHANGED <<nextGen, remaining, failures, phaseVars, permit>>
    /\ UNCHANGED <<paths, meta, answer, cacheVars>>
    /\ UNCHANGED <<vaultVars, storeVars, ctrlVars, diskVars, boundVars>>

\* Nothing is due: the coordinator waits for a notification or for the
\* earliest timer.  Changes wait for the dirty interval while notes are queued.
Wait ==
    /\ pc = "loop"
    /\ live
    /\ Due = {}
    /\ dirty /\ persistDue => pending # Nothing
    /\ pc' = "wait"
    /\ UNCHANGED <<paths, batchVars, cacheVars>>
    /\ UNCHANGED <<vaultVars, stateVars, storeVars, ctrlVars, diskVars, boundVars>>

\* The select returns: the permit is consumed, or the time to save has come.
Wake ==
    /\ pc = "wait"
    /\ permit \/ (dirty /\ persistDue)
    /\ pc' = "loop"
    /\ permit' = FALSE
    /\ UNCHANGED <<nextGen, workVars, phaseVars>>
    /\ UNCHANGED <<paths, batchVars, cacheVars>>
    /\ UNCHANGED <<vaultVars, storeVars, ctrlVars, diskVars, boundVars>>

\* prepare_batch, first half: the metadata of the batch is copied out of the
\* index and the index lock is released.
ReadMetadata ==
    /\ pc = "meta"
    /\ meta' = [n \in Notes |-> IF n \in InBatch THEN index[n] ELSE Absent]
    /\ pc'   = "prepare"
    /\ UNCHANGED <<paths, batch, item, answer, cacheVars>>
    /\ UNCHANGED <<vaultVars, stateVars, storeVars, ctrlVars, diskVars, boundVars>>

\* What prepare_batch makes of one intent, the file being read now.
PrepareWork(n) ==
    LET only(kind) == [kind |-> kind, hash |-> Absent, head |-> Absent] IN
    IF batch[n].kind = "remove" \/ meta[n] = Absent THEN only("remove")
    ELSE IF disk[n] = Absent THEN only("failed")
    ELSE IF Pieces[disk[n].body] = 0 THEN only("remove")
    ELSE [kind |-> "upsert",
          hash |-> [title |-> meta[n].title, body |-> disk[n].body],
          head |-> meta[n].body]

\* prepare_batch, second half: the notes of the batch are read one by one.
PrepareNote(n) ==
    /\ pc = "prepare"
    /\ n \in Unprepared
    /\ item' = [item EXCEPT ![n] = PrepareWork(n)]
    /\ pc'   = IF Unprepared = {n} THEN "apply" ELSE "prepare"
    /\ UNCHANGED <<paths, batch, meta, answer, cacheVars>>
    /\ UNCHANGED <<vaultVars, stateVars, storeVars, ctrlVars, diskVars, boundVars>>

\* Mutation: a file that cannot be read counts as removed.
PrepareReadRemoves(n) ==
    /\ pc = "prepare"
    /\ n \in Unprepared
    /\ batch[n].kind = "upsert" /\ meta[n] # Absent
    /\ Fault
    /\ item' = [item EXCEPT ![n] = [kind |-> "remove", hash |-> Absent,
                                    head |-> Absent]]
    /\ pc'   = IF Unprepared = {n} THEN "apply" ELSE "prepare"
    /\ UNCHANGED <<paths, batch, meta, answer, cacheVars>>
    /\ UNCHANGED <<vaultVars, stateVars, storeVars, ctrlVars, diskVars>>

\* The same step when an existing file cannot be read.
PrepareReadFails(n) ==
    /\ pc = "prepare"
    /\ n \in Unprepared
    /\ batch[n].kind = "upsert" /\ meta[n] # Absent
    /\ Fault
    /\ item' = [item EXCEPT ![n] = [kind |-> "failed", hash |-> Absent,
                                    head |-> Absent]]
    /\ pc'   = IF Unprepared = {n} THEN "apply" ELSE "prepare"
    /\ UNCHANGED <<paths, batch, meta, answer, cacheVars>>
    /\ UNCHANGED <<vaultVars, stateVars, storeVars, ctrlVars, diskVars>>

\* The preparation task died (JoinError): the whole batch is queued again.
PrepareTaskFails ==
    /\ pc = "prepare"
    /\ Fault
    /\ RequeueFailure(InBatch)
    /\ batch' = Nothing
    /\ item'  = Nothing
    /\ pc'    = "finalize"
    /\ UNCHANGED <<nextGen, phaseVars>>
    /\ UNCHANGED <<paths, meta, answer, cacheVars>>
    /\ UNCHANGED <<vaultVars, storeVars, ctrlVars, diskVars>>

\* The note leaves the batch.
Leave(n) ==
    /\ batch' = [batch EXCEPT ![n] = Absent]
    /\ item'  = [item EXCEPT ![n] = Absent]

\* commit_remove, whole under the lifecycle gate and the state lock.
CommitRemove(n) ==
    /\ pc = "apply"
    /\ n \in InBatch /\ item[n].kind = "remove"
    /\ ~gate
    /\ Leave(n)
    /\ IF ~live
       THEN UNCHANGED <<workVars, permit, store, dirty>>
       ELSE IF ~IsCurrent(n)
       THEN Discard(n) /\ UNCHANGED <<store, dirty>>
       ELSE /\ FinishSuccess(n)
            /\ store' = [store EXCEPT ![n] = NoVectors]
            /\ dirty' = (dirty \/ HasNote(store[n]))
    /\ UNCHANGED <<nextGen, phaseVars>>
    /\ UNCHANGED <<pc, paths, meta, answer, persistDue, bytes, firstPass>>
    /\ UNCHANGED <<vaultVars, ctrlVars, diskVars, boundVars>>

\* A note that could not be read goes back to the queue.
RequeueFailedRead(n) ==
    /\ pc = "apply"
    /\ n \in InBatch /\ item[n].kind = "failed"
    /\ RequeueFailure({n})
    /\ Leave(n)
    /\ UNCHANGED <<nextGen, phaseVars>>
    /\ UNCHANGED <<pc, paths, meta, answer, cacheVars>>
    /\ UNCHANGED <<vaultVars, storeVars, ctrlVars, diskVars, boundVars>>

\* Mutation: any vectors will do.
HasVectorsAlready(n) == store[n].chunks # <<>>

\* The hash of chunk 0 stands for the whole note.
Unchanged(n) == store[n].chunks # <<>> /\ store[n].chunks[1] = item[n].hash

\* mark_success: the stored vectors were made from the same title and body.
SkipUnchanged(n) ==
    /\ pc = "apply"
    /\ n \in InBatch /\ item[n].kind = "upsert" /\ Unchanged(n)
    /\ Leave(n)
    /\ IF IsCurrent(n) THEN FinishSuccess(n) ELSE Discard(n)
    /\ UNCHANGED <<nextGen, phaseVars>>
    /\ UNCHANGED <<pc, paths, meta, answer, cacheVars>>
    /\ UNCHANGED <<vaultVars, storeVars, ctrlVars, diskVars, boundVars>>

\* All that is left of the batch are changed notes, or nothing is left.
StartInference ==
    /\ pc = "apply"
    /\ \A n \in InBatch : item[n].kind = "upsert" /\ ~Unchanged(n)
    /\ pc' = IF InBatch = {} THEN "finalize" ELSE "embed"
    /\ UNCHANGED <<paths, batchVars, cacheVars>>
    /\ UNCHANGED <<vaultVars, stateVars, storeVars, ctrlVars, diskVars, boundVars>>

\* Mutation: the answer is not validated.
AcceptedUnseen(reply) == reply # "error"

\* validate_embedding_batch: an answer goes on only with the right count of
\* finite, non-zero vectors of the model's dimension.
Accepted(reply) == reply = "vectors"

\* The inference task ends: all of the batch goes on, or all of it is queued
\* again (a JoinError included).
Infer(reply) ==
    /\ pc = "embed"
    /\ IF reply = "vectors" THEN UNCHANGED boundVars ELSE Fault
    /\ IF Accepted(reply)
       THEN /\ pc' = "commit"
            /\ answer' = reply
            /\ UNCHANGED <<workVars, permit, batch, item>>
       ELSE /\ pc' = "finalize"
            /\ answer' = Absent
            /\ RequeueFailure(InBatch)
            /\ batch' = Nothing
            /\ item'  = Nothing
    /\ UNCHANGED <<nextGen, phaseVars>>
    /\ UNCHANGED <<paths, meta, cacheVars>>
    /\ UNCHANGED <<vaultVars, storeVars, ctrlVars, diskVars>>

\* commit_upsert_chunks, whole under the lifecycle gate and the state lock.
\* A vector the store refuses leaves the chunks inserted before it.
CommitUpsert(n) ==
    /\ pc = "commit"
    /\ n \in InBatch
    /\ ~gate
    /\ Leave(n)
    /\ IF ~live
       THEN UNCHANGED <<workVars, permit, store, dirty, queryable>>
       ELSE IF ~IsCurrent(n)
       THEN Discard(n) /\ UNCHANGED <<store, dirty, queryable>>
       ELSE IF answer = "vectors"
       THEN /\ FinishSuccess(n)
            /\ store' = [store EXCEPT ![n] =
                            VectorsOf(item[n].hash, item[n].head, space)]
            /\ dirty' = TRUE
            /\ queryable' = (queryable \/ complete)
       ELSE /\ RequeueFailure({n})
            /\ store' = [store EXCEPT ![n] = PartOf(item[n].hash, space)]
            /\ UNCHANGED <<dirty, queryable>>
    /\ UNCHANGED <<nextGen, started, complete, persistError>>
    /\ UNCHANGED <<pc, paths, meta, answer, persistDue, bytes, firstPass>>
    /\ UNCHANGED <<vaultVars, ctrlVars, diskVars, boundVars>>

\* process_batch returns to the loop.
EndBatch ==
    /\ pc = "commit"
    /\ InBatch = {}
    /\ pc' = "finalize"
    /\ answer' = Absent
    /\ UNCHANGED <<paths, batch, meta, item, cacheVars>>
    /\ UNCHANGED <<vaultVars, stateVars, storeVars, ctrlVars, diskVars, boundVars>>

-----------------------------------------------------------------------------
(* Persistence.                                                            *)

\* The retry delay of a failed cache write has passed.
PersistRetryDue ==
    /\ ~persistDue
    /\ persistDue' = TRUE
    /\ UNCHANGED <<pc, paths, batchVars, dirty, bytes>>
    /\ UNCHANGED <<vaultVars, stateVars, storeVars, ctrlVars, diskVars, boundVars>>

\* persist_store, first half: the store is encoded under its read lock.  It
\* starts between two batches, when the queue is empty or the dirty interval
\* has passed; the interval is abstracted from.
EncodeCache ==
    /\ pc = "loop"
    /\ dirty /\ persistDue
    /\ bytes' = [store |-> store, first |-> firstPass, space |-> space]
    /\ pc'    = "encoded"
    /\ UNCHANGED <<paths, batchVars, dirty, persistDue>>
    /\ UNCHANGED <<vaultVars, stateVars, storeVars, ctrlVars, diskVars, boundVars>>

\* The writer takes the lifecycle gate and checks that the runtime is live.
EnterGate ==
    /\ pc = "encoded"
    /\ ~gate
    /\ gate' = live
    /\ pc'   = IF live THEN "write" ELSE "stopped"
    /\ UNCHANGED <<live, dropped>>
    /\ UNCHANGED <<paths, batchVars, cacheVars>>
    /\ UNCHANGED <<vaultVars, stateVars, storeVars, diskVars, boundVars>>

\* The temporary file is complete and synced: the flag is checked once more.
CheckLiveAgain ==
    /\ pc = "write"
    /\ gate' = live
    /\ pc'   = IF live THEN "rename" ELSE "stopped"
    /\ UNCHANGED <<live, dropped>>
    /\ UNCHANGED <<paths, batchVars, cacheVars>>
    /\ UNCHANGED <<vaultVars, stateVars, storeVars, diskVars, boundVars>>

\* The file is renamed over the cache and the gate released.
ReplaceCache ==
    /\ pc = "rename"
    /\ gate'  = FALSE
    /\ cache' = bytes
    /\ bytes' = Absent
    /\ dirty' = FALSE
    /\ persistError' = FALSE
    /\ pc'    = "loop"
    /\ UNCHANGED <<nextGen, workVars, started, complete, queryable, permit>>
    /\ UNCHANGED <<live, dropped, space, legacy>>
    /\ UNCHANGED <<paths, batchVars, persistDue>>
    /\ UNCHANGED <<vaultVars, storeVars, boundVars>>

\* Mutation: the write is given up.
WriteFailsForGood ==
    /\ pc = "write"
    /\ Fault
    /\ gate'  = FALSE
    /\ bytes' = Absent
    /\ dirty' = FALSE
    /\ persistError' = TRUE
    /\ pc'    = "loop"
    /\ UNCHANGED <<nextGen, workVars, started, complete, queryable, permit>>
    /\ UNCHANGED <<live, dropped>>
    /\ UNCHANGED <<paths, batchVars, persistDue>>
    /\ UNCHANGED <<vaultVars, storeVars, diskVars>>

\* Writing the temporary file or renaming it failed: retried after a delay.
WriteFails ==
    /\ pc \in {"write", "rename"}
    /\ Fault
    /\ gate'  = FALSE
    /\ bytes' = Absent
    /\ persistDue'   = FALSE
    /\ persistError' = TRUE
    /\ pc'    = "loop"
    /\ UNCHANGED <<nextGen, workVars, started, complete, queryable, permit>>
    /\ UNCHANGED <<live, dropped>>
    /\ UNCHANGED <<paths, batchVars, dirty>>
    /\ UNCHANGED <<vaultVars, storeVars, diskVars>>

-----------------------------------------------------------------------------
(* Drop, crash and restart.                                                *)

\* RuntimeControl::drop clears the liveness flag first.
BeginDrop ==
    /\ live
    /\ restarts < MaxRestarts
    /\ live' = FALSE
    /\ restarts' = restarts + 1
    /\ UNCHANGED <<gate, dropped, edits, faults>>
    /\ UNCHANGED <<vaultVars, stateVars, storeVars, taskVars, diskVars>>

\* Mutation: drop does not wait for the gate.
EndDropAtOnce ==
    /\ ~live /\ ~dropped
    /\ dropped' = TRUE
    /\ UNCHANGED <<live, gate>>
    /\ UNCHANGED <<vaultVars, stateVars, storeVars, taskVars, diskVars, boundVars>>

\* It then waits for the lifecycle gate, aborts the task and returns.
EndDrop ==
    /\ ~live /\ ~dropped
    /\ ~gate
    /\ dropped' = TRUE
    /\ UNCHANGED <<live, gate>>
    /\ UNCHANGED <<vaultVars, stateVars, storeVars, taskVars, diskVars, boundVars>>

\* The loop leaves at its liveness check; the abort takes effect at an await.
\* A write that runs on the blocking pool is not cut short by the abort.
Stop ==
    /\ \/ pc = "loop" /\ ~live
       \/ pc \in {"load", "migrate", "wait", "prepare", "embed"} /\ dropped
    /\ pc' = "stopped"
    /\ UNCHANGED <<paths, batchVars, cacheVars>>
    /\ UNCHANGED <<vaultVars, stateVars, storeVars, ctrlVars, diskVars, boundVars>>

\* A new runtime over the same vault: the index is built from the disk, every
\* indexed note is queued (spawn_with_cache_sources), all else is fresh.
Spawn ==
    LET present == {n \in Notes : disk[n] # Absent}
        queued  == IntentsFor(present, 0)
    IN /\ index' = disk /\ owed' = {} /\ hand' = Absent
       /\ nextGen' = Cardinality(present)
       /\ pending' = [n \in Notes |-> IF n \in present THEN queued[n]
                                                       ELSE Absent]
       /\ inflight' = Nothing /\ remaining' = {} /\ failures' = {}
       /\ started' = FALSE /\ complete' = FALSE
       /\ persistError' = FALSE /\ queryable' = FALSE /\ permit' = FALSE
       /\ store' = NoStore /\ firstPass' = FALSE
       /\ live' = TRUE /\ gate' = FALSE /\ dropped' = FALSE
       /\ pc' = "load" /\ paths' = {}
       /\ batch' = Nothing /\ meta' = Nothing /\ item' = Nothing
       /\ answer' = Absent
       /\ dirty' = FALSE /\ persistDue' = TRUE /\ bytes' = Absent
       /\ space' \in Spaces

\* The process dies at any point and is started again.
Crash ==
    /\ live
    /\ restarts < MaxRestarts
    /\ restarts' = restarts + 1
    /\ Spawn
    /\ UNCHANGED <<disk, cache, legacy, edits, faults>>

\* A dropped runtime whose task has ended is replaced by a new one.
Respawn ==
    /\ dropped
    /\ pc \in {"stopped", "failed"}
    /\ Spawn
    /\ UNCHANGED <<disk, cache, legacy, boundVars>>

-----------------------------------------------------------------------------

Init ==
    /\ disk \in [Notes -> Contents \cup {Absent}]
    /\ index = disk /\ owed = {} /\ hand = Absent
    /\ nextGen = Cardinality({n \in Notes : disk[n] # Absent})
    /\ pending = [n \in Notes |->
                    IF disk[n] = Absent THEN Absent
                    ELSE IntentsFor({m \in Notes : disk[m] # Absent}, 0)[n]]
    /\ inflight = Nothing /\ remaining = {} /\ failures = {}
    /\ started = FALSE /\ complete = FALSE
    /\ persistError = FALSE /\ queryable = FALSE /\ permit = FALSE
    /\ store = NoStore /\ firstPass = FALSE
    /\ live = TRUE /\ gate = FALSE /\ dropped = FALSE
    /\ pc = "load" /\ paths = {}
    /\ batch = Nothing /\ meta = Nothing /\ item = Nothing
    /\ answer = Absent
    /\ dirty = FALSE /\ persistDue = TRUE /\ bytes = Absent
    /\ space \in Spaces
    /\ cache = Absent
    /\ legacy \in Legacies
    /\ edits = 0 /\ faults = 0 /\ restarts = 0

Watcher == (\E n \in Notes : Notice(n)) \/ Reindex \/ Submit

Timers == PersistRetryDue \/ \E n \in Notes : RetryDue(n)

Coordinator ==
    \/ LoadModel \/ LoadModelFails \/ MigrateCache \/ OpenStore
    \/ StopBeforeOpen \/ Finalize \/ TakeDueBatch \/ Wait \/ Wake
    \/ ReadMetadata
    \/ \E n \in Notes : \/ PrepareNote(n) \/ PrepareReadFails(n)
                        \/ CommitRemove(n) \/ RequeueFailedRead(n)
                        \/ SkipUnchanged(n) \/ CommitUpsert(n)
    \/ PrepareTaskFails \/ StartInference
    \/ \E reply \in Replies : Infer(reply)
    \/ EndBatch \/ EncodeCache \/ EnterGate \/ CheckLiveAgain \/ ReplaceCache
    \/ WriteFails \/ Stop

Next ==
    \/ \E n \in Notes, c \in Contents \cup {Absent} : Edit(n, c)
    \/ Watcher \/ Timers \/ Coordinator
    \/ BeginDrop \/ EndDrop \/ Crash \/ Respawn

Spec == Init /\ [][Next]_vars

\* Tasks that can run do run, timers expire, the watcher handles its events.
\* Nothing is assumed of edits, crashes and drops, and nothing says that a
\* read, an inference or a write succeeds: only the number of faults is bounded.
Fairness ==
    /\ WF_vars(Coordinator)
    /\ WF_vars(Reindex) /\ WF_vars(Submit)
    /\ WF_vars(PersistRetryDue)
    /\ \A n \in Notes : WF_vars(Notice(n)) /\ WF_vars(RetryDue(n))

FairSpec == Spec /\ Fairness

-----------------------------------------------------------------------------
(* Properties.                                                             *)

VaultTypeOK ==
    /\ disk \in [Notes -> Contents \cup {Absent}]
    /\ index \in [Notes -> Contents \cup {Absent}]
    /\ owed \subseteq Notes
    /\ hand \in Event \cup {Absent}

StateTypeOK ==
    /\ nextGen \in Nat
    /\ pending \in [Notes -> Work \cup {Absent}]
    /\ inflight \in [Notes -> Nat \cup {Absent}]
    /\ remaining \subseteq Notes /\ failures \subseteq Notes
    /\ started \in BOOLEAN /\ complete \in BOOLEAN
    /\ persistError \in BOOLEAN /\ queryable \in BOOLEAN
    /\ permit \in BOOLEAN
    /\ live \in BOOLEAN /\ gate \in BOOLEAN /\ dropped \in BOOLEAN

TaskTypeOK ==
    /\ pc \in {"load", "migrate", "open", "finalize", "loop", "wait", "meta",
               "prepare", "apply", "embed", "commit", "encoded", "write",
               "rename", "stopped", "failed"}
    /\ paths \subseteq Notes
    /\ batch \in [Notes -> Work \cup {Absent}]
    /\ meta \in [Notes -> Contents \cup {Absent}]
    /\ item \in [Notes -> Prepared \cup {Absent}]
    /\ answer \in Replies \cup {Absent}
    /\ dirty \in BOOLEAN /\ persistDue \in BOOLEAN

StoreTypeOK ==
    /\ store \in [Notes -> Vectors] /\ firstPass \in BOOLEAN
    /\ space \in Spaces
    /\ bytes \in CacheFile \cup {Absent}
    /\ cache \in CacheFile \cup {Absent}
    /\ legacy \in Legacies

BoundsTypeOK ==
    edits \in 0..MaxEdits /\ faults \in 0..MaxFaults /\ restarts \in 0..MaxRestarts

TypeOK == VaultTypeOK /\ StateTypeOK /\ TaskTypeOK /\ StoreTypeOK /\ BoundsTypeOK

\* What status() answers of an open store (status_for_loaded_state): the first
\* error, a failed cache write before a failed note, hides the work that is left.
Outstanding == {n \in Notes : pending[n] # Absent \/ inflight[n] # Absent}
Phase ==
    CASE persistError \/ failures # {} -> "degraded"
      [] ~(persistError \/ failures # {}) /\ (~complete \/ Outstanding # {}) -> "warming"
      [] OTHER -> "ready"
\* query_snapshot answers from the store; otherwise a search says not_ready.
Answerable == started /\ queryable

\* Nobody still has to say something about note n.
Quiet(n) ==
    /\ n \notin owed
    /\ hand = Absent \/ hand.note # n
    /\ pending[n] = Absent /\ inflight[n] = Absent

\* The vectors v are those of content c; a body without chunks has none.
Reflects(v, c) ==
    IF c = Absent \/ Pieces[c.body] = 0
    THEN v = NoVectors
    ELSE v.summary = c

\* Once the store is open and no event or intent for a note is outstanding,
\* the store holds exactly the vectors of what is on disk: no order of edits,
\* events, stale in-flight work, failures and retries leaves a note behind.
QuietNotesAreCurrent ==
    started /\ live => \A n \in Notes : Quiet(n) => Reflects(store[n], disk[n])

\* Chunks and summary of a note come and go together, in memory and in the
\* cache file, so probing chunk 0 is enough to know what a note was embedded
\* from.
NotesAreWhole ==
    \A n \in Notes :
        /\ Whole(store[n], space)
        /\ cache # Absent => Whole(cache.store[n], cache.space)

\* A status never lies about work.  A note whose first pass is open or whose
\* failure is recorded has work queued or in flight, and a failed cache write
\* leaves the store dirty, so that warming and degraded are never final; and
\* where the status says ready, no note's first pass is open and searches are
\* answered unless no note has vectors.
WorkIsNeverLost ==
    started /\ live =>
        /\ remaining \cup failures \subseteq Outstanding
        /\ persistError => dirty
        /\ Phase = "ready" => remaining = {} /\ (HasVectors(store) => Answerable)

\* Nothing is published before a first pass over every note: either this run
\* finished one, or the cache it loaded was saved after one.
NothingHalfPublished ==
    queryable => \/ complete /\ remaining = {}
                 \/ Loadable(cache) /\ cache.first

OneRun == started /\ started' /\ live /\ live'

\* While a newer intent for a note is queued, work in flight for it neither
\* changes its vectors nor puts an older intent in its place.
NewestIntentWins ==
    [][OneRun => \A n \in Notes :
          pending[n] # Absent =>
              /\ store'[n] = store[n]
              /\ pending'[n] # Absent => pending'[n].gen >= pending[n].gen]_vars

\* Whatever is queued, claimed, overtaken, failed and retried, the runtime is an
\* intent queue: an intent is carried out or replaced by a newer one, never lost,
\* and the vectors of a note change only where its newest intent is carried out.
Queue == INSTANCE IntentQueue WITH
    Keys <- Notes, Idle <- Absent, open <- started, last <- nextGen,
    newest <- [n \in Notes |-> StateGeneration(n)], claimed <- inflight,
    effect <- store
IsAnIntentQueue == Queue!Spec

\* The vectors of a note that is on disk as it was embedded, and that nobody
\* has an event for, are not given up: not for a failed read, a failed
\* inference or a removal that was overtaken.
LastKnownGood ==
    [][OneRun => \A n \in Notes :
          (/\ HasNote(store[n]) /\ store[n].summary = disk[n]
           /\ index[n] = disk[n]
           /\ n \notin owed /\ (hand = Absent \/ hand.note # n))
          => HasNote(store'[n])]_vars

\* After RuntimeControl::drop has returned, the tail of the task changes
\* neither the store nor the cache file.
NoLateWrite == [][dropped /\ dropped' => UNCHANGED <<store, cache>>]_vars

\* When faults and edits stop, every note ends up searchable by its content,
\* unless the model could not be loaded or the runtime was dropped for good.
Finished == pc = "failed" \/ ~live

EventuallyCurrent ==
    <>[](Finished \/ \A n \in Notes : Reflects(store[n], disk[n]))

\* And what is in memory ends up in the cache file, marked as complete.
EventuallySaved ==
    <>[](Finished \/ (/\ cache # Absent /\ cache.store = store
                      /\ cache.first /\ cache.space = space))
=============================================================================
