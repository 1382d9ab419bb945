-------------------------------- MODULE Search --------------------------------
(* A search over a vault that changes meanwhile: tools/search.rs, related.rs,   *)
(* the queries of vault/mod.rs and of the daemon, the scoring of embeddings.rs  *)
(* and the passages of chunker.rs. The query and the background indexing share  *)
(* the client of the embedding API. A note's text is a body of chunker.rs.      *)
EXTENDS Chunker, ApiClient

CONSTANTS
    Notes, Gone,        \* paths, and the text of a path without a file
    Words,              \* the atoms a query or a vector can tell apart
    Scope,              \* scope -> its notes
    All,                \* the scope of every note
    Query, Job,         \* callers of the API: the search and the indexing
    Setups,             \* where a search starts: texts, requests, edits, configurations
    NoVectors, Nothing,
    Unit, Weight,       \* the weight of the summary is Weight / Unit
    MaxBodyWords,
    OverfetchFactor, OverfetchExtra, MaxResultsCap,   \* semantic_candidate_limit
    DefaultPrefetch, ScopedFactor, MaxScopedPrefetch,
    CandidateDepth,     \* blend_lexical: at least so many of each arm
    Share,              \* of Unit: alpha, and the weight of the lexical arm
    MaxAsked            \* bound: searches

ASSUME WeightAssumption == Unit \in Nat \ {0} /\ Weight \in Nat /\ Share \in 0..Unit
ASSUME LimitsAssumption ==
    {MaxBodyWords, OverfetchFactor, OverfetchExtra, MaxResultsCap, DefaultPrefetch,
     ScopedFactor, MaxScopedPrefetch, CandidateDepth, MaxAsked} \subseteq Nat
ASSUME NotesAssumption == IsFiniteSet(Notes)
ASSUME ScopeAssumption ==
    All \in DOMAIN Scope /\ Scope[All] = Notes /\ \A s \in DOMAIN Scope : Scope[s] \subseteq Notes
ASSUME CallersAssumption ==
    /\ Query \in Callers /\ Job \in Callers /\ Query # Job
    /\ \A s \in DOMAIN Setups : Setups[s].others \subseteq Callers \ {Query, Job}

\* Only the full-text tool takes no scope.
ASSUME RequestsAssumption == \A s \in DOMAIN Setups : \A req \in Setups[s].requests :
    /\ req.tool \in {"semantic", "hybrid", "fused", "related", "text"} /\ req.k \in Nat
    /\ req.tool = "text" => req.scope = All
IsText(x) == x = Gone \/ x \in Seq(Range(x))
ASSUME TextsAssumption == \A s \in DOMAIN Setups :
    /\ \A d \in Setups[s].disks : DOMAIN d = Notes /\ \A n \in Notes : IsText(d[n])
    /\ \A text \in Setups[s].texts : IsText(text)
ASSUME RestartsAssumption == \A s \in DOMAIN Setups : Setups[s].restarts \in Nat
ASSUME EnvsAssumption == \A s \in DOMAIN Setups : \A e \in Setups[s].envs :
    {e.target, e.overlap} \subseteq Nat \cup {Missing}

VARIABLES
    setup,
    disk,       \* note -> its text
    known,      \* note -> the text the index of the tool's server is from
    index,      \* the same of the process that ranks: this server or the daemon
    lexical,    \* note -> the text that is in the full-text index
    store,      \* note -> its vectors
    config,     \* the configuration of chunks
    job,        \* the note being embedded
    call,       \* the search
    edits, restarts, asked

vault == <<disk, known, index, lexical, store, config>>
vars == <<setup, vault, job, call, edits, restarts, asked, apiVars>>

Local     == Setups[setup].backend = "local"
In(texts) == {n \in Notes : texts[n] # Gone}

-----------------------------------------------------------------------------
(* What is embedded.                                                           *)

\* The configuration with the packing left out, as note_content_hash has it.
Hash(body, c) == [body |-> body, target |-> c.target, overlap |-> c.overlap]
HashOf(body) == Hash(body, config)

WordsOf(body) == Within(body, Range(body) \ Blanks)
TitlesOf(body) == Within(body, DOMAIN Level)
\* prepare_embed_text: the headings of the index and the first words of the file.
Summary(meta, body) ==
    TitlesOf(meta) \o SubSeq(WordsOf(body), 1, Min({MaxBodyWords, Len(WordsOf(body))}))
TextsOf(meta, chunks, body) ==
    [i \in DOMAIN chunks |-> EmbedText(chunks[i])] \o <<Summary(meta, body)>>

\* The vectors of a note: its chunks in order, then its summary.
Entry(hash, vectors) ==
    [hash |-> hash, chunks |-> Front(vectors), summary |-> Last(vectors)]

Cosine(v, w) == Cardinality({i \in DOMAIN w : w[i] \in Range(v) \cap Words})

ChunkScores(entry, v) == {Unit * Cosine(v, w) : w \in Range(entry.chunks)}
SummaryScore(entry, v) == Weight * Cosine(v, entry.summary)
\* decide: the best of both arms.
Score(entry, v) == Max(ChunkScores(entry, v) \cup {SummaryScore(entry, v)})
\* Of equal chunks, whichever comes first in the map.
BestChunks(entry, v) ==
    {i \in DOMAIN entry.chunks :
        \A j \in DOMAIN entry.chunks : Cosine(v, entry.chunks[j]) <= Cosine(v, entry.chunks[i])}

-----------------------------------------------------------------------------
(* Ranking.                                                                    *)

\* The orders of the best k of a function, ties in any order.
Ranked(score, k) ==
    {s \in [1..Min({k, Cardinality(DOMAIN score)}) -> DOMAIN score] :
        /\ IsInjective(s)
        /\ \A i \in DOMAIN s : \A n \in DOMAIN score \ {s[j] : j \in 1..i} :
               score[n] <= score[s[i]]}

\* Mutant: as many candidates as results.
NoOverfetch(k) == Min({k, MaxResultsCap})

CandidateLimit(k) ==
    IF k = 0 THEN 0
    ELSE Min({Max({k * OverfetchFactor, k + OverfetchExtra}), MaxResultsCap})

\* How many of each arm blend_lexical takes.
Depth(k) == Max({CandidateLimit(k), CandidateDepth})

Narrow(scope, notes) == notes \cap Scope[scope]

Found(body, q) == IF body = Gone THEN 0 ELSE Cosine(<<q>>, body)
Bm25(q) == [n \in {m \in Notes : Found(lexical[m], q) > 0} |-> Found(lexical[n], q)]

\* Only the local server fetches more for a scope.
Prefetch(scope, k) ==
    IF Local /\ scope # All
    THEN Min({ScopedFactor * Max({DefaultPrefetch, CandidateLimit(k)}), MaxScopedPrefetch})
    ELSE Max({DefaultPrefetch, CandidateLimit(k)})

SpreadOf(scores) == Max(scores) - Min(scores)
\* Both arms between 0 and 1, times the spread of the hits and the best score.
Blended(bm25, low, spread, s, best) ==
    Share * (IF spread = 0 THEN best ELSE (bm25 - low) * best)
      + (Unit - Share) * s * (IF spread = 0 THEN 1 ELSE spread)

\* Scores of the hits for a query, where entries has the vectors of a note.
SemanticOf(entries, n, v) == IF entries[n] = NoVectors THEN 0 ELSE Score(entries[n], v)
BestPossible == Max({Weight, Unit}) * Cardinality(Words)
HybridScores(hits, semantic) ==
    [n \in DOMAIN semantic |-> Blended(hits[n], Min(Range(hits)), SpreadOf(Range(hits)),
                                       semantic[n], BestPossible)]
SemanticScores(notes, v) ==
    [n \in {m \in notes : store[m] # NoVectors} |-> Score(store[n], v)]

\* blend_lexical: the union of both arms, each scaled by its own maximum.
Arm(scores, n, other) ==
    IF n \in DOMAIN scores THEN scores[n] * (IF other = 0 THEN 1 ELSE other) ELSE 0
TopOf(scores) == IF DOMAIN scores = {} THEN 0 ELSE Max(Range(scores))
FusedScores(semantic, hits, notes) ==
    IF DOMAIN hits = {} THEN semantic
    ELSE [n \in DOMAIN semantic \cup (DOMAIN hits \cap notes) |->
            (Unit - Share) * Arm(semantic, n, TopOf(hits)) + Share * Arm(hits, n, TopOf(semantic))]

-----------------------------------------------------------------------------
(* A search.                                                                   *)

Idle == [at |-> "idle", req |-> Nothing, notes |-> {}, hits |-> <<>>, score |-> <<>>,
         was |-> <<>>, rest |-> <<>>, results |-> <<>>, skipped |-> {}, touched |-> {},
         err |-> "none"]

\* touched: the notes that something has changed since the search began.
Touch(n) == [call EXCEPT !.touched = IF call.at = "idle" THEN @ ELSE @ \cup {n}]

\* All tools but one look at the scope before anything else.
Refused(req) == req.tool # "related" /\ req.scope \notin DOMAIN Scope
Ask(req) ==
    /\ call.at \in {"idle", "answered"}
    /\ asked < MaxAsked
    /\ asked' = asked + 1
    /\ call' = [Idle EXCEPT !.req = req,
           !.at  = IF Refused(req) THEN "answered" ELSE req.tool,
           !.err = IF Refused(req) THEN "unknown scope" ELSE "none"]
    /\ UNCHANGED <<setup, vault, job, edits, restarts, apiVars>>

Fail(why) == [call EXCEPT !.at = "answered", !.err = why]

\* Goes on with a ranking: what was ranked, with its scores and vectors.
Ranking(score, limit) ==
    \E order \in Ranked(score, limit) :
        call' = [call EXCEPT !.at = "visiting", !.score = score, !.was = store, !.rest = order]

\* The notes of the scope, then the query's vector. Hybrid search takes the
\* hits of the full-text index first.
Scoped ==
    /\ call.at \in {"semantic", "fused"}
    /\ call' = [call EXCEPT !.at = "embedding", !.notes = Narrow(call.req.scope, In(index))]
Prefetched ==
    /\ call.at = "hybrid"
    /\ \E order \in Ranked(Bm25(call.req.q), Prefetch(call.req.scope, call.req.k)) :
        \E hits \in {Narrow(call.req.scope, Range(order))} :
            call' = [call EXCEPT !.hits = Restrict(Bm25(call.req.q), hits),
                                 !.at = IF hits = {} THEN "answered" ELSE "embedding"]

AskVector ==
    /\ call.at = "embedding"
    /\ Send(Query, <<<<call.req.q>>>>)
    /\ call' = [call EXCEPT !.at = "waiting"]

\* What the store holds of the notes of the scope, or of the hits. The local
\* server leaves out hits that are no longer indexed, the daemon when it builds
\* the answer.
Rank(v) ==
    CASE call.req.tool = "semantic" ->
            Ranking(SemanticScores(call.notes, v), CandidateLimit(call.req.k))
      [] call.req.tool = "hybrid" ->
            call' = [call EXCEPT !.at = "scoring", !.score = <<>>,
                         !.notes = {n \in DOMAIN call.hits : ~Local \/ index[n] # Gone}]
      [] OTHER ->
            \E best \in Ranked(SemanticScores(call.notes, v), Depth(call.req.k)) :
                call' = [call EXCEPT !.at = "blending",
                             !.score = Restrict(SemanticScores(call.notes, v), Range(best))]
RankHits ==
    /\ call.at = "waiting"
    /\ Receive(Query)
    /\ IF reply[Query].is = "failed" THEN call' = Fail("embedding")
       ELSE Rank(reply[Query].vectors[1])

\* The hits of a hybrid search are scored one by one, whatever is stored meanwhile.
ScoreHit ==
    /\ call.at = "scoring"
    /\ \E n \in call.notes :
        call' = [call EXCEPT !.notes = @ \ {n}, !.score =
                     [m \in DOMAIN @ \cup {n} |->
                         IF m = n THEN SemanticOf(store, n, <<call.req.q>>) ELSE @[m]]]
Scored ==
    /\ call.at = "scoring" /\ call.notes = {}
    /\ Ranking(HybridScores(call.hits, call.score), CandidateLimit(call.req.k))

\* The lexical arm is read after the semantic one; both are cut at the same depth.
Blend ==
    /\ call.at = "blending"
    /\ \E order \in Ranked(Bm25(call.req.q), Depth(call.req.k)) :
        Ranking(FusedScores(call.score, Restrict(Bm25(call.req.q), Range(order)), call.notes),
                CandidateLimit(call.req.k))

\* Related notes, from the note's own summary; it is never its own. The note's
\* metadata is read first, then its links, then the vectors. A note that has
\* vectors has a summary among them, whatever its weight (prepare_batch), so that
\* related_to never falls back to the first chunk.
Seed(n) == store[n].summary
RelatedScores(n, scope) == SemanticScores(Narrow(scope, In(index)) \ {n}, Seed(n))
Related ==
    /\ call.at = "related"
    /\ call' = IF known[call.req.q] = Gone \/ disk[call.req.q] = Gone THEN Fail("missing")
               ELSE [call EXCEPT !.at = "linking"]
Linked ==
    /\ call.at = "linking"
    /\ call' = IF disk[call.req.q] = Gone THEN Fail("missing")
               ELSE [call EXCEPT !.at = "relating"]
Relate ==
    /\ call.at = "relating"
    /\ IF call.req.scope \notin DOMAIN Scope THEN call' = Fail("unknown scope")
       ELSE IF store[call.req.q] = NoVectors THEN call' = Fail("no embeddings")
       ELSE Ranking(RelatedScores(call.req.q, call.req.scope), call.req.k)

\* The full-text tool visits its hits, whatever the index of notes says.
Text ==
    /\ call.at = "text"
    /\ Ranking(Bm25(call.req.q), call.req.k)

\* Each hit in turn: its metadata, where the ranking process has it, then its file.
Full == /\ Local /\ call.req.tool \in {"semantic", "hybrid", "fused"}
        /\ Len(call.results) = call.req.k
Visible(n) == call.req.tool = "text" \/ (index[n] # Gone /\ disk[n] # Gone)
Look ==
    /\ call.at = "visiting" /\ call.rest # <<>> /\ ~Full
    /\ IF Visible(Head(call.rest)) THEN call' = [call EXCEPT !.at = "reading"]
       ELSE call' = [call EXCEPT !.rest = Tail(@), !.skipped = @ \cup {Head(call.rest)}]

\* The passage that is shown with a result is the one at the place of the best
\* chunk, in the file as it is read now.
Result(n, text, at) == [note |-> n, text |-> text, chunk |-> at]
PassageAt(chunks, i) == IF i \in DOMAIN chunks THEN <<chunks[i]>> ELSE <<>>
Passage(r) ==
    IF r.text = Gone \/ r.chunk = 0 THEN <<>> ELSE PassageAt(chunk_note(r.text, config), r.chunk)
QueryVector == IF call.req.tool = "related" THEN call.was[call.req.q].summary ELSE <<call.req.q>>

Cites(n) == call.req.tool \in {"semantic", "related"}
ChunksOf(n) == IF Cites(n) THEN BestChunks(call.was[n], QueryVector) ELSE {0}
Read ==
    /\ call.at = "reading"
    /\ \E i \in ChunksOf(Head(call.rest)) :
        call' = [call EXCEPT !.at = "visiting", !.rest = Tail(@),
            !.results = Append(@, Result(Head(call.rest), disk[Head(call.rest)], i))]

\* The answer of the daemon passes the tool's server, which leaves out what its
\* own index does not have.
Passes(r) == Local \/ call.req.tool \in {"text", "related"}
                \/ (known[r.note] # Gone /\ disk[r.note] # Gone)
Passed == {r \in Range(call.results) : Passes(r)}
Page(results, k) == SubSeq(results, 1, Min({k, Len(results)}))
Answer ==
    /\ call.at = "visiting" /\ (call.rest = <<>> \/ Full)
    /\ call' = [call EXCEPT !.at = "answered",
           !.results = Page(Within(@, Passed), call.req.k),
           !.skipped = @ \cup {r.note : r \in Range(call.results) \ Passed}]

Quiet == UNCHANGED <<setup, vault, job, edits, restarts, asked>>
SearchStep ==
    /\ Quiet
    /\ \/ AskVector \/ RankHits
       \/ /\ \/ Scoped \/ Prefetched \/ ScoreHit \/ Scored \/ Blend
             \/ Related \/ Linked \/ Relate
             \/ Text \/ Look \/ Read \/ Answer
          /\ UNCHANGED apiVars

-----------------------------------------------------------------------------
(* Meanwhile: files change, indexes follow, notes are embedded again, and a     *)
(* process starts with another configuration.                                  *)

Edit(n, text) ==
    /\ edits < Setups[setup].edits
    /\ disk[n] # text
    /\ disk' = [disk EXCEPT ![n] = text]
    /\ edits' = edits + 1
    /\ call' = Touch(n)
    /\ UNCHANGED <<setup, known, index, lexical, store, config, job, restarts, asked, apiVars>>

\* The process that ranks updates its indexes; it may be the tool's server.
Follow(n) ==
    /\ index[n] # disk[n] \/ lexical[n] # disk[n]
    /\ index' = [index EXCEPT ![n] = disk[n]]
    /\ lexical' = [lexical EXCEPT ![n] = disk[n]]
    /\ known' = IF Local THEN index' ELSE known
    /\ call' = Touch(n)
    /\ UNCHANGED <<setup, disk, store, config, job, edits, restarts, asked, apiVars>>

\* The tool's server hears of it before or after the daemon.
Hear(n) ==
    /\ ~Local /\ known[n] # disk[n]
    /\ known' = [known EXCEPT ![n] = disk[n]]
    /\ call' = Touch(n)
    /\ UNCHANGED <<setup, disk, index, lexical, store, config, job, edits, restarts, asked, apiVars>>

\* of: the text that the index is from, which has the headings of the summary.
NoJob == [note |-> Nothing, of |-> Nothing, hash |-> Nothing, texts |-> <<>>]
Unchanged(n) == store[n] # NoVectors /\ store[n].hash = HashOf(disk[n])
Stored(n, entry) == /\ store' = [store EXCEPT ![n] = entry]
                    /\ call' = Touch(n)

\* prepare_batch and process_batch for a note, whose text may not be what the
\* index is from.
Drop(n) ==
    /\ job = NoJob
    /\ store[n] # NoVectors
    /\ index[n] = Gone \/ (disk[n] # Gone /\ chunk_note(disk[n], config) = <<>>)
    /\ Stored(n, NoVectors)
    /\ UNCHANGED <<setup, disk, known, index, lexical, config, job, edits, restarts, asked, apiVars>>
Prepare(n) ==
    /\ job = NoJob
    /\ index[n] # Gone /\ disk[n] # Gone /\ ~Unchanged(n)
    /\ chunk_note(disk[n], config) # <<>>
    /\ job' = [note |-> n, of |-> index[n], hash |-> HashOf(disk[n]),
               texts |-> TextsOf(index[n], chunk_note(disk[n], config), disk[n])]
    /\ UNCHANGED <<setup, vault, call, edits, restarts, asked, apiVars>>
Submit ==
    /\ job # NoJob
    /\ Send(Job, job.texts)
    /\ UNCHANGED <<setup, vault, job, call, edits, restarts, asked>>
\* A failure is tried again, and vectors for which there is a newer intent are
\* not stored. An intent is submitted some time after the index has followed, so
\* that the index does not tell whether there is one.
Commit ==
    /\ Receive(Job)
    /\ job' = NoJob
    /\ \E overtaken \in BOOLEAN :
        IF reply[Job].is = "failed" \/ overtaken THEN UNCHANGED <<store, call>>
        ELSE Stored(job.note, Entry(job.hash, reply[Job].vectors))
    /\ UNCHANGED <<setup, disk, known, index, lexical, config, edits, restarts, asked>>

\* The cache keeps the vectors of what is still there.
Restart(env) ==
    /\ restarts < Setups[setup].restarts
    /\ restarts' = restarts + 1
    /\ config' = FromEnv(env)
    /\ known' = disk /\ index' = disk /\ lexical' = disk
    /\ store' = [n \in Notes |-> IF disk[n] = Gone THEN NoVectors ELSE store[n]]
    /\ job' = NoJob /\ call' = Idle
    /\ queue' = <<>> /\ worker' = [w \in Workers |-> Resting]
    /\ reply' = [c \in Callers |-> Silence]
    /\ UNCHANGED <<setup, disk, edits, asked>>

\* Another search on the same server; each of the others asks once.
Others(c) ==
    /\ c \in Setups[setup].others
    /\ Send(c, <<<<>>>>)
    /\ UNCHANGED <<setup, vault, job, call, edits, restarts, asked>>

-----------------------------------------------------------------------------
EmbeddedOf(text, c) ==
    IF text = Gone \/ chunk_note(text, c) = <<>> THEN NoVectors
    ELSE Entry(Hash(text, c), TextsOf(text, chunk_note(text, c), text))

Init ==
    /\ setup \in DOMAIN Setups
    /\ disk \in Setups[setup].disks
    /\ config \in {FromEnv(e) : e \in Setups[setup].envs}
    /\ known = disk /\ index = disk /\ lexical = disk
    /\ store = [n \in Notes |-> EmbeddedOf(disk[n], config)]
    /\ job = NoJob /\ call = Idle
    /\ edits = 0 /\ restarts = 0 /\ asked = 0
    /\ ApiInit

Outside == UNCHANGED <<setup, vault, job, call, edits, restarts, asked>>
Serving == ApiStep /\ Outside

Next ==
    \/ \E req \in Setups[setup].requests : Ask(req)
    \/ SearchStep
    \/ \E n \in Notes :
        \/ \E text \in Setups[setup].texts : Edit(n, text)
        \/ Follow(n) \/ Hear(n) \/ Drop(n) \/ Prepare(n)
    \/ Submit \/ Commit
    \/ \E env \in Setups[setup].envs : Restart(env)
    \/ \E c \in Callers : Others(c)
    \/ Serving

\* The steps of a search and the threads of the client go on. The queue is a
\* std::sync::mpsc::sync_channel: a worker that takes a request wakes a sender that
\* is blocked. Sending is enabled again and again, as the workers empty the queue
\* and the indexing waits before it tries again.
Fairness ==
    /\ WF_vars(SearchStep) /\ SF_vars(AskVector /\ Quiet)
    /\ \A w \in Workers : WF_vars(Take(w) /\ Outside) /\ WF_vars(Serve(w) /\ Outside)

Spec == Init /\ [][Next]_vars /\ Fairness

-----------------------------------------------------------------------------
(* Properties.                                                                 *)

Ended == call.at = "answered" /\ call.err = "none"
Answers == {r.note : r \in Range(call.results)}

\* A note that nothing has changed since the search began and that it is about.
Steady(n) == n \notin call.touched /\ \A texts \in {disk, index, known} : texts[n] # Gone
Prefetchable ==
    Cardinality({n \in Notes : n \in call.touched \/ Found(lexical[n], call.req.q) > 0})
        <= Prefetch(call.req.scope, call.req.k)
Deep ==
    Cardinality({n \in Scope[call.req.scope] : n \in call.touched \/ store[n] # NoVectors})
        <= Depth(call.req.k)
About(n) ==
    CASE call.req.tool = "text"    -> Found(lexical[n], call.req.q) > 0
      [] call.req.tool = "hybrid"  -> Found(lexical[n], call.req.q) > 0 /\ Prefetchable
      [] call.req.tool = "related" -> store[n] # NoVectors /\ n # call.req.q
      [] call.req.tool = "fused"   -> store[n] # NoVectors /\ Deep
      [] OTHER                     -> store[n] # NoVectors
Wanted == {n \in Scope[call.req.scope] : Steady(n) /\ About(n)}

\* The candidates beyond the page, which make up for those that have gone.
Spare == IF call.req.tool \in {"text", "related"} THEN 0
         ELSE Min({OverfetchExtra, MaxResultsCap - call.req.k})
Earned(n) == /\ n \in DOMAIN call.score
             /\ \/ /\ Len(call.results) = call.req.k
                   /\ \A m \in Answers : call.score[n] <= call.score[m]
                \/ Cardinality(call.skipped) > Spare

\* An answer has each note once, none outside of the scope and not the note that
\* others are to be related to, the best first; and a note that it lacks though
\* nothing has changed it is one for which the page had no room: a short page is
\* no sign of notes that were crowded out by those of another scope or by those
\* that went meanwhile (search_semantic, search_hybrid_scoped, related_notes).
SearchAnswers ==
    Ended =>
        /\ Cardinality(Answers) = Len(call.results) /\ Len(call.results) <= call.req.k
        /\ Answers \subseteq Scope[call.req.scope]
        /\ call.req.tool = "related" => call.req.q \notin Answers
        /\ \A i, j \in DOMAIN call.results :
              i < j => call.score[call.results[j].note] <= call.score[call.results[i].note]
        /\ \A n \in Wanted \ Answers : Earned(n)

\* A passage that is shown is the text the best chunk's vector is of, unless the
\* note was edited since, which its hash tells: chunk_note is called again on
\* the file, and the vectors came back from the API in some order.
Current(r) == r.text # Gone /\ Hash(r.text, config) = call.was[r.note].hash
PassagesAreEmbedded ==
    Ended => \A r \in {x \in Range(call.results) : x.chunk > 0 /\ Current(x)} :
        /\ Passage(r) # <<>>
        /\ EmbedText(Passage(r)[1]) = call.was[r.note].chunks[r.chunk]

\* The chunks of a note cover all but its blanks, none is longer than the target,
\* each names the headings it is below, and the next one starts further on.
ChunksCoverTheNote == \A n \in In(disk) : IsWellCut(disk[n], config)

\* A search ends: its caller is not left waiting in the queue of the API client,
\* by a worker that failed, or for a request that was never sent.
EveryCallReturns == call.at \notin {"idle", "answered"} ~> call.at \in {"idle", "answered"}
===============================================================================
