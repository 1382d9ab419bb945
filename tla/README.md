# A verification project for obsidian-mcp-semantic

The program gives AI agents access to an Obsidian vault: it reads, writes and
searches Markdown notes, keeps indexes of them, and keeps an embedding of every
note up to date for semantic search, in its own process or in a daemon that
several programs share. The TLA+ modules here model the parts of it where
order, failure and concurrency decide whether it is right, TLC checks them on
small instances, and TLAPS proves the safety of the runtime, the daemon's life, its
requests, the vault, the link index, what the note tools do to files, the chunker and the
search for every instance.
All source paths below are relative to the repository; the crate is in `src/`.

## 1. The system

| Part | Source | State it keeps | Operations |
|---|---|---|---|
| Embedding runtime | `vault/embedding_runtime.rs`, `vault/embeddings.rs` | queue of intents per note, generations, what the first pass has left, the vectors in memory, the cache file | notices from the watcher, batches, commits, retries, cache publication, drop, restart |
| Daemon bootstrap | `daemon/bootstrap.rs`, `home.rs`, `manifest.rs` | install lock, manifest, the executables, the processes and the socket | ensure, ensure from sibling, reconcile after upgrade, prepare for upgrade |
| Daemon server | `daemon/server.rs`, `vault_registry.rs`, `vault_context.rs`, `query.rs`, `watcher.rs` | open vaults, shutdown flag, one runtime per vault | health, ensure vault, semantic search, status, shutdown |
| Daemon client | `client/semantic_daemon.rs` | endpoint, time limits | requests with retries |
| Vault | `vault/mod.rs`, `fs.rs`, `watcher.rs` | the files, the index of links, tags and properties, the full-text index | read, write, append, move, delete, patch; file events |
| Index | `vault/index.rs`, `parser.rs`, `wikilink.rs`, `frontmatter.rs` | notes, backlinks, tags, names | update note, remove note, rebuild, resolve |
| Full-text index | `vault/tantivy_index.rs` | documents | index, delete, commit, search |
| Search | `tools/search.rs`, `vault/search_utils.rs`, `tools/related.rs` | none | lexical, semantic and hybrid ranking, scope filters |
| Pure algorithms | `vault/chunker.rs`, `patch.rs`, `scope.rs`, `exclude.rs`, `path.rs`, `periodic.rs` | none | chunks of a body, edits of a section, glob scopes, normal paths, dates |
| Tools | `tools/*.rs` | none | the calls an agent makes, on top of the vault |
| Start-up | `main.rs`, `config.rs` | none | flags, environment, starting the watcher and the daemon |

How they meet. A tool or an editor changes a file; the watcher (or the tool
itself) updates the index and the full-text index, and the watcher sends an
intent to the embedding runtime of that vault. The runtime's coordinator reads
the note, embeds it through a local model or an HTTP provider, commits the
vectors in memory and publishes them to a cache file. Search reads the three
indexes. In daemon mode a program first bootstraps the daemon (lock, manifest,
socket), then asks it to open the vault and to search; if that fails,
`auto` mode falls back to lexical search.

What is hard in it:

* Coordinator, watcher, tools, blocking tasks and `drop` run at the same time,
  and what one of them read may be old when it is used.
* The process may end anywhere; the cache file and the manifest are all that
  is left, and both may come from another configuration.
* Reads, inference and cache writes fail and are retried while newer work for
  the same note arrives.
* Several programs, of several versions, start, replace and stop one daemon,
  and a package manager replaces the executables under them.

`PROJECT.json` lists under `hazards` the most important of these places, each with
its line and the properties that would notice if it went wrong, and under
`components` what is modelled of each part.

## 2. Modules

| Module | Models |
|---|---|
| `EmbeddingRuntime`, `MCEmbeddingRuntime` | the coordinator and everything around it |
| `IntentQueue` | what it promises about intents: the abstract specification it implements |
| `EmbeddingRuntimeProofs` | its theorems: types and whole notes, order and accounts, and the implementation of `IntentQueue` |
| `DaemonBootstrap`, `MCDaemonBootstrap`, `DaemonBootstrapProofs` | the clients of one semantic home and their daemon's executables, processes, socket and manifest, and the theorems |
| `SemanticService`, `MCSemanticService`, `SemanticServiceProofs` | requests to a running daemon: registry, handlers, the client with retries, and the fallback, and the theorems |
| `LinkIndex`, `MCLinkIndex`, `LinkIndexProofs` | the index of links, tags and names against a build from nothing, and its theorems |
| `VaultSync`, `MCVaultSync`, `VaultSyncProofs` | calls of the vault, watcher, both indexes and the files, and the theorems |
| `NoteText` | the text of a note: scanners, headings, front matter, patches |
| `VaultPaths`, `VaultPathsProofs` | paths, Unicode forms, exclusion, scopes, and the theorems on paths |
| `Periodic` | formats of dates, the notes of a period |
| `ToolFilter` | which tools a server offers |
| `NoteViews` | what the reading tools answer, as functions of files and index |
| `NoteTools`, `MCNoteTools`, `NoteToolsProofs` | the tools that edit and read notes, over the five modules before, and the theorems |
| `Chunker` | how a body is cut, and what a cut must be |
| `ApiClient` | the queue, the workers and the answers of an embedding API |
| `Search`, `MCSearch`, `SearchProofs` | every search, over `Chunker` and `ApiClient`, while the vault changes, and the theorems on the three |

How they fit. `VaultSync` ends with the intents it submits, which are the events
`EmbeddingRuntime` starts from (`asked` there is the last of them), and takes a
note as its content, from which `LinkIndex` derives the tables. `NoteTools`
composes the text, path, period, filter and view modules under concurrent
calls; there the index follows each call at once, because the watcher and the
text index are `VaultSync`'s. `Search` composes the chunker with the API client;
its vectors change as `EmbeddingRuntime` says (a job prepares, submits and
commits one note), its ranking process is this server or the daemon of
`SemanticService`. `DaemonBootstrap` decides which daemon there is and
`SemanticService` what clients and daemon say to each other; a daemon that
stops and is started again is an action of its environment there.

### EmbeddingRuntime

| State | Code |
|---|---|
| `disk`, `index`, `events` | the files, `VaultIndex` as far as it concerns embedding, file events not yet handled |
| `pending`, `inflight`, `generation`, `remaining`, `failures`, `discovered` | `RuntimeState` |
| `store`, `space`, `firstPass` | the `EmbeddingStore` in memory, its model, whether it may be published |
| `pc`, `batch`, `item`, `answer`, `bytes` | the local variables of `run_coordinator` and `process_batch` |
| `cache`, `legacy` | the cache file, and one at an older place |
| `alive`, `gate`, `permit` | `RuntimeControl`: the flag, the write gate, the `Notify` permit |

A content is a model value with a number of chunks, vectors are represented by
what they were computed from, and time by "due" flags that a timer sets. One
action stands for each stretch of code between two awaits or two critical
sections. Notes are numbers because a batch is chosen by path order.

Bounds: edits, failures and restarts are counted by `MaxEdits`, `MaxFaults` and
`MaxRestarts`. Two notes, two contents and two edits are the least with which
stale work meets newer work of either kind, and a batch of one with two notes
the least with which one note can starve another; two models are the least
for a cache of another embedding space.

`IsAnIntentQueue` states that the module implements `IntentQueue`: an intent
for a note is numbered, claimed by a batch, and either settled, which is the
only step that may change the note's vectors, or released and claimed again;
a newer intent replaces an older one and is never replaced by it. The refinement
mapping takes the newest number of pending and in-flight work for `newest`, what is
in flight for `claimed`, and the store for `effect`.

`Phase` is what `status` answers. `WorkIsNeverLost` says that it can be relied on:
behind warming and degraded there is work, or a cache write that is due, and
ready means that no first pass is open and that whatever has vectors can be
searched. It cannot say that a ready vault is queryable: one whose notes are
all too short to embed is ready and refuses every search with "embedding
runtime is warming up" (`docs/UPSTREAM_README.md:436` has ready as queryable).

Fairness (`FairSpec`): the coordinator, its blocking tasks and timers, and the
watcher are tasks of a running tokio runtime and eventually run: weak fairness
of each. Edits, failures and crashes have none. `drop` and restart happen or not.

### DaemonBootstrap

| State | Code |
|---|---|
| `lock` | `InstallLock` on `install.lock` |
| `manifest` | `manifest.json`: version, origin, pid, binary, model |
| `installed` | the versions of the executables on disk |
| `socket`, `proc`, `image` | the socket file and whose it is, the daemon processes, what they were started from |
| `job` | the local variables of `ensure_daemon_inner`, `reconcile_daemon_after_upgrade`, `prepare_daemon_for_upgrade` |

The four operations share their steps and differ in `op`; a client that dies,
a wait that runs out early and any I/O error are one action (`GiveUp`), because
all of them drop the lock and leave the rest as it is. A daemon answers at
once; one that accepts and stays silent is not modelled (see the hazard at
`request_health`). Reading a response whose shape is invalid is not modelled:
all processes at the endpoint are versions of the daemon.

What the properties promise depends on what has happened. A daemon that was
found too old and stopped is replaced by a newer one, and what replaces the daemon
of the manifest keeps its model, whoever fails and however often the files
change (`NeverDowngraded`, `ReplacementKeepsTheModel`). Both speak of a daemon that
was stopped by the operation itself: the shutdown request goes to whoever
answers at the endpoint, and if that is another daemon than the one probed,
nothing in the code makes it an older one. With two upgrades TLC finds such a
history, with one it does not. The other three hold while no client failed
(`slips = 0`), in a home where a daemon was recorded before. In a home that has no
manifest, a daemon that runs without one, started from `PATH` by hand, say, is not
known to anyone, and is stopped or given a second one like the daemon of
`bootstrap_duplicate_doc`.

Bounds: `MaxUpgrades`, `MaxStops` and `MaxSlips` count what the environment
does, `Pids` how many daemons can be started. Two upgrades are the least with
which a client meets a daemon that was replaced behind its back. In `bootstrap_safe` there are
three clients, a packaged one, one with an override and one with neither, which
has to make do with what the manifest, the home or `PATH` offers; no daemon is downloaded
yet, one may come to be on `PATH`, and of the manifests, one of each origin, one names
an override that was removed. It has three processes and two upgrades; `bootstrap_recovers`
has two packaged clients, one upgrade and as many processes as its slips can use up.
The download itself is a file that appears (section 7), and what needs more processes or
upgrades at once is left to the theorems, which are for any bounds. The pid that
`health` tells is always the process's own (`daemon/server.rs:431`), so the code's fallback
for a pid of 0 (`daemon/bootstrap.rs:868`) is not in the model.

Fairness: clients and daemons that run take their next step, and clients ask
again for the daemon (strong fairness, since the lock comes and goes). `Patient`
says that clients do not come faster than daemons start. Without it TLC shows
an endless chain of daemons, each removing the socket of the one before, which
needs every start to be overtaken by the next client; the program avoids it
only by its waits of 50 ms and 10 s.

### LinkIndex

| State | Code |
|---|---|
| `notes`, `tags`, `backlinks`, `excluded`, `stats` | the fields of `VaultIndex` |
| `listed` | both maps of `LinkResolver`: how often a path occurs in the list of its stem, and in `by_path` when at least once |
| `broken`, `clobbers` | history: paths whose last update ended in an error; renames that landed on a path the resolver listed |

Every operation holds the write lock, so it is one action; what the file parses
to is an input, and every operation that parses has a failing twin that stops
where the code's `?` stops. `notes` has an entry for every path, `None` for a path
that is not indexed. Folding of case and of Unicode forms is left out: `by_path`
keys of different paths are different.

The properties compare the tables the code updates in place with those of
`FreshTags`, `FreshListed` and `Rebuilt`, which are `build` over the same notes. They
hold with two exceptions, and the history variables say which. An update that
fails half way leaves links and statistics as they were until the note is
updated again (`broken`). A rename onto a path that is listed already, as when
the file there was deleted by another program and its event has not come yet,
puts that path twice into its stem's list (`clobbers`) and leaves the tags of the
old note; the incremental update of such a note then loses backlinks of other notes.
`TagNeverMissed` holds without exception, but it is about missing tags only: that
nothing superfluous is found after such a rename no property says, as it is not so.

Bounds: three notes of two stems and one excluded path, so that a name can be
ambiguous, become unambiguous and be ambiguous because of an excluded file's
name; three kinds of metadata (no links, a link by name, links by path and name);
one rename onto a listed path. Operations are not bounded.

### VaultSync

| State | Code |
|---|---|
| `setting` | whose indexes these are, the server's or the daemon's, and of each path whether it is plain, excluded, hidden below a directory with a dot, or the programs' own; it does not change |
| `disk` | the files; a content that does not parse is `Garbled` |
| `notes`, `lock` | `VaultIndex` as far as which content it has of a note, and its write lock where it is kept across steps |
| `tracked` | `excluded_note_paths`, the excluded notes the index counts |
| `draft`, `live` | the documents given to the text index's writer, and those of its reader after the last commit |
| `asked` | the last intent given to the embedding runtime |
| `owed`, `batch`, `hand`, `dirty` | events on their way, those of the batch, `process_event` in progress, `tantivy_dirty` |
| `call` | the local variables of the calls under way |
| `excused` | history, see below |

The calls that write (`write_note`, `append_note`, `create_note`, `prepend_note`,
`patch_note`, setting and removing a field, periodic notes) are one action with any
new content, followed by the steps of `reindex`; `delete_note` and `move_note` have
their own. One step is one access to a file or one critical section. The
document of the text index is made of the metadata and of a second read of the
file, and keeps both. A configuration with all parts switched on is modelled;
without the watcher nothing follows the edits of other programs.

The daemon keeps the same indexes of the same vault, without calls that write and
with a watcher of its own (`daemon/watcher.rs`). The two differ in excluded paths: the
server's watcher counts and forgets them, the daemon's passes over them. What is
hidden or the programs' own is left out by the build of either; a hidden path is
indexed at its first event or by a call that writes it, the programs' own only by a call.

The promise is that a path nobody is busy with is in both indexes, and in the
last intent, as it is on disk, whichever calls, edits and events overlapped.
It is made for the changes the watcher can put right. `excused` holds the paths of
the others until their next event: files that changed between the build of the
indexes and the start of the watcher, events the system dropped, and events
that were handled while a call on that path had changed the file and not yet
returned. The last kind needs a call that takes longer than the 500 ms of the
debouncer; it can then write what it read before into an index that is newer.
The code has no remedy for any of the three until the file changes again.

An excluded path is in neither index and has no upsert as its last intent, and the
server counts it exactly while the file exists.

Bounds: two paths (a move needs them), plain or one hidden and one excluded for the
server, plain and excluded or hidden and own for the daemon, one content that parses and one that
does not, two calls, two changes and one lost event; one change less than two
would never overlap. With three changes the run takes 2 million states and finds
nothing else. Contents need not be told apart further: a document that mixes
the metadata of one with the text of another shows with these two.

Fairness: opening, the watcher's task and each call that was begun go on. Calls,
edits and lost events have none.

### SemanticService

| State | Code |
|---|---|
| `life`, `api` | the daemon process: up, draining after a shutdown request, down; its API version |
| `contexts`, `initLock`, `runtimes`, `phase` | `VaultRegistry`: open vaults with or without a watcher, who holds the lock of a vault, the embedding runtimes that exist, how far they are |
| `model` | the `OnceCell` of the shared model |
| `conn` | the connections, each with one request and the place of its handler |
| `client`, `attached`, `ensured`, `got` | the tool call of a server, whether it has a daemon client, `vault_ensured`, the last answer |

A handler is as many actions as it has awaits. A client that runs into its time
limit leaves the handler running, and its next attempt is another connection:
that is how one client meets itself in the registry. Requests of other programs
(`MaxForeign`) may be any of the protocol. The daemon may stop at any point and
its registry is lost; a start is an action of its own.

`RetryableIsServed` is what the documentation calls the not-ready error, and what
a server in daemon mode does not keep: it remembers that it ensured its vault,
and never does so again for a daemon that was started since (run
`service_retry_doc`). `EventuallyServed` is the liveness that does hold, with that
state (`Mistaken`) named as an exception.

Bounds: one server, two connections, one retry, one timeout, one failure, one stop
and one foreign request. Two connections are the least for two handlers on one
vault; one timeout is the least for one client to open it twice.

A search may be answered in each of the ways the handler has (`SearchReplies`): an empty
query of the hybrid one whatever the state, then not-ready, then the refusal of a
scope that does not compile, which only other programs can send, then the ranking.

Fairness: handlers, loads and clients take their next step, and a client that
needs a free connection gets one (strong fairness on `Connect`: connections
come and go). A daemon that is down is started again, which is the promise of
`DaemonBootstrap`.

### NoteText, VaultPaths, Periodic, ToolFilter, NoteViews, NoteTools

A document is a sequence of lines of the kinds that the scanners of `patch.rs`,
`frontmatter.rs` and `parser.rs` tell apart: blank, prose (with references, links
and tags), a heading with its form (plain, indented, tab, ...), a fence with its
mark, width and info, a front matter delimiter or a field; and whether the last line
ends in a newline. The scanners differ in detail, and each is an operator of
its own (`IsDelim` of the patcher and `IsBareDelim` of the parser). A path is a
sequence of names, and two names may be one text in two Unicode forms
(`Key`). A date is a number, a format a sequence of tokens.

| State of `NoteTools` | Code |
|---|---|
| `disk`, `dirs`, `links` | the files and directories of the vault, and which directories are links that lead out of it |
| `meta`, `excluded` | the index: what each note's metadata was parsed from, and the notes left out |
| `call` | the local variables of a tool call between its accesses to files; in it `kept`, `alone` and `grown` are history: the documents nobody else changed since the call began, whether nobody else changed anything, and whether nobody took a file or directory away |
| `setup` | the settings of the server and what its clients ask |

A call is the steps between which another one can act: find the note, read it,
edit, write, index; a read of many notes is a step for each candidate. The edit
itself is a function of `NoteText`. What reading tools answer is a function of files
and index in `NoteViews`, which the properties use as well.

What the calls promise each other: a note that is created or moved takes the place of
no document that was there all along (`NewNotesAreNew`), and an answer says what
happened to files and index (`AnswersAreTrue`). Both have an excuse. A new note's path
is looked up twice, for the check and for the write, and if another client removes
in between the directory that the first look-up went through, the second may go through
one of the same name in the other Unicode form, to a note that is there. A
write whose text does not parse is answered as failed although the file is
written, and a move onto a path of which the index still has a note that has
vanished leaves that note in the index when the parse fails. A file that
another program puts there between the look and the write is lost, by what the code does:
it was not there when the call began, and neither property covers it (section 6). `ReadProfileNeverWrites`
is about the setting `read`; `!read` is a list of tools to leave out.

The other properties compare the code's functions with definitions written from what
Markdown means, not from the scanners: where a patch lands, which lines of a
document an edit may change, that what the tools list they also find, that
what was created is listed under its date. `Agreed` and the conditions beside it
name the documents on which the scanners disagree with Markdown; section 6 lists
what happens on those.

What of the paths and the configuration is left out: a link that takes the
place of another link in a rename, since nothing here makes links; and formats of periodic
notes with literals, of which the slash matters most: only with one in the format does the list,
which walks the whole folder, have notes of the directories below it. A file of the
configuration that cannot be read or parsed is in two of the setups (`damaged`):
the calls that come to it fail.

Bounds: 26 setups, each a small vault and what two clients and another
program may do to it, are listed in `MCNoteTools` with the question they ask. Eight texts
have every form of line; each call is at most two in a row where the second
may meet what the first left behind.

### Chunker, ApiClient, Search

A body is a sequence of atoms of one unit: words, blanks, a stop, fence marks,
headings. `chunk_note` is translated with its sections, packing, split points,
overlap and trails; `IsWellCut` is the reference. A vector is what it was computed
from, and its likeness to a query is the number of words they share, so that
rankings, ties and empty results occur without arithmetic on floats.

| State of `Search` | Code |
|---|---|
| `disk`, `known`, `index`, `lexical` | the files, the index of this server, that of the process that ranks, the full-text index |
| `store`, `config` | vectors with the hash they were made under, the chunk settings of the process |
| `job` | the note the embedding runtime is working on |
| `call` | the search: request, scope, candidates, hits, those left out, results |
| `queue`, `worker`, `reply` | `ApiEmbeddingClient` |

One search is the steps of the code: the scope, the lexical candidates, the query's
vector (through the API, in competition with the indexing and with other
callers), the ranking, then file by file the passages, then the page. The ranking is as many
steps as it has reads: a fused search takes its vectors' arm, cut at `CandidateDepth`,
and then the full text's; a hybrid one scores note by note; a related one reads the
metadata, then the links, then the vectors. Files, indexes and vectors change between
the steps. A commit may be overtaken by a newer intent, whose event another part
sends, and is dropped then (`Commit`). The summary of a note is always embedded, whatever its
weight, so the seed of a related search is the summary and the code's fallback to the
first chunk is never needed. Restarts change the chunk settings on an existing cache.

Bounds: four notes, one search, one edit, an over-fetch of one candidate, a lexical prefetch
of one (two for a scope), arms of three (`CandidateDepth`, 200 in the code) so that
one of four notes is cut off, a queue of one request and one worker with three callers:
the least at which candidates are crowded out, a page runs short and a sender
has to wait. `ChunksCoverTheNote` is checked for every body of at most four atoms
over five kinds, for five longer ones, and for the bodies of the searches, under
four configurations.

Fairness: searches and workers go on. A search that waits for a place in the full
queue gets one in the end (strong fairness): the queue is a `std::sync::mpsc::sync_channel`
(`embeddings.rs:1008`), whose receiver wakes a blocked sender whenever it takes
a request, and the indexing waits before it tries again. Nothing else is assumed;
indexing may stand still.

## 3. Runs

| Run | What it shows |
|---|---|
| `runtime_restarts` | with caches of any origin, crashes, drops and a failure, what is in memory and on disk is whole and of one model, is published only after a first pass, nothing is written after `drop` returned, and the index and then the cache file catch up with the vault |
| `runtime_batches` | with two notes and edits during a batch, the runtime is an intent queue, the newest intent wins, quiet notes are current, the status is true, no good vectors are given up |
| `bootstrap_safe` | with two upgrades, a lost daemon and a failing client at any point: nobody downgrades an owned daemon or changes its model; while no client fails nobody starts a second daemon beside a known one or stops a foreign one, and the manifest is true |
| `bootstrap_recovers` | after upgrades, losses and slips the packaged daemon serves in the end, and every operation ends |
| `bootstrap_duplicate_doc` (violated) | a client that died before writing the manifest makes the next one start a second daemon |
| `link_tables` | after any sequence of updates, removals, exclusions and renames, failing or not, tags, resolver, backlinks and statistics are those of a build from nothing, up to the exceptions above |
| `vault_sync` | what nobody is busy with is in both indexes as on disk, and in the end everything the watcher heard of in time is |
| `service` | one runtime per vault, an answered attach holds, the in-process index does not compete with a daemon that only warms up, every call ends, and attached clients are served in the end |
| `service_retry_doc` (violated) | a server in daemon mode whose daemon was replaced is refused for ever |
| `note_calls` | patches and field edits change what they name and nothing else, no document is lost to a race that the code looks for, answers are true of files and index, reads keep their budget, the readers tell one story, and a read-only server writes nothing |
| `search_answers` | an answer lacks no note for which its page had room, its passages are those the vectors are of, the cuts cover the body, and every search ends |
| `search_packing_doc` (violated) | after the packing was switched, a search shows passages that no vector is of |

Deadlock is not checked where edits, failures and operations are bounded: the
system may then come to rest.

## 4. Proofs

Every theorem is for all values of the constants that meet the named `ASSUME`s of
its module: the markers for absence are no data, the sets and functions given
are of their kinds, the bounds are numbers. The bounds stay in the specifications
that are proved, and can be any number. An argument has the same form throughout:
an inductive invariant, one lemma for each part of it and each group of actions, a
theorem that it always holds, and the properties of the runs drawn from it. What
an invariant is made of is what was found to be needed, and TLC checked each one on
the module's runs before it was proved.

**Runtime.** `EmbeddingRuntimeProofs` (assumed: notes are a finite set of numbers,
every content has a number of chunks, a legacy cache has whole notes):

* `TypeCorrect`: `Spec => [](TypeOK /\ WorkInHand)`. `TypeOK` alone is not
  inductive, because whether a commit stores vectors depends on what the
  coordinator holds at its program point. `WorkInHand` says so: work prepared
  for embedding has a chunk (`UpsertsHaveChunks`), and item, answer and bytes are
  there at the points that use them (`HeldAtPc`).
* `WholeNotes`: `Spec => []NotesAreWhole`. Strengthened by the same statement
  about the bytes that wait to be written; a commit stores whole notes because
  an accepted answer has one vector for each chunk and one for the summary.

Its second half adds three parts to these. `InOrder`: work in flight is the
batch, generations have been handed out, and queued work for a note is newer
than work in flight for it. `Accounted`: the write gate is held exactly while the
cache is written and never after the drop, and flags, bytes and phase agree.
`Follows`, note by note: behind the watcher the index is as the file, and when
nobody in front of the queue has something to say about a note, what is queued,
in hand or in the store was taken from the file as it is. `Remembered`: a note of an
open first pass or of a recorded failure has work. Together they are `RuntimeInv`
(`RuntimeCorrect`), and give

* `PublishedWhole`, `QuietIsCurrent`, `WorkRemembered`: the three invariants;
* `NewestWins`, `DropIsFinal`, `GoodVectorsStay`: the three action properties. The
  last needs `Follows`: only what was read of the file as it is may take away
  vectors, because in between nothing was read.

Its last section proves `RuntimeIsAQueue`: `Spec => IsAnIntentQueue`. Of the 33
actions, each submits, claims, settles, releases, opens, starts over or stutters
under the mapping; a commit maps to a settling because the generation it compares
is the newest (`Ordered`), and a first pass to a submission of many notes at once.

**Daemon.** `DaemonBootstrapProofs` has an invariant in two halves. Whatever fails,
`BootstrapInv` holds (`BootstrapCorrect`, with `LockedAndTyped` for the runs' `TypeOK`): what a client
read under the lock is still so (`Known`), the daemon it is about to stop is older
than what it has (`Older`), and the manifest names the binary and the model of a
process that is alive (`Truthful`). `Upgraded` and `SameModel` follow. While no client failed,
`Sole` adds that at most one daemon is alive, at the endpoint or awaited by the
client that started it, and that one is known for what it is (`OneDaemon`). It is an
invariant only of a home with a manifest, so `OneDaemon`, `NotDuplicated`, `ExternalStays` and
`ManifestTrue` are proved from `None \notin FirstManifests`; the runs' manifests, one of
each origin, meet it, and section 2 says what happens without.

`SemanticServiceProofs` is about the lock of a vault. A handler holds it exactly
between its second lookup and the registry (`Locked`), and the runtimes are those
of the registry and of the holders that have spawned one (`Opened`); so there is one
for each vault (`OneRuntime`), and an answered attach finds its vault watched
(`AttachedWatched`). For `NoCompetitor` the invariant also says what each client waits for: without
a stop, a timeout or a failure in its call, its connection has a request of its
own, and no answer on it is one after which `auto` falls back.

**Vault.** `VaultSyncProofs`: `SettledInSync` rests on `Follows`. A path that a call is busy with has
an event on its way or is excused; with no event left, only the watcher touches the path's
entries, and what it has in hand fits the file as it is, step by step (`HandFits`). The
daemon makes no calls and passes over excluded paths (`DaemonReads`), and the reader of
the text index is behind the writer only while a commit is due (`Committed`).

`LinkIndexProofs` (assumed: paths and tags are finite sets, every path has a stem)
proves that the four tables and `TagNeverMissed` hold in every reachable state: `ExactBacklinks`,
`ExactTags`, `ExactResolver`, `ExactStats`, `NoTagMissed`, and the first four as the runs'
property, `ExactTables`. The inductive invariant
`IInv` is the conjunction of the types, the five properties and
`BrokenNotIndexed`: without a rename onto a listed path, a path whose update
failed is not indexed. That is what makes the next update of such a path take
the branch with the full rebuild, so that the incremental branch starts from
exact backlinks. The heart of the argument is the lemma `RelinkedIsRebuilt`: if the
backlinks are those of a rebuild and the resolver does not change, removing the
entries of the old links and adding those of the new ones is a rebuild;
`ListedIsFresh` says that in a settled state the resolver is the one a build makes.

**Notes.** `VaultPathsProofs` is about `path.rs` alone, for any tree of directories, files
and links and any path that a request may spell. `ResolvedIsThere`: what a path
resolves to is there. `WritePlace`: where a path is written nothing but directories
of the vault is above, no link among them, and what is there, if anything, is what
reading the path finds. `FoundBefore`: no entry that is added makes a path find
something else that was there before. `PutVault`, `WithoutLeaf`, `MoveVault` and `ReplaceVault`: a
write, a removal and a rename, of a directory with all that is below it too, to a free path or
onto an empty directory, leave a vault. The recursive functions are reasoned about by induction over the
prefixes of a path: the library's induction theorems take an operator, so
`Induction` is stated for a set of numbers and proved from `WFMin`, and `Recursion`
gives the functions that `NormalizeRelative` and `Walk` choose.

`NoteToolsProofs` (assumed: the caps are positive; `SetupsAssumption`, which says of each
setup what the program's inputs are anyway: texts are documents, arguments have
their types as the JSON schema has them, the vault at the start is a tree of names in
directories, and other programs save to paths of names; a periodic note's folder and name are of names too) has
three invariants, and two more for the tools that read.

* `Inv` (`CallsCorrect`): the vault has its root and documents in its files (`Sound`), a call is
  at a step that its tool leads to (`Fits`), what a step takes over is a path and a
  document (`Ready`), and what a read of many notes has read, skipped and not yet seen
  adds up (`Accounts`). That every document stays one is a lemma for each of the
  editing functions of `NoteText`. It gives `ManyAccounted`, and with the tools of the
  profile `ReadersNeverWrite`.
* `Honesty` (`CallsHonest`): the vault is a tree, and no note is counted as excluded that is not
  (`Tidy`); a call that nobody interfered with finds the vault as it left it, and what it
  answers is so (`Undivided`, `Told`); and where it will write, whoever interfered, no
  document is that was there all along (`Free`). It gives `AnswersTrue` and
  `NothingOverwritten`. The second is where two look-ups of one path, the check
  and the write, with anything in between, have to agree: by `WritePlace` a write
  replaces only what its path finds, by `FoundBefore` what it finds it would have
  found at the check, as long as nothing was taken away, and the check found
  nothing. A rename goes to the path that was checked, and needs no such condition.
* `AllMade`: what a call that edits a document has in hand, and what is in the file once it is
  written, is `Changed` of the document that was there when it began (`Made`), for
  as long as nobody else changed that file or took anything away. From there on the two
  theorems are about the operators of `NoteText` alone, for any text.

  `FieldsKept`: `MarkersAreNoData => (Spec => []FieldEditsKeepTheRest)`. What is parsed of
  a document that was just rendered is what was rendered (`ReadBack`): `Rendered` has
  every field at one place between two delimiters and none is a delimiter, so the
  parser stops at the right one and each key is found with its value. `RawAt` finds where the
  front matter ends in a text put together from two, `PartOfJoin` what is behind it.
  The hypothesis says that the two model values `None` and `Absent` are no functions; in the
  code they are an error and an `Option`, which no mapping is.

  `PatchLands`: `Spec => []PatchLandsInPlace`. Where patch.rs and Markdown agree
  (`Agreed`) they have the same prose and headings (`SameProse`, `SameHeadings`). The section that
  `ResolveHeading` walks to, segment by segment, ends before the next heading
  that is not below its own, though the code takes the least of the next such heading and of its parent's
  end (`Ends`, `DescendEnds`, `ResolvedEnds`): that is the section of a reader
  (`SectionIs`). For a block that is replaced, the line with the reference is in the
  prose of the new document: the front matter ends where it did, and no fence opens in between
  (`UnfencedBySteps`, `UnfencedOn`, `ProseOn`). That the lines around it are kept is `InsertedAt`.

  `ReadersTell`: `MarkersAreNoPatterns => (Spec => [](NothingBehindLinks(World) => ReadersAgree))`.
  The hypothesis says that the model value `None` is no set of headings. The
  premise is about a state: no file or directory lies below a link that leads out of the vault. It
  is no invariant: a rename that was checked before a link moved may land below it. A listed file
  is found by its own path (`FileIsFound`, over `PlaceIsFound`), the list is the tree without its
  directories (`ListIsTree`, over `AboveListed`), backlinks, broken links and orphans are those of one
  graph (`GraphAgrees`), and a heading, tag or field of a file is found by a search for it
  (`SearchesShowIt`).

  `PeriodicListed`: `DaysAreReadBack => (Spec => [](NothingBehindLinks(World) => PeriodicIsListed))`.
  The hypothesis is about the days that clients ask for: the name that a day has under its period's
  format is one of `Dated`, it and the folder are spelled in the one way there is (`OwnPath`), and
  the parser reads the name as a day that is not later. Not every format is so: section 6 has one
  that is not. Two more invariants carry it. `AllSpelt` (`CallsSpelt`) has every path in the vault a
  path of names (`ForWriteNames`), so that a path which has one spelling only is written under it
  (`OwnPlace`): the file is where the format says. `Asked` (`CallsAsked`) has the request of a call
  among those of its client. The list is an order by date, which exists for any finite set
  (`OrderExists`, by induction over its size), so what it holds are all the dated notes of the folder
  (`ListIsOfDated`), the one of the day among them (`DayIsDated`), and reading it gives the file
  (`FileIsRead`).

  `DefaultsAreRead` is about the hypothesis: under each of the five default formats the name of a day
  is read as the first day of its day, ISO week, month, quarter or year. The calendar is any in
  which year, month and day identify a day, and ISO year, week and day of the week do (`IsCalendar`).
  For a week that is what the second of the four tries in `try_parse_date` is for (`FirstTry`).

**Search.** `SearchProofs` is about three modules (assumed: a target of at least two atoms, by
default and at the least, and an overlap that is a number, as the constants of `chunker.rs` are;
every scope is a set of notes, the requests are of the five tools, and only the full-text
tool takes no scope; texts are sequences).

* The chunker, for any body and any settings: `ChunkNote` says that its chunks are texts,
  that none is longer than the target, each is a stretch of the body under the headings it is
  below, the next one starts further on, and all but blanks is in one of them. The argument
  follows the code, by induction over the positions of the body: the sections lie
  one behind the other up to the end (`Sections`), packing joins neighbours (`PackedSections`), a split
  point is behind the cursor and at most a target away (`SplitPoint`), and the overlap goes back by
  less than half a target, so each piece is further on. `Covers` is its
  instance for the notes of the vault, with `ConfigsAre`: what the environment gives as target and
  overlap is bounded on the way in.
* `SearchAnswered`: `Spec => []SearchAnswers`, from `SearchInv`. Before the ranking, what is wanted
  is among the candidates; after it, for some order of the scores, the search has gone
  through a part of it, and what it went through is among the results or was skipped because its file
  had gone (`VisitedTo`). What is skipped was touched, so it is not wanted; wanted is what
  nobody has touched, so the set shrinks and what is collected stays enough.
  The spare candidates are what makes a page full: if it is short though candidates
  were cut off, more were skipped than were spare.
* `PassagesMatch`: `KeepsPacking => (Spec => []PassagesAreEmbedded)`. `JobInv` follows the request of
  the note that is embedded through `ApiClient`: it is in one place, the queue or a worker, as long
  as its sender waits, with the texts of the job, and its answer is a failure or the vectors of those
  texts in their order (`ParseIs`: whatever order, indices or length the provider's answer has).
  So whatever is in the store was made of the text that its hash names, under
  the settings of the hash (`IsEntry`), and a result keeps the entry it was ranked by.
  `KeepsPacking`, that no restart changes the packing, cannot be left out: the hash does not have the
  packing in it, and `search_packing_doc` is the counterexample. The setups of `search_answers` meet it.

**Only model-checked.** Every liveness property (`EventuallyCurrent`, `EventuallySaved`,
`EveryBootstrapEnds`, `EventuallyActivated`, `EveryCallEnds`, `EventuallyServed`, `EventuallyInSync`,
`EveryCallReturns`): fairness and `ENABLED` are out of the prover's reach. Whether the hypotheses
on the days asked for hold of an instance is for TLC to say too: with the constants of `note_calls` it
evaluates `DaysAreReadBack` and `IsCalendar` to true.

## 5. Plan

The model is complete up to section 7, and every invariant that a run checks has a theorem. What is left
are the premises: `NothingBehindLinks` is one of a state, because the code looks a path up once and
uses it later; and `DaysAreReadBack` is proved of the default formats only as far as
`DefaultsAreRead` goes, for a format of one's own TLC tries those of the run.

## 6. Where code and documentation disagree

Three disagreements are runs of their own (above). The others that came up while
reading and checking, each at its line under `src/`:

* `vault/embedding_runtime.rs:912`: headings come from the index and the body from the
  file; after an edit in between, one summary has the headings of one version and the
  body of the next. The hash covers only title and body, so it stays until the next edit.
* `vault/embedding_runtime.rs:1200`: a vault whose notes are all too short is ready and not
  queryable, see `EmbeddingRuntime` above.
* `daemon/bootstrap.rs:385`: a client with an override that reuses the packaged daemon
  rewrites the manifest's origin, and the daemon is then treated as foreign.
* `vault/wikilink.rs:104`: a rename onto a path that is still listed puts it twice into
  the list of its stem; backlinks of other notes stay lost.
* `metadata.rs:63`, `patch.rs:97`: `note_patch_targets` lists headings with a tab or an
  underline and references glued to their word, which `note_patch` does not find.
* Appending to a block on a last line without newline glues the content to the
  reference; inserting at the beginning after a front matter whose closing `---`
  has no newline glues it to the delimiter.
* `note_write` says that the note must exist, and creates it; `note_insert` creates it at the
  end only. Creating and moving look first and write later, so another program's file
  that appears in between is replaced.
* `set_frontmatter_field` on a front matter that is not a mapping, and comments in one,
  are dropped.
* `vault/mod.rs:1002`, `vault/path.rs:53`: of a path that exists in two Unicode spellings the read takes
  one; if another program deletes that one before the write, the write finds the other
  and replaces its document by the edited text of the deleted one. That is why the
  theorems on edits ask that nothing was taken away (`grown`).
* `vault/frontmatter.rs:173`: with the last field the front matter goes; a body that itself begins
  with a line `---` and has another becomes front matter then.
* A tool list that mixes names with `!` names disables both.
* A weekly format with a literal, `YYYY-[W]ww`, is never listed.
* `vault_list`: the depth counts from the vault in a list and from the directory in a tree.
* `note_move` of a directory moves it and then fails to index it. Moving one into an excluded
  folder counts it as an excluded note. Writes index files that are no notes.
* A write whose parse fails answers an error although the file is written.
* `vault/index.rs:65` leaves out whatever is below a directory with a dot, such as the
  `.trash` of Obsidian; `vault/watcher.rs:212` and the calls leave out nothing but the
  programs' own directories: a note that is moved to `.trash` stays findable until the
  server is started again.
* `vault_orphans` fails as a whole when an indexed note with broken links has gone
  from disk, and does not list a note whose only links are anchors.
* The chunker closes a fence by its mark alone, and leaves out blank stretches, though
  its comment says that every byte is covered.
* A summary weight of 0 does not switch the summary off when all cosines are negative;
  a comment has 1.25 as its default, the code 1.20.
* The daemon's hybrid search does not widen the lexical prefetch for a scope, as the local one
  does, and ignores `OBSIDIAN_LEXICAL_WEIGHT`.
* `blend_lexical` calibrates with hits outside of the scope.
* Of two equal chunks, `collapse_to_notes` shows any, `match_for_note` the first.
* Each process takes its chunk settings from its own environment: a server and a daemon
  that differ show other passages than were embedded.

## 7. Not modelled

* Formats and wording: JSON-RPC, the manifest as text, rendered YAML beyond which fields it
  has, positions inside a line, inline code, globs inside a name, literals in a date.
* Ranking inside Tantivy (taken as the number of matching words), fuzzy and fielded
  queries, snippets, the arithmetic of vectors.
* Of the configuration of periodic notes what changes while the server runs: each setup has one.
* The composition of `NoteTools` with `VaultSync` and `EmbeddingRuntime`: a tool's two
  steps, the watcher's and the coordinator's in one state space are beyond TLC; each
  module has the other's interface as its environment.
* A process that accepts a connection and never answers: `request_health` reads without a
  time limit and would hold the install lock.
* The renaming of a directory beside the watcher, which ignores the event of a directory:
  for the notes below it that is a lost event.
* A rename to a path under a link that another client moved there between the check
  and the rename: the path is taken as it was checked.
* A bounded queue of depth two or more in front of the API, several workers, and the
  sub-batches of a note's texts (a request is one).
* Model download, archives and checksums, home layout, flags and variables, the
  dashboard, benchmarks and packaging. Platform branches are those of Unix; named pipes
  differ in that nothing is left behind by a killed process.
