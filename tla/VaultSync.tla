------------------------------ MODULE VaultSync ------------------------------
(* How the index of notes and the full-text index follow the files of a       *)
(* vault: the calls of Vault (vault/mod.rs), the watcher (vault/watcher.rs),   *)
(* the text index (vault/tantivy_index.rs) and other programs that edit the    *)
(* same files.                                                                *)
(*                                                                            *)
(* A call changes a file and then the indexes, in steps of its own; the        *)
(* watcher hears of the same change and does it again, from its own reads.     *)
(* The index of notes has a lock, which a call that indexes a note keeps while *)
(* it updates the text index; the watcher updates the text index without it.   *)
(* A note is abstracted to its content; the tables the index derives from it   *)
(* are LinkIndex.  The daemon keeps indexes of its own for the same vault, by a *)
(* watcher of its own (daemon/watcher.rs) and with no calls that write.         *)
EXTENDS Naturals, FiniteSets

CONSTANTS
    Paths,
    Contents,     \* contents that parse as a note
    Garbled,      \* a content that is text but does not parse: broken YAML
    Calls,        \* calls of Vault that can be under way at a time
    None,
    Settings,     \* whose indexes these are, "server" or "daemon", and what kind of
                  \* path each is: "plain", "excluded" by a pattern, "hidden" below
                  \* a directory with a dot, or "own", below .obsidian
    Vaults,       \* what may be on disk when the vault is opened
    MaxChanges,   \* bound: calls of Vault and edits by other programs
    MaxLost       \* bound: events the operating system drops

ASSUME NoneAssumption == None \notin Paths \cup Contents \cup Calls \cup {Garbled}
ASSUME GarbledAssumption == Garbled \notin Contents
ASSUME VaultsAssumption == Vaults \subseteq [Paths -> Contents \cup {Garbled, None}]
ASSUME BoundsAssumption == MaxChanges \in Nat /\ MaxLost \in Nat
ASSUME SettingsAssumption ==
    Settings \subseteq [owner : {"server", "daemon"},
                        kind  : [Paths -> {"plain", "excluded", "hidden", "own"}]]

Files == Contents \cup {Garbled}

VARIABLES
    setting,
    phase,     \* "index", "text", "watch", "open": progress of Vault::open
    disk,      \* path -> content of the file, None without one
    notes,     \* path -> content the index was built from, or None
    tracked,   \* excluded notes that the index counts
    lock,      \* the call that holds the index lock, or None
    draft,     \* path -> document of the text index, committed or not
    live,      \* path -> document that searches see
    asked,     \* path -> last intent submitted to the embedding runtime
    owed,      \* paths with an event on its way to the watcher
    batch,     \* paths of the batch in the watcher's hands
    hand,      \* the event being processed, or None
    dirty,     \* the batch has touched the text index
    call,      \* call -> what it does next, or None
    excused,   \* history: paths whose last change the watcher did not hear of,
               \* or heard of while the call that made it was under way
    changes, lost

index == <<notes, tracked>>
watchVars == <<batch, hand, dirty>>
bounds == <<changes, lost>>
vars == <<setting, phase, disk, index, lock, draft, live, asked, owed, watchVars, call, excused, bounds>>

(* Title, tags and headings come from the metadata, the text from the file.   *)
Docs == [meta : Contents, body : Files]

Is(p, kinds) == setting.kind[p] \in kinds

Operations == [gone : Paths \cup {None}, kept : Paths \cup {None},
               step : {"rename", "index", "undoc", "read", "doc", "submit"},
               meta : Contents \cup {None}, body : Files \cup {None}]

Events == [path : Paths, step : {"index", "track", "forget", "read", "doc", "undoc", "submit"},
           meta : Contents \cup {None}, body : Files \cup {None}]

ASSUME RecordsAssumption == None \notin Operations \cup Events

------------------------------------------------------------------------------
(* Opening.                                                                   *)

Init ==
    /\ setting \in Settings
    /\ phase = "index"
    /\ disk \in Vaults
    /\ notes = [p \in Paths |-> None] /\ tracked = {} /\ lock = None
    /\ draft = [p \in Paths |-> None] /\ live = draft
    /\ asked = [p \in Paths |-> "none"]
    /\ owed = {} /\ batch = {} /\ hand = None /\ dirty = FALSE
    /\ call = [c \in Calls |-> None]
    /\ excused = {}
    /\ changes = 0 /\ lost = 0

Parsed(p) == IF disk[p] \in Contents THEN disk[p] ELSE None

(* VaultIndex::build; what does not parse is skipped, and so is everything     *)
(* below a directory with a dot, whoever changes it later.                     *)
BuildIndex ==
    /\ phase = "index" /\ phase' = "text"
    /\ notes' = [p \in Paths |-> IF Is(p, {"plain"}) THEN Parsed(p) ELSE None]
    /\ tracked' = {p \in Paths : Is(p, {"excluded"}) /\ disk[p] # None}
    /\ excused' = {p \in Paths : Is(p, {"hidden", "own"}) /\ disk[p] # None}
    /\ UNCHANGED <<setting, disk, lock, draft, live, asked, owed, watchVars, call, bounds>>

(* TantivyIndex::build reads every file again.                                *)
BuildText ==
    /\ phase = "text" /\ phase' = "watch"
    /\ draft' = [p \in Paths |-> IF notes[p] = None \/ disk[p] = None THEN None
                                 ELSE [meta |-> notes[p], body |-> disk[p]]]
    /\ live' = draft'
    /\ UNCHANGED <<setting, disk, index, lock, asked, owed, watchVars, call, excused, bounds>>

(* The embedding runtime starts with every indexed note, then the watcher.    *)
StartWatcher ==
    /\ phase = "watch" /\ phase' = "open"
    /\ asked' = [p \in Paths |-> IF notes[p] = None THEN "none" ELSE "upsert"]
    /\ UNCHANGED <<setting, disk, index, lock, draft, live, owed, watchVars, call, excused, bounds>>

------------------------------------------------------------------------------
(* Files and their events.                                                    *)

(* A change is heard of once the watcher runs.                                *)
Heard(S) ==
    IF phase = "open" THEN owed' = owed \cup S /\ UNCHANGED excused
    ELSE excused' = (IF phase = "index" THEN excused ELSE excused \cup S) /\ UNCHANGED owed

(* Another program creates, changes or removes a file.                        *)
Edit(p, x) ==
    /\ changes < MaxChanges /\ changes' = changes + 1
    /\ disk[p] # x
    /\ disk' = [disk EXCEPT ![p] = x]
    /\ Heard({p})
    /\ UNCHANGED <<setting, phase, index, lock, draft, live, asked, watchVars, call, lost>>

(* The queue of the operating system overflows; the watcher logs an error.    *)
LoseEvent(p) ==
    /\ lost < MaxLost /\ lost' = lost + 1
    /\ p \in owed
    /\ owed' = owed \ {p}
    /\ excused' = excused \cup {p}
    /\ UNCHANGED <<setting, phase, disk, index, lock, draft, live, asked, watchVars, call, changes>>

------------------------------------------------------------------------------
(* Calls of Vault.  A call indexes the path "kept", forgets the path "gone",  *)
(* or both (a move).                                                          *)

Call(c, step) == call[c] # None /\ call[c].step = step
Goto(c, step) == call' = [call EXCEPT ![c].step = step]
Return(c) == call' = [call EXCEPT ![c] = None]

Operation(gone, kept, step) ==
    [gone |-> gone, kept |-> kept, step |-> step, meta |-> None, body |-> None]

Begin(c, op) ==
    /\ setting.owner = "server" /\ phase = "open" /\ call[c] = None
    /\ changes < MaxChanges /\ changes' = changes + 1
    /\ call' = [call EXCEPT ![c] = op]
    /\ UNCHANGED <<setting, phase, index, lock, draft, live, asked, watchVars, lost>>

(* write, append, create, prepend, patch, set and remove a field: the file    *)
(* has new content and is then indexed.                                       *)
WriteNote(c, p, x) ==
    /\ Begin(c, Operation(None, p, "index"))
    /\ disk' = [disk EXCEPT ![p] = x]
    /\ Heard({p})

DeleteNote(c, p) ==
    /\ disk[p] # None
    /\ Begin(c, Operation(p, None, "index"))
    /\ disk' = [disk EXCEPT ![p] = None]
    /\ Heard({p})

(* move_file looks at the target first and renames afterwards.                *)
MoveNote(c, p, q) ==
    /\ p # q /\ disk[p] # None /\ disk[q] = None
    /\ Begin(c, Operation(p, q, "rename"))
    /\ UNCHANGED <<disk, owed, excused>>

Rename(c) ==
    /\ Call(c, "rename")
    /\ LET p == call[c].gone  q == call[c].kept IN
       IF disk[p] = None
       THEN Return(c) /\ UNCHANGED <<disk, owed, excused>>
       ELSE /\ Goto(c, "index")
            /\ disk' = [disk EXCEPT ![p] = None, ![q] = disk[p]]
            /\ Heard({p, q})
    /\ UNCHANGED <<setting, phase, index, lock, draft, live, asked, watchVars, bounds>>

Indexable(p) == p # None /\ ~Is(p, {"excluded"})

(* Under the lock: the path that is gone is forgotten, the other one parsed.  *)
(* The lock is kept for the text index only while a note is indexed.          *)
IndexNote(c) ==
    /\ Call(c, "index") /\ lock = None
    /\ call[c].kept = None \/ Indexable(call[c].kept)
    /\ LET op == call[c]
           forgot == [p \in Paths |-> IF p = op.gone THEN None ELSE notes[p]] IN
       /\ op.kept # None => Parsed(op.kept) # None
       /\ notes' = [p \in Paths |-> IF p = op.kept THEN disk[p] ELSE forgot[p]]
       /\ tracked' = tracked \ {op.gone, op.kept}
       /\ lock' = IF op.kept = None THEN None ELSE c
       /\ call' = [call EXCEPT ![c].step = IF op.gone = None THEN "read" ELSE "undoc",
                               ![c].meta = IF op.kept = None THEN None ELSE disk[op.kept]]
    /\ UNCHANGED <<setting, phase, disk, draft, live, asked, owed, watchVars, excused, bounds>>

(* The file does not parse or is gone again: the call returns an error.       *)
(* reindex_file has forgotten the note by then, unless the path could not     *)
(* even be resolved; rename_file has forgotten only the old path.             *)
IndexFails(c) ==
    /\ Call(c, "index") /\ lock = None
    /\ LET op == call[c]
           forgotten == IF op.gone = None THEN op.kept ELSE op.gone IN
       \/ /\ Indexable(op.kept) /\ Parsed(op.kept) = None
          /\ notes' = [notes EXCEPT ![forgotten] = None]
          /\ tracked' = tracked \ {forgotten}
       \/ /\ op.gone = None /\ op.kept # None /\ disk[op.kept] = None
          /\ UNCHANGED index
    /\ Return(c)
    /\ UNCHANGED <<setting, phase, disk, lock, draft, live, asked, owed, watchVars, excused, bounds>>

(* add_excluded_file: what is written or moved to an excluded path is counted  *)
(* and in no index; only a move keeps the lock for the text index.             *)
TrackExcluded(c) ==
    /\ Call(c, "index") /\ lock = None
    /\ LET op == call[c] IN
       /\ op.kept # None /\ Is(op.kept, {"excluded"})
       /\ op.gone = None => disk[op.kept] # None
       /\ notes' = [p \in Paths |-> IF p \in {op.gone, op.kept} THEN None ELSE notes[p]]
       /\ tracked' = (tracked \ {op.gone}) \cup {op.kept}
       /\ lock' = IF op.gone = None THEN None ELSE c
    /\ Goto(c, "undoc")
    /\ UNCHANGED <<setting, phase, disk, draft, live, asked, owed, watchVars, excused, bounds>>

(* remove_file of the text index, committed at once.                          *)
RemoveText(c) ==
    /\ Call(c, "undoc")
    /\ LET op == call[c]
           more == Indexable(op.kept) IN
       /\ draft' = [draft EXCEPT ![IF op.gone = None THEN op.kept ELSE op.gone] = None]
       /\ lock' = IF lock = c /\ ~more THEN None ELSE lock
       /\ Goto(c, IF more THEN "read" ELSE "submit")
    /\ live' = draft'
    /\ UNCHANGED <<setting, phase, disk, index, asked, owed, watchVars, excused, bounds>>

(* Mutant: the lock outlives the error return.                                *)
ReadTextKeepsLock(c) ==
    /\ Call(c, "read")
    /\ LET x == disk[call[c].kept] IN
       IF x = None
       THEN Return(c)
       ELSE call' = [call EXCEPT ![c].step = "doc", ![c].body = x]
    /\ UNCHANGED <<setting, phase, disk, index, lock, draft, live, asked, owed, watchVars, excused, bounds>>

(* reindex_file of the text index reads the file before it takes the writer.  *)
ReadText(c) ==
    /\ Call(c, "read")
    /\ LET x == disk[call[c].kept] IN
       IF x = None
       THEN Return(c) /\ lock' = None
       ELSE /\ call' = [call EXCEPT ![c].step = "doc", ![c].body = x]
            /\ UNCHANGED lock
    /\ UNCHANGED <<setting, phase, disk, index, draft, live, asked, owed, watchVars, excused, bounds>>

WriteText(c) ==
    /\ Call(c, "doc")
    /\ draft' = [draft EXCEPT ![call[c].kept] = [meta |-> call[c].meta, body |-> call[c].body]]
    /\ live' = draft'
    /\ lock' = None
    /\ Goto(c, "submit")
    /\ UNCHANGED <<setting, phase, disk, index, asked, owed, watchVars, excused, bounds>>

(* The embedding runtime hears of it last; the call has succeeded.            *)
Submit(c) ==
    /\ Call(c, "submit")
    /\ asked' = [p \in Paths |-> IF p = call[c].gone THEN "remove"
                                 ELSE IF p # call[c].kept THEN asked[p]
                                 ELSE IF Indexable(p) THEN "upsert" ELSE "remove"]
    /\ Return(c)
    /\ UNCHANGED <<setting, phase, disk, index, lock, draft, live, owed, watchVars, excused, bounds>>

------------------------------------------------------------------------------
(* The watcher.                                                               *)

(* A call is between its change of the file and its return.                   *)
Busy(p) ==
    \E c \in Calls : call[c] # None /\ call[c].step # "rename" /\ p \in {call[c].gone, call[c].kept}

(* Batches go through a channel, each sent by a task of its own: any events   *)
(* may come next.                                                             *)
TakeBatch ==
    /\ batch = {} /\ hand = None /\ ~dirty
    /\ \E S \in (SUBSET owed) \ {{}} :
        /\ batch' = S
        /\ owed' = owed \ S
        /\ excused' = (excused \ S) \cup {p \in S : Busy(p) \/ Is(p, {"own"})}
    /\ UNCHANGED <<setting, phase, disk, index, lock, draft, live, asked, hand, dirty, call, bounds>>

(* should_process_path of the server's watcher, and of the daemon's, which     *)
(* leaves excluded notes alone as well.                                       *)
ServerProcesses(p) == ~Is(p, {"own"})
DaemonProcesses(p) == ~Is(p, {"own", "excluded"})
ShouldProcess(p) == IF setting.owner = "server" THEN ServerProcesses(p) ELSE DaemonProcesses(p)

(* process_event asks whether the file exists before it takes the lock.       *)
LookStep(p) ==
    IF disk[p] = None THEN "forget" ELSE IF Is(p, {"excluded"}) THEN "track" ELSE "index"

Look(p) ==
    /\ p \in batch /\ hand = None
    /\ batch' = batch \ {p}
    /\ hand' = IF ShouldProcess(p)
               THEN [path |-> p, step |-> LookStep(p), meta |-> None, body |-> None]
               ELSE None
    /\ UNCHANGED <<setting, phase, disk, index, lock, draft, live, asked, owed, dirty, call, excused, bounds>>

Hand(step) == hand # None /\ hand.step = step
HandOn(step) == hand' = [hand EXCEPT !.step = step]

(* Mutant: whatever is in the file is taken for a note.                       *)
WatchIndexUnparsed ==
    /\ Hand("index") /\ lock = None
    /\ notes' = [notes EXCEPT ![hand.path] = disk[hand.path]]
    /\ tracked' = tracked \ {hand.path}
    /\ hand' = IF Parsed(hand.path) = None THEN None
               ELSE [hand EXCEPT !.step = "read", !.meta = disk[hand.path]]
    /\ UNCHANGED <<setting, phase, disk, lock, draft, live, asked, owed, batch, dirty, call, excused, bounds>>

(* A note that does not parse any more is forgotten and the event ends here.  *)
WatchIndex ==
    /\ Hand("index") /\ lock = None
    /\ notes' = [notes EXCEPT ![hand.path] = Parsed(hand.path)]
    /\ tracked' = tracked \ {hand.path}
    /\ hand' = IF Parsed(hand.path) = None THEN None
               ELSE [hand EXCEPT !.step = "read", !.meta = disk[hand.path]]
    /\ UNCHANGED <<setting, phase, disk, lock, draft, live, asked, owed, batch, dirty, call, excused, bounds>>

WatchForget ==
    /\ Hand("forget") /\ lock = None
    /\ notes' = [notes EXCEPT ![hand.path] = None]
    /\ tracked' = tracked \ {hand.path}
    /\ HandOn("undoc")
    /\ UNCHANGED <<setting, phase, disk, lock, draft, live, asked, owed, batch, dirty, call, excused, bounds>>

(* An excluded note is counted, and taken out of everything else.              *)
WatchTrack ==
    /\ Hand("track") /\ lock = None
    /\ notes' = [notes EXCEPT ![hand.path] = None]
    /\ tracked' = tracked \cup {hand.path}
    /\ HandOn("undoc")
    /\ UNCHANGED <<setting, phase, disk, lock, draft, live, asked, owed, batch, dirty, call, excused, bounds>>

(* Outside the lock.  A file that went away leaves the document as it is.     *)
WatchRead ==
    /\ Hand("read")
    /\ LET x == disk[hand.path] IN
       hand' = IF x = None THEN [hand EXCEPT !.step = "submit"]
               ELSE [hand EXCEPT !.step = "doc", !.body = x]
    /\ UNCHANGED <<setting, phase, disk, index, lock, draft, live, asked, owed, batch, dirty, call, excused, bounds>>

(* Mutant: one commit for each event, before it.                              *)
WatchTextFlushesFirst ==
    /\ Hand("doc") \/ Hand("undoc")
    /\ draft' = [draft EXCEPT ![hand.path] =
                    IF hand.step = "undoc" THEN None
                    ELSE [meta |-> hand.meta, body |-> hand.body]]
    /\ live' = draft
    /\ dirty' = FALSE
    /\ HandOn("submit")
    /\ UNCHANGED <<setting, phase, disk, index, lock, asked, owed, batch, call, excused, bounds>>

WatchText ==
    /\ Hand("doc") \/ Hand("undoc")
    /\ draft' = [draft EXCEPT ![hand.path] =
                    IF hand.step = "undoc" THEN None
                    ELSE [meta |-> hand.meta, body |-> hand.body]]
    /\ dirty' = TRUE
    /\ HandOn("submit")
    /\ UNCHANGED <<setting, phase, disk, index, lock, live, asked, owed, batch, call, excused, bounds>>

WatchSubmit ==
    /\ Hand("submit")
    /\ asked' = [asked EXCEPT ![hand.path] = IF hand.meta = None THEN "remove" ELSE "upsert"]
    /\ hand' = None
    /\ UNCHANGED <<setting, phase, disk, index, lock, draft, live, owed, batch, dirty, call, excused, bounds>>

(* One commit for the batch.                                                  *)
Flush ==
    /\ batch = {} /\ hand = None /\ dirty
    /\ live' = draft
    /\ dirty' = FALSE
    /\ UNCHANGED <<setting, phase, disk, index, lock, draft, asked, owed, batch, hand, call, excused, bounds>>

------------------------------------------------------------------------------
Open == BuildIndex \/ BuildText \/ StartWatcher

Step(c) ==
    \/ Rename(c) \/ IndexNote(c) \/ IndexFails(c) \/ TrackExcluded(c) \/ RemoveText(c)
    \/ ReadText(c) \/ WriteText(c) \/ Submit(c)

Watcher ==
    \/ TakeBatch \/ \E p \in Paths : Look(p)
    \/ WatchIndex \/ WatchForget \/ WatchTrack \/ WatchRead \/ WatchText \/ WatchSubmit \/ Flush

Request(c) ==
    \E p \in Paths :
        \/ \E x \in Files : WriteNote(c, p, x)
        \/ DeleteNote(c, p)
        \/ \E q \in Paths : MoveNote(c, p, q)

Next ==
    \/ Open \/ Watcher
    \/ \E c \in Calls : Request(c) \/ Step(c)
    \/ \E p \in Paths : LoseEvent(p) \/ \E x \in Files \cup {None} : Edit(p, x)

Spec == Init /\ [][Next]_vars

(* Opening, the watcher's task and the threads of the calls keep running.     *)
Fairness == WF_vars(Open) /\ WF_vars(Watcher) /\ \A c \in Calls : WF_vars(Step(c))

FairSpec == Spec /\ Fairness

------------------------------------------------------------------------------
(* Properties.                                                                *)

TypeOK ==
    /\ setting \in Settings
    /\ phase \in {"index", "text", "watch", "open"}
    /\ disk \in [Paths -> Files \cup {None}]
    /\ notes \in [Paths -> Contents \cup {None}]
    /\ tracked \subseteq Paths
    /\ lock \in Calls \cup {None}
    /\ draft \in [Paths -> Docs \cup {None}] /\ live \in [Paths -> Docs \cup {None}]
    /\ asked \in [Paths -> {"none", "upsert", "remove"}]
    /\ owed \subseteq Paths /\ batch \subseteq Paths /\ excused \subseteq Paths
    /\ hand \in Events \cup {None}
    /\ dirty \in BOOLEAN
    /\ call \in [Calls -> Operations \cup {None}]
    /\ changes \in 0..MaxChanges /\ lost \in 0..MaxLost

(* Nobody has anything left to do about p.                                    *)
Settled(p) ==
    /\ phase = "open"
    /\ p \notin owed \cup batch \cup excused
    /\ hand = None \/ hand.path # p
    /\ \A c \in Calls : call[c] = None \/ p \notin {call[c].gone, call[c].kept}

(* What searches find about p is what is on disk, and nothing of an excluded   *)
(* note, which only the server counts.                                        *)
InSync(p) ==
    LET x == IF Is(p, {"excluded"}) THEN None ELSE disk[p] IN
    /\ notes[p] = IF x \in Contents THEN x ELSE None
    /\ x \in Contents => /\ live[p] = [meta |-> x, body |-> x]
                         /\ asked[p] = "upsert"
    /\ x = None => live[p] = None /\ asked[p] # "upsert"
    /\ setting.owner = "server" =>
          (p \in tracked <=> Is(p, {"excluded"}) /\ disk[p] # None)

(* Whatever calls, edits and events overlap, a path nobody is busy with is in *)
(* the indexes as it is on disk (vault/mod.rs, vault/watcher.rs).             *)
SettledIsInSync == \A p \in Paths : Settled(p) /\ ~dirty => InSync(p)

(* Once the changes stop, the indexes follow, except for what the watcher did *)
(* not hear of in time.                                                       *)
EventuallyInSync == <>[](\A p \in Paths \ excused : InSync(p))
==============================================================================
