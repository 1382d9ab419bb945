--------------------------- MODULE VaultSyncProofs ---------------------------
(* For any paths, contents, calls, settings and bounds: the variables of      *)
(* VaultSync keep their types (TypesKept), and a path nobody is busy with is  *)
(* in both indexes and the last intent as it is on disk (SettledInSync).      *)
(* The argument: an event of a path is on its way as long as a call on it is  *)
(* under way, so when none is left only the watcher touches the path's        *)
(* entries, and what it has in hand was read from the file as it is (Follows).*)
EXTENDS VaultSync, TLAPS

USE DEF vars, index, watchVars, bounds

(* What the steps of a call need of what the call knows so far.                *)
CallKnows(c) ==
    LET op == call[c] IN
    /\ op.gone # None \/ op.kept # None
    /\ op.step = "rename" => op.gone # None /\ op.kept # None
    /\ op.step \in {"read", "doc"} => op.kept # None /\ op.meta \in Contents
    /\ op.step = "doc" => op.body \in Files
    /\ op.step = "undoc" /\ Indexable(op.kept) => op.meta \in Contents

(* What the watcher has read of the file of the event in its hands.            *)
HandKnows ==
    /\ hand.step \in {"index", "track", "forget", "undoc"} => hand.meta = None
    /\ hand.step \in {"read", "doc"} => hand.meta \in Contents
    /\ hand.step = "doc" => hand.body \in Files

(* Nothing happens to a vault before it is open but edits by other programs;   *)
(* the daemon makes no calls and does not look at excluded notes.              *)
Opening ==
    /\ phase # "open" => /\ owed = {} /\ batch = {} /\ hand = None /\ ~dirty
                         /\ \A c \in Calls : call[c] = None
    /\ phase = "index" => /\ notes = [p \in Paths |-> None] /\ tracked = {}
                          /\ excused = {}
    /\ phase \in {"index", "text"} => draft = [p \in Paths |-> None]
    /\ phase # "open" => asked = [p \in Paths |-> "none"]

Known ==
    /\ \A c \in Calls : call[c] # None => CallKnows(c)
    /\ hand # None => HandKnows
    /\ Opening

DaemonReads ==
    setting.owner = "daemon" =>
        /\ \A c \in Calls : call[c] = None
        /\ \A p \in Paths : Is(p, {"excluded"}) =>
              /\ hand = None \/ hand.path # p
              /\ notes[p] = None /\ draft[p] = None /\ asked[p] # "upsert"

(* What the indexes should have of p.                                          *)
Wanted(p) == IF Is(p, {"excluded"}) THEN None ELSE disk[p]

NotesFit(p) ==
    /\ notes[p] = IF Wanted(p) \in Contents THEN Wanted(p) ELSE None
    /\ setting.owner = "server" =>
          (p \in tracked <=> Is(p, {"excluded"}) /\ disk[p] # None)
DraftFits(p) ==
    /\ Wanted(p) \in Contents => draft[p] = [meta |-> Wanted(p), body |-> Wanted(p)]
    /\ Wanted(p) = None => draft[p] = None
AskedFits(p) ==
    /\ Wanted(p) \in Contents => asked[p] = "upsert"
    /\ Wanted(p) = None => asked[p] # "upsert"

(* How far the watcher is with p, whose file did not change since it looked.   *)
HandFits(p) ==
    /\ hand.step = "index" => Wanted(p) # None
    /\ hand.step = "track" => Is(p, {"excluded"}) /\ disk[p] # None
    /\ hand.step = "forget" => disk[p] = None
    /\ hand.step \in {"read", "doc", "undoc", "submit"} =>
          /\ NotesFit(p)
          /\ hand.meta = Wanted(p)
    /\ hand.step = "doc" => hand.body = Wanted(p)
    /\ hand.step = "submit" => DraftFits(p)

Quiet(p) == p \notin owed \cup batch \cup excused

(* Follows: a path without an event under way is as its file is, or the        *)
(* watcher is about to make it so; nobody else touches it meanwhile.           *)
Follows(p) ==
    /\ phase = "open" /\ Busy(p) => p \in owed \cup excused
    /\ p \in batch /\ Is(p, {"own"}) => p \in excused
    /\ Quiet(p) /\ phase # "index" =>
          IF hand # None /\ hand.path = p THEN HandFits(p)
          ELSE /\ NotesFit(p)
               /\ phase # "text" => DraftFits(p)
               /\ phase = "open" => AskedFits(p)

Committed == dirty \/ live = draft

SyncInv ==
    /\ TypeOK /\ Known /\ DaemonReads /\ Committed
    /\ \A p \in Paths : Follows(p)

------------------------------------------------------------------------------
(* Types.                                                                     *)

(* Opening and the edits of other programs keep the types: both indexes are   *)
(* built from what parses.                                                    *)
LEMMA OpenTypes ==
  ASSUME TypeOK, Open PROVE TypeOK'
<1> USE NoneAssumption
<1>1. \A p \in Paths : Parsed(p) \in Contents \cup {None}
  BY DEF TypeOK, Parsed
<1>2. CASE BuildIndex
  BY <1>1, <1>2 DEF BuildIndex, TypeOK
<1>3. CASE BuildText
  <2>1. \A p \in Paths : ~(notes[p] = None \/ disk[p] = None) =>
           [meta |-> notes[p], body |-> disk[p]] \in Docs
    BY DEF TypeOK, Docs
  <2>2. draft' \in [Paths -> Docs \cup {None}]
    BY <1>3, <2>1 DEF BuildText
  <2> QED
    BY <1>3, <2>2 DEF BuildText, TypeOK
<1>4. CASE StartWatcher
  BY <1>4 DEF StartWatcher, TypeOK
<1> QED
  BY <1>2, <1>3, <1>4 DEF Open

(* A step that goes on with an operation c; its record stays an operation.    *)
LEMMA GotoTypes ==
  ASSUME call \in [Calls -> Operations \cup {None}], NEW c \in Calls, call[c] # None,
         NEW step \in {"rename", "index", "undoc", "read", "doc", "submit"}, Goto(c, step)
  PROVE  /\ call' \in [Calls -> Operations \cup {None}]
         /\ call'[c] = [call[c] EXCEPT !.step = step]
         /\ call'[c].step = step /\ call'[c].gone = call[c].gone /\ call'[c].kept = call[c].kept
         /\ call'[c].meta = call[c].meta /\ call'[c].body = call[c].body
         /\ \A d \in Calls \ {c} : call'[d] = call[d]
BY DEF Goto, Operations

(* Every step of a call keeps the types.                                      *)
LEMMA StepTypes ==
  ASSUME TypeOK, Known, NEW c \in Calls, Step(c) PROVE TypeOK'
<1> USE NoneAssumption
<1>0. call[c] # None /\ call[c] \in Operations /\ CallKnows(c)
  BY DEF Step, Call, Rename, IndexNote, IndexFails, TrackExcluded, RemoveText, ReadText,
    WriteText, Submit, TypeOK, Known
<1>1. CASE Rename(c)
  <2>1. call[c].gone \in Paths /\ call[c].kept \in Paths
    BY <1>0, <1>1 DEF Rename, Call, Operations, CallKnows
  <2>2. call' \in [Calls -> Operations \cup {None}]
    BY <1>0, <1>1, GotoTypes DEF Rename, Return, TypeOK
  <2>3. disk' \in [Paths -> Files \cup {None}] /\ owed' \subseteq Paths /\ excused' \subseteq Paths
    BY <1>1, <2>1 DEF Rename, Heard, TypeOK
  <2> QED
    BY <1>1, <2>2, <2>3 DEF Rename, TypeOK
<1>2. CASE IndexNote(c)
  <2> DEFINE op == call[c]
  <2>1. op.kept = None \/ (op.kept \in Paths /\ disk[op.kept] \in Contents)
    BY <1>0, <1>2 DEF IndexNote, Parsed, Operations
  <2>2. notes' \in [Paths -> Contents \cup {None}]
    BY <1>2, <2>1 DEF IndexNote, TypeOK
  <2>3. call' \in [Calls -> Operations \cup {None}]
    <3> DEFINE next == [op EXCEPT !.step = IF op.gone = None THEN "read" ELSE "undoc",
                                  !.meta = IF op.kept = None THEN None ELSE disk[op.kept]]
    <3>1. next \in Operations
      BY <1>0, <2>1 DEF Operations
    <3>2. call' = [call EXCEPT ![c] = next]
      BY <1>0, <1>2 DEF IndexNote
    <3> QED
      BY <3>1, <3>2 DEF TypeOK
  <2> QED
    BY <1>2, <2>2, <2>3 DEF IndexNote, TypeOK
<1>3. CASE IndexFails(c)
  BY <1>0, <1>3 DEF IndexFails, Return, TypeOK
<1>4. CASE TrackExcluded(c)
  <2>1. call' \in [Calls -> Operations \cup {None}]
    BY <1>0, <1>4, GotoTypes DEF TrackExcluded, TypeOK
  <2> QED
    BY <1>0, <1>4, <2>1 DEF TrackExcluded, TypeOK, Operations
<1>5. CASE RemoveText(c)
  <2>1. call' \in [Calls -> Operations \cup {None}]
    BY <1>0, <1>5, GotoTypes DEF RemoveText, TypeOK
  <2> QED
    BY <1>0, <1>5, <2>1 DEF RemoveText, TypeOK
<1>6. CASE ReadText(c)
  <2> DEFINE x == disk[call[c].kept]
             next == [call[c] EXCEPT !.step = "doc", !.body = x]
  <2>1. call[c].kept \in Paths /\ x \in Files \cup {None}
    BY <1>0, <1>6 DEF ReadText, Call, CallKnows, Operations, TypeOK
  <2>2. x # None => next \in Operations
    BY <1>0, <2>1 DEF Operations
  <2>3. call' = [call EXCEPT ![c] = IF x = None THEN None ELSE next]
    BY <1>0, <1>6 DEF ReadText, Return
  <2> QED
    BY <1>6, <2>2, <2>3 DEF ReadText, TypeOK
<1>7. CASE WriteText(c)
  <2>1. [meta |-> call[c].meta, body |-> call[c].body] \in Docs
    BY <1>0, <1>7 DEF WriteText, Call, CallKnows, Docs
  <2>2. call' \in [Calls -> Operations \cup {None}]
    BY <1>0, <1>7, GotoTypes DEF WriteText, TypeOK
  <2> QED
    BY <1>7, <2>1, <2>2 DEF WriteText, TypeOK
<1>8. CASE Submit(c)
  BY <1>8 DEF Submit, Return, TypeOK
<1> QED
  BY <1>1, <1>2, <1>3, <1>4, <1>5, <1>6, <1>7, <1>8 DEF Step

(* So does the watcher, whose documents are made of what it read.             *)
LEMMA WatcherTypes ==
  ASSUME TypeOK, Known, Watcher PROVE TypeOK'
<1> USE NoneAssumption
<1>0. hand # None => hand \in Events /\ HandKnows
  BY DEF TypeOK, Known
<1>1. CASE TakeBatch
  BY <1>1 DEF TakeBatch, TypeOK
<1>2. ASSUME NEW p \in Paths, Look(p) PROVE TypeOK'
  <2>1. [path |-> p, step |-> LookStep(p), meta |-> None, body |-> None] \in Events
    BY DEF LookStep, Events
  <2> QED
    BY <1>2, <2>1 DEF Look, TypeOK
<1>3. CASE WatchIndex
  <2> DEFINE x == Parsed(hand.path)
             next == [hand EXCEPT !.step = "read", !.meta = disk[hand.path]]
  <2>1. hand # None /\ hand.path \in Paths /\ x \in Contents \cup {None}
    BY <1>0, <1>3 DEF WatchIndex, Hand, Events, Parsed
  <2>2. x # None => next \in Events
    BY <1>0, <2>1 DEF Events, Parsed
  <2>3. hand' \in Events \cup {None} /\ notes' \in [Paths -> Contents \cup {None}]
    BY <1>3, <2>1, <2>2 DEF WatchIndex, TypeOK
  <2> QED
    BY <1>3, <2>3 DEF WatchIndex, TypeOK
<1>4. ASSUME NEW step \in {"undoc", "submit"}, hand # None, HandOn(step)
      PROVE  hand' \in Events
  BY <1>0, <1>4 DEF HandOn, Events
<1>5. CASE WatchForget
  BY <1>0, <1>4, <1>5 DEF WatchForget, Hand, TypeOK
<1>6. CASE WatchTrack
  <2>1. hand.path \in Paths
    BY <1>0, <1>6 DEF WatchTrack, Hand, Events
  <2> QED
    BY <1>0, <1>4, <1>6, <2>1 DEF WatchTrack, Hand, TypeOK
<1>7. CASE WatchRead
  <2> DEFINE x == disk[hand.path]
  <2>1. hand # None /\ hand.path \in Paths /\ x \in Files \cup {None}
    BY <1>0, <1>7 DEF WatchRead, Hand, Events, TypeOK
  <2>2. [hand EXCEPT !.step = "submit"] \in Events
    BY <1>0, <2>1 DEF Events
  <2>3. x # None => [hand EXCEPT !.step = "doc", !.body = x] \in Events
    BY <1>0, <2>1 DEF Events
  <2> QED
    BY <1>7, <2>2, <2>3 DEF WatchRead, TypeOK
<1>8. CASE WatchText
  <2>1. hand # None /\ hand.path \in Paths
    BY <1>0, <1>8 DEF WatchText, Hand, Events
  <2>2. hand.step # "undoc" => [meta |-> hand.meta, body |-> hand.body] \in Docs
    BY <1>0, <1>8 DEF WatchText, Hand, HandKnows, Docs
  <2> QED
    BY <1>4, <1>8, <2>1, <2>2 DEF WatchText, TypeOK
<1>9. CASE WatchSubmit
  BY <1>9 DEF WatchSubmit, TypeOK
<1>10. CASE Flush
  BY <1>10 DEF Flush, TypeOK
<1> QED
  BY <1>1, <1>2, <1>3, <1>5, <1>6, <1>7, <1>8, <1>9, <1>10 DEF Watcher

(* The requests start with an operation that knows nothing yet.               *)
LEMMA OperationTypes ==
  ASSUME NEW gone \in Paths \cup {None}, NEW kept \in Paths \cup {None},
         NEW step \in {"rename", "index"}
  PROVE  /\ Operation(gone, kept, step) \in Operations
         /\ Operation(gone, kept, step).gone = gone /\ Operation(gone, kept, step).kept = kept
         /\ Operation(gone, kept, step).step = step
BY DEF Operation, Operations

(* So does a request, with the paths and the operation it starts with.        *)
LEMMA RequestTypes ==
  ASSUME TypeOK, NEW c \in Calls, Request(c) PROVE TypeOK'
<1> USE NoneAssumption, BoundsAssumption
<1>1. ASSUME NEW op \in Operations, Begin(c, op),
             disk' \in [Paths -> Files \cup {None}],
             owed' \subseteq Paths, excused' \subseteq Paths
      PROVE  TypeOK'
  BY <1>1 DEF Begin, TypeOK
<1>2. ASSUME NEW p \in Paths, NEW x \in Files, WriteNote(c, p, x) PROVE TypeOK'
  <2>1. owed' \subseteq Paths /\ excused' \subseteq Paths
    BY <1>2 DEF WriteNote, Heard, TypeOK
  <2>2. disk' \in [Paths -> Files \cup {None}] /\ Begin(c, Operation(None, p, "index"))
    BY <1>2 DEF WriteNote, TypeOK
  <2> QED
    BY <1>1, <2>1, <2>2, OperationTypes
<1>3. ASSUME NEW p \in Paths, DeleteNote(c, p) PROVE TypeOK'
  <2>1. owed' \subseteq Paths /\ excused' \subseteq Paths
    BY <1>3 DEF DeleteNote, Heard, TypeOK
  <2>2. disk' \in [Paths -> Files \cup {None}] /\ Begin(c, Operation(p, None, "index"))
    BY <1>3 DEF DeleteNote, TypeOK
  <2> QED
    BY <1>1, <2>1, <2>2, OperationTypes
<1>4. ASSUME NEW p \in Paths, NEW q \in Paths, MoveNote(c, p, q) PROVE TypeOK'
  BY <1>1, <1>4, OperationTypes DEF MoveNote, TypeOK
<1> QED
  BY <1>2, <1>3, <1>4 DEF Request

(* Every step of the server, the daemon and other programs keeps the types.   *)
LEMMA TypeNext ==
  ASSUME TypeOK, Known, [Next]_vars PROVE TypeOK'
<1> USE NoneAssumption, BoundsAssumption
<1>1. ASSUME NEW p \in Paths, LoseEvent(p) PROVE TypeOK'
  BY <1>1 DEF LoseEvent, TypeOK
<1>2. ASSUME NEW p \in Paths, NEW x \in Files \cup {None}, Edit(p, x) PROVE TypeOK'
  <2>1. owed' \subseteq Paths /\ excused' \subseteq Paths
    BY <1>2 DEF Edit, Heard, TypeOK
  <2> QED
    BY <1>2, <2>1 DEF Edit, TypeOK
<1>3. CASE UNCHANGED vars
  BY <1>3 DEF TypeOK
<1> QED
  BY <1>1, <1>2, <1>3, OpenTypes, StepTypes, WatcherTypes, RequestTypes DEF Next

------------------------------------------------------------------------------
(* What the calls and the watcher know of the files they are busy with.       *)

(* A step of a call leaves the other calls alone; the call is over or knows   *)
(* what its next step needs.                                                  *)
LEMMA StepKnows ==
  ASSUME TypeOK, Known, NEW c \in Calls, Step(c)
  PROVE  /\ \A d \in Calls \ {c} : call'[d] = call[d]
         /\ call'[c] # None => /\ CallKnows(c)'
                               /\ call'[c].gone = call[c].gone /\ call'[c].kept = call[c].kept
         /\ call[c] # None /\ call[c] \in Operations /\ CallKnows(c)
         /\ UNCHANGED <<setting, phase, hand, batch, dirty, bounds>>
<1> USE NoneAssumption, GarbledAssumption
<1>0. call[c] # None /\ call[c] \in Operations /\ CallKnows(c)
  BY DEF Step, Call, Rename, IndexNote, IndexFails, TrackExcluded, RemoveText, ReadText,
    WriteText, Submit, TypeOK, Known
<1>1. call \in [Calls -> Operations \cup {None}] /\ setting' = setting
  BY DEF TypeOK, Step, Rename, IndexNote, IndexFails, TrackExcluded, RemoveText, ReadText,
    WriteText, Submit
<1>2. UNCHANGED <<setting, phase, hand, batch, dirty, bounds>>
  BY DEF Step, Rename, IndexNote, IndexFails, TrackExcluded, RemoveText, ReadText,
    WriteText, Submit
<1>3. \A p : Indexable(p)' <=> Indexable(p)
  BY <1>1 DEF Indexable, Is
<1>4. CASE Return(c)
  BY <1>0, <1>1, <1>2, <1>4 DEF Return
<1>5. ASSUME NEW step \in {"rename", "index", "undoc", "read", "doc", "submit"}, Goto(c, step),
             step # "rename", step # "doc",
             step = "read" => call[c].kept # None /\ call[c].meta \in Contents,
             step = "undoc" => ~Indexable(call[c].kept)
      PROVE  /\ \A d \in Calls \ {c} : call'[d] = call[d]
             /\ CallKnows(c)'
             /\ call'[c].gone = call[c].gone /\ call'[c].kept = call[c].kept
  BY <1>0, <1>1, <1>3, <1>5, GotoTypes DEF CallKnows
<1>6. CASE Rename(c)
  BY <1>0, <1>2, <1>4, <1>5, <1>6 DEF Rename
<1>7. CASE IndexNote(c)
  <2> DEFINE op == call[c]
             next == [op EXCEPT !.step = IF op.gone = None THEN "read" ELSE "undoc",
                                !.meta = IF op.kept = None THEN None ELSE disk[op.kept]]
  <2>1. op.kept # None => disk[op.kept] \in Contents
    BY <1>7 DEF IndexNote, Parsed
  <2>2. call' = [call EXCEPT ![c] = next]
    BY <1>0, <1>7 DEF IndexNote
  <2>3. /\ next.gone = op.gone /\ next.kept = op.kept
        /\ next.step = IF op.gone = None THEN "read" ELSE "undoc"
        /\ op.kept # None => next.meta \in Contents
    BY <1>0, <2>1 DEF Operations
  <2> HIDE DEF next
  <2>4. call'[c] = next /\ \A d \in Calls \ {c} : call'[d] = call[d]
    BY <1>1, <2>2
  <2> QED
    BY <1>0, <1>2, <1>3, <2>3, <2>4 DEF CallKnows, Indexable
<1>8. CASE IndexFails(c)
  BY <1>4, <1>8 DEF IndexFails
<1>9. CASE TrackExcluded(c)
  BY <1>0, <1>2, <1>5, <1>9 DEF TrackExcluded, Indexable
<1>10. CASE RemoveText(c)
  <2>1. Indexable(call[c].kept) => call[c].meta \in Contents /\ call[c].kept # None
    BY <1>0, <1>10 DEF RemoveText, Call, CallKnows, Indexable
  <2> QED
    BY <1>0, <1>2, <1>5, <1>10, <2>1 DEF RemoveText
<1>11. CASE ReadText(c)
  <2> DEFINE x == disk[call[c].kept]
             next == [call[c] EXCEPT !.step = "doc", !.body = x]
  <2>1. call[c].kept # None /\ call[c].meta \in Contents /\ x \in Files \cup {None}
    BY <1>0, <1>11 DEF ReadText, Call, CallKnows, TypeOK, Operations
  <2>2. CASE x # None
    <3>1. call' = [call EXCEPT ![c] = next]
      BY <1>0, <1>11, <2>2 DEF ReadText
    <3>2. /\ next.gone = call[c].gone /\ next.kept = call[c].kept /\ next.step = "doc"
          /\ next.meta = call[c].meta /\ next.body = x
      BY <1>0 DEF Operations
    <3> HIDE DEF next
    <3>3. call'[c] = next /\ \A d \in Calls \ {c} : call'[d] = call[d]
      BY <1>1, <3>1
    <3> QED
      BY <1>0, <1>2, <2>1, <2>2, <3>2, <3>3 DEF CallKnows
  <2>3. CASE x = None
    BY <1>4, <1>11, <2>3 DEF ReadText
  <2> QED
    BY <2>2, <2>3
<1>12. CASE WriteText(c)
  BY <1>0, <1>2, <1>5, <1>12 DEF WriteText
<1>13. CASE Submit(c)
  BY <1>4, <1>13 DEF Submit
<1> QED
  BY <1>6, <1>7, <1>8, <1>9, <1>10, <1>11, <1>12, <1>13 DEF Step

(* The step of the watcher that goes on with its event, and what it knows.    *)
LEMMA HandGives ==
  ASSUME hand \in Events, NEW step \in {"index", "track", "forget", "read", "doc", "undoc", "submit"},
         HandOn(step)
  PROVE  /\ hand'.step = step /\ hand'.path = hand.path
         /\ hand'.meta = hand.meta /\ hand'.body = hand.body
         /\ hand' # None
<1>1. hand' \in Events
  BY DEF HandOn, Events
<1> QED
  BY <1>1, RecordsAssumption DEF HandOn, Events

(* What the watcher has in its hands after each of its steps.                 *)
LEMMA WatcherKnows ==
  ASSUME TypeOK, Known, Watcher
  PROVE  /\ hand' # None => HandKnows'
         /\ UNCHANGED <<setting, phase, disk, lock, call, bounds>>
<1> USE NoneAssumption, GarbledAssumption
<1>0. hand # None => hand \in Events /\ hand.path \in Paths /\ HandKnows
  BY DEF TypeOK, Known, Events
<1>1. UNCHANGED <<setting, phase, disk, lock, call, bounds>>
  BY DEF Watcher, TakeBatch, Look, WatchIndex, WatchForget, WatchTrack, WatchRead, WatchText,
    WatchSubmit, Flush
<1>2. CASE TakeBatch \/ Flush \/ WatchSubmit
  BY <1>0, <1>1, <1>2 DEF TakeBatch, Flush, WatchSubmit
<1>3. ASSUME NEW p \in Paths, Look(p) PROVE hand' # None => HandKnows'
  BY <1>3 DEF Look, LookStep, HandKnows
<1>4. CASE WatchIndex
  <2> DEFINE next == [hand EXCEPT !.step = "read", !.meta = disk[hand.path]]
  <2>1. hand # None /\ next.step = "read" /\ next.meta = disk[hand.path]
    BY <1>0, <1>4 DEF WatchIndex, Hand, Events
  <2>2. Parsed(hand.path) # None => disk[hand.path] \in Contents /\ hand' = next
    BY <1>4 DEF WatchIndex, Parsed
  <2>3. Parsed(hand.path) = None => hand' = None
    BY <1>4 DEF WatchIndex
  <2> HIDE DEF next
  <2> QED
    BY <1>1, <2>1, <2>2, <2>3 DEF HandKnows
<1>5. CASE WatchForget \/ WatchTrack
  BY <1>0, <1>1, <1>5, HandGives DEF WatchForget, WatchTrack, Hand, HandKnows
<1>6. CASE WatchRead
  <2> DEFINE x == disk[hand.path]
             next == [hand EXCEPT !.step = "doc", !.body = x]
  <2>1. hand # None /\ x \in Files \cup {None}
    BY <1>0, <1>6 DEF WatchRead, Hand, TypeOK
  <2>2. next.step = "doc" /\ next.meta = hand.meta /\ next.body = x
    BY <1>0, <2>1 DEF Events
  <2>3. hand.meta \in Contents
    BY <1>0, <1>6 DEF WatchRead, Hand, HandKnows
  <2>4. x = None => hand'.step = "submit"
    BY <1>0, <1>6, <2>1 DEF WatchRead, Events
  <2>5. x # None => hand' = next
    BY <1>6 DEF WatchRead
  <2> HIDE DEF next
  <2> QED
    BY <1>1, <2>1, <2>2, <2>3, <2>4, <2>5 DEF HandKnows
<1>7. CASE WatchText
  BY <1>0, <1>1, <1>7, HandGives DEF WatchText, Hand, HandKnows
<1> QED
  BY <1>1, <1>2, <1>3, <1>4, <1>5, <1>6, <1>7 DEF Watcher

(* What calls and watcher know of the files stays true in every step.         *)
LEMMA KnownNext ==
  ASSUME TypeOK, Known, [Next]_vars PROVE Known'
<1> USE NoneAssumption
<1>1. CASE Open
  <2>1. UNCHANGED <<setting, call, hand, owed, batch, dirty>>
    BY <1>1 DEF Open, BuildIndex, BuildText, StartWatcher
  <2>2. \A c \in Calls : call'[c] # None => CallKnows(c)'
    BY <2>1 DEF Known, CallKnows, Indexable, Is
  <2>3. hand' # None => HandKnows'
    BY <2>1 DEF Known, HandKnows
  <2>4. Opening'
    BY <1>1, <2>1 DEF Open, BuildIndex, BuildText, StartWatcher, Known, Opening
  <2> QED
    BY <2>2, <2>3, <2>4 DEF Known
<1>2. CASE Watcher
  <2>1. /\ hand' # None => HandKnows'
        /\ UNCHANGED <<setting, phase, disk, lock, call, bounds>>
    BY <1>2, WatcherKnows
  <2>2. phase = "open"
    <3>1. owed # {} \/ batch # {} \/ hand # None \/ dirty
      <4>1. TakeBatch => owed # {}
        <5>1. ASSUME NEW S \in (SUBSET owed) \ {{}}, owed = {} PROVE FALSE
          <6>1. S \subseteq {} /\ S # {}
            BY <5>1
          <6> QED
            BY <6>1
        <5> QED
          BY <5>1 DEF TakeBatch
      <4>2. \A p \in Paths : Look(p) => batch # {}
        BY DEF Look
      <4> QED
        BY <1>2, <4>1, <4>2 DEF Watcher, WatchIndex, WatchForget, WatchTrack, WatchRead,
          WatchText, WatchSubmit, Flush, Hand
    <3> QED
      BY <3>1 DEF Known, Opening
  <2> QED
    BY <2>1, <2>2 DEF Known, Opening, CallKnows, Indexable, Is
<1>3. ASSUME NEW c \in Calls, Request(c) PROVE Known'
  <2>1. PICK op \in Operations :
          /\ Begin(c, op) /\ op.step \in {"rename", "index"}
          /\ op.gone # None \/ op.kept # None
          /\ op.step = "rename" => op.gone # None /\ op.kept # None
    <3>1. ASSUME NEW p \in Paths, NEW x \in Files, WriteNote(c, p, x)
          PROVE  Begin(c, Operation(None, p, "index"))
      BY <3>1 DEF WriteNote
    <3>2. ASSUME NEW p \in Paths, DeleteNote(c, p)
          PROVE  Begin(c, Operation(p, None, "index"))
      BY <3>2 DEF DeleteNote
    <3>3. ASSUME NEW p \in Paths, NEW q \in Paths, MoveNote(c, p, q)
          PROVE  Begin(c, Operation(p, q, "rename"))
      BY <3>3 DEF MoveNote
    <3> QED
      BY <1>3, <3>1, <3>2, <3>3, OperationTypes DEF Request
  <2>2. /\ UNCHANGED <<setting, phase, hand, notes, tracked, batch>> /\ phase = "open"
        /\ call'[c] = op /\ \A d \in Calls \ {c} : call'[d] = call[d]
    BY <2>1, <1>3 DEF Begin, Request, TypeOK, WriteNote, DeleteNote, MoveNote
  <2>3. \A d \in Calls : call'[d] # None => CallKnows(d)'
    BY <2>1, <2>2 DEF Known, CallKnows, Indexable, Is
  <2> QED
    BY <2>2, <2>3 DEF Known, HandKnows, Opening
<1>4. ASSUME NEW c \in Calls, Step(c) PROVE Known'
  <2>1. /\ \A d \in Calls \ {c} : call'[d] = call[d]
        /\ call'[c] # None => CallKnows(c)'
        /\ call[c] # None
        /\ UNCHANGED <<setting, phase, hand, batch, dirty, bounds>>
    BY <1>4, StepKnows
  <2>2. phase = "open"
    BY <2>1 DEF Known, Opening
  <2>3. \A d \in Calls : call'[d] # None => CallKnows(d)'
    BY <2>1 DEF Known, CallKnows, Indexable, Is
  <2> QED
    BY <2>1, <2>2, <2>3 DEF Known, HandKnows, Opening
<1>5. ASSUME NEW p \in Paths, LoseEvent(p) PROVE Known'
  BY <1>5 DEF LoseEvent, Known, CallKnows, HandKnows, Opening, Indexable, Is
<1>6. ASSUME NEW p \in Paths, NEW x \in Files \cup {None}, Edit(p, x) PROVE Known'
  BY <1>6 DEF Edit, Heard, Known, CallKnows, HandKnows, Opening, Indexable, Is
<1>7. CASE UNCHANGED vars
  BY <1>7 DEF Known, CallKnows, HandKnows, Opening, Indexable, Is
<1> QED
  BY <1>1, <1>2, <1>3, <1>4, <1>5, <1>6, <1>7 DEF Next

------------------------------------------------------------------------------
(* A call touches the entries of its own two paths only.                      *)
LEMMA StepTouches ==
  ASSUME TypeOK, Known, NEW c \in Calls, Step(c), NEW p \in Paths,
         p \notin {call[c].gone, call[c].kept}
  PROVE  /\ disk'[p] = disk[p] /\ notes'[p] = notes[p] /\ (p \in tracked' <=> p \in tracked)
         /\ draft'[p] = draft[p] /\ asked'[p] = asked[p]
         /\ p \in owed' <=> p \in owed
         /\ p \in excused' <=> p \in excused
<1>1. CallKnows(c) /\ call[c] \in Operations
  BY StepKnows
<1>2. CASE Rename(c)
  BY <1>2 DEF Rename, Heard, TypeOK
<1>3. CASE IndexNote(c)
  BY <1>3 DEF IndexNote, TypeOK
<1>4. CASE IndexFails(c)
  BY <1>4 DEF IndexFails, TypeOK
<1>5. CASE TrackExcluded(c)
  BY <1>5 DEF TrackExcluded, TypeOK
<1>6. CASE RemoveText(c)
  BY <1>6 DEF RemoveText, TypeOK
<1>7. CASE ReadText(c)
  BY <1>7 DEF ReadText
<1>8. CASE WriteText(c)
  BY <1>8 DEF WriteText, TypeOK
<1>9. CASE Submit(c)
  BY <1>9 DEF Submit, TypeOK
<1> QED
  BY <1>2, <1>3, <1>4, <1>5, <1>6, <1>7, <1>8, <1>9 DEF Step

(* Only a rename changes files in a step of a call, and it is heard of.       *)
LEMMA StepQuiet ==
  ASSUME TypeOK, Known, NEW c \in Calls, Step(c)
  PROVE  \/ UNCHANGED <<disk, owed, excused>>
         \/ /\ Rename(c) /\ excused' = excused
            /\ owed' = owed \cup {call[c].gone, call[c].kept}
<1>1. call[c] # None
  BY StepKnows
<1>2. phase = "open"
  BY <1>1 DEF Known, Opening
<1>3. CASE Rename(c)
  BY <1>2, <1>3 DEF Rename, Heard
<1>4. CASE ~Rename(c)
  BY <1>4 DEF Step, IndexNote, IndexFails, TrackExcluded, RemoveText, ReadText, WriteText, Submit
<1> QED
  BY <1>3, <1>4

(* The daemon indexes no excluded note: its build leaves them out and its     *)
(* watcher passes them over.                                                  *)
LEMMA DaemonNext ==
  ASSUME TypeOK, Known, DaemonReads, [Next]_vars PROVE DaemonReads'
<1> USE NoneAssumption
<1>1. setting' = setting
  BY DEF Next, Open, Watcher, Request, Step, BuildIndex, BuildText, StartWatcher, Rename, IndexNote,
    IndexFails, TrackExcluded, RemoveText, ReadText, WriteText, Submit, TakeBatch, Look, WatchIndex,
    WatchForget, WatchTrack, WatchRead, WatchText, WatchSubmit, Flush, WriteNote, DeleteNote,
    MoveNote, Begin, LoseEvent, Edit
<1> SUFFICES ASSUME setting.owner = "daemon", \A c \in Calls : call[c] = None,
                    \A p \in Paths : Is(p, {"excluded"}) =>
                      /\ hand = None \/ hand.path # p
                      /\ notes[p] = None /\ draft[p] = None /\ asked[p] # "upsert"
             PROVE  /\ \A c \in Calls : call'[c] = None
                    /\ \A p \in Paths : Is(p, {"excluded"}) =>
                      /\ hand' = None \/ hand'.path # p
                      /\ notes'[p] = None /\ draft'[p] = None /\ asked'[p] # "upsert"
  BY <1>1 DEF DaemonReads, Is
<1>2. CASE Open
  BY <1>2 DEF Open, BuildIndex, BuildText, StartWatcher, Known, Opening, Is, TypeOK
<1>3. ASSUME NEW c \in Calls, Step(c) \/ Request(c) PROVE FALSE
  <2>1. Step(c) => call[c] # None
    BY StepKnows
  <2>2. Request(c) => setting.owner = "server"
    BY DEF Request, WriteNote, DeleteNote, MoveNote, Begin
  <2> QED
    BY <1>3, <2>1, <2>2
<1>4. CASE Watcher
  <2>1. call' = call
    BY <1>4, WatcherKnows
  <2>2. hand # None => hand \in Events /\ hand.path \in Paths /\ ~Is(hand.path, {"excluded"})
    BY DEF TypeOK, Events
  <2>3. ASSUME NEW p \in Paths, Look(p) PROVE hand' = None \/ ~Is(hand'.path, {"excluded"})
    BY <1>1, <2>3 DEF Look, ShouldProcess, DaemonProcesses, Is
  <2>4. CASE \E p \in Paths : Look(p)
    BY <2>1, <2>3, <2>4 DEF Look
  <2>5. CASE TakeBatch \/ Flush
    BY <2>1, <2>5 DEF TakeBatch, Flush
  <2>6. CASE WatchIndex
    <3>1. hand' = None \/ hand'.path = hand.path
      BY <2>2, <2>6 DEF WatchIndex, Hand, Events
    <3>2. \A p \in Paths : Is(p, {"excluded"}) => notes'[p] = notes[p]
      BY <2>2, <2>6 DEF WatchIndex, Hand, TypeOK
    <3> QED
      BY <2>1, <2>2, <2>6, <3>1, <3>2 DEF WatchIndex, Hand
  <2>7. CASE WatchForget \/ WatchTrack \/ WatchText
    <3>1. hand'.path = hand.path
      BY <2>2, <2>7, HandGives DEF WatchForget, WatchTrack, WatchText, Hand
    <3>2. \A p \in Paths : Is(p, {"excluded"}) => notes'[p] = notes[p] /\ draft'[p] = draft[p]
      BY <2>2, <2>7 DEF WatchForget, WatchTrack, WatchText, Hand, TypeOK
    <3> QED
      BY <2>1, <2>2, <2>7, <3>1, <3>2 DEF WatchForget, WatchTrack, WatchText, Hand
  <2>8. CASE WatchRead
    <3>1. hand'.path = hand.path
      BY <2>2, <2>8 DEF WatchRead, Hand, Events
    <3> QED
      BY <2>1, <2>2, <2>8, <3>1 DEF WatchRead, Hand
  <2>9. CASE WatchSubmit
    BY <2>1, <2>2, <2>9 DEF WatchSubmit, Hand, TypeOK
  <2> QED
    BY <1>4, <2>4, <2>5, <2>6, <2>7, <2>8, <2>9 DEF Watcher
<1>5. ASSUME NEW p \in Paths, LoseEvent(p) \/ \E x \in Files \cup {None} : Edit(p, x)
      PROVE  UNCHANGED <<call, hand, notes, draft, asked>>
  BY <1>5 DEF LoseEvent, Edit
<1> QED
  BY <1>2, <1>3, <1>4, <1>5 DEF Next

(* What searches see is the text index, but for what the watcher has not      *)
(* committed yet; a call commits that as well.                                *)
LEMMA CommittedNext ==
  ASSUME Committed, [Next]_vars PROVE Committed'
<1> USE DEF Committed
<1>1. CASE UNCHANGED <<draft, live, dirty>>
  BY <1>1
<1>2. CASE Open
  BY <1>2 DEF Open, BuildIndex, BuildText, StartWatcher
<1>3. CASE Watcher
  <2>1. CASE WatchText \/ Flush
    BY <2>1 DEF WatchText, Flush
  <2>2. CASE ~(WatchText \/ Flush)
    BY <1>1, <1>3, <2>2 DEF Watcher, TakeBatch, Look, WatchIndex, WatchForget, WatchTrack,
      WatchRead, WatchSubmit
  <2> QED
    BY <2>1, <2>2
<1>4. ASSUME NEW c \in Calls, Step(c) PROVE Committed'
  <2>1. CASE RemoveText(c) \/ WriteText(c)
    BY <2>1 DEF RemoveText, WriteText
  <2>2. CASE ~(RemoveText(c) \/ WriteText(c))
    BY <1>1, <1>4, <2>2 DEF Step, Rename, IndexNote, IndexFails, TrackExcluded, ReadText, Submit
  <2> QED
    BY <2>1, <2>2
<1>5. ASSUME NEW c \in Calls, Request(c) PROVE Committed'
  BY <1>1, <1>5 DEF Request, WriteNote, DeleteNote, MoveNote, Begin
<1>6. ASSUME NEW p \in Paths, LoseEvent(p) \/ \E x \in Files \cup {None} : Edit(p, x)
      PROVE  Committed'
  BY <1>1, <1>6 DEF LoseEvent, Edit
<1> QED
  BY <1>1, <1>2, <1>3, <1>4, <1>5, <1>6 DEF Next

(* A path whose file and entries a step leaves alone, and whose events are    *)
(* only added to, is as it was, unless the watcher takes its event in hand or *)
(* is done with it.                                                           *)
LEMMA Untouched ==
  ASSUME NEW p \in Paths, Follows(p), UNCHANGED <<setting, phase>>,
         p \in batch' <=> p \in batch,
         \/ UNCHANGED hand
         \/ ~(hand # None /\ hand.path = p) /\ ~(hand' # None /\ hand'.path = p),
         disk'[p] = disk[p], notes'[p] = notes[p], p \in tracked' <=> p \in tracked,
         draft'[p] = draft[p], asked'[p] = asked[p],
         p \in owed \cup excused => p \in owed' \cup excused', p \in excused => p \in excused',
         phase = "open" /\ Busy(p)' => p \in owed' \cup excused'
  PROVE  Follows(p)'
<1>1. Wanted(p)' = Wanted(p)
  BY DEF Wanted, Is
<1>2. NotesFit(p)' <=> NotesFit(p)
  BY <1>1 DEF NotesFit, Is
<1>3. (DraftFits(p)' <=> DraftFits(p)) /\ (AskedFits(p)' <=> AskedFits(p))
  BY <1>1 DEF DraftFits, AskedFits
<1>4. UNCHANGED hand => (HandFits(p)' <=> HandFits(p))
  BY <1>1, <1>2, <1>3 DEF HandFits, Is
<1>5. Quiet(p)' => Quiet(p)
  BY DEF Quiet
<1> QED
  BY <1>2, <1>3, <1>4, <1>5 DEF Follows, Is

(* A path with an event on its way or an excuse has nothing to follow.        *)
LEMMA Announced ==
  ASSUME NEW p \in Paths, Follows(p), UNCHANGED setting, p \in batch' <=> p \in batch,
         p \in owed' \cup excused', p \in excused => p \in excused'
  PROVE  Follows(p)'
BY DEF Follows, Quiet, Is

(* The steps of the calls.                                                    *)
LEMMA StepFollows ==
  ASSUME TypeOK, Known, NEW c \in Calls, Step(c), NEW p \in Paths, Follows(p)
  PROVE  Follows(p)'
<1> USE NoneAssumption
<1>1. /\ \A d \in Calls \ {c} : call'[d] = call[d]
      /\ call'[c] # None => call'[c].gone = call[c].gone /\ call'[c].kept = call[c].kept
      /\ call[c] # None
      /\ UNCHANGED <<setting, phase, hand, batch, dirty, bounds>>
  BY StepKnows
<1>2. phase = "open"
  BY <1>1 DEF Known, Opening
<1>3. CASE p \in {call[c].gone, call[c].kept}
  <2>1. CASE Rename(c) /\ Return(c) /\ UNCHANGED <<disk, owed, excused>>
    <3>1. UNCHANGED <<notes, tracked, draft, asked>>
      BY <2>1 DEF Rename
    <3>2. Busy(p)' => Busy(p)
      <4>1. call'[c] = None
        BY <2>1 DEF Return, TypeOK
      <4> QED
        BY <1>1, <4>1 DEF Busy
    <3> QED
      BY <1>1, <2>1, <3>1, <3>2, Untouched DEF Follows
  <2>2. CASE Rename(c) /\ owed' = owed \cup {call[c].gone, call[c].kept} /\ excused' = excused
    BY <1>1, <1>3, <2>2, Announced
  <2>3. CASE ~Rename(c)
    <3>1. call[c].step # "rename"
      BY <2>3 DEF Step, Call, IndexNote, IndexFails, TrackExcluded, RemoveText, ReadText,
        WriteText, Submit
    <3>2. Busy(p)
      BY <1>1, <1>3, <3>1 DEF Busy
    <3>3. p \in owed \cup excused /\ UNCHANGED <<owed, excused>>
      BY <1>2, <2>3, <3>2, StepQuiet DEF Follows
    <3> QED
      BY <1>1, <3>3, Announced
  <2> QED
    BY <1>2, <2>1, <2>2, <2>3 DEF Rename, Heard
<1>4. CASE p \notin {call[c].gone, call[c].kept}
  <2>1. /\ disk'[p] = disk[p] /\ notes'[p] = notes[p] /\ (p \in tracked' <=> p \in tracked)
        /\ draft'[p] = draft[p] /\ asked'[p] = asked[p]
        /\ p \in owed' <=> p \in owed
        /\ p \in excused' <=> p \in excused
    BY <1>4, StepTouches
  <2>2. Busy(p)' => Busy(p)
    BY <1>1, <1>4 DEF Busy
  <2> QED
    BY <1>1, <2>1, <2>2, Untouched DEF Follows
<1> QED
  BY <1>3, <1>4

(* A request changes the files of its paths, and all of them are heard of.    *)
LEMMA RequestFollows ==
  ASSUME TypeOK, Known, NEW c \in Calls, Request(c), NEW p \in Paths, Follows(p)
  PROVE  Follows(p)'
<1> USE NoneAssumption
<1> DEFINE Announces ==
      \E op \in Operations :
        /\ Begin(c, op) /\ UNCHANGED excused /\ owed \subseteq owed'
        /\ p \in owed' \/ (disk'[p] = disk[p] /\ (op.step = "rename" \/ p \notin {op.gone, op.kept}))
<1>1. phase = "open"
  BY DEF Request, WriteNote, DeleteNote, MoveNote, Begin
<1>2. ASSUME NEW q \in Paths, NEW x \in Files, WriteNote(c, q, x) PROVE Announces
  <2> DEFINE op == Operation(None, q, "index")
  <2>1. op \in Operations /\ op.gone = None /\ op.kept = q /\ op.step = "index"
    BY OperationTypes
  <2>2. Begin(c, op) /\ UNCHANGED excused
    BY <1>1, <1>2 DEF WriteNote, Heard
  <2>3. owed' = owed \cup {q} /\ \A r \in Paths \ {q} : disk'[r] = disk[r]
    BY <1>1, <1>2 DEF WriteNote, Heard, TypeOK
  <2> HIDE DEF op
  <2> QED
    BY <2>1, <2>2, <2>3
<1>3. ASSUME NEW q \in Paths, DeleteNote(c, q) PROVE Announces
  <2> DEFINE op == Operation(q, None, "index")
  <2>1. op \in Operations /\ op.gone = q /\ op.kept = None /\ op.step = "index"
    BY OperationTypes
  <2>2. Begin(c, op) /\ UNCHANGED excused
    BY <1>1, <1>3 DEF DeleteNote, Heard
  <2>3. owed' = owed \cup {q} /\ \A r \in Paths \ {q} : disk'[r] = disk[r]
    BY <1>1, <1>3 DEF DeleteNote, Heard, TypeOK
  <2> HIDE DEF op
  <2> QED
    BY <2>1, <2>2, <2>3
<1>4. ASSUME NEW q \in Paths, NEW r \in Paths, MoveNote(c, q, r) PROVE Announces
  <2> DEFINE op == Operation(q, r, "rename")
  <2>1. op \in Operations /\ op.gone = q /\ op.kept = r /\ op.step = "rename"
    BY OperationTypes
  <2>2. Begin(c, op) /\ UNCHANGED excused
    BY <1>1, <1>4 DEF MoveNote, Heard
  <2>3. UNCHANGED <<owed, disk>>
    BY <1>1, <1>4 DEF MoveNote, Heard, TypeOK
  <2> HIDE DEF op
  <2> QED
    BY <2>1, <2>2, <2>3
<1>5. Announces
  BY <1>2, <1>3, <1>4 DEF Request
<1>6. PICK op \in Operations :
        /\ Begin(c, op) /\ UNCHANGED excused /\ owed \subseteq owed'
        /\ p \in owed' \/ (disk'[p] = disk[p] /\ (op.step = "rename" \/ p \notin {op.gone, op.kept}))
  BY <1>5
<1>7. /\ UNCHANGED <<setting, phase, hand, batch, notes, tracked, draft, asked>>
      /\ call'[c] = op /\ \A d \in Calls \ {c} : call'[d] = call[d]
  <2>1. UNCHANGED batch
    BY DEF Request, WriteNote, DeleteNote, MoveNote, Begin
  <2> QED
    BY <1>6, <2>1 DEF Begin, TypeOK
<1>8. CASE p \in owed'
  BY <1>6, <1>7, <1>8, Announced
<1>9. CASE p \notin owed'
  <2>1. Busy(p)' => Busy(p)
    BY <1>6, <1>7, <1>9 DEF Busy
  <2> QED
    BY <1>6, <1>7, <1>9, <2>1, Untouched DEF Follows
<1> QED
  BY <1>8, <1>9

(* The steps of opening: each makes the next part of the indexes fit.         *)
LEMMA OpenFollows ==
  ASSUME TypeOK, Known, Open, NEW p \in Paths, Follows(p) PROVE Follows(p)'
<1> USE NoneAssumption, GarbledAssumption
<1>1. /\ UNCHANGED <<setting, disk, hand, owed, batch, call>>
      /\ hand = None /\ owed = {} /\ batch = {} /\ \A c \in Calls : call[c] = None
  BY DEF Open, BuildIndex, BuildText, StartWatcher, Known, Opening
<1>2. ~Busy(p)' /\ Wanted(p)' = Wanted(p)
  BY <1>1 DEF Busy, Wanted, Is
<1>3. setting.kind[p] \in {"plain", "excluded", "hidden", "own"}
  BY SettingsAssumption DEF TypeOK
<1>4. CASE BuildIndex
  <2>1. phase' = "text" /\ (Quiet(p)' => NotesFit(p)')
    BY <1>1, <1>2, <1>3, <1>4 DEF BuildIndex, Quiet, NotesFit, Wanted, Is, Parsed
  <2> QED
    BY <1>1, <1>2, <2>1 DEF Follows
<1>5. CASE BuildText
  <2>1. phase = "text" /\ phase' = "watch" /\ UNCHANGED <<notes, tracked, excused>>
    BY <1>5 DEF BuildText
  <2>2. Quiet(p)' => NotesFit(p) /\ NotesFit(p)'
    BY <1>1, <1>2, <2>1 DEF Follows, Quiet, NotesFit, Is
  <2>3. Quiet(p)' => DraftFits(p)'
    BY <1>2, <1>5, <2>2 DEF BuildText, DraftFits, NotesFit, Wanted, Is
  <2> QED
    BY <1>1, <1>2, <2>1, <2>2, <2>3 DEF Follows
<1>6. CASE StartWatcher
  <2>1. phase = "watch" /\ phase' = "open" /\ UNCHANGED <<notes, tracked, draft, excused>>
    BY <1>6 DEF StartWatcher
  <2>2. Quiet(p)' => NotesFit(p) /\ NotesFit(p)' /\ DraftFits(p)'
    BY <1>1, <1>2, <2>1 DEF Follows, Quiet, NotesFit, DraftFits, Is
  <2>3. Quiet(p)' => AskedFits(p)'
    BY <1>2, <1>6, <2>2 DEF StartWatcher, AskedFits, NotesFit
  <2> QED
    BY <1>1, <1>2, <2>1, <2>2, <2>3 DEF Follows
<1> QED
  BY <1>4, <1>5, <1>6 DEF Open

(* The watcher takes a batch: a path that a call is busy with is excused, the *)
(* others are in the batch now.                                               *)
LEMMA TakeFollows ==
  ASSUME TypeOK, Known, TakeBatch, NEW p \in Paths, Follows(p) PROVE Follows(p)'
<1>1. PICK S \in (SUBSET owed) \ {{}} :
        /\ batch' = S /\ owed' = owed \ S
        /\ excused' = (excused \ S) \cup {q \in S : Busy(q) \/ Is(q, {"own"})}
  BY DEF TakeBatch
<1>2. /\ batch = {} /\ hand = None
      /\ UNCHANGED <<setting, phase, disk, notes, tracked, draft, asked, hand, call>>
  BY DEF TakeBatch
<1>3. Busy(p)' <=> Busy(p)
  BY <1>2 DEF Busy
<1>4. CASE p \in S
  BY <1>1, <1>2, <1>3, <1>4 DEF Follows, Quiet, Is
<1>5. CASE p \notin S
  BY <1>1, <1>2, <1>3, <1>5, Untouched DEF Follows
<1> QED
  BY <1>4, <1>5

(* It looks at a path of its batch: the step it takes next fits the file. A   *)
(* path it passes over is excused, or of no interest to the daemon.           *)
LEMMA LookFollows ==
  ASSUME TypeOK, Known, DaemonReads, NEW q \in Paths, Look(q), NEW p \in Paths, Follows(p)
  PROVE  Follows(p)'
<1> USE NoneAssumption, RecordsAssumption
<1> DEFINE next == [path |-> q, step |-> LookStep(q), meta |-> None, body |-> None]
<1>1. /\ q \in batch /\ hand = None /\ batch' = batch \ {q} /\ phase = "open"
      /\ UNCHANGED <<setting, phase, disk, notes, tracked, draft, asked, owed, call, excused>>
      /\ hand' = IF ShouldProcess(q) THEN next ELSE None
  BY DEF Look, Known, Opening
<1>2. next \in Events /\ next.path = q /\ next.step = LookStep(q)
  BY DEF Events, LookStep
<1>3. Busy(p)' <=> Busy(p)
  BY <1>1 DEF Busy
<1>4. Wanted(p)' = Wanted(p)
  BY <1>1 DEF Wanted, Is
<1> HIDE DEF next
<1>5. CASE p # q
  BY <1>1, <1>2, <1>3, <1>5, Untouched DEF Follows
<1>6. CASE p = q /\ ShouldProcess(q)
  <2>1. hand' = next /\ hand' # None
    BY <1>1, <1>2, <1>6
  <2>2. /\ hand'.step = "forget" => disk[p] = None
        /\ hand'.step = "track" => Is(p, {"excluded"}) /\ disk[p] # None
        /\ hand'.step = "index" => ~Is(p, {"excluded"}) /\ disk[p] # None
        /\ hand'.step \in {"forget", "track", "index"}
    <3>1. hand'.step = LookStep(p)
      BY <1>2, <1>6, <2>1
    <3> QED
      BY <3>1 DEF LookStep
  <2>3. HandFits(p)'
    BY <1>1, <1>4, <2>2 DEF HandFits, Wanted, Is
  <2> QED
    BY <1>1, <1>2, <1>3, <1>6, <2>1, <2>3 DEF Follows
<1>7. CASE p = q /\ ~ShouldProcess(q)
  <2>1. CASE Is(q, {"own"})
    BY <1>1, <1>3, <1>7, <2>1 DEF Follows, Quiet
  <2>2. CASE setting.owner # "server" /\ Is(q, {"excluded"})
    <3>1. setting.owner = "daemon"
      BY <2>2, SettingsAssumption DEF TypeOK
    <3>2. notes[q] = None /\ draft[q] = None /\ asked[q] # "upsert" /\ Wanted(q) = None
      BY <2>2, <3>1 DEF DaemonReads, Wanted
    <3>3. NotesFit(p)' /\ DraftFits(p)' /\ AskedFits(p)'
      BY <1>1, <1>4, <1>7, <2>2, <3>2 DEF NotesFit, DraftFits, AskedFits
    <3> QED
      BY <1>1, <1>3, <1>7, <3>3 DEF Follows, Is
  <2> QED
    BY <1>7, <2>1, <2>2 DEF ShouldProcess, ServerProcesses, DaemonProcesses, Is
<1> QED
  BY <1>5, <1>6, <1>7

(* Each step of an event makes one more entry of the path fit.                *)
LEMMA EventFollows ==
  ASSUME TypeOK, Known, NEW p \in Paths, Follows(p),
         WatchIndex \/ WatchForget \/ WatchTrack \/ WatchRead \/ WatchText \/ WatchSubmit
  PROVE  Follows(p)'
<1> USE NoneAssumption, GarbledAssumption
<1>1. /\ hand # None /\ hand \in Events /\ hand.path \in Paths /\ HandKnows
      /\ phase = "open"
      /\ UNCHANGED <<setting, phase, disk, owed, batch, call, excused>>
  BY DEF WatchIndex, WatchForget, WatchTrack, WatchRead, WatchText, WatchSubmit, Hand, TypeOK,
    Known, Opening, Events
<1>2. (Busy(p)' <=> Busy(p)) /\ Wanted(p)' = Wanted(p) /\ (Quiet(p)' <=> Quiet(p))
  BY <1>1 DEF Busy, Wanted, Is, Quiet
<1>3. hand' = None \/ hand'.path = hand.path
  BY <1>1, HandGives DEF WatchIndex, WatchForget, WatchTrack, WatchRead, WatchText, WatchSubmit,
    Events
<1>4. CASE p # hand.path
  <2>1. /\ notes'[p] = notes[p] /\ (p \in tracked' <=> p \in tracked)
        /\ draft'[p] = draft[p] /\ asked'[p] = asked[p]
    BY <1>1, <1>4 DEF WatchIndex, WatchForget, WatchTrack, WatchRead, WatchText, WatchSubmit, TypeOK
  <2> QED
    BY <1>1, <1>2, <1>3, <1>4, <2>1, Untouched DEF Follows
<1>5. CASE p = hand.path /\ ~Quiet(p)
  BY <1>1, <1>2, <1>5 DEF Follows, Is
<1>6. CASE p = hand.path /\ Quiet(p)
  <2>1. HandFits(p)
    BY <1>1, <1>6 DEF Follows
  <2>2. SUFFICES IF hand' # None /\ hand'.path = p THEN HandFits(p)'
                 ELSE NotesFit(p)' /\ DraftFits(p)' /\ AskedFits(p)'
    BY <1>1, <1>2, <1>6 DEF Follows, Is, Quiet
  <2>3. CASE WatchIndex
    <3> DEFINE next == [hand EXCEPT !.step = "read", !.meta = disk[hand.path]]
    <3>1. Wanted(p) # None /\ Wanted(p) = disk[p] /\ ~Is(p, {"excluded"})
      BY <2>1, <2>3 DEF WatchIndex, Hand, HandFits, Wanted
    <3>2. NotesFit(p)'
      BY <1>1, <1>2, <1>6, <2>3, <3>1 DEF WatchIndex, NotesFit, Parsed, Is, TypeOK
    <3>3. CASE Parsed(p) = None
      <4>1. Wanted(p) \notin Contents /\ hand' = None
        BY <1>6, <2>3, <3>1, <3>3 DEF WatchIndex, Parsed
      <4> QED
        BY <1>2, <3>1, <3>2, <4>1 DEF DraftFits, AskedFits
    <3>4. CASE Parsed(p) # None
      <4>1. hand' = next /\ next.step = "read" /\ next.meta = Wanted(p) /\ next.path = p
        BY <1>1, <1>6, <2>3, <3>1, <3>4 DEF WatchIndex, Events
      <4> HIDE DEF next
      <4>2. HandFits(p)'
        BY <1>2, <3>2, <4>1 DEF HandFits
      <4>3. hand' # None
        <5>1. next \in Events
          BY <1>1, <1>6, <3>4 DEF next, Events, Parsed, Files
        <5> QED
          BY <4>1, <5>1, RecordsAssumption
      <4> QED
        BY <4>1, <4>2, <4>3
    <3> QED
      BY <3>3, <3>4
  <2>4. CASE WatchForget \/ WatchTrack
    <3>1. hand' # None /\ hand'.step = "undoc" /\ hand'.path = p /\ hand'.meta = None
      BY <1>1, <1>6, <2>4, HandGives DEF WatchForget, WatchTrack, Hand, HandKnows
    <3>2. Wanted(p) = None /\ NotesFit(p)'
      BY <1>1, <1>2, <1>6, <2>1, <2>4 DEF WatchForget, WatchTrack, Hand, HandFits, NotesFit,
        Wanted, Is, TypeOK
    <3>3. HandFits(p)'
      BY <1>2, <3>1, <3>2 DEF HandFits
    <3> QED
      BY <3>1, <3>3
  <2>5. CASE WatchRead
    <3> DEFINE next == [hand EXCEPT !.step = "doc", !.body = disk[hand.path]]
    <3>1. hand.meta \in Contents /\ hand.meta = Wanted(p) /\ Wanted(p) = disk[p] /\ NotesFit(p)
      BY <1>1, <2>1, <2>5 DEF WatchRead, Hand, HandFits, HandKnows, Wanted
    <3>2. hand' = next
      BY <1>6, <2>5, <3>1 DEF WatchRead
    <3>3. /\ next.step = "doc" /\ next.path = p /\ next.meta = Wanted(p) /\ next.body = Wanted(p)
          /\ next \in Events
      BY <1>1, <1>6, <3>1 DEF Events, Files
    <3> HIDE DEF next
    <3>4. NotesFit(p)'
      BY <1>1, <1>2, <2>5, <3>1 DEF WatchRead, NotesFit, Is
    <3>5. HandFits(p)'
      BY <1>2, <3>2, <3>3, <3>4 DEF HandFits
    <3> QED
      BY <3>2, <3>3, <3>5, RecordsAssumption
  <2>6. CASE WatchText
    <3>1. NotesFit(p) /\ hand.meta = Wanted(p) /\ UNCHANGED <<notes, tracked>>
      BY <2>1, <2>6 DEF WatchText, Hand, HandFits
    <3>2. hand' # None /\ hand'.step = "submit" /\ hand'.path = p /\ hand'.meta = Wanted(p)
      BY <1>1, <1>6, <2>6, <3>1, HandGives DEF WatchText
    <3>3. NotesFit(p)'
      BY <1>1, <1>2, <3>1 DEF NotesFit, Is
    <3>4. DraftFits(p)'
      BY <1>1, <1>2, <1>6, <2>1, <2>6, <3>1 DEF WatchText, Hand, HandFits, HandKnows, DraftFits,
        TypeOK
    <3>5. HandFits(p)'
      BY <1>2, <3>2, <3>3, <3>4 DEF HandFits
    <3> QED
      BY <3>2, <3>5
  <2>7. CASE WatchSubmit
    <3>1. NotesFit(p) /\ DraftFits(p) /\ hand.meta = Wanted(p)
          /\ UNCHANGED <<notes, tracked, draft>> /\ hand' = None
      BY <2>1, <2>7 DEF WatchSubmit, Hand, HandFits
    <3>2. NotesFit(p)' /\ DraftFits(p)'
      BY <1>1, <1>2, <3>1 DEF NotesFit, DraftFits, Is
    <3>3. AskedFits(p)'
      BY <1>1, <1>2, <1>6, <2>7, <3>1 DEF WatchSubmit, AskedFits, TypeOK
    <3> QED
      BY <3>1, <3>2, <3>3
  <2> QED
    BY <2>3, <2>4, <2>5, <2>6, <2>7
<1> QED
  BY <1>4, <1>5, <1>6

(* Other programs: their edits are heard of, or the path is excused; before   *)
(* the index is built they need not be.                                       *)
LEMMA EditFollows ==
  ASSUME TypeOK, Known, NEW p \in Paths, Follows(p), NEW q \in Paths,
         LoseEvent(q) \/ \E x \in Files \cup {None} : Edit(q, x)
  PROVE  Follows(p)'
<1>1. /\ UNCHANGED <<setting, phase, hand, batch, notes, tracked, draft, asked, call>>
      /\ Busy(p)' <=> Busy(p)
  BY DEF LoseEvent, Edit, Busy
<1>2. CASE LoseEvent(q)
  <2>1. CASE p = q
    BY <1>1, <1>2, <2>1, Announced DEF LoseEvent
  <2>2. CASE p # q
    BY <1>1, <1>2, <2>2, Untouched DEF LoseEvent, Follows
  <2> QED
    BY <2>1, <2>2
<1>3. ASSUME NEW x \in Files \cup {None}, Edit(q, x) PROVE Follows(p)'
  <2>1. disk' = [disk EXCEPT ![q] = x] /\ Heard({q})
    BY <1>3 DEF Edit
  <2>2. CASE p # q
    <3>1. disk'[p] = disk[p] /\ owed \subseteq owed' /\ excused \subseteq excused'
      BY <2>1, <2>2 DEF Heard, TypeOK
    <3> QED
      BY <1>1, <2>2, <3>1, Untouched DEF Follows
  <2>3. CASE p = q /\ phase = "index"
    BY <1>1, <2>3 DEF Follows, Known, Opening, Quiet
  <2>4. CASE p = q /\ phase # "index"
    <3>1. p \in owed' \cup excused' /\ excused \subseteq excused'
      BY <2>1, <2>4 DEF Heard
    <3> QED
      BY <1>1, <3>1, Announced
  <2> QED
    BY <2>2, <2>3, <2>4
<1> QED
  BY <1>2, <1>3

(* Every step keeps the whole invariant, path by path.                        *)
LEMMA SyncNext ==
  ASSUME SyncInv, [Next]_vars PROVE SyncInv'
<1>1. TypeOK' /\ Known' /\ DaemonReads' /\ Committed'
  BY TypeNext, KnownNext, DaemonNext, CommittedNext DEF SyncInv
<1>2. ASSUME NEW p \in Paths PROVE Follows(p)'
  <2>1. TypeOK /\ Known /\ DaemonReads /\ Follows(p)
    BY DEF SyncInv
  <2>2. CASE Open
    BY <2>1, <2>2, OpenFollows
  <2>3. CASE Watcher
    <3>1. CASE Flush
      <4>1. UNCHANGED <<setting, phase, disk, notes, tracked, draft, asked, owed, batch, hand,
                        call, excused>>
        BY <3>1 DEF Flush
      <4>2. Busy(p)' <=> Busy(p)
        BY <4>1 DEF Busy
      <4> QED
        BY <2>1, <4>1, <4>2, Untouched DEF Follows
    <3> QED
      BY <2>1, <2>3, <3>1, TakeFollows, LookFollows, EventFollows DEF Watcher
  <2>4. ASSUME NEW c \in Calls, Step(c) \/ Request(c) PROVE Follows(p)'
    BY <2>1, <2>4, StepFollows, RequestFollows
  <2>5. ASSUME NEW q \in Paths, LoseEvent(q) \/ \E x \in Files \cup {None} : Edit(q, x)
        PROVE  Follows(p)'
    BY <2>1, <2>5, EditFollows
  <2>6. CASE UNCHANGED vars
    <3>1. Busy(p)' <=> Busy(p)
      BY <2>6 DEF Busy
    <3> QED
      BY <2>1, <2>6, <3>1, Untouched DEF Follows
  <2> QED
    BY <2>2, <2>3, <2>4, <2>5, <2>6 DEF Next
<1> QED
  BY <1>1, <1>2 DEF SyncInv

(* Before a vault is opened nothing is indexed and nobody is busy.            *)
LEMMA SyncInit == Init => SyncInv
<1> SUFFICES ASSUME Init PROVE SyncInv
  OBVIOUS
<1>1. TypeOK
  <2>1. disk \in [Paths -> Files \cup {None}]
    <3>1. Contents \cup {Garbled, None} = Files \cup {None}
      BY DEF Files
    <3> QED
      BY <3>1, VaultsAssumption DEF Init
  <2>2. changes \in 0..MaxChanges /\ lost \in 0..MaxLost
    BY BoundsAssumption DEF Init
  <2> QED
    BY <2>1, <2>2 DEF Init, TypeOK
<1>2. Known
  BY DEF Init, Known, Opening
<1>3. DaemonReads /\ Committed
  BY DEF Init, DaemonReads, Committed
<1>4. \A p \in Paths : Follows(p)
  BY DEF Init, Follows
<1> QED
  BY <1>1, <1>2, <1>3, <1>4 DEF SyncInv

(* The invariant of the theorems: types, what calls and watcher know of the   *)
(* files, the daemon's restraint, and a watcher that follows.                 *)
THEOREM SyncCorrect == Spec => []SyncInv
<1>1. Init => SyncInv
  BY SyncInit
<1>2. SyncInv /\ [Next]_vars => SyncInv'
  BY SyncNext
<1> QED
  BY <1>1, <1>2, PTL DEF Spec

(* The indexes of notes and of text, the events and the calls stay what they  *)
(* are declared to be: nothing that does not parse enters the index of notes  *)
(* (Vault::open, reindex_file, process_event).                                *)
THEOREM TypesKept == Spec => []TypeOK
<1>1. SyncInv => TypeOK
  BY DEF SyncInv
<1> QED
  BY <1>1, SyncCorrect, PTL

(* The calls of Vault and the watcher keep both indexes and the last intent   *)
(* in step with the files: whatever overlapped, a path that nobody is busy    *)
(* with any more is found as it is on disk, by the server and by the daemon.  *)
THEOREM SettledInSync == Spec => []SettledIsInSync
<1>1. ASSUME SyncInv, NEW p \in Paths, Settled(p), ~dirty PROVE InSync(p)
  <2>1. Quiet(p) /\ phase = "open" /\ ~(hand # None /\ hand.path = p) /\ live = draft
    BY <1>1 DEF Settled, Quiet, SyncInv, Committed
  <2>2. NotesFit(p) /\ DraftFits(p) /\ AskedFits(p)
    BY <1>1, <2>1 DEF SyncInv, Follows
  <2> QED
    BY <2>1, <2>2 DEF InSync, NotesFit, DraftFits, AskedFits, Wanted
<1>2. SyncInv => SettledIsInSync
  BY <1>1 DEF SettledIsInSync
<1> QED
  BY <1>2, SyncCorrect, PTL

==============================================================================
