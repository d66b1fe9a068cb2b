-------------------------- MODULE CharacterSession --------------------------
(* The page's character API over the engine worker and the IndexedDB store:  *)
(* loading, editing, autosave, manual save, flush, undo, discard, removal    *)
(* (apps/client/src/transport/engineTransport.ts), and the reload of the     *)
(* open character after a content update (App.jsx, libraryLifecycle.js).     *)
(*                                                                           *)
(* A call of the API is an operation: it runs in a slot of Ops, one task of  *)
(* the page's event loop at a time, from one await to the next. Two services *)
(* answer it: the worker, one request at a time in the order of its waiting  *)
(* line, answers handled in the order they were posted; and the store, whose *)
(* transactions on one object store run in the order they were created.      *)
(*                                                                           *)
(* A character document is a number: Blank is what createCharacter makes,    *)
(* every accepted mutation makes a fresh one. Portraits, summaries and       *)
(* progress states are left out.                                             *)
EXTENDS EngineQueue, FiniteSets

CONSTANTS Ids,         \* characters
          Ops,         \* slots: how many operations may be in flight
          UserKinds,   \* the operations the user performs in this instance
          AutosaveIs,  \* the values of the autosave setting when the page opens
          Bare,        \* whether a scheduled save may carry no detail
          Refused,     \* the operations whose write IndexedDB may refuse (quota)
          Overlapping, \* the operations a content update may overlap
          UndoLimit,   \* UNDO_LIMIT
          MaxStarts,   \* bound: operations the user starts
          None         \* no operation, no character, no request

\* The engine methods the API calls; every mutation is one.
Methods ==
  {"exportCharacterXml", "getCharacter", "createCharacter", "importCharacterXml",
   "deleteCharacter", "mutation", "ingestUploaded"}

ASSUME SessionAssumption ==
  /\ UserKinds \subseteq {"open", "mutate", "durable", "save", "flush",
                          "remove", "undo", "discard", "toggle", "reload"}
  /\ AutosaveIs \subseteq BOOLEAN /\ Bare \subseteq BOOLEAN
  /\ Refused \subseteq {"timer", "flush", "save", "durable", "reload"}
  /\ Overlapping \subseteq {"open", "edit"}
  /\ UndoLimit \in Nat \ {0} /\ MaxStarts \in Nat
  /\ None \notin Ids \cup Ops /\ "load" \notin Ids
  /\ None \notin [op : Ops, method : Methods, id : Ids \cup {None}, doc : Int]

\* No operation is of no kind.
ASSUME NoneIsNoKind == None \notin {"open", "mutate", "durable", "save", "flush", "timer", "undo"}

VARIABLES
  engine,     \* the worker's document of each character, or NoDoc
  version,    \* the newest document made
  worker,     \* [active, line]: the request being served, those waiting
  inbox,      \* responses posted to the page and not yet handled
  store,      \* the stored document of each character, or NoDoc
  disk,       \* transactions on the CHARACTERS store, in order of creation
  loadedId,   \* the character the page takes to be in the engine
  loading,    \* characterLoadPromise: the operation whose load it is
  dirty,      \* dirtyGeneration: 0 for a character that is not in dirtyIds
  sequence,   \* mutationSequence
  timers,     \* debounceTimers: "off", or what the timer's save will carry
  inflight,   \* persistInFlight: the operation whose save it is
  undo,       \* undoStacks
  autosave,   \* autosaveEnabled
  shown,      \* openCharacterId: the character the workspace shows
  op,         \* the operations in flight
  started,    \* how many operations the user has started
  latest      \* history: the document the last edit of each character made

workerVars == <<engine, version, inbox, latest>>
saveVars == <<dirty, sequence, timers>>
vars == <<engine, version, worker, inbox, store, disk, loadedId, loading, dirty,
          sequence, timers, inflight, undo, autosave, shown, op, started, latest>>

NoDoc == -1
Blank == 0

Free == [kind |-> None, id |-> None, pc |-> "free", gen |-> 0, xml |-> NoDoc,
         before |-> NoDoc, was |-> NoDoc, bare |-> FALSE, ids |-> {}, on |-> {}, next |-> None]

Init ==
  /\ engine = [id \in Ids |-> NoDoc] /\ version = 1
  /\ worker = [active |-> None, line |-> <<>>] /\ inbox = <<>>
  /\ store = [id \in Ids |-> 1] /\ disk = <<>>
  /\ loadedId = None /\ loading = None
  /\ dirty = [id \in Ids |-> 0] /\ sequence = 0
  /\ timers = [id \in Ids |-> "off"] /\ inflight = [id \in Ids |-> None]
  /\ undo = [id \in Ids |-> <<>>]
  /\ autosave \in AutosaveIs /\ shown = None
  /\ op = [o \in Ops |-> Free] /\ started = 0
  /\ latest = [id \in Ids |-> NoDoc]

----------------------------------------------------------------------------
\* An operation in "wait" goes on, in the same task of the event loop, once
\* nothing it awaits is left; another task begins only when none is to go on.
Resumable(o) == op[o].pc = "wait" /\ op[o].on = {}
TaskDone == \A o \in Ops : ~Resumable(o)

----------------------------------------------------------------------------
\* The worker and the store.

Reads == {"exportCharacterXml", "getCharacter"}
Urgency(r) == priority(CASE r.method \in Reads -> "read-only"
                         [] r.method = "ingestUploaded" -> "content-write"
                         [] OTHER -> "character-write")

Request(o, method, doc) ==
  [op |-> o, method |-> method, id |-> op[o].id, doc |-> doc]

\* The worker once request r has been posted to it.
Sent(w, r) ==
  IF w.active = None THEN [w EXCEPT !.active = r]
  ELSE [w EXCEPT !.line = Enqueue(@, r, [k \in DOMAIN @ |-> Urgency(@[k])], Urgency(r))]

Post(r) == worker' = Sent(worker, r)

\* A handler leaves document d of r's character and answers. (A stored document
\* parses: it was exported by the same engine.)
Becomes(r, d, ok) ==
  /\ engine' = [engine EXCEPT ![r.id] = d]
  /\ inbox' = Append(inbox, [op |-> r.op, method |-> r.method, ok |-> ok,
                             doc |-> d, was |-> engine[r.id]])

ServeRead(r) ==
  /\ r.method \in Reads
  /\ Becomes(r, engine[r.id], engine[r.id] # NoDoc)
  /\ UNCHANGED <<version, latest>>

ServeCreate(r) ==
  /\ r.method = "createCharacter"
  /\ Becomes(r, Blank, TRUE)
  /\ UNCHANGED <<version, latest>>

ServeImport(r) ==
  /\ r.method = "importCharacterXml"
  /\ Becomes(r, r.doc, TRUE)
  /\ latest' = IF op[r.op].kind = "undo" THEN [latest EXCEPT ![r.id] = r.doc] ELSE latest
  /\ UNCHANGED version

ServeDelete(r) ==
  /\ r.method = "deleteCharacter"
  /\ Becomes(r, NoDoc, TRUE)
  /\ latest' = [latest EXCEPT ![r.id] = NoDoc]
  /\ UNCHANGED version

\* A mutation needs its character and may be refused (an invalid argument).
ServeMutation(r) ==
  /\ r.method = "mutation"
  /\ \/ /\ engine[r.id] # NoDoc
        /\ Becomes(r, version + 1, TRUE)
        /\ version' = version + 1
        /\ latest' = [latest EXCEPT ![r.id] = version + 1]
     \/ Becomes(r, engine[r.id], FALSE) /\ UNCHANGED <<version, latest>>

\* The rules library is rebuilt, or the files are refused; the engine keeps its
\* characters.
ServeContent(r) ==
  /\ r.method = "ingestUploaded"
  /\ \E ok \in BOOLEAN : inbox' = Append(inbox, [op |-> r.op, method |-> r.method, ok |-> ok,
                                                doc |-> NoDoc, was |-> NoDoc])
  /\ UNCHANGED <<engine, version, latest>>

Serve(r) ==
  \/ ServeRead(r) \/ ServeCreate(r) \/ ServeImport(r) \/ ServeDelete(r)
  \/ ServeMutation(r) \/ ServeContent(r)

Work ==
  /\ TaskDone /\ worker.active # None
  /\ Serve(worker.active)
  /\ worker' = IF worker.line = <<>> THEN [active |-> None, line |-> <<>>]
               ELSE [active |-> Head(worker.line), line |-> Tail(worker.line)]
  /\ UNCHANGED <<store, disk, loadedId, loading, saveVars, inflight, undo, autosave, shown, op, started>>

\* The page handles the oldest response: it belongs to operation o.
Answer(o, method, pc) ==
  /\ TaskDone /\ inbox # <<>> /\ Head(inbox).op = o /\ Head(inbox).method = method
  /\ op[o].pc = pc
  /\ inbox' = Tail(inbox)
  /\ UNCHANGED <<engine, version, latest, store, autosave, shown, started>>
Answered == Head(inbox)

\* The oldest transaction, of operation o, completes.
Completes(o, pc) ==
  /\ TaskDone /\ disk # <<>> /\ Head(disk) = o /\ op[o].pc = pc
  /\ disk' = Tail(disk)
  /\ UNCHANGED <<workerVars, autosave, started>>

----------------------------------------------------------------------------
\* Promises between operations. A token is an operation and the character its
\* save is of, or "load".

\* Fault: whoever waits is never told.
ResolvedForNobody(ops, token) == ops

Resolved(ops, token) == [p \in Ops |-> [ops[p] EXCEPT !.on = @ \ {token}]]
Rejected(ops, token) == [p \in Ops |-> IF token \in ops[p].on THEN Free ELSE ops[p]]

----------------------------------------------------------------------------
\* markDirty and schedulePersist, markCleanIfCurrent, forgetDirty.

Schedule(id, bare) ==
  /\ sequence' = sequence + 1
  /\ dirty' = [dirty EXCEPT ![id] = sequence + 1]
  /\ timers' = IF autosave
               THEN [timers EXCEPT ![id] = IF bare THEN "bare" ELSE "detail"]
               ELSE timers

\* Fault: the write clears the mark whatever was edited meanwhile.
MarkCleanAlways(id, generation) == dirty' = [dirty EXCEPT ![id] = 0]

MarkCleanIfCurrent(id, generation) ==
  dirty' = IF dirty[id] = generation THEN [dirty EXCEPT ![id] = 0] ELSE dirty

\* Fault: the stack is not bounded.
PushUndoUnbounded(id, entry) == undo' = [undo EXCEPT ![id] = Append(@, entry)]

PushUndo(id, entry) ==
  LET stack == Append(undo[id], entry)
  IN  undo' = [undo EXCEPT ![id] = IF Len(stack) > UndoLimit THEN Tail(stack) ELSE stack]

----------------------------------------------------------------------------
\* persist: the generation is read first, then the document is exported, then
\* (unless a detail is at hand) the summary, then the record is written.

\* Operation o, of state p, begins persist for p.id.
Persisting(p, bare) ==
  [p EXCEPT !.pc = "export", !.gen = dirty[p.id], !.bare = bare]

\* persist has ended. runPersist swallows a failure, so a flush (a content update
\* begins with one) goes on with its next character; persistOrThrow and the
\* durable mutations throw it.
PersistEnds(o, ok) ==
  LET id == op[o].id
      ended == [op EXCEPT ![o] = IF @.kind \in {"flush", "reload"}
                                  THEN [@ EXCEPT !.pc = "wait"] ELSE Free]
  IN  /\ op' = IF ok \/ op[o].kind # "save" THEN Resolved(ended, <<o, id>>)
                                            ELSE Rejected(ended, <<o, id>>)
      /\ inflight' = [inflight EXCEPT ![id] = IF @ = o THEN None ELSE @]

Exported(o) ==
  /\ Answer(o, "exportCharacterXml", "export")
  /\ IF ~Answered.ok
     THEN PersistEnds(o, FALSE) /\ UNCHANGED <<worker, disk>>
     ELSE IF op[o].bare
     THEN /\ Post(Request(o, "getCharacter", NoDoc))
          /\ op' = [op EXCEPT ![o].pc = "summary", ![o].xml = Answered.doc]
          /\ UNCHANGED <<disk, inflight>>
     ELSE /\ disk' = Append(disk, o)
          /\ op' = [op EXCEPT ![o].pc = "put", ![o].xml = Answered.doc]
          /\ UNCHANGED <<worker, inflight>>
  /\ UNCHANGED <<loadedId, loading, saveVars, undo>>

Summarised(o) ==
  /\ Answer(o, "getCharacter", "summary")
  /\ IF ~Answered.ok
     THEN PersistEnds(o, FALSE) /\ UNCHANGED disk
     ELSE disk' = Append(disk, o) /\ op' = [op EXCEPT ![o].pc = "put"] /\ UNCHANGED inflight
  /\ UNCHANGED <<worker, loadedId, loading, saveVars, undo>>

PutDone(o) ==
  /\ Completes(o, "put")
  /\ store' = [store EXCEPT ![op[o].id] = op[o].xml]
  /\ MarkCleanIfCurrent(op[o].id, op[o].gen)
  /\ PersistEnds(o, TRUE)
  /\ UNCHANGED <<worker, loadedId, loading, sequence, timers, undo, shown>>

PutFails(o) ==
  /\ op[o].kind \in Refused
  /\ Completes(o, "put")
  /\ PersistEnds(o, FALSE)
  /\ UNCHANGED <<worker, store, loadedId, loading, saveVars, undo, shown>>

\* The debounce timer of id runs out: runPersist with the detail it captured.
TimerFires(o, id) ==
  /\ TaskDone /\ timers[id] # "off" /\ op[o] = Free
  /\ timers' = [timers EXCEPT ![id] = "off"]
  /\ op' = [op EXCEPT ![o] =
              Persisting([Free EXCEPT !.kind = "timer", !.id = id], timers[id] = "bare")]
  /\ Post([op |-> o, method |-> "exportCharacterXml", id |-> id, doc |-> NoDoc])
  /\ inflight' = [inflight EXCEPT ![id] = o]
  /\ UNCHANGED <<workerVars, store, disk, loadedId, loading, dirty, sequence, undo, autosave, shown, started>>

----------------------------------------------------------------------------
\* ensureLoaded, and what each caller does once the character is loaded.

\* The operations that load a character only to show it: the user's, and the one
\* a content update ends with.
Showing == {"open", "refresh"}

\* open: project the detail. mutateDetail: export ahead of the mutation, then
\* the mutation. mutateDetailAndPersist: the mutation.
Proceed(o) ==
  /\ worker' = CASE op[o].kind \in Showing -> Sent(worker, Request(o, "getCharacter", NoDoc))
                 [] op[o].kind = "mutate" ->
                      Sent(Sent(worker, Request(o, "exportCharacterXml", NoDoc)),
                           Request(o, "mutation", NoDoc))
                 [] OTHER -> Sent(worker, Request(o, "mutation", NoDoc))
  /\ op' = [op EXCEPT ![o].pc = IF op[o].kind \in Showing THEN "detail" ELSE "mutate"]

\* Fault: an operation loads its character although it is loaded.
ResumeLoadAgain(o) ==
  /\ Resumable(o) /\ op[o].kind \in Showing \cup {"mutate", "durable"}
  /\ IF loadedId = op[o].id /\ op[o].kind \notin Showing
     THEN Proceed(o) /\ UNCHANGED <<disk, loading>>
     ELSE /\ loading' = o
          /\ disk' = Append(disk, o)
          /\ op' = [op EXCEPT ![o].pc = "get"]
          /\ UNCHANGED worker
  /\ UNCHANGED <<workerVars, store, loadedId, saveVars, inflight, undo, autosave, shown, started>>

\* An operation that needs its character goes on: it is loaded, or this
\* operation loads it (whatever other load has begun meanwhile).
ResumeLoad(o) ==
  /\ Resumable(o) /\ op[o].kind \in Showing \cup {"mutate", "durable"}
  /\ IF loadedId = op[o].id
     THEN Proceed(o) /\ UNCHANGED <<disk, loading>>
     ELSE /\ loading' = o
          /\ disk' = Append(disk, o)
          /\ op' = [op EXCEPT ![o].pc = "get"]
          /\ UNCHANGED worker
  /\ UNCHANGED <<workerVars, store, loadedId, saveVars, inflight, undo, autosave, shown, started>>

LoadEnds(o) == loading' = IF loading = o THEN None ELSE loading

\* Fault: the character is taken to be loaded as soon as its record is read.
GotAndLoaded(o) ==
  /\ Completes(o, "get")
  /\ op' = [op EXCEPT ![o].pc = "create", ![o].xml = store[op[o].id]]
  /\ Post(Request(o, "createCharacter", NoDoc))
  /\ loadedId' = op[o].id
  /\ UNCHANGED <<store, loading, saveVars, inflight, undo, shown>>

\* The stored record: none is an error, else the engine copy starts blank.
Got(o) ==
  /\ Completes(o, "get")
  /\ IF store[op[o].id] = NoDoc
     THEN /\ op' = Rejected([op EXCEPT ![o] = Free], <<o, "load">>)
          /\ LoadEnds(o) /\ UNCHANGED worker
     ELSE /\ op' = [op EXCEPT ![o].pc = "create", ![o].xml = store[op[o].id]]
          /\ Post(Request(o, "createCharacter", NoDoc)) /\ UNCHANGED loading
  /\ UNCHANGED <<store, loadedId, saveVars, inflight, undo, shown>>

Created(o) ==
  /\ Answer(o, "createCharacter", "create")
  /\ Post(Request(o, "importCharacterXml", op[o].xml))
  /\ op' = [op EXCEPT ![o].pc = "import"]
  /\ UNCHANGED <<disk, loadedId, loading, saveVars, inflight, undo>>

Imported(o) ==
  /\ Answer(o, "importCharacterXml", "import")
  /\ undo' = [undo EXCEPT ![op[o].id] = <<>>]
  /\ loadedId' = op[o].id
  /\ Post(Request(o, "getCharacter", NoDoc))
  /\ op' = [op EXCEPT ![o].pc = "loaded"]
  /\ UNCHANGED <<disk, loading, saveVars, inflight>>

\* The load resolves for the operation and for those that wait for it; if the
\* character was deleted meanwhile it rejects and nothing is loaded.
Loaded(o) ==
  /\ Answer(o, "getCharacter", "loaded")
  /\ LoadEnds(o)
  /\ IF Answered.ok
     THEN /\ op' = Resolved([op EXCEPT ![o] =
                     IF op[o].kind \in Showing THEN Free
                     ELSE [@ EXCEPT !.pc = "wait", !.xml = NoDoc]], <<o, "load">>)
          /\ UNCHANGED loadedId
     ELSE /\ op' = Rejected([op EXCEPT ![o] = Free], <<o, "load">>)
          /\ loadedId' = None
  /\ UNCHANGED <<worker, disk, saveVars, inflight, undo>>

Detailed(o) ==
  /\ Answer(o, "getCharacter", "detail") /\ op[o].kind \in Showing
  /\ op' = [op EXCEPT ![o] = Free]
  /\ UNCHANGED <<worker, disk, loadedId, loading, saveVars, inflight, undo>>

----------------------------------------------------------------------------
\* Mutations.

\* mutateDetail ends: the snapshot goes to the undo stack, a save is scheduled.
Edited(o, before, was) ==
  /\ IF before = NoDoc THEN UNCHANGED undo
                       ELSE PushUndo(op[o].id, [xml |-> before, was |-> was])
  /\ \E bare \in Bare : Schedule(op[o].id, bare)
  /\ op' = [op EXCEPT ![o] = Free]

\* The mutation answers; a refusal ends the operation, and the export posted
\* with it, if it is still to answer, will be of no use.
Mutated(o, pc) ==
  /\ Answer(o, "mutation", pc) /\ op[o].kind = "mutate"
  /\ \/ /\ Answered.ok /\ pc = "mutateOnly"
        /\ loadedId' = op[o].id
        /\ Edited(o, op[o].before, Answered.was)
     \/ /\ Answered.ok /\ pc = "mutate"
        /\ loadedId' = op[o].id
        /\ op' = [op EXCEPT ![o].pc = "before", ![o].was = Answered.was]
        /\ UNCHANGED <<saveVars, undo>>
     \/ /\ ~Answered.ok
        /\ op' = [op EXCEPT ![o] =
                     IF pc = "mutateOnly" THEN Free ELSE [Free EXCEPT !.pc = "ignore"]]
        /\ UNCHANGED <<loadedId, saveVars, undo>>
  /\ UNCHANGED <<worker, disk, loading, inflight>>

\* The export posted with the mutation answers: first, last, or after the
\* mutation was refused.
BeforeArrives(o) ==
  LET before == IF Answered.ok THEN Answered.doc ELSE NoDoc
  IN  /\ \/ /\ Answer(o, "exportCharacterXml", "mutate")
            /\ op' = [op EXCEPT ![o].before = before, ![o].pc = "mutateOnly"]
            /\ UNCHANGED <<saveVars, undo>>
         \/ Answer(o, "exportCharacterXml", "before") /\ Edited(o, before, op[o].was)
         \/ /\ Answer(o, "exportCharacterXml", "ignore")
            /\ op' = [op EXCEPT ![o] = Free]
            /\ UNCHANGED <<saveVars, undo>>
      /\ UNCHANGED <<worker, disk, loadedId, loading, inflight>>

\* mutateDetailAndPersist: the save begins at once, unscheduled and unmarked.
DurablyMutated(o) ==
  /\ Answer(o, "mutation", "mutate") /\ op[o].kind = "durable"
  /\ IF Answered.ok
     THEN /\ loadedId' = op[o].id
          /\ \E bare \in Bare : op' = [op EXCEPT ![o] = Persisting(@, bare)]
          /\ Post(Request(o, "exportCharacterXml", NoDoc))
     ELSE op' = [op EXCEPT ![o] = Free] /\ UNCHANGED <<worker, loadedId>>
  /\ UNCHANGED <<disk, loading, saveVars, inflight, undo>>

----------------------------------------------------------------------------
\* Save, flush, undo, remove.

\* saveCharacter once the save in flight has settled: persistOrThrow.
ResumeSave(o) ==
  /\ Resumable(o) /\ op[o].kind = "save"
  /\ op' = [op EXCEPT ![o] = Persisting(@, TRUE)]
  /\ Post(Request(o, "exportCharacterXml", NoDoc))
  /\ inflight' = [inflight EXCEPT ![op[o].id] = o]
  /\ UNCHANGED <<workerVars, store, disk, loadedId, loading, saveVars, undo, autosave, shown, started>>

\* flushPendingSaves once the saves in flight have settled: the next character,
\* and after the last one a content update reads the library it adds to.
ResumeFlush(o) ==
  /\ Resumable(o) /\ op[o].kind \in {"flush", "reload"}
  /\ \/ /\ op[o].ids = {} /\ op[o].kind = "flush"
        /\ op' = [op EXCEPT ![o] = Free]
        /\ UNCHANGED <<worker, inflight>>
     \/ /\ op[o].ids = {} /\ op[o].kind = "reload"
        /\ op' = [op EXCEPT ![o].pc = "records", ![o].id = None]
        /\ UNCHANGED <<worker, inflight>>
     \/ \E id \in op[o].ids :
          /\ op' = [op EXCEPT ![o] = Persisting([@ EXCEPT !.id = id, !.ids = op[o].ids \ {id}], TRUE)]
          /\ Post([op |-> o, method |-> "exportCharacterXml", id |-> id, doc |-> NoDoc])
          /\ inflight' = [inflight EXCEPT ![id] = o]
  /\ UNCHANGED <<workerVars, store, disk, loadedId, loading, saveVars, undo, autosave, shown, started>>

\* undoLastChange: the entry has been imported, then the detail projected.
Restored(o) ==
  /\ Answer(o, "importCharacterXml", "restore")
  /\ loadedId' = op[o].id
  /\ Post(Request(o, "getCharacter", NoDoc))
  /\ op' = [op EXCEPT ![o].pc = "restored"]
  /\ UNCHANGED <<disk, loading, saveVars, inflight, undo>>

Undone(o) ==
  /\ Answer(o, "getCharacter", "restored")
  /\ op' = [op EXCEPT ![o] = Free]
  /\ IF Answered.ok THEN Schedule(op[o].id, FALSE) ELSE UNCHANGED saveVars
  /\ UNCHANGED <<worker, disk, loadedId, loading, inflight, undo>>

\* remove: the engine copy (if loaded), then the record, then the page's marks.
Deleted(o) ==
  /\ Answer(o, "deleteCharacter", "delete")
  /\ disk' = Append(disk, o)
  /\ op' = [op EXCEPT ![o].pc = "erase"]
  /\ UNCHANGED <<worker, loadedId, loading, saveVars, inflight, undo>>

Erased(o) ==
  /\ Completes(o, "erase")
  /\ LET id == op[o].id
     IN  /\ store' = [store EXCEPT ![id] = NoDoc]
         /\ undo' = [undo EXCEPT ![id] = <<>>]
         /\ dirty' = [dirty EXCEPT ![id] = 0]
         /\ loadedId' = IF loadedId = id THEN None ELSE loadedId
         /\ shown' = IF shown = id THEN None ELSE shown
  /\ op' = [op EXCEPT ![o] = Free]
  /\ UNCHANGED <<worker, loading, sequence, timers, inflight>>

----------------------------------------------------------------------------
\* A content update.

\* An operation that waits for the load in progress, if it needs one.
Awaiting(kind, id, loaded) ==
  [Free EXCEPT !.kind = kind, !.id = id, !.pc = "wait",
               !.on = IF loaded # id /\ loading # None THEN {<<loading, "load">>} ELSE {}]

\* The library's records have been read (another object store than the
\* characters'): the files are posted to the worker.
RecordsRead(o) ==
  /\ TaskDone /\ op[o].pc = "records"
  /\ op' = [op EXCEPT ![o].pc = "content"]
  /\ Post(Request(o, "ingestUploaded", NoDoc))
  /\ UNCHANGED <<workerVars, store, disk, loadedId, loading, saveVars, inflight, undo, autosave, shown, started>>

\* libraryChanged: the engine's copies are given up, with the marks and the undo
\* stacks that go with them (invalidateLoadedCharacter), and the character that
\* was open when the update began is loaded from the store. A refused update, and
\* one that no character depends on, changes nothing.
ContentChanged(o) ==
  /\ Answer(o, "ingestUploaded", "content")
  /\ \/ /\ Answered.ok
        /\ loadedId' = None
        /\ dirty' = [id \in Ids |-> 0]
        /\ undo' = [id \in Ids |-> <<>>]
        /\ op' = [op EXCEPT ![o] = IF @.next = None THEN Free ELSE Awaiting("refresh", @.next, None)]
     \/ /\ op' = [op EXCEPT ![o] = Free]
        /\ UNCHANGED <<loadedId, dirty, undo>>
  /\ UNCHANGED <<worker, disk, loading, sequence, timers, inflight>>

----------------------------------------------------------------------------
\* The user.

\* The workspace runs edits and undos of a character one after the other, and
\* a character whose removal has begun is offered no more.
Editing(id) ==
  \E o \in Ops : op[o].id = id /\ op[o].kind \in {"mutate", "durable", "undo"}
LibraryBusy == \E o \in Ops : op[o].kind \in {"reload", "refresh"}
Removing(id) == \E o \in Ops : op[o].id = id /\ op[o].kind = "remove"
Saving(id) == \E o \in Ops : op[o].id = id /\ op[o].kind = "save"

Start(o, kind) ==
  /\ TaskDone /\ kind \in UserKinds /\ op[o] = Free /\ started < MaxStarts
  /\ started' = started + 1
  /\ UNCHANGED <<workerVars, store>>

Called(o, kind, id) == op' = [op EXCEPT ![o] = Awaiting(kind, id, loadedId)]

\* The user opens a character; under manual save the workspace lets no unsaved
\* one be left (guardUnsavedChanges).
Open(o, id) ==
  /\ Start(o, "open") /\ store[id] # NoDoc /\ ~Removing(id)
  /\ "open" \in Overlapping \/ ~LibraryBusy
  /\ (~autosave /\ shown \notin {None, id}) => dirty[shown] = 0
  /\ shown' = id
  /\ Called(o, "open", id)
  /\ UNCHANGED <<worker, disk, loadedId, loading, saveVars, inflight, undo, autosave>>

\* mutateDetail; mutateDetailAndPersist, which is mutateDetail under manual save.
Edit(o, kind) ==
  /\ shown # None /\ Start(o, kind) /\ ~Editing(shown) /\ ~Removing(shown) /\ ~LibraryBusy
  /\ Called(o, IF autosave THEN kind ELSE "mutate", shown)
  /\ UNCHANGED <<worker, disk, loadedId, loading, saveVars, inflight, undo, autosave, shown>>

\* saveCharacter of the shown character, offered while it has unsaved edits.
Save(o) ==
  /\ shown # None /\ Start(o, "save") /\ ~autosave /\ dirty[shown] # 0
  /\ ~Saving(shown) /\ ~Removing(shown) /\ ~LibraryBusy
  /\ timers' = [timers EXCEPT ![shown] = "off"]
  /\ op' = [op EXCEPT ![o] = [Free EXCEPT !.kind = "save", !.id = shown, !.pc = "wait",
       !.on = IF inflight[shown] # None THEN {<<inflight[shown], shown>>} ELSE {}]]
  /\ UNCHANGED <<worker, disk, loadedId, loading, dirty, sequence, inflight, undo, autosave, shown>>

\* Fault: a flush clears the timers and forgets whose they were.
FlushingNothing(o, kind) ==
  /\ timers' = [id \in Ids |-> "off"]
  /\ op' = [op EXCEPT ![o] = [Free EXCEPT !.kind = kind, !.pc = "wait"]]

\* Fault: a flush writes only the characters whose timers it stopped.
FlushingTimed(o, kind) ==
  /\ timers' = [id \in Ids |-> "off"]
  /\ op' = [op EXCEPT ![o] = [Free EXCEPT !.kind = kind, !.pc = "wait", !.next = shown,
       !.ids = {id \in Ids : timers[id] # "off"},
       !.on = {<<inflight[id], id>> : id \in {i \in Ids : inflight[i] # None}}]]

\* flushPendingSaves begins in slot o, on its own or ahead of a content update.
Flushing(o, kind) ==
  /\ timers' = [id \in Ids |-> "off"]
  /\ op' = [op EXCEPT ![o] = [Free EXCEPT !.kind = kind, !.pc = "wait",
       !.next = IF kind = "reload" THEN shown ELSE None,
       !.ids = {id \in Ids : timers[id] # "off" \/ dirty[id] # 0},
       !.on = {<<inflight[id], id>> : id \in {i \in Ids : inflight[i] # None}}]]

Flush(o) ==
  /\ Start(o, "flush") /\ Flushing(o, "flush")
  /\ UNCHANGED <<worker, disk, loadedId, loading, dirty, sequence, inflight, undo, autosave, shown>>

\* beforeLibraryMutation: one content update at a time. The workspace takes no
\* new edit, undo or save while it runs; an edit already in flight, which its
\* flush does not see, and characters opened meanwhile are admitted by Overlapping.
Reload(o) ==
  /\ Start(o, "reload") /\ ~LibraryBusy
  /\ "edit" \in Overlapping \/ \A id \in Ids : ~Editing(id)
  /\ "open" \in Overlapping \/ \A p \in Ops : op[p].kind # "open"
  /\ Flushing(o, "reload")
  /\ UNCHANGED <<worker, disk, loadedId, loading, dirty, sequence, inflight, undo, autosave, shown>>

\* setAutosaveEnabled.
ToggleAutosave(o) ==
  /\ Start(o, "toggle")
  /\ autosave' = ~autosave
  /\ IF autosave' THEN Flushing(o, "flush") ELSE UNCHANGED <<timers, op>>
  /\ UNCHANGED <<worker, disk, loadedId, loading, dirty, sequence, inflight, undo, shown>>

\* undoLastChange: the newest entry is taken off and imported.
UndoLast(o) ==
  /\ shown # None /\ Start(o, "undo") /\ undo[shown] # <<>>
  /\ ~Editing(shown) /\ ~Removing(shown) /\ ~LibraryBusy
  /\ undo' = [undo EXCEPT ![shown] = SubSeq(@, 1, Len(@) - 1)]
  /\ Post([op |-> o, method |-> "importCharacterXml", id |-> shown,
           doc |-> undo[shown][Len(undo[shown])].xml])
  /\ op' = [op EXCEPT ![o] = [Free EXCEPT !.kind = "undo", !.id = shown, !.pc = "restore"]]
  /\ UNCHANGED <<disk, loadedId, loading, saveVars, inflight, autosave, shown>>

RemoveCharacter(o, id) ==
  /\ Start(o, "remove") /\ store[id] # NoDoc /\ ~Removing(id)
  /\ LET begun == [Free EXCEPT !.kind = "remove", !.id = id]
     IN  IF loadedId = id
         THEN /\ op' = [op EXCEPT ![o] = [begun EXCEPT !.pc = "delete"]]
              /\ Post([op |-> o, method |-> "deleteCharacter", id |-> id, doc |-> NoDoc])
              /\ UNCHANGED disk
         ELSE /\ op' = [op EXCEPT ![o] = [begun EXCEPT !.pc = "erase"]]
              /\ disk' = Append(disk, o)
              /\ UNCHANGED worker
  /\ UNCHANGED <<loadedId, loading, saveVars, inflight, undo, autosave, shown>>

\* discardUnsavedChanges, chosen when another character is about to be opened.
Discard ==
  /\ TaskDone /\ "discard" \in UserKinds /\ started < MaxStarts /\ started' = started + 1
  /\ shown # None /\ ~autosave /\ dirty[shown] # 0
  /\ undo' = [undo EXCEPT ![shown] = <<>>]
  /\ dirty' = [dirty EXCEPT ![shown] = 0]
  /\ loadedId' = IF loadedId = shown THEN None ELSE loadedId
  /\ UNCHANGED <<workerVars, worker, store, disk, loading, sequence, timers, inflight, autosave, shown, op>>

----------------------------------------------------------------------------
\* Continuations that run within the task that settled their promise.
Continue(o) == ResumeLoad(o) \/ ResumeSave(o) \/ ResumeFlush(o)

\* What the page does when the worker or the store answers operation o.
HandleAnswer(o) ==
  \/ Exported(o) \/ Summarised(o) \/ Created(o) \/ Imported(o) \/ Loaded(o) \/ Detailed(o)
  \/ Mutated(o, "mutate") \/ Mutated(o, "mutateOnly") \/ BeforeArrives(o)
  \/ DurablyMutated(o) \/ Restored(o) \/ Undone(o) \/ Deleted(o) \/ ContentChanged(o)
Transact(o) == PutDone(o) \/ PutFails(o) \/ Got(o) \/ Erased(o) \/ RecordsRead(o)

User(o) ==
  \/ \E id \in Ids : Open(o, id) \/ RemoveCharacter(o, id)
  \/ Edit(o, "mutate") \/ Edit(o, "durable") \/ Save(o) \/ UndoLast(o)
  \/ Flush(o) \/ ToggleAutosave(o) \/ Reload(o)

Next ==
  \/ \E o \in Ops : Continue(o) \/ HandleAnswer(o) \/ Transact(o) \/ User(o)
  \/ \E o \in Ops, id \in Ids : TimerFires(o, id)
  \/ Work
  \/ Discard

Spec == Init /\ [][Next]_vars

\* The browser runs every task it queued: the worker serves, its answers and
\* the transactions' completions are handled, promises resume their waiters and
\* a timer runs out. The user need not do anything.
Fairness ==
  /\ WF_vars(Work)
  /\ \A o \in Ops : WF_vars(Continue(o)) /\ WF_vars(HandleAnswer(o)) /\ WF_vars(Transact(o))
  /\ \A id \in Ids : WF_vars(\E o \in Ops : TimerFires(o, id))
FairSpec == Spec /\ Fairness

----------------------------------------------------------------------------
Kinds == UserKinds \cup {"mutate", "flush", "timer", "refresh"}
Tokens == Ops \X (Ids \cup {"load"})

TypeOK ==
  /\ engine \in [Ids -> NoDoc..version] /\ store \in [Ids -> NoDoc..version]
  /\ version \in Nat /\ latest \in [Ids -> NoDoc..version]
  /\ loadedId \in Ids \cup {None} /\ loading \in Ops \cup {None}
  /\ shown \in Ids \cup {None} /\ autosave \in BOOLEAN
  /\ dirty \in [Ids -> 0..sequence] /\ sequence \in Nat
  /\ timers \in [Ids -> {"off", "bare", "detail"}]
  /\ inflight \in [Ids -> Ops \cup {None}]
  /\ \A id \in Ids : Len(undo[id]) <= UndoLimit
  /\ \A o \in Ops : /\ op[o].kind \in Kinds \cup {None} /\ op[o].id \in Ids \cup {None}
                    /\ op[o].next \in Ids \cup {None}
                    /\ op[o].on \subseteq Tokens /\ op[o].ids \subseteq Ids
  /\ \A k \in DOMAIN disk : disk[k] \in Ops
  /\ worker.active = None => worker.line = <<>>
  /\ started \in 0..MaxStarts

\* An operation that is about to change the engine's copy of id, or that has
\* changed it and has not come to its bookkeeping.
Touching(id) == Editing(id) \/ Removing(id)

\* A character the page takes to be in the engine and shows as saved is saved:
\* the stored document is the engine's, whatever edits, saves, flushes, undos
\* and timers overlapped (dirtyGeneration, read before the export and compared
\* after the write, and the order in which the worker answers).
CleanMeansStored ==
  \A id \in Ids : 
    loadedId = id /\ dirty[id] = 0 /\ ~Touching(id) => store[id] \in {engine[id], NoDoc}

\* The engine's copy of a character with unsaved edits is the one the last edit
\* or undo made: no load puts an older document in its place.
UnsavedEditKept ==
  \A id \in Ids : dirty[id] # 0 /\ ~Touching(id) => engine[id] = latest[id]

\* The engine's copy of the character the page takes to be loaded is whole: no
\* load that is under way, of this character or another, has blanked it.
LoadedIsWhole ==
  \A id \in Ids : loadedId = id /\ ~Touching(id) => engine[id] \notin {NoDoc, Blank}

\* Every entry of an undo stack is the document as it stood before the mutation
\* that pushed it.
UndoEntriesPrecede ==
  \A id \in Ids : \A k \in DOMAIN undo[id] : undo[id][k].xml = undo[id][k].was

\* What the page shows as saved is stored: the last edit or undo of a character
\* without unsaved changes is the document in the store, or the character is no
\* more. A content update gives up the engine's copies and their marks only after
\* its flush has written them.
CleanKeepsLastEdit ==
  \A id \in Ids :
    dirty[id] = 0 /\ ~Touching(id) /\ store[id] # NoDoc => latest[id] \in {NoDoc, store[id]}

\* Operation p has yet to settle its load, or its save of a character.
Owes(p, what) ==
  \/ what = "load" /\ p.pc \in {"get", "create", "import", "loaded"}
  \/ what = p.id /\ p.pc \in {"export", "summary", "put"}

\* No promise is awaited that nobody will settle: characterLoadPromise and every
\* entry of persistInFlight belong to a load or a save still under way, and so
\* does whatever an operation waits for, whichever of them failed meanwhile.
NobodyWaitsInVain ==
  /\ loading # None => Owes(op[loading], "load")
  /\ \A id \in Ids : inflight[id] # None => Owes(op[inflight[id]], id)
  /\ \A o \in Ops : \A t \in op[o].on : Owes(op[t[1]], t[2])

\* Every operation ends: whoever waits for a load or a save is resumed.
OperationsEnd == \A o \in Ops : op[o] # Free ~> op[o] = Free

\* Under autosave, and a store that takes its writes, every edit of a character
\* that is not removed gets stored: no timer is lost to a flush, a save, a newer
\* edit or a switch of characters.
EditsGetStored ==
  \A id \in Ids : dirty[id] # 0 ~> (dirty[id] = 0 \/ ~autosave \/ store[id] = NoDoc)
=============================================================================
