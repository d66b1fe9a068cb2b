# DM Forge in TLA+

This directory models the parts of DM Forge (forge-character-builder) whose
correctness depends on order: the engine worker and the page that calls it; the
character session (load, edit, save, undo, content updates) over the worker and
IndexedDB; the synchronisation of a library between devices through Google
Drive, with the tabs that run it and their authorisation; and, inside the
engine, the long sequences of requests by which a character is built: picks and
the rules they release, levels gained and taken back, items equipped, stowed and
bonded. The modules are checked with TLC on small instances; the theorems are
checked with TLAPS for every value of the constants.

Run a check with `tlc -config X.cfg Module.tla`, a proof with `tlapm Module.tla`.

## The system

DM Forge is a local-first character builder. One browser page holds

| component | where | state it keeps | operations |
|---|---|---|---|
| engine worker and client | `packages/api/src/runtime.ts`, `protocol.ts`, `methods.ts` | waiting line, active flag; the page's table of pending promises | `invoke`, `dispatch`, `run`, answer |
| character session | `apps/client/src/transport/engineTransport.ts`, `App.jsx`, `CharacterWorkspace.jsx`, `CharacterList.jsx` | loaded character, load in progress, unsaved marks with generations, debounce timers, saves in flight, undo stacks, autosave setting | open, mutate, durable mutate, save, flush, undo, discard, remove, autosave on and off, content update |
| content and fast start | `engineTransport.ts` (boot, content API), `fastStartSnapshot.js`, `localStore.js`, `contentImport.js` | content records and their revision, snapshots, the boot promises | boot, import, remove source, rebuild, snapshot build and use |
| local store | `localStore.js` | IndexedDB stores: characters, content, sources, homebrew, meta | one transaction per operation |
| library snapshot | `cloud/librarySnapshot.js` | none: pure functions over library documents | three-way merge, manifests, conflict history |
| Drive sync | `cloud/driveSyncCoordinator.js`, `libraryStore.js` | the sync baseline, the sync in progress | read, merge, apply, upload, commit the baseline |
| sync service and identity | `cloud/driveSyncService.js`, `googleIdentity.js`, `googleDriveClient.js`, `DriveSyncPanel.jsx` | per page: the token, the promises of connect and sync, the busy and connected marks; per browser: the origin's lock | connect, sync, disconnect, expiry and revocation of a token |
| character building | `packages/engine/src/selection`, `progression`, `character/service.ts` | the elements tree, the sum of registered ids, one record per level gained, the document before the last level taken back | pick, clear, options, grants, level up and down, multiclass, lower a class, undo |
| inventory | `packages/engine/src/inventory`, `attacks` | items, their entries in the sum and nodes in the tree, attack rows | add, remove, equip, wear, stow, bond, unpack |
| engine content and output | the rest of `packages/engine/src` | the content library | parsing, statistics, magic, sheets |
| user interface | `apps/client/src/components`, `vtt` | view state | - |

**How they interact.** The page never touches the engine's memory: every call
is a message to the worker and a promise (`createEngineClient`). The worker
serves one request at a time, but not first in, first out: writes go in front of
homebrew patches, those in front of reads. The session composes such calls with
`await`, so between any two of them other operations, timers and answers run.
IndexedDB transactions on one object store run in the order they were created.
Drive sync reads and writes the same IndexedDB records as the session and uses
a file that other devices write too; the tabs of one browser share the records,
the baseline and a Web Lock. Inside the worker a request runs to its end, so the
engine's own hazards are not interleavings but histories: the tree, the sum, the
level records and the items are edited apart and must agree after every request.

**What is hard.** Requests overtake one another in the worker. State is read,
an `await` follows, and the state is used (the generation of an edit, the loaded
character, the snapshot of the library, the sync metadata). Timers, saves and
flushes of one character overlap. Writes can fail (quota, network), tokens
expire, tabs are closed. Another device can change the Drive file between a
download and the upload. A level's record names nodes that any later pick may
move; lowering a class replays every level above it; two items may register the
same id. `PROJECT.json` lists each hazard at its line with the properties that
watch it.

## Modules

| module | models | state |
|---|---|---|
| `EngineQueue`, `EngineQueueProofs` | `priority` and the insertion of `dispatch()` | none |
| `EngineCalls` | abstract: what the page may rely on when it calls the engine | calls issued and settled, the constraints between them |
| `Dispatcher`, `DispatcherProofs` | `createEngineDispatcher`, `startEngineWorker`, `createEngineClient` | the two message channels, `queue`, `active`, `pending` |
| `CharacterSession`, `CharacterSessionProofs` | the character API of `engineTransport.ts` over the worker's line and the store | see below |
| `LibraryMerge` | the three-way merge of `librarySnapshot.js`: states of a key, selection, conflicts and their history, manifests | none |
| `DriveSync`, `DriveSyncProofs` | devices that edit a library and sync it through one Drive account: `synchronizeDriveLibrary`, the library adapter, the Drive operations it uses | stores, baselines, syncs in progress, the account's files |
| `SyncService`, `SyncServiceProofs` | the pages of a browser: `createDriveSyncService`, `createGoogleIdentity`, `authorizedFetch` | each page's token, marks and awaits; the line for the origin's lock |
| `Registration` | registering an element: its grants, its choices, the release of pending grants, the sweep's additions and removals | none |
| `Selection` | the history of levels, what a choice may hold, a pick or its removal as edits of tree and sum, the settling of conditional rules | none |
| `Leveling` | one class level's content, level-gated rules, the record a level leaves, taking the newest level back | none |
| `CharacterBuild`, `CharacterBuildProofs` | the requests of the character service | document, level records, delevel snapshot |
| `Inventory`, `InventoryProofs` | the inventory requests and the registration sweep | items, sum, nodes, attack rows |
| `Iteration` | theorems about steps taken again and again and folds over a sequence, for any step and predicate | none |
| `MC...` | instances for TLC | |

`CharacterSession` extends `EngineQueue`, so its worker serves in the order that
`Dispatcher` proves right. `DriveSync` extends `LibraryMerge`, `SyncService`
extends `DriveSync`. `CharacterBuild` extends `Leveling`, that `Selection`, that
`Registration`.

### Dispatcher

`Invoke` is `createEngineClient().invoke`: the next id, an entry in `pending`, a
message. `Receive` is the worker's listener together with `dispatch()`: a request
that fails validation is answered at once, another is put into `queue` by
`EngineQueue`'s `Insertion`, and if the worker is idle it starts at once (`Run`), in the same
task. `Complete` is the end of a handler, the answer, and the `run()` that
follows. `Deliver` is the client's listener. `EngineCalls` says what this
amounts to: a call settles once, and not before the calls that had arrived with
at least its urgency. `CallsSpec` is that specification under the mapping of the
dispatcher's state; TLC checks the fair version, TLAPS proves the safety part.

### CharacterSession

An operation of the API is a slot of `Ops`, whose `pc` names the await it stands
at; an action is what one task of the event loop does, from the answer that
resumes the operation to its next await. An operation that awaits another one
(the load in progress, the save in flight) is in `"wait"` and goes on within the
task that settles it: `TaskDone` keeps every other task out until then. The
worker is `EngineQueue`'s line plus the request being served; its answers reach
the page in the order they were posted. `disk` holds the transactions in the
order of creation.

Documents are numbers: 0 is the blank character `createCharacter` makes, every
accepted mutation makes the next number. `latest` is a history variable, the
document of each character's last edit.

Correspondence: `Schedule` is `schedulePersist` with `markDirty`;
`Persisting`, `Exported`, `Summarised`, `PutDone`, `PutFails` are the steps of
`persist` inside `runPersist` or `persistOrThrow`; `ResumeLoad`, `Got`, `Created`,
`Imported`, `Loaded` those of `ensureLoaded`; `Proceed`, `Mutated`,
`BeforeArrives`, `Edited` those of `mutateDetail`, whose export and mutation may be
answered in either order; `DurablyMutated` is `mutateDetailAndPersist`; `Save`, `Flush`,
`UndoLast`, `Discard`, `RemoveCharacter`, `ToggleAutosave` begin the operations of
those names. The user's actions are those the interface allows: the workspace
runs edits of a character one after the other, Save is offered while there is
something to save, and `Open` goes through `guardUnsavedChanges`.

A content update (`Reload`) is what the page does around a change of its content
files: `beforeLibraryMutation` flushes the saves, `contentApi.upload` reads the
content records and posts `ingestUploaded` (`RecordsRead`), the engine takes the
content in (`ServeContent`), and if it was accepted `libraryChanged` gives every
loaded mark up and loads the open character anew (`ContentChanged`). While it
runs the interface admits no edit, undo or save (`LibraryBusy`). Creating and
duplicating a character are not operations of the model (their writes are awaited
one by one before the character is shown).

### LibraryMerge

A key of a collection is in one of three states: a record (its content and its
time), a tombstone, or absent. Contents are numbers that stand for the record's
hash; `Rank` is the order of the hashes, which decides ties. `effectiveState`,
`selected`, `Conflicting`, `sortConflictHistory`, `createLibraryManifest` and
`mergeLibrarySnapshots` are the functions of those names or the steps of the merge
loop. The validation and the canonical serialisation of documents are left out.

### DriveSync

A sync is a record `sync[d]`; its `pc` names the await it stands at: `ReadLocal`
(`readSnapshot` with its inferred tombstones), `Find` (`findManagedLibrary`),
`Download` with the merge that follows in the same task, `BeginApply` (the read
that finds what to write), `Apply` (one record of `applySimpleCollection`,
deletions first), `Applied`, `Check` (`getFileMetadata` and the decision to go on,
to start again or to give up), `Save`, `Commit`. `Fail` ends a sync at any of
them: a failed request, a refused write, a closed page. A file of the account is a
library document, its id its position in `drive`; `newest` is the one most
recently modified, and `moved` says that the found file's version has changed.
The library is one collection applied record by record (characters or homebrew);
content sources have their own application, which is not modelled. `over` (which content
was made from which) and `dropped` (what users deleted) are history variables that
only the properties read.

### SyncService

Who runs the coordinator. `page[p]` is what one tab holds: its token (a good one,
one Google refuses, or none), the marks `busy` and `connected` the panel shows,
and at which await its connect, its sync and its disconnect stand. `lock[d]` is
the line for the device's Web Lock.

`Ask` is a click in the panel (or the content manager's sync after a change) and
`Sync`, `Connect` the call it leads to when its `beforeSync` has run; a call
joins the promise that is there (`SyncCalled`, single flight). `Authorise` is
Google's window, answered or closed; `Account` is `getUserMetadata` and the sync
that follows. `Start` is `executeSync` once the lock is held, `Flushed` and
`FolderFound` what comes before the loop, `Coordinate` a step of
`synchronizeDriveLibrary` as `DriveSync` has it, `Finish` the reload of the live
library and the end. A request sees the token it was sent with (`sent`):
`Refused` is a request without a good token, which clears it, marks the page
(`onUnauthorized`) and ends the sync; `SyncFails` is any other failure.
`Disconnect`, `Revoked`, `ReadMetadata`, `WriteMetadata` are `disconnect()`: the
token is cleared, the grant revoked (for every tab), and the metadata read and
written again outside the lock. `LoseToken` and `Close` come from outside. A device
without a page in `Pages` is a device as `DriveSync` has it (`Elsewhere`).

`SyncsAsOne` is `DriveSync`'s `Spec`, with the identity as refinement mapping:
the variables of `DriveSync` are those of `SyncService`, and what the tabs of a
device do amounts to one device.

### CharacterBuild and the modules it extends

A character is `[tree, sum, on]`. The tree is the sequence of its nodes in document order,
each with its depth; a wrapper is the slot of one select rule, named by owner,
rule and slot as the code's checksum does; the sum is a bag of the ids registered,
which requirements are read against; `on` is a resource switch. The content
library is given by constants: each element's rules (`select` and `grant`, with
pool, level and requirement) and its own requirements.

`Register` and `AddAll` are `registerElement` and `orderSumEntries`,
`PendingGrants` is `reconcilePendingGrants`, `Desired` is `setSelection` or
`clearSelection`, `PlanSelection` the edits `planSelectionEdits` writes to the
tree and, apart from it, to the sum; `Removals`, `Additions` and `Grown` are a pass of
`reconcileRegistrationRules`, run by `Settle` up to `MAX_RULE_RECONCILE_PASSES`
times and until a set of flips repeats. `ApplyClassLevel` is one class level's
content, its record the ids and nodes it added, by path; `Delevel` is
`planDelevelEdits` by that record. The requests of `CharacterBuild` are the
service's methods, each with the settling that follows; one that throws changes
nothing. `LowerClass` takes every level above the lowered one back, gains them
again and answers every choice again (`delevelWithReplay`, `restoreSelections`).
A request runs to its end before the next: the worker serves one at a time.

### Inventory

`inv` is `[items, sum, nodes]`: the records, the flat list of registered ids and
the top-level nodes of the tree; `rows` are the records with an attack row. A
record's base (a weapon or armor) is registered by the operation that puts it to
use, its own content (a magic item) by `Swept`, the sweep that follows every
operation. The actions are the requests `AddItem`, `RemoveItem`, `SetItemAmount`,
`EquipItem`, `WearItem`, `UnequipItem`, `SetItemStorage`, `AttuneItem` and
`ExtractItem` (a pack), with the evictions, splits and joins of stacks
each one leads to. What stands in a hand is asked hand by hand (`Occupants`), for the first free
place of a new item (`Vacated`) as for an eviction; a two-handed grip evicts once for each hand,
which throws where another record is held in both (`EvictedTwice`, known limits), so that
`EquipItem` is not enabled then. What an element is (slots, stackable, bases, what it grants
and brings) is given by `Catalogue`.

## Runs

The bounds and what makes them enough:

- `dispatcher`: four calls over five methods, one of each behaviour (character
  write, homebrew, read, a method without handler, an unknown method). Three calls
  show an overtaking; with four, one waits while another of its urgency arrives and a third
  overtakes both. Checks every property of the module and the refinement.
- `session_edits`: one character, three operations at once, five in all, of
  every kind but discard, both autosave modes, saves with and without a detail
  in hand; the writes of timers, saves and flushes may be refused
  (`Refused`), those of durable mutations and of a content update's flush not (see the
  known limits); no other operation overlaps a content update (`Overlapping`). Three
  slots allow an edit, a timer's save and a flush to overlap; five operations allow
  open, edit, undo, content update and edit in one behaviour. Without removal and content
  update the properties are theorems, for any number of slots and operations; with them they
  hold within these bounds, and with one more slot and operation some do not (known limits).
- `session_progress`: two characters, two slots, every kind, edits and loads that
  overlap a content update too, under fairness: operations end and autosave stores
  edits.
- `session_undo`, `session_switch`: two of the disagreements below.
- `drive_serial`: two devices, two records, three contents, times 1 and 2, syncs
  one after the other, from an empty account and from a synced record. Three
  contents are a content, an edit of it and a concurrent edit or new record; two times
  let a record be older than, as old as, or newer than another. Checks that no
  edit is lost or undone and that conflicts are concurrent.
- `drive_failures`: the same with one record, two contents and one failure at any step:
  that nothing vanishes unasked, and the liveness property.
- `drive_races`: two tabs on a laptop and a phone that syncs with the same account
  whenever it likes, one tab or both connected at the start, with and without a
  synced record; three requests (`MaxRequests`: clicks in a tab, edits of a device,
  syncs of the phone) and one fault (`MaxFaults`). Three requests are a sync in each
  tab and one of the phone in between, or a sync, a disconnect and a sync; the one
  fault comes on top of the refusals that a revocation brings by itself. Time stands still:
  what the tabs add does not depend on which record is newer.
- `drive_overlap`, `drive_upload_fails`: the other two disagreements.
- `character_build`: five requests of any kind, from a new character and from
  fighters of level 1 and 2 that may multiclass; a content library with one element for each
  behaviour (a level-gated choice and grant of a race, a subclass, a grant under an
  option, a pick with a gated grant, a feat with a switch, a grant and a choice that
  exclude or need others); three levels. Lowering a class under two
  levels and undoing it needs three levels; a level whose record is moved by a pick
  and then taken back needs four requests.
- `inventory`: four requests to a new character and to one from an older file, three to
  a full set of equipment; two units in a record, at most two bonds, one container.
  Two units make a stack that splits and joins; two bonds are a full set.

The Drive runs have `maxRemoteRetries` 1, the code's default, and the history
limit 25, the code's, which instances of this size do not reach.

`CHECK_DEADLOCK FALSE` everywhere: the user may stop, and an instance stops
when its bound on calls, operations, requests, contents or time is used up.

Constants that bound an instance: `MaxCalls` (calls issued), `MaxStarts`
(operations the user starts), `UndoLimit` (50 in the code, 2 here, so that a
stack overflows), the number of slots, `Docs` (contents made), `MaxTime`,
`MaxFailures`, `MaxRequests`, `MaxFaults`, `MAX_LEVEL` (20 in the code), `MaxAmount`,
and the requests each of `Inventory`'s `Starts` allows.

### Fairness

`Dispatcher`: the browser delivers every message and every handler ends, so
delivery, receipt and completion are weakly fair; the page need not call.
`CharacterSession`: the worker serves, every queued task runs, every transaction
ends, a promise resumes its waiters and a timer runs out. Each of these is a
task the browser has queued and never takes back, except a timer, which is
weakly fair per character. User actions have no fairness.
`DriveSync`: `Progress` says that a sync that has begun takes its next step or
fails (each is the answer to a request, or a transaction). `FairSpec`, used for
convergence only, adds that every device begins a sync again and again; that is
a supposition about users, not about the code, and strong because a device may
not begin while another syncs.
`SyncService`: each page's event loop goes on (`Proceeds`, weakly fair per page: its
requests are answered or refused, its transactions end, Google's window is answered or
closed, a lock that is free is granted) and a sync on a device without pages goes
on. Clicks, faults, edits and the phone's syncs have none.
`CharacterBuild` and `Inventory` need none: their properties are about what a
request does.

## What the checks show

The dispatcher does what its callers assume, in all interleavings and, by the
proofs, for all methods and any number of calls. In the session a
character that is loaded and not marked as unsaved is
stored as it is (`CleanMeansStored`), and a character without a mark has its last
edit in the store, a content update included (`CleanKeepsLastEdit`); no load replaces
or blanks a copy with unsaved edits (`UnsavedEditKept`, `LoadedIsWhole`); nobody
awaits a promise that no one will settle (`NobodyWaitsInVain`), every operation ends and
under autosave every edit gets stored (`OperationsEnd`, `EditsGetStored`).

Devices that sync one after the other lose no edit, undo none, delete nothing
unasked and record only concurrent changes as conflicts (`NothingLost`,
`NoRegress`, `DeletedOnlyIfAsked`, `ConflictsAreConcurrent`); they come to agree
although a sync may fail anywhere (`Converges`). Of a browser's tabs one leads a
sync at a time (`OneLeader`), and together they are one device, whatever they connect,
disconnect, lose or close (`SyncsAsOne`); every sync settles, also when other
devices save again and again meanwhile (`SyncsSettle`), and no page's buttons stay
disabled (`BusyEnds`).

A character's tree and sum agree after every request (`SumFollowsTree`), no answer
outlives the level that asked (`EarnedPicks`), a level gained and taken back leaves
the character exactly as it was (`RoundTrip`) and the newest level can still be
taken back after any later request (`StillRemovable`). The bounded sweep of conditional
rules reaches its end (`SettledAfter`). Lowering a class takes one level of it and
none of another, and keeps every answer still asked for (`OneLevelOff`,
`PicksKept`), although it replays every level above.

An inventory registers exactly what its items convey, each record its own copy and no
more (`SumFollowsItems`, `NodesFollowItems`); hands, armor and bonds are within
their limits (`OneThingPerPlace`, `BondsWithinLimit`), a wielded weapon has an attack row
(`RowsFollowWeapons`), and moving things neither makes nor loses any
(`MovesConserve`). All this of the requests that do not throw.

Four statements of the repository do not hold, each with its run:

1. *The character's XML as it stood before each mutation* (`session_undo`): the
   export is a read and the mutation a write, so a busy worker serves them in the other
   order.
2. *`flushPendingSaves` drains the queue at character switches*
   (`session_switch`): nothing does, and switching there and back within the
   debounce window reloads the old document.
3. *Keep both alternatives in bounded conflict history* (`drive_upload_fails`):
   the merge is applied before it is uploaded; if the upload fails, the next sync
   finds both sides equal, and the losing edit is kept nowhere.
4. *Drive `version`, record hashes, and the saved baseline prevent an overwrite
   from being treated as an ordinary update* (`drive_overlap`): a save between the
   version check and the upload is overwritten, and what it had added is then
   deleted on the device that made it, as if a user had deleted it.

## Known limits

Met while modelling, and kept out of the passing runs by the constants or
guards named.

Session:

- a durable mutation whose write is refused leaves an edit that is not marked as
  unsaved (`CleanMeansStored`, `CleanKeepsLastEdit`), and a content update whose flush was refused gives the edit up (`Refused`
  without `"durable"` and `"reload"`);
- an edit in flight when a content update starts is lost, and its timer may store
  the blank document of the load that follows; of two operations that wait for one load
  while a content update ends, each reloads and one blanks the other's copy
  (`Overlapping = {}` in `session_edits`; `session_progress` admits both);
- without autosave, a switch of character while an edit is in flight is not guarded:
  the edit is not marked yet (`session_edits` has one character);
- a pending timer or an edit in flight writes a removed character again. With four slots and
  six operations TLC then finds `UnsavedEditKept` violated: the timer's save brings back the
  record that was removed during an edit, the character is opened again, and an undo
  overlaps its load;
- the loads of two characters cross when two operations waited for a third load: with two
  characters, three slots and four operations TLC finds `CleanMeansStored`, `LoadedIsWhole` and
  `CleanKeepsLastEdit` violated;
- with four slots and six operations a flush that noted what is unsaved, and then waited for the
  save of a timer, goes on between the `createCharacter` and the `importCharacterXml` of the
  load after a content update, and stores the blank character (`CleanMeansStored`);
- an undo in flight when the edits are discarded marks the character while the next load
  replaces its copy (`UnsavedEditKept`; `session_edits` has no discard).

Drive sync:

- a first upload that was saved but whose baseline was not committed lets a record
  that is deleted next come back (`drive_failures` checks neither `NoRegress` nor `NothingLost`);
- a second library file exists when two first syncs overlap, and each device then
  takes what the newer one lacks for deleted (`Overlap = FALSE`);
- an edit during a sync is overwritten by its application (`EditsWhileSyncing =
  FALSE`); that a record is not deleted is proved even so;
- an overlapping save may undo another's edit (`drive_races` does not check `NoRegress`);
- a conflict's loser goes with its entry when the history is full, as documented;
- a sync of another tab that commits exactly between the read and the write of a
  disconnect has its baseline replaced by the older one (`TornMetadata = FALSE`; with
  `TRUE` TLC finds `SyncsAsOne` violated);
- a page may be shown as connected after its disconnect (`executeSync` ends with
  `connected: true` whatever has become of the token), and a late answer to a
  revocation clears a newer token: no property speaks of `connected`;
- `disconnect` does not catch a failed `putMeta`, which leaves the page busy, and takes
  a failed `getMeta` for no metadata; so does the start of a sync (`driveSyncCoordinator.js:128`), which
  then runs without its baseline: the metadata store does not fail here;
- connecting another account keeps the first one's baseline (one account here), and
  a sync that was joined in flight may predate the change it was asked for.

Character building (`docs/contract.md:280` speaks of what a level down restores):

- clearing a class takes a grant it shares with another element from the sum
  (`SumFollowsTree` speaks of ids one element brings); a class cleared and picked
  anew at level 3, or a race with level-gated nested content cleared or changed, leaves records that no longer fit, and
  `levelDown` throws `internal` while `canLevelDown` stays true (`StillRemovable`
  names both);
- starting a multiclass level, and changing the class of one, do not settle conditional rules
  (`SettledAfter` names them);
- a level that brings something registered already is not undone exactly
  (`RoundTrip` asks for new ids); content of a race picked after its level came on stays
  when the level goes; a multiclass start right under an open multiclass choice is answered with the
  same class when it is lowered (`OneLevelOff`); an open choice that is resolved later loses its
  level-gated record;
- a level down that takes back two answers, one of them given inside the other, writes overlapping
  edits (`leveling.ts:1771`), and a multiclass start that brings nothing writes an element that is not
  closed (`leveling.ts:1424`): the document does not parse, or not as meant. Neither takes effect here
  (`Overlapping`, `StartWritten`);
- a pick finds the parent of a grant it releases in the tree without what the replaced pick
  takes along, and writes at that path in the document as it was (`selection.ts:2052`, `2058`): a grant
  that goes ahead of the parent moves the path, and the grant lands in another element.
  `PlanSelection` has one position for both; in the run the two never differ;
- edits made between a level down and its undo are discarded by the undo;
- a rule keyed by position binds anew when the document changes around it, and a
  class-level-gated rule is registered at the character's level.

Inventory (`Excluded`):

- `"bonded"`: a bonded weapon or armor taken out of its container is not registered
  again, against the comment at `inventory.ts:840`; without the exclusion TLC finds `SumFollowsItems` violated;
- `"twin"`: equipping an armor over another of the same base removes the node they share
  (`NodesFollowItems`; comment at `inventory.ts:813`);
- `"part"`: removing part of an equipped stack removes its attack row (`RowsFollowWeapons`).

Inventory (evictions):

- taking a two-handed grip while another weapon is held in two hands fails: `planEquipItemEdits`
  (`inventory.ts:1535`) evicts the occupants of the primary and of the secondary hand, the other
  weapon is one of both, and its `<equipped>` is cut out twice at the offsets of the first cut
  (`selection.ts:2151`). The second cut takes the opening tag that follows, and `parseDnd5e` throws
  (`document.ts:376`). That is so for an unattuned record as the program writes it; what an attuned one,
  whose `<attunement>` is cut out twice too, or one of a file without `<details>` loses depends on
  the lengths of what follows. The model lets no such request through
  (`EvictedTwice`); taking the other weapon off first, or gripping it in one hand, is
  modelled and works. No run reports it, since a request that throws changes no state.

Inventory (content):

- the library is one whose weapons and armor grant markers only. One that grants more is its
  own content (`hasOwnContent`, `inventory.ts:390`): its base is registered by the sweep, and
  its node written by the sweep alone (`inventory.ts:875`, `item-registration.ts:85`). That is neither
  modelled nor covered by the theorems;
- the sweep spares an id that a node of something else registers too (`item-registration.ts:238`,
  `275`); here the ids of content are the items' own;
- entries of the sum that belong to no node are told by their place behind an id, while a
  removal takes the first instance of an id anywhere. A ring, a cloak and a magic weapon that is
  held without its bond, all granting one id: when the cloak goes, its removal takes the ring's
  entry, and the sweep takes what is left behind the weapon's id. The ring is worn and has its
  node, and the sum lacks what it grants. With such a catalogue in place of the run's TLC finds
  `SumFollowsItems` violated in two requests; in the run's what a magic weapon or armor grants
  comes from nothing else (`SumSorted` of `InventoryProofs`).

## Proofs

All theorems rest on the assumptions on the constants only, unless an `ASSUME` of
the theorem says otherwise.

`DispatcherProofs` proves `TypeOK`, `InOnePlace`, `ServedInOrder`,
`PendingIsUnsettled`, `NeverIdleWhileWaiting` and the refinement of
`EngineCalls` (`KindOf` maps methods
to `QueueKind`, `Handled` is a subset of `Known`, and a bound on the calls). The line is a
sequence, so the argument is about an insertion: `ThreeParts` (of
`EngineQueueProofs`) and `EnqueueShape` describe `Enqueue` as the part before the place of insertion, the
request and the rest; `EnqueueConsistent` says that a line sorted by urgency,
and by arrival within an urgency, stays so. The inductive invariant `IInv` adds
to the properties checked that the line is sorted, that ids are below the next
one, that everything in a channel, in the line or being served was issued and is
pending, and that no id occurs twice; without these neither the order nor
`InOnePlace` is inductive. Each action has its lemma, `NextInv` puts them
together. `NeverIdle` needs only that the worker rests when its line is
empty, which every end of a request restores. For the refinement, `SettledShape` and
`WorkerKeepsSettled` say which
steps settle a call (only `Deliver`) and that the others stutter or issue one.

`CharacterSessionProofs`, for any characters, operations at once and writes refused:
the types (`SessionTypeCorrect`) and `NobodyWaits` (`NobodyWaitsInVain`). The types
say more than `TypeOK`: an operation waits at one point only, and has a character
except at the points where a flush or an update stands between two. A step
may settle several waiters one after the other within a task, so the invariant is
stated for any `op`, `loading` and `inflight` (`Awaited`), and the lemmas about
`Resolved` and `Rejected` are about the values in the middle of a task.

Its second part is about what a save may lose: `CleanIsStored` (`CleanMeansStored`),
`UnsavedIsKept` (`UnsavedEditKept`), `LoadedWhole` (`LoadedIsWhole`) and `CleanKeepsEdit`
(`CleanKeepsLastEdit`), for one character (`OneCharacter`) that nobody removes, discards or
reloads and whose durable writes are not refused (`Undisturbed`): for any number of opens, edits,
durable edits, saves, flushes, timers and undos at once, in either autosave mode, and any other
write refused. Each condition is needed: when it alone is dropped, TLC finds one of the four
properties violated (known limits). `NoneIsNoKind` is used too: a free slot has no kind.
The inductive invariant is `Safe`:

- `Answerable`: the pipeline (the answers on their way, and behind them what the worker has been
  asked) and the line for the disk hold exactly what operations await, each thing once. A
  read joins the pipeline at its end, a write may overtake reads, and only the head leaves
  (`Posting`, `Handling`): that is what the order of a save and of an edit rests on, and
  `EnqueueShape` of the dispatcher's proofs is used for it.
- `Ways`: an operation comes only to the points of its kind (`OnItsWay`), and one change of the
  character is made at a time.
- `Unopened` and `Opened`: until the character is loaded nothing is to be saved and one
  operation loads it, with the stored document; from then on no operation loads, every document
  about it is whole and the newest is the engine's.
- `CleanStored`: of a character without a mark, and without a change on its way to its
  bookkeeping (`Underway`), the engine's document is stored and no save holds an older one.
- `LastWritten`: the save that will take the mark away (`Decisive`) holds the last edit, and each save
  that still holds an older document (`Stale`) writes before it (`Ahead`, wherever the two are: in the
  pipeline, or in the line for the disk). Without it `CleanStored` is not inductive.
- `InOrder`: a document exported before a change arrives before the answer to the change, so a
  save started after the bookkeeping of an edit has the edit.

`AlwaysSafe` combines one lemma per action; `Settled` draws the four properties from it.

`DriveSyncProofs` has three parts. The first is the merge, for any keys, contents and order of the hashes:
`MergeIsSymmetric` (both devices select the same state), `UnchangedYields` (an
unchanged side never wins over a changed one), `RetryKeepsTheWinner` (a sync that is done again after
it applied its merge selects the same), `MergeKeepsBothAlternatives` (both
alternatives of a conflict are in the history, while it has room). The first rests on
`TieBreakerDistinguishes`: ranks of distinct contents differ.

The second, for any devices, keys, contents, retries and failures:
`SyncTypeCorrect` (`TypeOK`, also for overlapping syncs), and
`NoRecordLeavesUnasked` (`DeletedOnlyIfAsked`, assuming `~Overlap`, with edits during
syncs and failures at every step). The property is about one step, which deletes a
record because the merged library has a tombstone; that no tombstone arises needs the
whole protocol. `IInv` says of a key nobody has deleted (`Alive`): no baseline,
file or working library has a tombstone of it; what a baseline has, the device,
the file and the working library have as well, so that neither `Snapshot` nor the merge
infers a deletion; and what the working library has, the device has once it is applied and the
file once it is saved, so that `Commit` keeps the former (`Keeps`). `Alone` is
where overlapping is excluded: one busy device, one file, and a sync that found
no file still finds none to overwrite. `MergeOfLiving` is the merge's share,
`NextAlive` has one step per action.

The third, for any devices, contents and retries, when syncs do not overlap
(`~Overlap`), nobody edits on a device that syncs (`~EditsWhileSyncing`) and no request
fails (`MaxFailures = 0`): `NoEditLost` (`NothingLost`, for finitely many keys, while the
conflict history has room), `NothingComesBack` (`NoRegress`) and `OnlyConcurrentConflict`
(`ConflictsAreConcurrent`). On one key, three contents and a clock of two, TLC finds each
of the three properties violated with one failure, each with overlapping syncs, and
the first two with edits during a sync; so the hypotheses are the conditions under which
the protocol keeps its promises, and the runs of the failures check what is left of
them. (Of the third property TLC finds no counterexample with edits during a sync
on that instance; the proof uses the hypothesis.) The inductive invariants, over `Types`
and `Alone`:

- `Orderly`, for all three: a sync that never failed was never done again and holds
  nothing at rest (`Quiet`); what it works with is the library it read, and once applied
  is in the store (`Sourced`); what a baseline has, the file has, and what the store or the
  file has, the merge has (`Covered`); at the commit the file is the library merged.
- `Secure` and `Accounted`, for `NothingLost`: a content that store or file
  had before the merge is in the merged library or its history, and one of a baseline in
  the file, unless a user edited or deleted it. A merge keeps both sides of a new
  conflict (`MergeKeepsBothAlternatives`) and, with room, the earlier findings: both
  are used here.
- `Descent`, for `NoRegress`: what the file has of a key and a device already knows of
  (`Known`: its content, that of its baseline, what its user dropped, and all those were made
  from) is what its baseline has (`FileIsNews`); a content of this device's user that was not
  synced is known to no other device or file (`OwnIsNews`); the merge selects one of the two,
  or a content nobody knows of (`MergeIsNews`); what it puts, the device does not know of
  (`PutIsNews`).
- `Asked` and `SoundHistories`, for the conflicts: a tombstone in the merge or the file, and a
  record that is missing on a device, stand for a deletion some user made.

The ancestors of a content are a recursive function. What it computes at every argument
is an induction, and the library's induction theorems cannot be instantiated; but
`WFMin` takes a set, and with the theorem that strict inclusion of finite sets is
well-founded it gives a least-element principle (`LeastSet`, `LeastNumber`), from which
`AncestorsBelow` and `AncestorsAppend` (a new content leaves the earlier ones'
ancestors as they were) follow by a least counterexample.

`SyncServiceProofs`, for any devices, tabs, requests and faults: `ServiceTypeCorrect`,
`LeaderAlone` (`OneLeader`), `TabsSyncAsOne` (the tabs implement `DriveSync`, assuming
`~TornMetadata`) and, by that refinement, `TabsDeleteOnlyIfAsked` (`DriveSync`'s theorem
holds of tabs). A page that leaves the line for the lock or joins it leaves its
head alone (`Release`, `Join`), and two pages of a device are not both its head
(`OneHolder`). Nearly every step has one of two shapes (`Apart`: a page moves and the library
does not; `Leads`: the leading page takes a step of its coordinator), which `UserSteps` and
`SyncSteps` establish and `ApartKeeps` and `LeadsKeeps` use, so that each
invariant is argued twice and not for twenty actions. For the refinement the invariant
needs `MetadataFresh`: what a disconnect has read and will write is the baseline
that is there, which is where `~TornMetadata` is used.

`InventoryProofs`, for every catalogue, file, container and maximum: `TypeCorrect`,
`PlacesRespected` (`OneThingPerPlace`) and `BondsLimited` (`BondsWithinLimit`). Like the runs, the
theorems speak of the requests that do not throw: a grip over another two-handed weapon is not one
of them. The
inductive invariant is `InvItems` (the items' types and places) with the bound on bonds;
each request is built from a few replacements of a record (`ReplaceIdle`, `AddFree`
and their like), each with a lemma, and each request has its own.

Four more theorems are about what belongs to the records: `WeaponsHaveRows`
(`RowsFollowWeapons`), `TreeFollowsItems` (`NodesFollowItems`), `SumFollows`
(`SumFollowsItems`) and `MovesKeepUnits` (`MovesConserve`). They assume that the content is `CatalogueSorted`, as
`equipLocationsFor`, `isAdornerElement` and the item editor's validation have it (a
weapon is held, an armor worn or held in the second hand, other gear has no location;
only gear stacks or holds other things; an adorner is gear and a base is not), that the files' records
are `Proper` (armor where armor goes, adorners over bases), and the first three that the requests
listed under `Excluded` are left out, without which TLC finds them violated. The instance of the
run satisfies all of it. The hypothesis on stacks is needed as well: joining drops the adorner of the
record that is moved, and the row of a weapon that joins a stack stays. The
inductive invariant is `GInv`. Its part about rows has to add that rows are those of
weapons, since unpacking and joining take records away and no row. Its part
about nodes (`Rooted`) is about the document ahead of the sweep, where `RewrittenRooted` says what an
edit planned on the document as it was may do: no two armors of one base go at
once (`OneThingPerPlace` is what makes sure), and none comes where its like goes.
`SweptRooted` is the sweep's share. `MovesConserve` compares sums over finite sets, which
the community modules compute by a recursive function on subsets. That such a function exists
(`SumsExist`), is the only one (`SumsUnique`) and yields the same total
whichever term is taken first (`SumWithout`) follows by a smallest counterexample, and then
`UnitsMoved` is arithmetic.

`SumFollows` says that the flat list of registered ids holds after every request what the rest
of the character registers, each base in use and all that the content conveyed brings, once
each and no more, though it is spliced by place and searched by id. Its hypotheses on content
are what `Catalogue` can say (no weapon or armor has content of its own) and `SumSorted`: an item's id is its own, content without a node grants nothing, and what a
magic weapon or armor grants comes from nothing else (without which the sum is wrong, see the
known limits); files are in order, or are so after their first sweep. The instance of the run
satisfies all of them. Sequences are counted as bags (`Count`, `Tally`). For what
the folds of `Purge`, the sweep and the insertions compute,
`FoldExists` gives the function a fold evaluates, and `PurgeCount`, `InsertCount` and
`JoinedCount` follow by a smallest counterexample. The inductive part is `Booked`: there is
wanted content for which sum, nodes and records agree (`Summed`), not yet what is wanted now. A
request's edit keeps that for the content wanted before it (`RewrittenSummed`, `HeldSummed`); the
sweep moves it to what is wanted now, since it takes out just what became stale
(`StaleCount`, `FlatCount`, `TakeCount`) and adds just what is missing (`SweptSummed`). `SummedFollows`
turns the agreement into equality of bags.

`CharacterBuildProofs`, for any library, characters to start from, levels and requests that
satisfy `CharacterAssumption`: `NoUnearnedPick` (`EarnedPicks`), `LevelsBounded` (never more
levels than `MAX_LEVEL`) and the inductive invariant both are drawn from, `CharacterSound`. A run
of three levels cannot show what lowering a class under seventeen others does; the theorem covers
it. `EarnedPicks` alone is not inductive: a document that an undo brings back, a record that
names a level, or a wrapper that offers one would break it one or several requests later. So
`CharacterInv` says, of the document and of the one an undo would restore (`SnapshotSound`), that the tree is
a sequence of nodes, level nodes at the top only and nothing else named like one, choices that offer
elements of the library only, every answer at a level there is, and at most `MAX_LEVEL` levels; and
of the records of both, that they name content and no level.

Where it could go wrong is the number of levels, which is counted and kept nowhere. Any graft
(`PlainGraft`) has to keep it: what goes away and what comes holds no level node (`Blanks`), which rests on
`None` and the identifiers of levels being none of the library's. Gaining a level adds one
node of a level; taking the newest back removes one only, though it cuts out whatever a
record finds in the tree; what the record finds cannot be another level, since it looks
under the class, or for nodes like those recorded. The answers above the level are
emptied (`WrappersAbove`) in the same step. The replay is the composition of such steps, and an
answer it makes again is tested by `CanSelect`. There is one lemma per operation on levels and one per
group of requests, put together in `CharacterSound`.

`CharacterAssumption` says that rules speak of elements of the library, that ids of levels are no
elements', and that the characters to start from are such trees with such records: those of
the shipped content, of new characters (which have one level and no answers) and of files the builder wrote. A
grant of an element the library does not have brings nothing in the code and is left out of the constants. TLC
evaluates the assumption on the run's instance.

Nearly everything here is a fold over rules, positions or records, or a pass taken again up to a
bound. `Iteration` has the induction these need: a module with a step and a predicate as
constants, whose theorems (`Climb`, `RunSteps`, `RunKeeps`, `FoldKeeps`) follow by a smallest counterexample,
and which `CharacterBuildProofs` instantiates once for each step with what that step keeps. So a
theorem with an operator for a parameter is had by `INSTANCE` where it cannot be cited.

What remains with TLC: liveness (`EveryCallSettles`, `OperationsEnd`,
`EditsGetStored`, `Converges`, `SyncsSettle`, `BusyEnds`, the fairness part of `CallsSpec`);
the session's four properties under content updates and removals, within the bounds of
`session_edits`; and what `CharacterBuild` says of tree, sum and records together (`TypeOK`, `RoundTrip`,
`SumFollowsTree`, `StillRemovable`, `SettledAfter`, `OneLevelOff`, `PicksKept`). These compare what
one walk over the tree writes with what another finds again, node by node and by path, and need the
library of the run besides: `SettledAfter`, for one, fails for rules that exclude one another in turn.

## Not modelled, and why

- statistics, magic, ability scores, hit points, details, spell slots: sequential
  computations or counters of single requests, compared with reference sheets by the tests;
- the content library, its parser and the custom compiler: data, translated without concurrency;
  the models take the rules of elements as given (without list choices, companions, nested corpus elements
  and class-level requirements);
- in building and inventory besides: the registered count, source restrictions, reconstruction of level
  records for opened files, `levelUpTo`, experience, coins, item cards and weights, custom items,
  weapons and armor with content of their own, the list of containers, edited attack rows;
- content files as records: checking, storing and rolling back imports, duplicate sources, fast-start and character
  snapshots, and their application in a sync;
- reading the link when a page opens, account, summary and error texts of the sync service, upload sessions and
  paging of the Drive client, browsers without Web Locks;
- portraits, summaries and progress events of the session, creation and duplication of characters;
- the user interface and the virtual tabletop: view state only;
- scripts, build configuration, bundled content, sheets' geometry, PDF and document output: data or pure
  formatting.

Most of the repository's lines are of the last kinds: forms and views, sheet
and PDF layout, parsing, and tables of content. They have no state that outlives a
call and no order to get wrong, and a model of them would repeat them line by
line; the share of lines that has a definition here is small for that reason.

## Plan

Done: `EngineQueue`, `EngineCalls`, `Dispatcher`; `CharacterSession` with the content
update; `LibraryMerge`, `DriveSync`, `SyncService`; `Registration`, `Selection`, `Leveling`,
`CharacterBuild`; `Inventory`; and the proofs above. Next:

1. `SumFollowsTree` and `RoundTrip` as theorems over `CharacterInv`, under hypotheses on the library
   that exclude an element shown twice.
2. `ContentLibrary`: the engine's uploads, the page's `liveUploadedFiles` and the stored records
   through imports, removals and rollbacks, the rebuild, and fast-start snapshots by content
   revision; the application of content in a sync.
3. An abstract library (each device's records, agreed from time to time) that
   `DriveSync` without overlap implements.
4. Statistics as a pure fixpoint checked against a reference definition.
