----------------------------- MODULE DriveSync -----------------------------
(* Devices that edit a library and synchronise it through one Google Drive   *)
(* account (apps/client/src/cloud/driveSyncCoordinator.js, libraryStore.js). *)
(*                                                                           *)
(* A device's library is its IndexedDB; `baseline` is what its last sync     *)
(* left in the meta store. A sync reads the library, finds and downloads the *)
(* newest library file, merges, applies the result to the library record by  *)
(* record, looks whether the file has changed since it was found, saves the  *)
(* result and then commits the baseline; each is a request or a transaction, *)
(* and other devices act in between. The library is one collection that      *)
(* applySimpleCollection applies (characters or homebrew).                   *)
EXTENDS LibraryMerge, Sequences

CONSTANTS Devices,
          maxRemoteRetries, \* DEFAULT_MAX_REMOTE_RETRIES
          SharedAtStart,    \* whether the devices begin with a synced record
          Overlap,          \* whether two devices may sync at the same time
          EditsWhileSyncing,\* whether the user may edit on a syncing device
          MaxFailures,      \* bound: syncs that fail, or whose page is closed
          MaxTime           \* bound: the clock

ASSUME SyncAssumption ==
  /\ maxRemoteRetries \in Nat /\ MaxTime \in Nat
  /\ SharedAtStart \subseteq BOOLEAN
  /\ Overlap \in BOOLEAN /\ EditsWhileSyncing \in BOOLEAN /\ MaxFailures \in Nat
  /\ 1 \in Docs

VARIABLES store,    \* the records of each device
          baseline, \* the manifest of each device's last sync, or nothing
          sync,     \* the sync each device runs
          drive,    \* the library files of the account; a file's id is its place
          newest,   \* the file most recently modified
          now,      \* the time, which the devices agree on
          failures, \* how many syncs have failed
          over,     \* history: the contents made, and which each was made from
          dropped   \* history: the contents each device's user deleted

vars == <<store, baseline, sync, drive, newest, now, failures, over, dropped>>

NoFile == 0
Nothing == [k \in Keys |-> Absent]
NoLibrary == [of |-> Nothing, conflicts |-> {}, generatedAt |-> 0]

\* moved: the file has another version than when it was found.
Resting == [pc |-> "idle", attempt |-> 0, file |-> NoFile, moved |-> FALSE,
            library |-> NoLibrary, todo |-> {}]

Init ==
  /\ now = 1 /\ failures = 0 /\ sync = [d \in Devices |-> Resting]
  /\ dropped = [d \in Devices |-> [k \in Keys |-> {}]]
  /\ \/ /\ FALSE \in SharedAtStart
        /\ store = [d \in Devices |-> Nothing] /\ baseline = [d \in Devices |-> Nothing]
        /\ drive = <<>> /\ newest = NoFile /\ over = <<>>
     \/ /\ TRUE \in SharedAtStart
        /\ \E k \in Keys :
             LET library == [NoLibrary EXCEPT !.of[k] = Record(1, 1)]
             IN  /\ store = [d \in Devices |-> library.of]
                 /\ baseline = [d \in Devices |-> createLibraryManifest(library)]
                 /\ drive = <<library>> /\ newest = 1
        /\ over = <<NoDoc>>

----------------------------------------------------------------------------
\* The user. A store holds a record or nothing for each key.

MayEdit(d) == EditsWhileSyncing \/ sync[d].pc = "idle"

\* putCharacter or putHomebrew, of a new content.
Edit(d, k) ==
  /\ MayEdit(d)
  /\ Len(over) + 1 \in Docs
  /\ over' = Append(over, store[d][k].doc)
  /\ store' = [store EXCEPT ![d][k] = Record(Len(over) + 1, now)]
  /\ UNCHANGED <<baseline, sync, drive, newest, now, failures, dropped>>

\* deleteCharacter or deleteHomebrew.
Delete(d, k) ==
  /\ MayEdit(d) /\ store[d][k] # Absent
  /\ store' = [store EXCEPT ![d][k] = Absent]
  /\ dropped' = [dropped EXCEPT ![d][k] = @ \cup {store[d][k].doc}]
  /\ UNCHANGED <<baseline, sync, drive, newest, now, failures, over>>

Tick == now < MaxTime /\ now' = now + 1
        /\ UNCHANGED <<store, baseline, sync, drive, newest, failures, over, dropped>>

----------------------------------------------------------------------------
\* synchronizeDriveLibrary.

Step(d, from, to) ==
  sync[d].pc = from /\ sync' = [sync EXCEPT ![d].pc = to]

Begin(d) ==
  /\ Overlap \/ \A e \in Devices : sync[e].pc = "idle"
  /\ Step(d, "idle", "read")
  /\ UNCHANGED <<store, baseline, drive, newest, now, failures, over, dropped>>

\* readSnapshot with inferredTombstones: a record of the baseline that is gone
\* was deleted now; a tombstone of the baseline stays unless the key lives.
Snapshot(d) ==
  Library([k \in Keys |-> IF store[d][k] # Absent THEN store[d][k]
                          ELSE effectiveState(Absent, baseline[d][k], now)], {}, now)

ReadLocal(d) ==
  /\ sync[d].pc = "read"
  /\ sync' = [sync EXCEPT ![d].pc = "find", ![d].library = Snapshot(d)]
  /\ UNCHANGED <<store, baseline, drive, newest, now, failures, over, dropped>>

\* findManagedLibrary: the most recently modified file, if there is one.
Find(d) ==
  /\ sync[d].pc = "find"
  /\ sync' = [sync EXCEPT ![d].pc = IF newest = NoFile THEN "apply" ELSE "download",
                          ![d].file = newest, ![d].moved = FALSE]
  /\ UNCHANGED <<store, baseline, drive, newest, now, failures, over, dropped>>

Download(d) ==
  /\ sync[d].pc = "download"
  /\ sync' = [sync EXCEPT ![d].pc = "apply", ![d].library =
       mergeLibrarySnapshots(@, drive[sync[d].file], baseline[d], now)]
  /\ UNCHANGED <<store, baseline, drive, newest, now, failures, over, dropped>>

\* Fault: tombstones are not applied.
ChangedKeysLive(d) ==
  {k \in Keys : sync[d].library.of[k].kind = "record"
                /\ store[d][k].doc # sync[d].library.of[k].doc}

\* changedKeys, and the tombstones of records the device has.
ChangedKeys(d) ==
  {k \in Keys : sync[d].library.of[k] # Absent
                /\ store[d][k].doc # sync[d].library.of[k].doc}

\* applySnapshot reads the device's library again and finds what to write.
BeginApply(d) ==
  /\ sync[d].pc = "apply"
  /\ sync' = [sync EXCEPT ![d].pc = "put", ![d].todo = ChangedKeys(d)]
  /\ UNCHANGED <<store, baseline, drive, newest, now, failures, over, dropped>>

\* Deletions first; a record that is put takes the time of the device.
Apply(d, k) ==
  LET state == sync[d].library.of[k]
  IN  /\ sync[d].pc = "put" /\ k \in sync[d].todo
      /\ state.kind = "record" =>
           \A j \in sync[d].todo : sync[d].library.of[j].kind = "record"
      /\ store' = [store EXCEPT ![d][k] =
                     IF state.kind = "record" THEN Record(state.doc, now) ELSE Absent]
      /\ sync' = [sync EXCEPT ![d].todo = @ \ {k}]
      /\ UNCHANGED <<baseline, drive, newest, now, failures, over, dropped>>

Applied(d) ==
  /\ sync[d].todo = {} /\ Step(d, "put", "check")
  /\ UNCHANGED <<store, baseline, drive, newest, now, failures, over, dropped>>

\* Fault: a sync tries once more than it should.
CheckAgain(d) ==
  /\ sync[d].pc = "check"
  /\ sync' = [sync EXCEPT ![d] =
       IF ~@.moved THEN [@ EXCEPT !.pc = "save"]
       ELSE IF @.attempt <= maxRemoteRetries
       THEN [Resting EXCEPT !.pc = "read", !.attempt = sync[d].attempt + 1]
       ELSE Resting]
  /\ UNCHANGED <<store, baseline, drive, newest, now, failures, over, dropped>>

\* getFileMetadata: if the file has another version by now, the sync starts
\* again or, after maxRemoteRetries, ends with DriveLibraryChangedError.
Check(d) ==
  /\ sync[d].pc = "check"
  /\ sync' = [sync EXCEPT ![d] =
       IF ~@.moved THEN [@ EXCEPT !.pc = "save"]
       ELSE IF @.attempt < maxRemoteRetries
       THEN [Resting EXCEPT !.pc = "read", !.attempt = sync[d].attempt + 1]
       ELSE Resting]
  /\ UNCHANGED <<store, baseline, drive, newest, now, failures, over, dropped>>

\* saveLibrary: the file that was found gets the merged library, or a new file
\* is made. Another device that has found the file will see it has moved.
Save(d) ==
  LET file == IF sync[d].file = NoFile THEN Len(drive) + 1 ELSE sync[d].file
  IN  /\ sync[d].pc = "save"
      /\ drive' = IF sync[d].file = NoFile THEN Append(drive, sync[d].library)
                  ELSE [drive EXCEPT ![file] = sync[d].library]
      /\ newest' = file
      /\ sync' = [e \in Devices |->
           IF e = d THEN [sync[d] EXCEPT !.pc = "commit"]
           ELSE [sync[e] EXCEPT !.moved = @ \/ sync[e].file = file]]
      /\ UNCHANGED <<store, baseline, now, failures, over, dropped>>

\* Fault: the baseline of the first sync is kept.
CommitFirst(d) ==
  /\ sync[d].pc = "commit"
  /\ baseline' = IF baseline[d] # Nothing THEN baseline
                 ELSE [baseline EXCEPT ![d] = createLibraryManifest(sync[d].library)]
  /\ sync' = [sync EXCEPT ![d] = Resting]
  /\ UNCHANGED <<store, drive, newest, now, failures, over, dropped>>

\* putMeta.
Commit(d) ==
  /\ sync[d].pc = "commit"
  /\ baseline' = [baseline EXCEPT ![d] = createLibraryManifest(sync[d].library)]
  /\ sync' = [sync EXCEPT ![d] = Resting]
  /\ UNCHANGED <<store, drive, newest, now, failures, over, dropped>>

\* A request fails, the authorisation expires, the store refuses a write or the
\* page is closed: the sync ends where it is. (That a save was done and its
\* answer lost is a failure before the commit.)
Fail(d) ==
  /\ failures < MaxFailures /\ failures' = failures + 1
  /\ sync[d].pc # "idle"
  /\ sync' = [sync EXCEPT ![d] = Resting]
  /\ UNCHANGED <<store, baseline, drive, newest, now, over, dropped>>

----------------------------------------------------------------------------
Synchronize(d) ==
  \/ ReadLocal(d) \/ Find(d) \/ Download(d) \/ BeginApply(d)
  \/ \E k \in Keys : Apply(d, k)
  \/ Applied(d) \/ Check(d) \/ Save(d) \/ Commit(d)

Next ==
  \/ \E d \in Devices, k \in Keys : Edit(d, k) \/ Delete(d, k)
  \/ \E d \in Devices : Begin(d) \/ Synchronize(d) \/ Fail(d)
  \/ Tick

Spec == Init /\ [][Next]_vars

\* A sync that has begun goes on (its requests are answered or fail).
Progress == \A d \in Devices : WF_vars(Synchronize(d))
ProgressSpec == Spec /\ Progress

\* Besides, every device syncs again and again.
FairSpec == ProgressSpec /\ \A d \in Devices : SF_vars(Begin(d))

----------------------------------------------------------------------------
Made == 1..Len(over)
PcNames == {"idle", "read", "find", "download", "apply", "put", "check", "save", "commit"}

TypeOK ==
  /\ \A d \in Devices, k \in Keys :
       /\ store[d][k] \in State /\ store[d][k].kind # "deleted"
       /\ baseline[d][k] \in State
  /\ \A d \in Devices :
       /\ sync[d].pc \in PcNames /\ sync[d].attempt \in 0..maxRemoteRetries
       /\ sync[d].todo \subseteq Keys
       /\ sync[d].file \in 0..Len(drive) /\ sync[d].moved \in BOOLEAN
       /\ \A k \in Keys : sync[d].library.of[k] \in State
  /\ newest \in 0..Len(drive) /\ (newest = NoFile <=> drive = <<>>)
  /\ \A i \in DOMAIN drive, k \in Keys : drive[i].of[k] \in State
  /\ now \in Nat /\ failures \in 0..MaxFailures /\ Made \subseteq Docs

\* The contents doc was made from, one after another.
Ancestors[doc \in Nat] ==
  IF doc \notin Made \/ over[doc] = NoDoc THEN {} ELSE {over[doc]} \cup Ancestors[over[doc]]
Lineage(doc) == Ancestors[doc] \cup {doc}
AllDropped == UNION {dropped[d][k] : d \in Devices, k \in Keys}

\* What the library file in use, or the merge a sync is about to save, keeps.
Libraries == {sync[d].library : d \in Devices} \cup
             (IF newest = NoFile THEN {} ELSE {drive[newest]})
Kept(library) == {library.of[k].doc : k \in Keys} \cup
                 {s.doc : s \in UNION {c.alternatives : c \in library.conflicts}}

\* No edit is lost: a content a user made is on some device, in the library file
\* or in its conflict history, unless a user edited or deleted that content.
NothingLost ==
  \A doc \in Made :
    \/ \E e \in Made : over[e] = doc
    \/ doc \in AllDropped
    \/ \E d \in Devices, k \in Keys : store[d][k].doc = doc
    \/ \E library \in Libraries : doc \in Kept(library)

\* A sync never puts a content in place of one that was made from it, nor one
\* that this device's user edited or deleted.
NoRegress ==
  [][\A d \in Devices, k \in Keys :
       LET old == store[d][k].doc
           new == store'[d][k].doc
       IN  new \notin {NoDoc, old} =>
             /\ old # NoDoc => new \notin Ancestors[old]
             /\ \A gone \in dropped[d][k] : new \notin Lineage(gone)]_store

\* A record goes from a device only if a user, of that device or another, has
\* deleted it: a key that a library merely lacks is not taken for deleted.
DeletedOnlyIfAsked ==
  [][\A d \in Devices, k \in Keys :
       store[d][k] # Absent /\ store'[d][k] = Absent => \E e \in Devices : dropped'[e][k] # {}]_store

\* A conflict is recorded only for contents made independently: neither was made
\* from the other, nor is one the deletion of the other.
ConflictsAreConcurrent ==
  \A library \in Libraries : \A c \in library.conflicts : \A a, b \in c.alternatives :
    /\ a.kind = "record" /\ b.kind = "record" => a.doc \notin Ancestors[b.doc]
    /\ a.kind = "record" /\ b.kind = "deleted" =>
         \E gone \in AllDropped : a.doc \notin Lineage(gone)

\* A sync ends, though other devices may save again and again while it runs.
SyncsEnd == \A d \in Devices : sync[d].pc # "idle" ~> sync[d].pc = "idle"

\* When the edits stop, the devices come to agree, and the file with them.
Agreed ==
  \A d \in Devices, k \in Keys :
    newest # NoFile /\ store[d][k].doc = drive[newest].of[k].doc
Converges == <>[]Agreed
=============================================================================
