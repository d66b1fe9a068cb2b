-------------------------- MODULE DriveSyncProofs --------------------------
(* Proofs about DriveSync for any devices, keys and contents, any number of  *)
(* retries and of failures. First what the three-way merge promises for      *)
(* every record, baseline and clock (apps/client/src/cloud/                  *)
(* librarySnapshot.js); then the types, and that a sync that does not        *)
(* overlap another deletes no record that nobody deleted; then, when syncs   *)
(* run one at a time to their end and no user edits the device that syncs,   *)
(* that no edit is lost while the conflict history has room, no content is   *)
(* put in place of a later one, and only concurrent changes are taken for    *)
(* conflicts.                                                                *)
EXTENDS DriveSync, FiniteSetTheorems, WellFoundedInduction, TLAPS

----------------------------------------------------------------------------
(* The three-way merge.                                                      *)

LEMMA StateKinds ==
  ASSUME NEW s \in State
  PROVE  /\ s.kind \in {"record", "deleted", "absent"}
         /\ s.kind = "record" => s.doc \in Docs
  BY DEF State, Absent

\* What stateTieBreaker tells apart is what semanticallyEqual tells apart.
LEMMA TieBreakerDistinguishes ==
  ASSUME NEW left \in State, NEW right \in State
  PROVE  /\ stateTieBreaker(left) \in Int
         /\ stateTieBreaker(left) = stateTieBreaker(right) <=> semanticallyEqual(left, right)
<1>1. \A d \in Docs : Rank[d] \in Int /\ Rank[d] > 0
  BY MergeAssumption
<1>2. \A d, e \in Docs : Rank[d] = Rank[e] => d = e
  BY MergeAssumption
<1>3. QED
  BY <1>1, <1>2, StateKinds DEF stateTieBreaker, semanticallyEqual

LEMMA EqualityIsEquivalence ==
  ASSUME NEW a \in State, NEW b \in State, NEW c \in State
  PROVE  /\ semanticallyEqual(a, a)
         /\ semanticallyEqual(a, b) => semanticallyEqual(b, a)
         /\ semanticallyEqual(a, b) /\ semanticallyEqual(b, c) => semanticallyEqual(a, c)
  BY DEF semanticallyEqual

LEMMA StateTimes == \A s \in State : s.at \in Int
  BY MergeAssumption DEF State, Absent

\* The newest of two states is one of them, and the same one from either side.
LEMMA NewestIsSymmetric ==
  ASSUME NEW left \in State, NEW right \in State
  PROVE  /\ newestState(left, right) \in {left, right}
         /\ semanticallyEqual(newestState(left, right), newestState(right, left))
<1>1. newestState(left, right) \in {left, right}
  BY DEF newestState
<1>2. CASE left.at # right.at
  BY <1>1, <1>2, StateTimes, EqualityIsEquivalence DEF newestState
<1>3. CASE left.at = right.at /\ stateTieBreaker(left) = stateTieBreaker(right)
  BY <1>1, <1>3, TieBreakerDistinguishes, EqualityIsEquivalence DEF newestState
<1>4. CASE left.at = right.at /\ stateTieBreaker(left) # stateTieBreaker(right)
  <2>1. newestState(left, right) = newestState(right, left)
    BY <1>4, TieBreakerDistinguishes DEF newestState
  <2>2. QED BY <1>1, <2>1, EqualityIsEquivalence
<1>5. QED BY <1>1, <1>2, <1>3, <1>4

LEMMA SelectedIsASide ==
  ASSUME NEW base, NEW local \in State, NEW remote \in State
  PROVE  selected(base, local, remote) \in {local, remote}
  BY NewestIsSymmetric DEF selected

\* Two devices that merge the same two states, each as its own side, select the
\* same content: the merge does not depend on which device does it.
THEOREM MergeIsSymmetric ==
  ASSUME NEW base \in State, NEW local \in State, NEW remote \in State
  PROVE  semanticallyEqual(selected(base, local, remote), selected(base, remote, local))
  BY NewestIsSymmetric, EqualityIsEquivalence DEF selected

\* A side that has not changed since the base yields to the other side,
\* whatever the clocks of the two devices say.
THEOREM UnchangedYields ==
  ASSUME NEW base \in State, NEW local \in State, NEW remote \in State
  PROVE  /\ ~Changed(local, base) =>
              semanticallyEqual(selected(base, local, remote), remote)
         /\ ~Changed(remote, base) =>
              semanticallyEqual(selected(base, local, remote), local)
<1>1. CASE ~Changed(local, base) /\ ~Changed(remote, base)
  <2>1. semanticallyEqual(local, remote) /\ semanticallyEqual(remote, local)
    BY <1>1, EqualityIsEquivalence DEF Changed
  <2>2. QED BY <2>1, SelectedIsASide, EqualityIsEquivalence
<1>2. CASE ~Changed(local, base) /\ Changed(remote, base)
  BY <1>2, EqualityIsEquivalence DEF selected
<1>3. CASE Changed(local, base)
  BY <1>3, EqualityIsEquivalence DEF selected
<1>4. QED BY <1>1, <1>2, <1>3

\* A sync that applied its merge and then failed is done again: against the same
\* file and the same base, with the record it wrote and the later time the
\* store gave it, the merge selects the same content again.
THEOREM RetryKeepsTheWinner ==
  ASSUME NEW base \in State, NEW local \in State, NEW remote \in State,
         NEW applied \in State,
         semanticallyEqual(applied, selected(base, local, remote)),
         applied.at >= selected(base, local, remote).at
  PROVE  semanticallyEqual(selected(base, applied, remote), applied)
<1> DEFINE winner == selected(base, local, remote)
<1>1. winner \in {local, remote}
  BY SelectedIsASide
<1>2. CASE semanticallyEqual(winner, remote)
  <2>1. semanticallyEqual(remote, applied)
    BY <1>1, <1>2, EqualityIsEquivalence
  <2>2. QED BY <2>1, SelectedIsASide, EqualityIsEquivalence
<1>3. CASE ~semanticallyEqual(winner, remote)
  <2>1. winner = local /\ Changed(local, base)
    BY <1>1, <1>3, UnchangedYields, EqualityIsEquivalence
  <2>2. Changed(applied, base)
    BY <2>1, EqualityIsEquivalence DEF Changed
  <2>3. CASE ~Changed(remote, base)
    BY <2>2, <2>3, EqualityIsEquivalence DEF selected
  <2>4. CASE Changed(remote, base)
    <3>1. winner = newestState(local, remote)
      BY <2>1, <2>4 DEF selected
    <3>2. \/ local.at > remote.at
          \/ local.at = remote.at /\ stateTieBreaker(local) >= stateTieBreaker(remote)
      BY <1>3, <2>1, <3>1, StateTimes, TieBreakerDistinguishes, EqualityIsEquivalence DEF newestState
    <3>3. stateTieBreaker(applied) = stateTieBreaker(local) /\ applied.at >= local.at
      BY <2>1, TieBreakerDistinguishes
    <3>4. newestState(applied, remote) = applied
      BY <3>2, <3>3, StateTimes, TieBreakerDistinguishes DEF newestState
    <3>5. QED BY <2>2, <2>4, <3>4, EqualityIsEquivalence DEF selected
  <2>5. QED BY <2>3, <2>4
<1>4. QED BY <1>2, <1>3

\* The conflict history, while it is within its limit, loses the finding of no
\* conflict that is at least as new as the others.
LEMMA HistoryKeepsTheNewest ==
  ASSUME NEW conflicts, IsFiniteSet(conflicts), Cardinality(conflicts) <= ConflictLimit,
         NEW c \in conflicts, \A d \in conflicts : d.detectedAt <= c.detectedAt
  PROVE  c \in sortConflictHistory(conflicts)
<1> DEFINE once == {x \in conflicts : \A d \in conflicts :
              d.key = x.key /\ d.alternatives = x.alternatives => d.detectedAt <= x.detectedAt}
<1>1. c \in once
  OBVIOUS
<1>2. Cardinality(once) <= ConflictLimit
  <2>1. once \subseteq conflicts
    OBVIOUS
  <2>2. Cardinality(once) <= Cardinality(conflicts) /\ Cardinality(once) \in Nat
        /\ Cardinality(conflicts) \in Nat
    BY <2>1, FS_Subset, FS_CardinalityType
  <2>3. QED BY <2>2, MergeAssumption
<1>3. sortConflictHistory(conflicts) = once
  BY <1>2 DEF sortConflictHistory
<1>4. QED BY <1>1, <1>3

LEMMA UnionAtMost ==
  ASSUME NEW S, NEW T, IsFiniteSet(S), IsFiniteSet(T)
  PROVE  /\ IsFiniteSet(S \cup T)
         /\ Cardinality(S \cup T) <= Cardinality(S) + Cardinality(T)
<1>1. IsFiniteSet(S \cap T) /\ Cardinality(S \cap T) \in Nat
  BY FS_Intersection, FS_CardinalityType
<1>2. Cardinality(S) \in Nat /\ Cardinality(T) \in Nat
  BY FS_CardinalityType
<1>3. /\ IsFiniteSet(S \cup T)
      /\ Cardinality(S \cup T) = Cardinality(S) + Cardinality(T) - Cardinality(S \cap T)
  BY FS_Union
<1> DEFINE a == Cardinality(S)  b == Cardinality(T)  c == Cardinality(S \cap T)
<1> HIDE DEF a, b, c
<1>4. a + b - c <= a + b
  BY <1>1, <1>2 DEF a, b, c
<1>5. QED BY <1>3, <1>4 DEF a, b, c

\* A merge keeps both alternatives of every conflict it finds, as long as the
\* history is within its limit: choosing a winner loses no edit.
THEOREM MergeKeepsBothAlternatives ==
  ASSUME NEW local, NEW remote, NEW base, NEW when \in Nat, NEW k \in Keys,
         IsFiniteSet(Keys), IsFiniteSet(local.conflicts), IsFiniteSet(remote.conflicts),
         \A c \in local.conflicts \cup remote.conflicts : c.detectedAt <= when,
         Cardinality(local.conflicts) + Cardinality(remote.conflicts) + Cardinality(Keys)
           <= ConflictLimit
  PROVE  LET l == effectiveState(local.of[k], base[k], local.generatedAt)
             r == effectiveState(remote.of[k], base[k], remote.generatedAt)
         IN  Conflicting(base[k], l, r) =>
               \E c \in mergeLibrarySnapshots(local, remote, base, when).conflicts :
                 c.key = k /\ c.alternatives = {l, r}
<1> DEFINE L == [j \in Keys |-> effectiveState(local.of[j], base[j], local.generatedAt)]
           R == [j \in Keys |-> effectiveState(remote.of[j], base[j], remote.generatedAt)]
           Found == {x \in Keys : Conflicting(base[x], L[x], R[x])}
           Finding(x) == [key |-> x, alternatives |-> {L[x], R[x]}, detectedAt |-> when]
           new == {Finding(x) : x \in Found}
           all == local.conflicts \cup remote.conflicts \cup new
<1>1. SUFFICES ASSUME Conflicting(base[k], L[k], R[k])
               PROVE  \E c \in mergeLibrarySnapshots(local, remote, base, when).conflicts :
                        c.key = k /\ c.alternatives = {L[k], R[k]}
  OBVIOUS
<1>2. mergeLibrarySnapshots(local, remote, base, when).conflicts = sortConflictHistory(all)
  BY DEF mergeLibrarySnapshots, Library
<1>3. Finding(k) \in all
  BY <1>1
<1>4. IsFiniteSet(all) /\ Cardinality(all) <= ConflictLimit
  <2>1. IsFiniteSet(Found) /\ Cardinality(Found) <= Cardinality(Keys)
    BY FS_Subset
  <2>2. IsFiniteSet(new) /\ Cardinality(new) <= Cardinality(Found)
    <3> DEFINE f == [x \in Found |-> Finding(x)]
    <3>1. f \in Surjection(Found, new)
      BY DEF Surjection
    <3>2. QED BY <2>1, <3>1, FS_Surjection
  <2> HIDE DEF new, Found
  <2>3. /\ IsFiniteSet(local.conflicts \cup remote.conflicts)
        /\ Cardinality(local.conflicts \cup remote.conflicts)
             <= Cardinality(local.conflicts) + Cardinality(remote.conflicts)
    BY UnionAtMost
  <2>4. /\ IsFiniteSet(all)
        /\ Cardinality(all) <= Cardinality(local.conflicts \cup remote.conflicts) + Cardinality(new)
    BY <2>2, <2>3, UnionAtMost
  <2>5. QED
    BY <2>1, <2>2, <2>3, <2>4, FS_CardinalityType, MergeAssumption
<1>5. \A d \in all : d.detectedAt <= Finding(k).detectedAt
  <2>1. ASSUME NEW d \in new PROVE d.detectedAt = when
    <3>1. PICK x \in Found : d = Finding(x)
      OBVIOUS
    <3>2. QED BY <3>1
  <2>2. Finding(k).detectedAt = when
    OBVIOUS
  <2> HIDE DEF new, Finding
  <2>3. QED BY <2>1, <2>2
<1> HIDE DEF all
<1>6. Finding(k) \in sortConflictHistory(all)
  BY <1>3, <1>4, <1>5, HistoryKeepsTheNewest
<1>7. QED BY <1>2, <1>6

----------------------------------------------------------------------------
(* The types, and what a sync may delete.                                    *)

ConflictEntry == [key : Keys, alternatives : SUBSET State, detectedAt : Nat]
LibraryDoc == [of : [Keys -> State], conflicts : SUBSET ConflictEntry, generatedAt : Nat]
SyncState == [pc : PcNames, attempt : 0..maxRemoteRetries, file : Nat, moved : BOOLEAN,
              library : LibraryDoc, todo : SUBSET Keys]
Held == {s \in State : s.kind # "deleted"}

\* The types, in full: TypeOK with the domains of the functions and the records.
StoreTypes ==
  /\ store \in [Devices -> [Keys -> Held]]
  /\ baseline \in [Devices -> [Keys -> State]]
  /\ dropped \in [Devices -> [Keys -> SUBSET Docs]]

SyncTypes ==
  /\ sync \in [Devices -> SyncState]
  /\ \A d \in Devices : sync[d].file \in 0..Len(drive)
                        /\ (sync[d].pc = "download" => sync[d].file # NoFile)

DriveTypes ==
  /\ drive \in Seq(LibraryDoc)
  /\ newest \in 0..Len(drive) /\ (newest = NoFile <=> drive = <<>>)

CounterTypes ==
  /\ now \in Nat /\ failures \in 0..MaxFailures
  /\ over \in Seq(Docs \cup {NoDoc}) /\ Made \subseteq Docs

Types == StoreTypes /\ SyncTypes /\ DriveTypes /\ CounterTypes

\* When no two devices sync at once, one device is busy at most, there is one
\* file at most, and a sync that found none still has none to overwrite.
Busy(d) == sync[d].pc # "idle"
Merged == {"apply", "put", "check", "save"}
Working(s) ==
  /\ s.pc \in Merged /\ s.file = NoFile => drive = <<>>
  /\ s.pc = "commit" => drive # <<>>
  /\ s.pc = "put" => \A k \in s.todo : s.library.of[k] # Absent

Alone ==
  /\ \A d, e \in Devices : Busy(d) /\ Busy(e) => d = e
  /\ Len(drive) <= 1
  /\ \A d \in Devices : Working(sync[d])

\* A key that no user has deleted has no tombstone anywhere; what a baseline has
\* of it, the device, the file and the library a sync works on have as well; and
\* what that library has of it, the device has once it is applied.
Untouched(k) == \A d \in Devices : dropped[d][k] = {}
Has(state) == state.kind = "record"
InDrive(k) == drive # <<>> /\ Has(drive[1].of[k])

Keeps(d, s, k) ==
  /\ s.library.of[k].kind # "deleted"
  /\ s.pc \notin {"idle", "read"} /\ Has(baseline[d][k]) => Has(s.library.of[k])
  /\ s.pc \in Merged /\ InDrive(k) => Has(s.library.of[k])
  /\ s.pc = "put" /\ Has(s.library.of[k]) => k \in s.todo \/ Has(store[d][k])
  /\ s.pc \in {"check", "save", "commit"} /\ Has(s.library.of[k]) => Has(store[d][k])
  /\ s.pc = "commit" /\ Has(s.library.of[k]) => InDrive(k)

Alive(k) ==
  /\ drive # <<>> => drive[1].of[k].kind # "deleted"
  /\ \A d \in Devices :
       /\ baseline[d][k].kind # "deleted"
       /\ Has(baseline[d][k]) => Has(store[d][k]) /\ InDrive(k)
       /\ Keeps(d, sync[d], k)

IInv == Types /\ Alone /\ \A k \in Keys : Untouched(k) => Alive(k)

USE MergeAssumption, SyncAssumption

----------------------------------------------------------------------------
\* Types of what the actions compute.

LEMMA StateForms ==
  /\ Absent \in Held /\ NoLibrary \in LibraryDoc /\ Nothing \in [Keys -> State]
  /\ \A doc \in Docs, at \in Nat : Record(doc, at) \in Held /\ Has(Record(doc, at))
  /\ \A at \in Nat : Tombstone(at) \in State
  /\ ~Has(Absent) /\ Absent.kind # "deleted"
  BY DEF State, Held, Record, Tombstone, Absent, Has, NoLibrary, LibraryDoc, Nothing, NoDoc

LEMMA EffectiveType ==
  ASSUME NEW s \in State, NEW b \in State, NEW t \in Nat
  PROVE  effectiveState(s, b, t) \in State
  BY StateForms DEF effectiveState

LEMMA HistoryType ==
  ASSUME NEW conflicts \in SUBSET ConflictEntry
  PROVE  sortConflictHistory(conflicts) \in SUBSET ConflictEntry
  BY DEF sortConflictHistory

LEMMA LibraryType ==
  ASSUME NEW of \in [Keys -> State], NEW conflicts \in SUBSET ConflictEntry, NEW t \in Nat
  PROVE  Library(of, conflicts, t) \in LibraryDoc
  BY HistoryType DEF Library, LibraryDoc

LEMMA MergeType ==
  ASSUME NEW local \in LibraryDoc, NEW remote \in LibraryDoc,
         NEW base \in [Keys -> State], NEW t \in Nat
  PROVE  mergeLibrarySnapshots(local, remote, base, t) \in LibraryDoc
<1> DEFINE l == [k \in Keys |-> effectiveState(local.of[k], base[k], local.generatedAt)]
           r == [k \in Keys |-> effectiveState(remote.of[k], base[k], remote.generatedAt)]
           new == {[key |-> k, alternatives |-> {l[k], r[k]}, detectedAt |-> t] :
                     k \in {x \in Keys : Conflicting(base[x], l[x], r[x])}}
<1>1. l \in [Keys -> State] /\ r \in [Keys -> State]
  BY EffectiveType DEF LibraryDoc
<1>2. new \in SUBSET ConflictEntry
  <2> SUFFICES ASSUME NEW k \in Keys
               PROVE  [key |-> k, alternatives |-> {l[k], r[k]}, detectedAt |-> t] \in ConflictEntry
    OBVIOUS
  <2> HIDE DEF l, r
  <2> QED BY <1>1 DEF ConflictEntry
<1>3. [k \in Keys |-> selected(base[k], l[k], r[k])] \in [Keys -> State]
  <2> HIDE DEF l, r
  <2> QED BY <1>1, SelectedIsASide
<1>4. local.conflicts \cup remote.conflicts \cup new \in SUBSET ConflictEntry
  BY <1>2 DEF LibraryDoc
<1>5. mergeLibrarySnapshots(local, remote, base, t) =
        Library([k \in Keys |-> selected(base[k], l[k], r[k])],
                local.conflicts \cup remote.conflicts \cup new, t)
  BY DEF mergeLibrarySnapshots
<1> HIDE DEF l, r, new
<1>6. QED BY <1>3, <1>4, <1>5, LibraryType

LEMMA ManifestType ==
  ASSUME NEW library \in LibraryDoc
  PROVE  /\ createLibraryManifest(library) \in [Keys -> State]
         /\ \A k \in Keys : createLibraryManifest(library)[k].kind = library.of[k].kind
  BY StateForms, StateKinds DEF createLibraryManifest, LibraryDoc, Held, Record

LEMMA SnapshotType ==
  ASSUME Types, NEW d \in Devices
  PROVE  Snapshot(d) \in LibraryDoc
<1> DEFINE of == [k \in Keys |-> IF store[d][k] # Absent THEN store[d][k]
                                 ELSE effectiveState(Absent, baseline[d][k], now)]
<1>1. of \in [Keys -> State]
  BY EffectiveType, StateForms DEF Types, StoreTypes, CounterTypes, Held
<1> HIDE DEF of
<1>2. Library(of, {}, now) \in LibraryDoc
  BY <1>1, LibraryType DEF Types, CounterTypes
<1>3. QED BY <1>2 DEF Snapshot, of

LEMMA RestingType ==
  /\ Resting \in SyncState /\ Resting.file = NoFile /\ Resting.pc = "idle"
  /\ \A a \in 0..maxRemoteRetries :
       LET again == [Resting EXCEPT !.pc = "read", !.attempt = a]
       IN  again \in SyncState /\ again.file = NoFile /\ again.pc = "read"
<1>1. Resting \in SyncState /\ Resting.file = NoFile /\ Resting.pc = "idle"
  BY StateForms DEF Resting, SyncState, PcNames, NoFile
<1>2. ASSUME NEW a \in 0..maxRemoteRetries
      PROVE  LET again == [Resting EXCEPT !.pc = "read", !.attempt = a]
             IN  again \in SyncState /\ again.file = NoFile /\ again.pc = "read"
  BY <1>1 DEF SyncState, PcNames
<1>3. QED BY <1>1, <1>2

----------------------------------------------------------------------------
\* The types are kept.

LEMMA InitTypes == Init => Types
<1> SUFFICES ASSUME Init PROVE Types
  OBVIOUS
<1>1. now = 1 /\ failures = 0 /\ sync = [d \in Devices |-> Resting]
      /\ dropped = [d \in Devices |-> [k \in Keys |-> {}]]
  BY DEF Init
<1>2. ASSUME DriveTypes PROVE SyncTypes
  <2>1. NoFile \in 0..Len(drive)
    BY <1>2 DEF DriveTypes, NoFile
  <2>2. \A d \in Devices : sync[d] = Resting
    BY <1>1
  <2>3. QED BY <1>1, <2>1, <2>2, RestingType DEF SyncTypes
<1>3. CASE store = [d \in Devices |-> Nothing] /\ baseline = [d \in Devices |-> Nothing]
           /\ drive = <<>> /\ newest = NoFile /\ over = <<>>
  <2>1. StoreTypes
    BY <1>1, <1>3, StateForms DEF StoreTypes, Nothing
  <2>2. DriveTypes /\ CounterTypes
    BY <1>1, <1>3 DEF DriveTypes, CounterTypes, Made, NoFile
  <2>3. QED BY <1>2, <2>1, <2>2 DEF Types
<1>4. CASE \E k \in Keys :
             LET library == [NoLibrary EXCEPT !.of[k] = Record(1, 1)]
             IN  /\ store = [d \in Devices |-> library.of]
                 /\ baseline = [d \in Devices |-> createLibraryManifest(library)]
                 /\ drive = <<library>> /\ newest = 1 /\ over = <<NoDoc>>
  <2> DEFINE library(k) == [NoLibrary EXCEPT !.of[k] = Record(1, 1)]
  <2>1. PICK k \in Keys :
          /\ store = [d \in Devices |-> library(k).of]
          /\ baseline = [d \in Devices |-> createLibraryManifest(library(k))]
          /\ drive = <<library(k)>> /\ newest = 1 /\ over = <<NoDoc>>
    BY <1>4
  <2>2. library(k) = [of |-> [Nothing EXCEPT ![k] = Record(1, 1)],
                      conflicts |-> {}, generatedAt |-> 0]
    BY DEF NoLibrary
  <2>3. [Nothing EXCEPT ![k] = Record(1, 1)] \in [Keys -> Held]
    BY StateForms DEF Nothing
  <2>4. library(k) \in LibraryDoc /\ library(k).of \in [Keys -> Held]
    <3>1. [Nothing EXCEPT ![k] = Record(1, 1)] \in [Keys -> State]
      BY <2>3 DEF Held
    <3>2. {} \in SUBSET ConflictEntry /\ 0 \in Nat
      OBVIOUS
    <3> DEFINE of == [Nothing EXCEPT ![k] = Record(1, 1)]
    <3>3. library(k) = [of |-> of, conflicts |-> {}, generatedAt |-> 0]
      BY <2>2
    <3> HIDE DEF of, library
    <3>4. of \in [Keys -> State] /\ of \in [Keys -> Held]
      BY <2>3, <3>1 DEF of
    <3>5. QED BY <3>2, <3>3, <3>4 DEF LibraryDoc
  <2> HIDE DEF library
  <2>5. StoreTypes
    BY <1>1, <2>1, <2>4, ManifestType DEF StoreTypes
  <2>6. DriveTypes
    BY <2>1, <2>4 DEF DriveTypes, NoFile
  <2>7. CounterTypes
    BY <1>1, <2>1 DEF CounterTypes, Made
  <2>8. QED BY <1>2, <2>5, <2>6, <2>7 DEF Types
<1>5. QED BY <1>3, <1>4 DEF Init

\* A step of a sync that changes nothing else.
LEMMA SyncStep ==
  ASSUME Types, NEW d \in Devices, NEW s \in SyncState, sync' = [sync EXCEPT ![d] = s],
         s.file \in 0..Len(drive), s.pc = "download" => s.file # NoFile, drive' = drive
  PROVE  SyncTypes'
  BY DEF Types, SyncTypes

LEMMA NextTypes == Types /\ [Next]_vars => Types'
<1> SUFFICES ASSUME Types, [Next]_vars PROVE Types'
  OBVIOUS
<1> USE DEF Types
<1>a. UNCHANGED <<store, baseline, dropped>> => StoreTypes'
  BY DEF StoreTypes
<1>b. UNCHANGED <<sync, drive>> => SyncTypes'
  BY DEF SyncTypes
<1>c. UNCHANGED <<drive, newest>> => DriveTypes'
  BY DEF DriveTypes
<1>d. UNCHANGED <<now, failures, over>> => CounterTypes'
  BY DEF CounterTypes, Made
<1>e. \A d \in Devices : /\ sync[d] \in SyncState /\ sync[d].file \in 0..Len(drive)
                         /\ sync[d].library \in LibraryDoc
                         /\ baseline[d] \in [Keys -> State] /\ now \in Nat
  BY DEF SyncTypes, SyncState, StoreTypes, CounterTypes
<1>f. NoFile \in 0..Len(drive)
  BY DEF DriveTypes, NoFile
<1>1. ASSUME NEW d \in Devices, NEW k \in Keys, Edit(d, k) PROVE Types'
  <2>1. Record(Len(over) + 1, now) \in Held
    BY <1>1, StateForms DEF Edit, CounterTypes
  <2>2. StoreTypes'
    BY <1>1, <2>1 DEF Edit, StoreTypes
  <2>3. store[d][k].doc \in Docs \cup {NoDoc}
    BY DEF StoreTypes, Held, State, Absent
  <2>4. over' = Append(over, store[d][k].doc) /\ Len(over) + 1 \in Docs /\ UNCHANGED <<now, failures>>
    BY <1>1 DEF Edit
  <2>5. CounterTypes'
    <3>1. over' \in Seq(Docs \cup {NoDoc}) /\ Len(over') = Len(over) + 1 /\ Len(over) \in Nat
      BY <2>3, <2>4 DEF CounterTypes
    <3>2. 1..Len(over') \subseteq Docs
      BY <2>4, <3>1 DEF CounterTypes, Made
    <3>3. QED BY <2>4, <3>1, <3>2 DEF CounterTypes, Made
  <2>6. QED BY <1>1, <1>b, <1>c, <2>2, <2>5 DEF Edit
<1>2. ASSUME NEW d \in Devices, NEW k \in Keys, Delete(d, k) PROVE Types'
  <2>1. store[d][k].doc \in Docs
    BY <1>2 DEF Delete, StoreTypes, Held, State, Absent
  <2>2. StoreTypes'
    BY <1>2, <2>1, StateForms DEF Delete, StoreTypes
  <2>3. QED BY <1>2, <1>b, <1>c, <1>d, <2>2 DEF Delete
<1>3. ASSUME Tick PROVE Types'
  <2>1. CounterTypes'
    BY <1>3 DEF Tick, CounterTypes, Made
  <2>2. QED BY <1>3, <1>a, <1>b, <1>c, <2>1 DEF Tick
<1>4. ASSUME NEW d \in Devices, Begin(d) PROVE Types'
  <2> DEFINE s == [sync[d] EXCEPT !.pc = "read"]
  <2>1. sync' = [sync EXCEPT ![d] = s]
    BY <1>4 DEF Begin, Step
  <2>2. s \in SyncState /\ s.file = sync[d].file /\ s.pc = "read"
    BY <1>e DEF SyncState, PcNames
  <2> HIDE DEF s
  <2>3. QED BY <1>4, <1>a, <1>c, <1>d, <1>e, <2>1, <2>2, SyncStep DEF Begin
<1>5. ASSUME NEW d \in Devices, ReadLocal(d) PROVE Types'
  <2> DEFINE s == [sync[d] EXCEPT !.pc = "find", !.library = Snapshot(d)]
  <2>1. sync' = [sync EXCEPT ![d] = s]
    BY <1>5, <1>e DEF ReadLocal, SyncTypes, SyncState
  <2>2. s \in SyncState /\ s.file = sync[d].file /\ s.pc = "find"
    BY <1>e, SnapshotType DEF SyncState, PcNames
  <2> HIDE DEF s
  <2>3. QED BY <1>5, <1>a, <1>c, <1>d, <1>e, <2>1, <2>2, SyncStep DEF ReadLocal
<1>6. ASSUME NEW d \in Devices, Find(d) PROVE Types'
  <2> DEFINE pc == IF newest = NoFile THEN "apply" ELSE "download"
             found == [sync[d] EXCEPT !.pc = pc]
             s == [found EXCEPT !.file = newest, !.moved = FALSE]
  <2>1. sync' = [sync EXCEPT ![d] = s]
    BY <1>6, <1>e DEF Find, SyncTypes, SyncState
  <2>2. newest \in Nat /\ pc \in PcNames /\ newest \in 0..Len(drive)
        /\ (pc = "download" => newest # NoFile)
    BY DEF DriveTypes, PcNames
  <2> HIDE DEF pc
  <2>3. found \in SyncState /\ found.pc = pc
    BY <1>e, <2>2 DEF SyncState
  <2> HIDE DEF found
  <2>4. s \in SyncState /\ s.file = newest /\ s.pc = pc
    BY <2>2, <2>3 DEF SyncState
  <2> HIDE DEF s
  <2>5. SyncTypes'
    BY <1>6, <2>1, <2>2, <2>4, SyncStep DEF Find
  <2>6. QED BY <1>6, <1>a, <1>c, <1>d, <2>5 DEF Find
<1>7. ASSUME NEW d \in Devices, Download(d) PROVE Types'
  <2> DEFINE merged == mergeLibrarySnapshots(sync[d].library, drive[sync[d].file], baseline[d], now)
             s == [sync[d] EXCEPT !.pc = "apply", !.library = merged]
  <2>1. drive[sync[d].file] \in LibraryDoc
    BY <1>7 DEF Download, SyncTypes, DriveTypes, NoFile
  <2>2. merged \in LibraryDoc
    BY <2>1, <1>e, MergeType
  <2> HIDE DEF merged
  <2>3. sync' = [sync EXCEPT ![d] = s]
    BY <1>7, <1>e DEF Download, SyncTypes, SyncState, merged
  <2>4. s \in SyncState /\ s.file = sync[d].file /\ s.pc = "apply"
    BY <1>e, <2>2 DEF SyncState, PcNames
  <2> HIDE DEF s
  <2>5. QED BY <1>7, <1>a, <1>c, <1>d, <1>e, <2>3, <2>4, SyncStep DEF Download
<1>8. ASSUME NEW d \in Devices, BeginApply(d) PROVE Types'
  <2> DEFINE todo == ChangedKeys(d)
             found == [sync[d] EXCEPT !.todo = todo]
             s == [found EXCEPT !.pc = "put"]
  <2>1. todo \in SUBSET Keys
    BY DEF ChangedKeys
  <2>2. sync' = [sync EXCEPT ![d] = s]
    BY <1>8, <1>e, ZenonT(60) DEF BeginApply, SyncTypes, SyncState
  <2> HIDE DEF todo
  <2>3. found \in SyncState /\ found.file = sync[d].file
    BY <1>e, <2>1 DEF SyncState
  <2> HIDE DEF found
  <2>4. s \in SyncState /\ s.file = sync[d].file /\ s.pc = "put"
    BY <2>3 DEF SyncState, PcNames
  <2> HIDE DEF s
  <2>5. QED BY <1>8, <1>a, <1>c, <1>d, <1>e, <2>2, <2>4, SyncStep DEF BeginApply
<1>9. ASSUME NEW d \in Devices, NEW k \in Keys, Apply(d, k) PROVE Types'
  <2> DEFINE s == [sync[d] EXCEPT !.todo = @ \ {k}]
             state == sync[d].library.of[k]
             new == IF state.kind = "record" THEN Record(state.doc, now) ELSE Absent
  <2>1. state \in State
    BY <1>e DEF LibraryDoc
  <2>2. new \in Held
    BY <1>e, <2>1, StateForms, StateKinds
  <2>3. store' = [store EXCEPT ![d][k] = new] /\ UNCHANGED <<baseline, dropped>>
    BY <1>9 DEF Apply
  <2> HIDE DEF new
  <2>4. StoreTypes'
    BY <2>2, <2>3 DEF StoreTypes
  <2>5. sync' = [sync EXCEPT ![d] = s] /\ UNCHANGED <<drive, newest, now, failures, over>>
    BY <1>9 DEF Apply
  <2>6. s \in SyncState /\ s.file = sync[d].file /\ s.pc = sync[d].pc
    BY <1>e DEF SyncState
  <2> HIDE DEF s
  <2>7. QED BY <1>c, <1>d, <1>e, <2>4, <2>5, <2>6, SyncStep DEF SyncTypes
<1>10. ASSUME NEW d \in Devices, Applied(d) PROVE Types'
  <2> DEFINE s == [sync[d] EXCEPT !.pc = "check"]
  <2>1. sync' = [sync EXCEPT ![d] = s]
    BY <1>10 DEF Applied, Step
  <2>2. s \in SyncState /\ s.file = sync[d].file /\ s.pc = "check"
    BY <1>e DEF SyncState, PcNames
  <2> HIDE DEF s
  <2>3. QED BY <1>10, <1>a, <1>c, <1>d, <1>e, <2>1, <2>2, SyncStep DEF Applied
<1>11. ASSUME NEW d \in Devices, Check(d) PROVE Types'
  <2> DEFINE s == IF ~sync[d].moved THEN [sync[d] EXCEPT !.pc = "save"]
                  ELSE IF sync[d].attempt < maxRemoteRetries
                  THEN [Resting EXCEPT !.pc = "read", !.attempt = sync[d].attempt + 1]
                  ELSE Resting
  <2>1. sync' = [sync EXCEPT ![d] = s]
    BY <1>11 DEF Check
  <2>2. s \in SyncState /\ s.file \in {sync[d].file, NoFile} /\ s.pc # "download"
    <3>1. CASE ~sync[d].moved
      BY <3>1, <1>e DEF SyncState, PcNames
    <3>2. CASE sync[d].moved /\ sync[d].attempt < maxRemoteRetries
      <4>1. sync[d].attempt + 1 \in 0..maxRemoteRetries
        BY <3>2, <1>e DEF SyncState
      <4>2. QED BY <3>2, <4>1, RestingType
    <3>3. CASE sync[d].moved /\ ~(sync[d].attempt < maxRemoteRetries)
      BY <3>3, RestingType
    <3>4. QED BY <3>1, <3>2, <3>3
  <2> HIDE DEF s
  <2>3. s.file \in 0..Len(drive)
    BY <2>2, <1>e DEF NoFile, DriveTypes
  <2>4. QED BY <1>11, <1>a, <1>c, <1>d, <2>1, <2>2, <2>3, SyncStep DEF Check
<1>12. ASSUME NEW d \in Devices, Save(d) PROVE Types'
  <2> DEFINE file == IF sync[d].file = NoFile THEN Len(drive) + 1 ELSE sync[d].file
             s(e) == IF e = d THEN [sync[d] EXCEPT !.pc = "commit"]
                     ELSE [sync[e] EXCEPT !.moved = @ \/ sync[e].file = file]
  <2>1. /\ drive' = IF sync[d].file = NoFile THEN Append(drive, sync[d].library)
                    ELSE [drive EXCEPT ![file] = sync[d].library]
        /\ newest' = file /\ sync' = [e \in Devices |-> s(e)]
        /\ UNCHANGED <<store, baseline, now, failures, over, dropped>>
    BY <1>12 DEF Save
  <2>2. drive' \in Seq(LibraryDoc) /\ Len(drive') \in {Len(drive), Len(drive) + 1}
        /\ Len(drive) \in Nat /\ file \in 1..Len(drive')
    <3>1. CASE sync[d].file = NoFile
      BY <3>1, <2>1, <1>e DEF DriveTypes
    <3>2. CASE sync[d].file # NoFile
      BY <3>2, <2>1, <1>e DEF DriveTypes, NoFile
    <3>3. QED BY <3>1, <3>2
  <2> HIDE DEF file
  <2>3. DriveTypes'
    BY <2>1, <2>2 DEF DriveTypes, NoFile
  <2>4. \A e \in Devices : s(e) \in SyncState /\ s(e).file = sync[e].file
                           /\ (s(e).pc = "download" => sync[e].pc = "download")
    <3> SUFFICES ASSUME NEW e \in Devices
                 PROVE  s(e) \in SyncState /\ s(e).file = sync[e].file
                        /\ (s(e).pc = "download" => sync[e].pc = "download")
      OBVIOUS
    <3>1. CASE e = d
      BY <3>1, <1>e DEF SyncState, PcNames
    <3>2. CASE e # d
      <4> DEFINE moved == sync[e].moved \/ sync[e].file = file
      <4>1. moved \in BOOLEAN
        BY Zenon
      <4>2. s(e) = [sync[e] EXCEPT !.moved = moved]
        BY <3>2
      <4> HIDE DEF moved, s
      <4>3. QED BY <4>1, <4>2, <1>e, ZenonT(60) DEF SyncState
    <3>3. QED BY <3>1, <3>2
  <2> HIDE DEF s
  <2>5. SyncTypes'
    BY <2>1, <2>2, <2>4 DEF SyncTypes
  <2>6. QED BY <1>a, <1>d, <2>1, <2>3, <2>5
<1>13. ASSUME NEW d \in Devices, Commit(d) PROVE Types'
  <2>1. StoreTypes'
    BY <1>13, <1>e, ManifestType DEF Commit, StoreTypes
  <2>2. SyncTypes'
    BY <1>13, <1>f, RestingType, SyncStep DEF Commit
  <2>3. QED BY <1>13, <1>c, <1>d, <2>1, <2>2 DEF Commit
<1>14. ASSUME NEW d \in Devices, Fail(d) PROVE Types'
  <2>1. SyncTypes'
    BY <1>14, <1>f, RestingType, SyncStep DEF Fail
  <2>2. CounterTypes'
    BY <1>14 DEF Fail, CounterTypes, Made
  <2>3. QED BY <1>14, <1>a, <1>c, <2>1, <2>2 DEF Fail
<1>15. CASE UNCHANGED vars
  BY <1>15, <1>a, <1>b, <1>c, <1>d DEF vars
<1>16. QED
  BY <1>1, <1>2, <1>3, <1>4, <1>5, <1>6, <1>7, <1>8, <1>9, <1>10, <1>11, <1>12, <1>13,
     <1>14, <1>15 DEF Next, Synchronize

LEMMA TypesSuffice == Types => TypeOK
<1> SUFFICES ASSUME Types PROVE TypeOK
  OBVIOUS
<1>1. \A d \in Devices, k \in Keys :
        /\ store[d][k] \in State /\ store[d][k].kind # "deleted"
        /\ baseline[d][k] \in State
  BY DEF Types, StoreTypes, Held
<1>2. \A d \in Devices :
     /\ sync[d].pc \in PcNames /\ sync[d].attempt \in 0..maxRemoteRetries
     /\ sync[d].todo \subseteq Keys
     /\ sync[d].file \in 0..Len(drive) /\ sync[d].moved \in BOOLEAN
     /\ \A k \in Keys : sync[d].library.of[k] \in State
  BY DEF Types, SyncTypes, SyncState, LibraryDoc
<1>3. \A i \in DOMAIN drive, k \in Keys : drive[i].of[k] \in State
  <2>1. \A i \in DOMAIN drive : drive[i] \in LibraryDoc
    BY DEF Types, DriveTypes
  <2>2. QED BY <2>1 DEF LibraryDoc
<1>4. QED BY <1>1, <1>2, <1>3 DEF TypeOK, Types, DriveTypes, CounterTypes

\* At every moment the records, baselines, files and syncs have their types, a
\* sync has been tried again at most maxRemoteRetries times, and the file it
\* works on exists.
THEOREM SyncTypeCorrect == Spec => []TypeOK
<1>1. QED
  BY InitTypes, NextTypes, TypesSuffice, PTL DEF Spec

----------------------------------------------------------------------------
\* One device syncs at a time.

LEMMA InitAlone == Init => Alone
<1> SUFFICES ASSUME Init PROVE Alone
  OBVIOUS
<1>1. \A d \in Devices : sync[d] = Resting
  BY DEF Init
<1>2. Len(drive) <= 1
  <2>1. drive = <<>> \/ \E library : drive = <<library>>
    BY DEF Init
  <2>2. QED BY <2>1
<1>3. QED BY <1>1, <1>2, RestingType DEF Alone, Busy, Working, Merged

\* A step of the one sync that changes no file.
LEMMA SyncAlone ==
  ASSUME Types, Alone, NEW d \in Devices, NEW s, sync' = [sync EXCEPT ![d] = s],
         \A e \in Devices : Busy(e) => e = d, Working(s), drive' = drive
  PROVE  Alone'
<1>1. \A e \in Devices : e # d => sync'[e] = sync[e]
  BY DEF Types, SyncTypes
<1>2. sync'[d] = s
  BY DEF Types, SyncTypes
<1>3. \A e \in Devices : Working(sync[e])'
  BY <1>1, <1>2 DEF Alone, Working
<1>4. QED BY <1>1, <1>3 DEF Alone, Busy

\* The sync that saves leaves one file, with the library it has merged.
LEMMA SavedFile ==
  ASSUME Types, Alone, NEW d \in Devices, Save(d)
  PROVE  Len(drive') = 1 /\ drive'[1] = sync[d].library
<1>0. drive \in Seq(LibraryDoc) /\ Len(drive) \in Nat /\ Len(drive) <= 1
  BY DEF Types, DriveTypes, Alone
<1>1. /\ Len(drive) \in {0, 1} /\ sync[d].library \in LibraryDoc /\ sync[d].pc = "save"
      /\ sync[d].file \in Nat /\ sync[d].file <= Len(drive) /\ drive \in Seq(LibraryDoc)
  <2>1. Len(drive) \in {0, 1}
    <3>1. \A n \in Nat : n <= 1 => n \in {0, 1}
      OBVIOUS
    <3>2. QED BY <1>0, <3>1, Zenon
  <2>2. sync[d].library \in LibraryDoc /\ sync[d].file \in 0..Len(drive)
    BY DEF Types, SyncTypes, SyncState
  <2>3. QED BY <1>0, <2>1, <2>2 DEF Save
<1>2. CASE sync[d].file = NoFile
  <2>1. drive = <<>>
    BY <1>1, <1>2 DEF Alone, Working, Merged
  <2>2. drive' = Append(drive, sync[d].library)
    BY <1>2 DEF Save
  <2>3. QED BY <1>1, <2>1, <2>2
<1>3. CASE sync[d].file # NoFile
  <2>1. sync[d].file = 1 /\ Len(drive) = 1
    <3>1. \A n, f \in Nat : n \in {0, 1} /\ f <= n /\ f # 0 => f = 1 /\ n = 1
      OBVIOUS
    <3>2. QED BY <1>0, <1>1, <1>3, <3>1, Zenon DEF NoFile
  <2>2. drive' = [drive EXCEPT ![1] = sync[d].library]
    BY <1>3, <2>1 DEF Save
  <2>3. QED BY <1>1, <2>1, <2>2
<1>4. QED BY <1>2, <1>3

LEMMA NextAlone ==
  ASSUME ~Overlap, Types, Alone, [Next]_vars
  PROVE  Alone'
<1> USE DEF Busy
<1>a. UNCHANGED <<sync, drive>> => Alone'
  BY DEF Alone, Working
<1>b. \A d \in Devices : /\ sync[d] \in SyncState /\ Working(sync[d])
                         /\ Busy(d) => \A e \in Devices : Busy(e) => e = d
  BY DEF Types, SyncTypes, Alone
<1>1. ASSUME NEW d \in Devices, NEW k \in Keys, Edit(d, k) \/ Delete(d, k) PROVE Alone'
  BY <1>1, <1>a DEF Edit, Delete
<1>2. CASE Tick
  BY <1>2, <1>a DEF Tick
<1>3. ASSUME NEW d \in Devices, Begin(d) PROVE Alone'
  <2> DEFINE s == [sync[d] EXCEPT !.pc = "read"]
  <2>1. sync' = [sync EXCEPT ![d] = s] /\ drive' = drive
        /\ \A e \in Devices : sync[e].pc = "idle"
    BY <1>3 DEF Begin, Step
  <2>2. Working(s)
    BY <1>b DEF Working, Merged, SyncState
  <2> HIDE DEF s
  <2>3. QED BY <2>1, <2>2, SyncAlone
<1>4. ASSUME NEW d \in Devices, ReadLocal(d) PROVE Alone'
  <2> DEFINE s == [sync[d] EXCEPT !.pc = "find", !.library = Snapshot(d)]
  <2>1. sync' = [sync EXCEPT ![d] = s] /\ drive' = drive /\ Busy(d)
    BY <1>4, <1>b DEF ReadLocal, Types, SyncTypes, SyncState
  <2>2. Working(s)
    BY <1>b DEF Working, Merged, SyncState
  <2> HIDE DEF s
  <2>3. QED BY <1>b, <2>1, <2>2, SyncAlone
<1>5. ASSUME NEW d \in Devices, Find(d) PROVE Alone'
  <2> DEFINE pc == IF newest = NoFile THEN "apply" ELSE "download"
             s == [sync[d] EXCEPT !.pc = pc, !.file = newest, !.moved = FALSE]
  <2>1. sync' = [sync EXCEPT ![d] = s] /\ drive' = drive /\ Busy(d)
    BY <1>5, <1>b DEF Find, Types, SyncTypes, SyncState
  <2>2. s.pc = pc /\ s.file = newest
    BY <1>b DEF SyncState
  <2>3. Working(s)
    BY <2>2 DEF Working, Merged, Types, DriveTypes
  <2> HIDE DEF s
  <2>4. QED BY <1>b, <2>1, <2>3, SyncAlone
<1>6. ASSUME NEW d \in Devices, Download(d) PROVE Alone'
  <2> DEFINE merged == mergeLibrarySnapshots(sync[d].library, drive[sync[d].file], baseline[d], now)
             s == [sync[d] EXCEPT !.pc = "apply", !.library = merged]
  <2> HIDE DEF merged
  <2>1. sync' = [sync EXCEPT ![d] = s] /\ drive' = drive /\ Busy(d) /\ sync[d].file # NoFile
    BY <1>6, <1>b DEF Download, Types, SyncTypes, SyncState, merged
  <2>2. s.pc = "apply" /\ s.file = sync[d].file
    BY <1>b DEF SyncState
  <2>3. Working(s)
    BY <2>1, <2>2 DEF Working, Merged
  <2> HIDE DEF s
  <2>4. QED BY <1>b, <2>1, <2>3, SyncAlone
<1>7. ASSUME NEW d \in Devices, BeginApply(d) PROVE Alone'
  <2> DEFINE todo == ChangedKeys(d)
             s == [sync[d] EXCEPT !.pc = "put", !.todo = todo]
  <2>1. \A k \in todo : sync[d].library.of[k] # Absent
    BY DEF ChangedKeys
  <2>2. sync' = [sync EXCEPT ![d] = s] /\ drive' = drive /\ sync[d].pc = "apply"
    BY <1>7, <1>b DEF BeginApply, Types, SyncTypes, SyncState
  <2> HIDE DEF todo
  <2>3. s.pc = "put" /\ s.file = sync[d].file /\ s.todo = todo /\ s.library = sync[d].library
    BY <1>b DEF SyncState
  <2>4. Working(s)
    BY <1>b, <2>1, <2>2, <2>3 DEF Working, Merged
  <2> HIDE DEF s
  <2>5. QED BY <1>b, <2>2, <2>4, SyncAlone
<1>8. ASSUME NEW d \in Devices, NEW k \in Keys, Apply(d, k) PROVE Alone'
  <2> DEFINE s == [sync[d] EXCEPT !.todo = @ \ {k}]
  <2>1. sync' = [sync EXCEPT ![d] = s] /\ drive' = drive /\ sync[d].pc = "put"
    BY <1>8 DEF Apply
  <2>2. Working(s)
    BY <1>b, <2>1 DEF Working, Merged, SyncState
  <2> HIDE DEF s
  <2>3. QED BY <1>b, <2>1, <2>2, SyncAlone
<1>9. ASSUME NEW d \in Devices, Applied(d) PROVE Alone'
  <2> DEFINE s == [sync[d] EXCEPT !.pc = "check"]
  <2>1. sync' = [sync EXCEPT ![d] = s] /\ drive' = drive /\ sync[d].pc = "put"
    BY <1>9 DEF Applied, Step
  <2>2. Working(s)
    BY <1>b, <2>1 DEF Working, Merged, SyncState
  <2> HIDE DEF s
  <2>3. QED BY <1>b, <2>1, <2>2, SyncAlone
<1>10. ASSUME NEW d \in Devices, Check(d) PROVE Alone'
  <2> DEFINE s == IF ~sync[d].moved THEN [sync[d] EXCEPT !.pc = "save"]
                  ELSE IF sync[d].attempt < maxRemoteRetries
                  THEN [Resting EXCEPT !.pc = "read", !.attempt = sync[d].attempt + 1]
                  ELSE Resting
  <2>1. sync' = [sync EXCEPT ![d] = s] /\ drive' = drive /\ sync[d].pc = "check"
    BY <1>10 DEF Check
  <2>2. \/ s.pc = "save" /\ s.file = sync[d].file
        \/ s.pc \in {"idle", "read"}
    BY <1>b, RestingType DEF SyncState, Resting
  <2> HIDE DEF s
  <2>3. Working(s)
    BY <1>b, <2>1, <2>2 DEF Working, Merged
  <2>4. QED BY <1>b, <2>1, <2>3, SyncAlone
<1>11. ASSUME NEW d \in Devices, Save(d) PROVE Alone'
  <2>1. Len(drive') = 1
    BY <1>11, SavedFile
  <2>2. \A e \in Devices : e # d => sync'[e].pc = "idle"
    BY <1>11, <1>b DEF Save, SyncState
  <2>3. sync'[d].pc = "commit"
    BY <1>11, <1>b DEF Save, SyncState
  <2>4. drive' # <<>>
    <3>1. Len(<<>>) = 0 /\ 0 # 1
      OBVIOUS
    <3>2. QED BY <2>1, <3>1, Zenon
  <2>5. \A e \in Devices : Working(sync[e])'
    BY <2>2, <2>3, <2>4 DEF Working, Merged
  <2>6. QED BY <2>1, <2>2, <2>5 DEF Alone
<1>12. ASSUME NEW d \in Devices, Commit(d) PROVE Alone'
  <2>1. sync' = [sync EXCEPT ![d] = Resting] /\ drive' = drive /\ Busy(d)
    BY <1>12 DEF Commit
  <2>2. Working(Resting)
    BY RestingType DEF Working, Merged
  <2>3. QED BY <1>b, <2>1, <2>2, SyncAlone
<1>13. ASSUME NEW d \in Devices, Fail(d) PROVE Alone'
  <2>1. sync' = [sync EXCEPT ![d] = Resting] /\ drive' = drive /\ Busy(d)
    BY <1>13 DEF Fail
  <2>2. Working(Resting)
    BY RestingType DEF Working, Merged
  <2>3. QED BY <1>b, <2>1, <2>2, SyncAlone
<1>14. CASE UNCHANGED vars
  BY <1>14, <1>a DEF vars
<1>15. QED
  BY <1>1, <1>2, <1>3, <1>4, <1>5, <1>6, <1>7, <1>8, <1>9, <1>10, <1>11, <1>12, <1>13,
     <1>14 DEF Next, Synchronize

----------------------------------------------------------------------------
\* A key that no user has deleted is alive.

\* What the remote library has, and what the baseline and both libraries have,
\* the merged library has, and no tombstone comes of a merge without one.
LEMMA MergeOfLiving ==
  ASSUME NEW local \in LibraryDoc, NEW remote \in LibraryDoc, NEW base \in [Keys -> State],
         NEW t \in Nat, NEW k \in Keys,
         local.of[k].kind # "deleted", remote.of[k].kind # "deleted", base[k].kind # "deleted",
         Has(base[k]) => Has(local.of[k]) /\ Has(remote.of[k])
  PROVE  LET merged == mergeLibrarySnapshots(local, remote, base, t).of[k]
         IN  merged.kind # "deleted" /\ (Has(remote.of[k]) => Has(merged))
<1> DEFINE l == local.of[k]
           r == remote.of[k]
           b == base[k]
<1>1. l \in State /\ r \in State /\ b \in State
  BY DEF LibraryDoc
<1>2. effectiveState(l, b, local.generatedAt) = l /\ effectiveState(r, b, remote.generatedAt) = r
  <2>1. \A s \in State, at \in Nat : s.kind # "deleted" /\ (Has(b) => Has(s)) =>
          effectiveState(s, b, at) = s
    BY <1>1, StateKinds, StateForms DEF effectiveState, Has, State
  <2>2. QED BY <1>1, <2>1 DEF LibraryDoc
<1>3. mergeLibrarySnapshots(local, remote, base, t).of[k] = selected(b, l, r)
  BY <1>2 DEF mergeLibrarySnapshots, Library
<1>4. ASSUME Has(r) PROVE Has(selected(b, l, r))
  <2>1. CASE Has(l)
    BY <1>1, <1>4, <2>1, SelectedIsASide
  <2>2. CASE ~Has(l)
    <3>1. ~Has(b) /\ ~Changed(l, b) /\ Changed(r, b)
      BY <1>1, <1>4, <2>2, StateKinds DEF Has, Changed, semanticallyEqual
    <3>2. QED BY <1>4, <3>1 DEF selected
  <2>3. QED BY <2>1, <2>2
<1>5. selected(b, l, r).kind # "deleted"
  BY <1>1, SelectedIsASide
<1> HIDE DEF l, r, b
<1>6. QED BY <1>3, <1>4, <1>5 DEF r

LEMMA InitAlive == Init => \A k \in Keys : Alive(k)
<1> SUFFICES ASSUME Init, NEW k \in Keys PROVE Alive(k)
  OBVIOUS
<1>1. \A d \in Devices : Keeps(d, sync[d], k)
  <2>1. \A d \in Devices : sync[d] = Resting
    BY DEF Init
  <2>2. Resting.pc = "idle" /\ Resting.library.of[k] = Absent
    BY DEF Resting, NoLibrary, Nothing
  <2>3. QED BY <2>1, <2>2, StateForms DEF Keeps, Merged
<1>2. CASE store = [d \in Devices |-> Nothing] /\ baseline = [d \in Devices |-> Nothing]
           /\ drive = <<>>
  BY <1>1, <1>2, StateForms DEF Alive, Nothing
<1>3. CASE \E j \in Keys :
             LET library == [NoLibrary EXCEPT !.of[j] = Record(1, 1)]
             IN  /\ store = [d \in Devices |-> library.of]
                 /\ baseline = [d \in Devices |-> createLibraryManifest(library)]
                 /\ drive = <<library>>
  <2> DEFINE library(j) == [NoLibrary EXCEPT !.of[j] = Record(1, 1)]
  <2>1. PICK j \in Keys :
          /\ store = [d \in Devices |-> library(j).of]
          /\ baseline = [d \in Devices |-> createLibraryManifest(library(j))]
          /\ drive = <<library(j)>>
    BY <1>3
  <2>2. library(j) = [of |-> [Nothing EXCEPT ![j] = Record(1, 1)],
                      conflicts |-> {}, generatedAt |-> 0]
    BY DEF NoLibrary
  <2>3. [Nothing EXCEPT ![j] = Record(1, 1)] \in [Keys -> Held]
    BY StateForms DEF Nothing
  <2>4. library(j) \in LibraryDoc /\ library(j).of[k].kind # "deleted"
    <3> DEFINE of == [Nothing EXCEPT ![j] = Record(1, 1)]
    <3>1. of \in [Keys -> State] /\ of[k].kind # "deleted"
      BY <2>3 DEF Held
    <3>2. library(j) = [of |-> of, conflicts |-> {}, generatedAt |-> 0]
      BY <2>2
    <3> HIDE DEF of, library
    <3>3. QED BY <3>1, <3>2 DEF LibraryDoc
  <2> HIDE DEF library
  <2>5. /\ drive[1] = library(j) /\ drive # <<>>
        /\ \A d \in Devices : /\ store[d][k] = library(j).of[k]
                              /\ baseline[d][k].kind = library(j).of[k].kind
    BY <2>1, <2>4, ManifestType
  <2>6. QED BY <1>1, <2>4, <2>5 DEF Alive, InDrive, Has
<1>4. QED BY <1>2, <1>3 DEF Init

\* The file a sync downloads is the one there is.
LEMMA TheFile ==
  ASSUME Types, Alone, NEW d \in Devices, sync[d].pc = "download"
  PROVE  drive[sync[d].file] = drive[1] /\ drive[sync[d].file] \in LibraryDoc /\ drive # <<>>
<1>1. drive \in Seq(LibraryDoc) /\ Len(drive) \in Nat /\ Len(drive) <= 1
  BY DEF Types, DriveTypes, Alone
<1>2. sync[d].file \in 0..Len(drive) /\ sync[d].file # 0
  BY DEF Types, SyncTypes, NoFile
<1>3. \A n \in Nat : \A f \in 0..n : n <= 1 /\ f # 0 => f = 1 /\ n = 1
  OBVIOUS
<1>4. sync[d].file = 1 /\ Len(drive) = 1
  BY <1>1, <1>2, <1>3, Zenon
<1>5. drive # <<>>
  <2>1. Len(<<>>) = 0 /\ 0 # 1
    OBVIOUS
  <2>2. QED BY <1>4, <2>1, Zenon
<1>6. QED BY <1>1, <1>4, <1>5

\* What is applied to a key that is alive is a record.
LEMMA AppliedIsRecord ==
  ASSUME Types, Alone, NEW k \in Keys, Alive(k), NEW d \in Devices,
         sync[d].pc = "put", k \in sync[d].todo
  PROVE  Has(sync[d].library.of[k])
<1>1. sync[d].library.of[k] \in State
  BY DEF Types, SyncTypes, SyncState, LibraryDoc
<1>2. sync[d].library.of[k] # Absent
  BY DEF Alone, Working
<1>3. sync[d].library.of[k].kind # "deleted"
  BY DEF Alive, Keeps
<1>4. QED BY <1>1, <1>2, <1>3 DEF State, Has

LEMMA UntouchedBefore ==
  ASSUME Types, [Next]_vars, NEW k \in Keys, Untouched(k)'
  PROVE  Untouched(k)
<1>1. dropped' = dropped \/ \E d \in Devices, j \in Keys : Delete(d, j)
  BY DEF Next, Synchronize, Edit, Tick, Begin, ReadLocal, Find, Download, BeginApply, Apply,
         Applied, Check, Save, Commit, Fail, vars
<1>2. ASSUME NEW d \in Devices, NEW j \in Keys, Delete(d, j) PROVE Untouched(k)
  BY <1>2 DEF Delete, Untouched, Types, StoreTypes
<1>3. QED BY <1>1, <1>2 DEF Untouched

\* A record that leaves a device was deleted there, or its key is not alive.
LEMMA OnlyUsersDelete ==
  ASSUME Types, Alone, [Next]_vars, NEW d \in Devices, NEW k \in Keys, Alive(k), Untouched(k)',
         store[d][k] # Absent, store'[d][k] = Absent
  PROVE  FALSE
<1>1. store' = store \/ \E e \in Devices, j \in Keys : Edit(e, j) \/ Delete(e, j) \/ Apply(e, j)
  BY DEF Next, Synchronize, Tick, Begin, ReadLocal, Find, Download, BeginApply,
         Applied, Check, Save, Commit, Fail, vars
<1>2. ASSUME NEW e \in Devices, NEW j \in Keys, Edit(e, j) PROVE FALSE
  BY <1>2 DEF Edit, Types, StoreTypes, Record, Absent
<1>3. ASSUME NEW e \in Devices, NEW j \in Keys, Delete(e, j) PROVE FALSE
  <2>1. e = d /\ j = k
    BY <1>3 DEF Delete, Types, StoreTypes
  <2>2. dropped'[d][k] # {}
    <3>1. dropped'[d][k] = dropped[d][k] \cup {store[d][k].doc}
      BY <1>3, <2>1 DEF Delete, Types, StoreTypes
    <3>2. QED BY <3>1
  <2>3. QED BY <2>2 DEF Untouched
<1>4. ASSUME NEW e \in Devices, NEW j \in Keys, Apply(e, j) PROVE FALSE
  <2>1. e = d /\ j = k
    BY <1>4 DEF Apply, Types, StoreTypes
  <2>2. Has(sync[d].library.of[k])
    BY <1>4, <2>1, AppliedIsRecord DEF Apply
  <2>3. store'[d][k] = Record(sync[d].library.of[k].doc, now)
    BY <1>4, <2>1, <2>2 DEF Apply, Has, Types, StoreTypes
  <2>4. QED BY <2>3 DEF Record, Absent
<1>5. QED BY <1>1, <1>2, <1>3, <1>4

\* A step of one sync that changes neither a store, a baseline nor a file.
LEMMA SyncAlive ==
  ASSUME Types, NEW k \in Keys, Alive(k), NEW d \in Devices, NEW s,
         sync' = [sync EXCEPT ![d] = s], Keeps(d, s, k), UNCHANGED <<store, baseline, drive>>
  PROVE  Alive(k)'
<1>1. \A e \in Devices : sync'[e] = IF e = d THEN s ELSE sync[e]
  BY DEF Types, SyncTypes
<1>2. \A e \in Devices : Keeps(e, sync[e], k)'
  BY <1>1 DEF Alive, Keeps, InDrive
<1>3. QED BY <1>2 DEF Alive, InDrive

LEMMA NextAlive ==
  ASSUME Types, Alone, [Next]_vars, NEW k \in Keys, Alive(k), Untouched(k)'
  PROVE  Alive(k)'
<1>a. UNCHANGED <<store, baseline, sync, drive>> => Alive(k)'
  BY DEF Alive, Keeps, InDrive
<1>b. \A d \in Devices :
        /\ sync[d] \in SyncState /\ sync[d].library \in LibraryDoc /\ Working(sync[d])
        /\ baseline[d] \in [Keys -> State] /\ store[d] \in [Keys -> Held]
        /\ Keeps(d, sync[d], k)
        /\ baseline[d][k].kind # "deleted"
        /\ Has(baseline[d][k]) => Has(store[d][k]) /\ InDrive(k)
  BY DEF Types, SyncTypes, StoreTypes, SyncState, Alone, Alive
<1>c. now \in Nat
  BY DEF Types, CounterTypes
<1>d. Resting.pc = "idle" /\ Resting.library.of[k] = Absent
  BY DEF Resting, NoLibrary, Nothing
<1>e. \A d \in Devices : Keeps(d, Resting, k)
  BY <1>d, StateForms DEF Keeps, Merged
<1>1. ASSUME NEW d \in Devices, NEW j \in Keys, Edit(d, j) PROVE Alive(k)'
  <2>1. Has(Record(Len(over) + 1, now))
    BY DEF Has, Record
  <2>2. \A e \in Devices : Has(store[e][k]) => Has(store'[e][k])
    BY <1>1, <1>b, <2>1 DEF Edit, Types, StoreTypes
  <2>3. UNCHANGED <<baseline, sync, drive>>
    BY <1>1 DEF Edit
  <2>4. QED BY <2>2, <2>3 DEF Alive, Keeps, InDrive
<1>2. ASSUME NEW d \in Devices, NEW j \in Keys, Delete(d, j) PROVE Alive(k)'
  <2>1. j # k
    BY <1>2 DEF Delete, Untouched, Types, StoreTypes
  <2>2. \A e \in Devices : store'[e][k] = store[e][k]
    BY <1>2, <1>b, <2>1 DEF Delete, Types, StoreTypes
  <2>3. UNCHANGED <<baseline, sync, drive>>
    BY <1>2 DEF Delete
  <2>4. QED BY <2>2, <2>3 DEF Alive, Keeps, InDrive
<1>3. CASE Tick
  BY <1>3, <1>a DEF Tick
<1>4. ASSUME NEW d \in Devices, Begin(d) PROVE Alive(k)'
  <2> DEFINE s == [sync[d] EXCEPT !.pc = "read"]
  <2>1. sync' = [sync EXCEPT ![d] = s] /\ UNCHANGED <<store, baseline, drive>>
    BY <1>4 DEF Begin, Step
  <2>2. s.pc = "read" /\ s.library = sync[d].library
    BY <1>b DEF SyncState
  <2> HIDE DEF s
  <2>3. Keeps(d, s, k)
    BY <1>b, <2>2 DEF Keeps, Merged
  <2>4. QED BY <2>1, <2>3, SyncAlive
<1>5. ASSUME NEW d \in Devices, ReadLocal(d) PROVE Alive(k)'
  <2> DEFINE s == [sync[d] EXCEPT !.pc = "find", !.library = Snapshot(d)]
  <2>1. sync' = [sync EXCEPT ![d] = s] /\ UNCHANGED <<store, baseline, drive>>
    BY <1>5, <1>b DEF ReadLocal, Types, SyncTypes, SyncState
  <2>2. s.pc = "find" /\ s.library = Snapshot(d)
    BY <1>b DEF SyncState
  <2>3. Snapshot(d).of[k] = IF store[d][k] # Absent THEN store[d][k]
                            ELSE effectiveState(Absent, baseline[d][k], now)
    BY DEF Snapshot, Library
  <2>4. Has(baseline[d][k]) => store[d][k] # Absent /\ Has(store[d][k])
    BY <1>b, StateForms
  <2>5. Snapshot(d).of[k].kind # "deleted" /\ (Has(baseline[d][k]) => Has(Snapshot(d).of[k]))
    BY <1>b, <2>3, <2>4 DEF effectiveState, Has, Held
  <2> HIDE DEF s
  <2>6. Keeps(d, s, k)
    BY <2>2, <2>5 DEF Keeps, Merged
  <2>7. QED BY <2>1, <2>6, SyncAlive
<1>6. ASSUME NEW d \in Devices, Find(d) PROVE Alive(k)'
  <2> DEFINE pc == IF newest = NoFile THEN "apply" ELSE "download"
             s == [sync[d] EXCEPT !.pc = pc, !.file = newest, !.moved = FALSE]
  <2>1. sync' = [sync EXCEPT ![d] = s] /\ sync[d].pc = "find"
        /\ UNCHANGED <<store, baseline, drive>>
    BY <1>6, <1>b DEF Find, Types, SyncTypes, SyncState
  <2>2. s.pc = pc /\ s.library = sync[d].library
    BY <1>b DEF SyncState
  <2>3. pc = "apply" => ~InDrive(k)
    BY DEF Types, DriveTypes, InDrive
  <2>4. pc \in {"apply", "download"}
    OBVIOUS
  <2> HIDE DEF s, pc
  <2>5. Keeps(d, s, k)
    BY <1>b, <2>1, <2>2, <2>3, <2>4 DEF Keeps, Merged
  <2>6. QED BY <2>1, <2>5, SyncAlive
<1>7. ASSUME NEW d \in Devices, Download(d) PROVE Alive(k)'
  <2> DEFINE file == drive[sync[d].file]
             merged == mergeLibrarySnapshots(sync[d].library, file, baseline[d], now)
             s == [sync[d] EXCEPT !.pc = "apply", !.library = merged]
  <2>1. sync' = [sync EXCEPT ![d] = s] /\ sync[d].pc = "download"
        /\ UNCHANGED <<store, baseline, drive>>
    BY <1>7, <1>b DEF Download, Types, SyncTypes, SyncState
  <2>2. file = drive[1] /\ file \in LibraryDoc /\ drive # <<>>
    BY <2>1, TheFile
  <2>3. file.of[k].kind # "deleted" /\ (InDrive(k) <=> Has(file.of[k]))
    BY <2>2 DEF Alive, InDrive
  <2> HIDE DEF file
  <2>4. Has(baseline[d][k]) => Has(sync[d].library.of[k]) /\ Has(file.of[k])
    BY <1>b, <2>1, <2>3 DEF Keeps
  <2>5. sync[d].library.of[k].kind # "deleted"
    BY <1>b DEF Keeps
  <2>6. merged.of[k].kind # "deleted" /\ (Has(file.of[k]) => Has(merged.of[k]))
    BY <1>b, <1>c, <2>2, <2>3, <2>4, <2>5, MergeOfLiving, SMTT(60)
  <2> HIDE DEF merged
  <2>7. s.pc = "apply" /\ s.library = merged
    BY <1>b DEF SyncState
  <2> HIDE DEF s
  <2>8. Keeps(d, s, k)
    BY <2>3, <2>4, <2>6, <2>7 DEF Keeps
  <2>9. QED BY <2>1, <2>8, SyncAlive
<1>8. ASSUME NEW d \in Devices, BeginApply(d) PROVE Alive(k)'
  <2> DEFINE todo == ChangedKeys(d)
             s == [sync[d] EXCEPT !.pc = "put", !.todo = todo]
  <2>1. sync' = [sync EXCEPT ![d] = s] /\ sync[d].pc = "apply"
        /\ UNCHANGED <<store, baseline, drive>>
    BY <1>8, <1>b DEF BeginApply, Types, SyncTypes, SyncState
  <2>2. ASSUME Has(sync[d].library.of[k]), k \notin todo PROVE Has(store[d][k])
    <3>1. store[d][k].doc = sync[d].library.of[k].doc
      BY <2>2, StateForms DEF ChangedKeys
    <3>2. sync[d].library.of[k].doc \in Docs /\ NoDoc \notin Docs
      BY <1>b, <2>2, StateKinds DEF LibraryDoc, Has, NoDoc
    <3>3. QED BY <1>b, <3>1, <3>2 DEF Held, State, Absent, Has
  <2> HIDE DEF todo
  <2>3. s.pc = "put" /\ s.todo = todo /\ s.library = sync[d].library
    BY <1>b DEF SyncState
  <2> HIDE DEF s
  <2>4. Keeps(d, s, k)
    BY <1>b, <2>1, <2>2, <2>3 DEF Keeps, Merged
  <2>5. QED BY <2>1, <2>4, SyncAlive
<1>9. ASSUME NEW d \in Devices, NEW j \in Keys, Apply(d, j) PROVE Alive(k)'
  <2> DEFINE s == [sync[d] EXCEPT !.todo = @ \ {j}]
             new == IF sync[d].library.of[j].kind = "record"
                    THEN Record(sync[d].library.of[j].doc, now) ELSE Absent
  <2>1. /\ sync' = [sync EXCEPT ![d] = s] /\ store' = [store EXCEPT ![d][j] = new]
        /\ sync[d].pc = "put" /\ j \in sync[d].todo /\ UNCHANGED <<baseline, drive>>
    BY <1>9 DEF Apply
  <2>2. j = k => Has(new)
    BY <2>1, AppliedIsRecord DEF Has, Record
  <2> HIDE DEF new
  <2>3. \A e \in Devices : /\ Has(store[e][k]) => Has(store'[e][k])
                           /\ e = d /\ j = k => Has(store'[e][k])
    BY <1>b, <2>1, <2>2 DEF Types, StoreTypes
  <2>4. s.pc = "put" /\ s.library = sync[d].library /\ s.todo = sync[d].todo \ {j}
    BY <1>b, <2>1 DEF SyncState
  <2>5. \A e \in Devices : sync'[e] = IF e = d THEN s ELSE sync[e]
    BY <2>1 DEF Types, SyncTypes
  <2> HIDE DEF s
  <2>6. ASSUME NEW e \in Devices PROVE Keeps(e, sync[e], k)'
    <3>1. CASE e = d
      BY <1>b, <2>1, <2>3, <2>4, <2>5, <3>1 DEF Keeps, Merged, InDrive
    <3>2. CASE e # d
      BY <1>b, <2>1, <2>3, <2>5, <3>2 DEF Keeps, InDrive
    <3>3. QED BY <3>1, <3>2
  <2>7. QED BY <2>1, <2>3, <2>6 DEF Alive, InDrive
<1>10. ASSUME NEW d \in Devices, Applied(d) PROVE Alive(k)'
  <2> DEFINE s == [sync[d] EXCEPT !.pc = "check"]
  <2>1. sync' = [sync EXCEPT ![d] = s] /\ sync[d].pc = "put" /\ sync[d].todo = {}
        /\ UNCHANGED <<store, baseline, drive>>
    BY <1>10 DEF Applied, Step
  <2>2. s.pc = "check" /\ s.library = sync[d].library
    BY <1>b DEF SyncState
  <2> HIDE DEF s
  <2>3. Keeps(d, s, k)
    BY <1>b, <2>1, <2>2 DEF Keeps, Merged
  <2>4. QED BY <2>1, <2>3, SyncAlive
<1>11. ASSUME NEW d \in Devices, Check(d) PROVE Alive(k)'
  <2> DEFINE s == IF ~sync[d].moved THEN [sync[d] EXCEPT !.pc = "save"]
                  ELSE IF sync[d].attempt < maxRemoteRetries
                  THEN [Resting EXCEPT !.pc = "read", !.attempt = sync[d].attempt + 1]
                  ELSE Resting
  <2>1. sync' = [sync EXCEPT ![d] = s] /\ sync[d].pc = "check"
        /\ UNCHANGED <<store, baseline, drive>>
    BY <1>11 DEF Check
  <2>2. \/ s.pc = "save" /\ s.library = sync[d].library
        \/ s.pc \in {"idle", "read"} /\ s.library.of[k] = Absent
    BY <1>b, <1>d DEF SyncState, Resting
  <2> HIDE DEF s
  <2>3. Keeps(d, s, k)
    BY <1>b, <2>1, <2>2, StateForms DEF Keeps, Merged
  <2>4. QED BY <2>1, <2>3, SyncAlive
<1>12. ASSUME NEW d \in Devices, Save(d) PROVE Alive(k)'
  <2>1. Len(drive') = 1 /\ drive'[1] = sync[d].library
    BY <1>12, SavedFile
  <2>2. drive' # <<>>
    <3>1. Len(<<>>) = 0 /\ 0 # 1
      OBVIOUS
    <3>2. QED BY <2>1, <3>1, Zenon
  <2>3. sync[d].pc = "save" /\ UNCHANGED <<store, baseline>>
    BY <1>12 DEF Save
  <2>4. (InDrive(k) => InDrive(k)') /\ (Has(sync[d].library.of[k]) => InDrive(k)')
    BY <1>b, <2>1, <2>2, <2>3 DEF InDrive, Keeps, Merged
  <2>5. \A e \in Devices :
          /\ sync'[e].library = sync[e].library
          /\ sync'[e].pc = IF e = d THEN "commit" ELSE "idle"
    BY <1>12, <1>b, <2>3 DEF Save, SyncState, Alone, Busy
  <2>6. ASSUME NEW e \in Devices PROVE Keeps(e, sync[e], k)'
    <3>1. CASE e = d
      BY <1>b, <2>3, <2>4, <2>5, <3>1 DEF Keeps, Merged
    <3>2. CASE e # d
      BY <1>b, <2>5, <3>2 DEF Keeps, Merged
    <3>3. QED BY <3>1, <3>2
  <2>7. drive'[1].of[k].kind # "deleted"
    BY <1>b, <2>1 DEF Keeps
  <2>8. QED BY <1>b, <2>3, <2>4, <2>6, <2>7 DEF Alive
<1>13. ASSUME NEW d \in Devices, Commit(d) PROVE Alive(k)'
  <2> DEFINE manifest == createLibraryManifest(sync[d].library)
  <2>1. /\ baseline' = [baseline EXCEPT ![d] = manifest] /\ sync' = [sync EXCEPT ![d] = Resting]
        /\ sync[d].pc = "commit" /\ UNCHANGED <<store, drive>>
    BY <1>13 DEF Commit
  <2>2. manifest[k].kind = sync[d].library.of[k].kind
    BY <1>b, ManifestType
  <2> HIDE DEF manifest
  <2>3. \A e \in Devices : /\ sync'[e] = IF e = d THEN Resting ELSE sync[e]
                           /\ baseline'[e] = IF e = d THEN manifest ELSE baseline[e]
    BY <2>1 DEF Types, SyncTypes, StoreTypes
  <2>4. manifest[k].kind # "deleted" /\ (Has(manifest[k]) => Has(store[d][k]) /\ InDrive(k))
    BY <1>b, <2>1, <2>2 DEF Keeps, Has
  <2>5. ASSUME NEW e \in Devices PROVE Keeps(e, sync[e], k)'
    <3>1. CASE e = d
      BY <1>d, <2>3, <3>1, StateForms DEF Keeps, Merged
    <3>2. CASE e # d
      BY <1>b, <2>1, <2>3, <3>2 DEF Keeps, InDrive
    <3>3. QED BY <3>1, <3>2
  <2>6. QED BY <1>b, <2>1, <2>3, <2>4, <2>5 DEF Alive, InDrive
<1>14. ASSUME NEW d \in Devices, Fail(d) PROVE Alive(k)'
  <2>1. sync' = [sync EXCEPT ![d] = Resting] /\ UNCHANGED <<store, baseline, drive>>
    BY <1>14 DEF Fail
  <2>2. QED BY <1>e, <2>1, SyncAlive
<1>15. CASE UNCHANGED vars
  BY <1>15, <1>a DEF vars
<1>16. QED
  BY <1>1, <1>2, <1>3, <1>4, <1>5, <1>6, <1>7, <1>8, <1>9, <1>10, <1>11, <1>12, <1>13,
     <1>14, <1>15 DEF Next, Synchronize

----------------------------------------------------------------------------
\* Syncs that do not overlap delete no record that nobody deleted, whatever the
\* users do meanwhile and wherever the syncs fail.
THEOREM NoRecordLeavesUnasked ==
  ASSUME ~Overlap
  PROVE  Spec => DeletedOnlyIfAsked
<1>1. Init => IInv
  BY InitTypes, InitAlone, InitAlive DEF IInv
<1>2. IInv /\ [Next]_vars => IInv'
  <2> SUFFICES ASSUME IInv, [Next]_vars PROVE IInv'
    OBVIOUS
  <2>1. Types' /\ Alone'
    BY NextTypes, NextAlone DEF IInv
  <2>2. ASSUME NEW k \in Keys, Untouched(k)' PROVE Alive(k)'
    BY <2>2, UntouchedBefore, NextAlive DEF IInv
  <2>3. QED BY <2>1, <2>2 DEF IInv
<1>3. IInv /\ [Next]_vars =>
        [\A d \in Devices, k \in Keys :
           store[d][k] # Absent /\ store'[d][k] = Absent =>
             \E e \in Devices : dropped'[e][k] # {}]_store
  <2> SUFFICES ASSUME IInv, [Next]_vars, NEW d \in Devices, NEW k \in Keys,
                      store[d][k] # Absent, store'[d][k] = Absent, Untouched(k)'
               PROVE  FALSE
    BY DEF Untouched
  <2>1. Untouched(k) /\ Types
    BY UntouchedBefore DEF IInv
  <2>2. QED BY <2>1, OnlyUsersDelete DEF IInv
<1>4. QED BY <1>1, <1>2, <1>3, PTL DEF Spec, DeletedOnlyIfAsked

----------------------------------------------------------------------------
(* Syncs one at a time.                                                      *)

HIDE MergeAssumption
HIDE SyncAssumption

----------------------------------------------------------------------------
\* Least sets and numbers: induction without an operator for a parameter.

\* Among finite sets, one contains no other: subsets of a finite set cannot go on
\* getting smaller.
LEMMA LeastSet ==
  ASSUME NEW S, NEW T, T \subseteq FiniteSubsetsOf(S), T # {}
  PROVE  \E x \in T : \A y \in T : ~(y \subseteq x /\ y # x)
<1>1. \E x \in T : \A y \in T : <<y, x>> \notin StrictSubsetOrdering(S)
  BY FS_StrictSubsetOrderingWellFounded, WFMin
<1>2. QED BY <1>1 DEF StrictSubsetOrdering, FiniteSubsetsOf

\* A set of numbers that is not empty has a least one.
LEMMA LeastNumber ==
  ASSUME NEW T \in SUBSET Nat, T # {}
  PROVE  \E x \in T : \A y \in T : x <= y
<1> DEFINE below(n) == 0..n
           U == {below(n) : n \in T}
<1>1. U \subseteq FiniteSubsetsOf(Nat) /\ U # {}
  <2>1. \A n \in Nat : IsFiniteSet(0..n) /\ 0..n \subseteq Nat
    BY FS_Interval
  <2>2. QED BY <2>1 DEF FiniteSubsetsOf
<1>2. PICK s \in U : \A u \in U : ~(u \subseteq s /\ u # s)
  <2> HIDE DEF U
  <2>1. QED BY <1>1, LeastSet
<1>3. PICK x \in T : s = 0..x
  OBVIOUS
<1>4. ASSUME NEW y \in T, ~(x <= y) PROVE FALSE
  <2>1. 0..y \subseteq 0..x /\ x \in 0..x /\ x \notin 0..y
    BY <1>4
  <2>2. QED BY <1>2, <1>3, <2>1
<1>5. QED BY <1>4

----------------------------------------------------------------------------
\* What a merge keeps.

\* Of finitely many findings, one is the newest.
LEMMA NewestFinding ==
  ASSUME NEW S \in SUBSET ConflictEntry, IsFiniteSet(S), S # {}
  PROVE  \E c \in S : \A e \in S : e.detectedAt <= c.detectedAt
<1> DEFINE later(c) == {e \in S : e.detectedAt > c.detectedAt}
           T == {later(c) : c \in S}
<1>1. T \subseteq FiniteSubsetsOf(S) /\ T # {}
  <2>1. \A c \in S : later(c) \subseteq S /\ IsFiniteSet(later(c))
    BY FS_Subset
  <2>2. QED BY <2>1 DEF FiniteSubsetsOf
<1>2. PICK x \in T : \A y \in T : ~(y \subseteq x /\ y # x)
  <2> HIDE DEF T
  <2>1. QED BY <1>1, LeastSet
<1>3. PICK c \in S : x = later(c)
  OBVIOUS
<1>4. ASSUME NEW e \in S, e.detectedAt > c.detectedAt PROVE FALSE
  <2>1. \A f \in S : f.detectedAt \in Nat
    BY DEF ConflictEntry
  <2>2. later(e) \subseteq later(c) /\ e \in later(c) /\ e \notin later(e)
    BY <1>4, <2>1
  <2>3. QED BY <1>2, <1>3, <2>2
<1>5. \A f \in S : f.detectedAt \in Nat
  BY DEF ConflictEntry
<1>6. QED BY <1>4, <1>5

\* A history within its limit keeps a finding of each conflict.
LEMMA HistoryKeepsEach ==
  ASSUME NEW S \in SUBSET ConflictEntry, IsFiniteSet(S), Cardinality(S) <= ConflictLimit, NEW c \in S
  PROVE  \E e \in sortConflictHistory(S) : e.alternatives = c.alternatives
<1> DEFINE once == {x \in S : \A d \in S :
              d.key = x.key /\ d.alternatives = x.alternatives => d.detectedAt <= x.detectedAt}
           class == {x \in S : x.key = c.key /\ x.alternatives = c.alternatives}
<1>1. sortConflictHistory(S) = once
  <2>1. Cardinality(once) <= Cardinality(S) /\ Cardinality(once) \in Nat /\ Cardinality(S) \in Nat
    BY FS_Subset, FS_CardinalityType
  <2>2. Cardinality(once) <= ConflictLimit
    <3> HIDE DEF once
    <3> QED BY <2>1, MergeAssumption
  <2>3. QED BY <2>2 DEF sortConflictHistory
<1>2. class \in SUBSET ConflictEntry /\ IsFiniteSet(class) /\ class # {}
  <2>1. class \subseteq S /\ c \in class
    OBVIOUS
  <2>2. QED BY <2>1, FS_Subset
<1>3. PICK e \in class : \A f \in class : f.detectedAt <= e.detectedAt
  <2> HIDE DEF class
  <2>1. QED BY <1>2, NewestFinding
<1>4. e \in once
  BY <1>3
<1>5. QED BY <1>1, <1>4

\* The findings a merge makes are finitely many, so the history has room for them.
LEMMA FindingsFit ==
  ASSUME IsFiniteSet(Keys), NEW S, IsFiniteSet(S), Cardinality(S) + Cardinality(Keys) <= ConflictLimit,
         NEW Found \in SUBSET Keys, NEW f
  PROVE  LET all == S \cup {f[k] : k \in Found}
         IN  IsFiniteSet(all) /\ Cardinality(all) <= ConflictLimit
<1> DEFINE new == {f[k] : k \in Found}
<1>1. IsFiniteSet(Found) /\ Cardinality(Found) <= Cardinality(Keys)
  BY FS_Subset
<1>2. IsFiniteSet(new) /\ Cardinality(new) <= Cardinality(Found)
  <2> DEFINE g == [k \in Found |-> f[k]]
  <2>1. g \in Surjection(Found, new)
    BY DEF Surjection
  <2>2. QED BY <1>1, <2>1, FS_Surjection
<1> HIDE DEF new
<1>3. IsFiniteSet(S \cup new) /\ Cardinality(S \cup new) <= Cardinality(S) + Cardinality(new)
  BY <1>2, UnionAtMost
<1>4. /\ Cardinality(S) \in Nat /\ Cardinality(new) \in Nat /\ Cardinality(Found) \in Nat
      /\ Cardinality(Keys) \in Nat /\ Cardinality(S \cup new) \in Nat
  BY <1>1, <1>2, <1>3, FS_CardinalityType
<1>5. Cardinality(S \cup new) <= ConflictLimit
  BY <1>1, <1>2, <1>3, <1>4, MergeAssumption
<1>6. QED BY <1>3, <1>5 DEF new

\* A merge into a history with room keeps both sides of every key, unless only the
\* other side has changed since the baseline.
LEMMA MergeKeeps ==
  ASSUME IsFiniteSet(Keys), NEW local \in LibraryDoc, NEW remote \in LibraryDoc,
         NEW base \in [Keys -> State], NEW t \in Nat,
         local.conflicts = {}, IsFiniteSet(remote.conflicts),
         Cardinality(remote.conflicts) + Cardinality(Keys) <= ConflictLimit
  PROVE  LET merged == mergeLibrarySnapshots(local, remote, base, t)
             l == [k \in Keys |-> effectiveState(local.of[k], base[k], local.generatedAt)]
             r == [k \in Keys |-> effectiveState(remote.of[k], base[k], remote.generatedAt)]
         IN  /\ IsFiniteSet(merged.conflicts)
             /\ \A c \in remote.conflicts : \A s \in c.alternatives : s.doc \in Kept(merged)
             /\ \A k \in Keys :
                  /\ l[k].doc \in Kept(merged) \/ (~Changed(l[k], base[k]) /\ Changed(r[k], base[k]))
                  /\ r[k].doc \in Kept(merged) \/ (~Changed(r[k], base[k]) /\ Changed(l[k], base[k]))
                  /\ merged.of[k] = selected(base[k], l[k], r[k])
                  /\ l[k] \in State /\ r[k] \in State
<1> DEFINE l == [k \in Keys |-> effectiveState(local.of[k], base[k], local.generatedAt)]
           r == [k \in Keys |-> effectiveState(remote.of[k], base[k], remote.generatedAt)]
           of == [k \in Keys |-> selected(base[k], l[k], r[k])]
           Found == {x \in Keys : Conflicting(base[x], l[x], r[x])}
           f == [k \in Keys |-> [key |-> k, alternatives |-> {l[k], r[k]}, detectedAt |-> t]]
           new == {f[k] : k \in Found}
           all == remote.conflicts \cup new
           merged == mergeLibrarySnapshots(local, remote, base, t)
<1>1. merged.of = of /\ merged.conflicts = sortConflictHistory(all)
  <2>1. new = {[key |-> k, alternatives |-> {l[k], r[k]}, detectedAt |-> t] :
                k \in {x \in Keys : Conflicting(base[x], l[x], r[x])}}
    OBVIOUS
  <2> HIDE DEF l, r, new
  <2>2. QED BY <2>1 DEF mergeLibrarySnapshots, Library, l, r
<1>2. IsFiniteSet(all) /\ Cardinality(all) <= ConflictLimit
  <2>1. Found \in SUBSET Keys
    OBVIOUS
  <2> HIDE DEF l, r, f, Found
  <2>2. QED BY <2>1, FindingsFit
<1>3. l \in [Keys -> State] /\ r \in [Keys -> State]
  BY EffectiveType DEF LibraryDoc
<1>4. all \in SUBSET ConflictEntry
  <2>1. \A k \in Keys : f[k] \in ConflictEntry
    <3> HIDE DEF l, r
    <3>1. QED BY <1>3 DEF ConflictEntry
  <2> HIDE DEF f
  <2>2. QED BY <2>1 DEF LibraryDoc
<1>5. IsFiniteSet(merged.conflicts)
  <2> HIDE DEF all, merged
  <2>1. sortConflictHistory(all) \subseteq all
    BY DEF sortConflictHistory
  <2>2. QED BY <1>1, <1>2, <2>1, FS_Subset
<1>6. \A c \in all : \A s \in c.alternatives : s.doc \in Kept(merged)
  <2> SUFFICES ASSUME NEW c \in all, NEW s \in c.alternatives PROVE s.doc \in Kept(merged)
    OBVIOUS
  <2> HIDE DEF all
  <2>1. PICK e \in sortConflictHistory(all) : e.alternatives = c.alternatives
    BY <1>2, <1>4, HistoryKeepsEach
  <2>2. e \in merged.conflicts /\ s \in e.alternatives
    BY <1>1, <2>1
  <2> HIDE DEF merged
  <2>3. QED BY <2>2 DEF Kept
<1>7. \A k \in Keys : of[k].doc \in Kept(merged)
  <2> HIDE DEF of, merged
  <2>1. QED BY <1>1 DEF Kept
<1>8. ASSUME NEW k \in Keys
      PROVE  /\ l[k].doc \in Kept(merged) \/ (~Changed(l[k], base[k]) /\ Changed(r[k], base[k]))
             /\ r[k].doc \in Kept(merged) \/ (~Changed(r[k], base[k]) /\ Changed(l[k], base[k]))
  <2>1. of[k] = selected(base[k], l[k], r[k])
    OBVIOUS
  <2>2. Conflicting(base[k], l[k], r[k]) => l[k].doc \in Kept(merged) /\ r[k].doc \in Kept(merged)
    <3>1. Conflicting(base[k], l[k], r[k]) => f[k] \in all
      OBVIOUS
    <3>2. f[k].alternatives = {l[k], r[k]}
      OBVIOUS
    <3> HIDE DEF f, all, l, r, merged
    <3>3. QED BY <1>6, <3>1, <3>2
  <2>3. l[k] \in State /\ r[k] \in State
    BY <1>3
  <2> HIDE DEF l, r, of, merged
  <2>4. semanticallyEqual(l[k], r[k]) => l[k].doc = r[k].doc
    BY <2>3, StateKinds DEF semanticallyEqual, State, Absent
  <2>5. of[k] \in {l[k], r[k]}
    BY <2>1, <2>3, SelectedIsASide
  <2>6. CASE Changed(l[k], base[k]) /\ Changed(r[k], base[k])
    BY <1>7, <2>2, <2>4, <2>5, <2>6 DEF Conflicting
  <2>7. CASE Changed(l[k], base[k]) /\ ~Changed(r[k], base[k])
    BY <1>7, <2>1, <2>7 DEF selected
  <2>8. CASE ~Changed(l[k], base[k]) /\ Changed(r[k], base[k])
    BY <1>7, <2>1, <2>8 DEF selected
  <2>9. CASE ~Changed(l[k], base[k]) /\ ~Changed(r[k], base[k])
    <3>1. semanticallyEqual(l[k], r[k])
      BY <2>9 DEF Changed, semanticallyEqual
    <3>2. QED BY <1>7, <2>4, <2>5, <3>1
  <2>10. QED BY <2>6, <2>7, <2>8, <2>9
<1>9. \A k \in Keys : merged.of[k] = selected(base[k], l[k], r[k]) /\ l[k] \in State /\ r[k] \in State
  <2>1. \A k \in Keys : of[k] = selected(base[k], l[k], r[k])
    OBVIOUS
  <2> HIDE DEF l, r, of, merged
  <2>2. QED BY <1>1, <1>3, <2>1
<1> HIDE DEF l, r, of, merged, all, new, f
<1>10. \A c \in remote.conflicts : \A s \in c.alternatives : s.doc \in Kept(merged)
  BY <1>6 DEF all
<1>11. QED BY <1>5, <1>8, <1>9, <1>10 DEF l, r, merged

----------------------------------------------------------------------------
\* A sync that nothing disturbs.

\* What a device has of a key, seen by its sync: the record, or that a record of
\* the baseline is gone, or what the baseline has.
FileState(k) == IF drive = <<>> THEN Absent ELSE drive[1].of[k]
LocalSide(d, k, at) ==
  IF store[d][k] # Absent THEN store[d][k] ELSE effectiveState(Absent, baseline[d][k], at)
AppliedTo(d, k) ==
  sync[d].library.of[k] # Absent => store[d][k].doc = sync[d].library.of[k].doc

Quiet(s) ==
  /\ ~s.moved
  /\ s.pc = "idle" => s = Resting
  /\ s.pc \in {"idle", "read"} => s.library = NoLibrary
  /\ s.pc \in {"find", "download"} => s.library.conflicts = {}

Sourced(d, k) ==
  /\ sync[d].pc \in {"find", "download"} =>
       sync[d].library.of[k] = LocalSide(d, k, sync[d].library.generatedAt)
  /\ sync[d].pc = "put" => k \in sync[d].todo \/ AppliedTo(d, k)
  /\ sync[d].pc \in {"check", "save", "commit"} => AppliedTo(d, k)

\* A key that a baseline, the file or a merging device has is in what replaces it.
Covered(d, k) ==
  /\ baseline[d][k] # Absent => FileState(k) # Absent
  /\ sync[d].pc \in Merged \cup {"commit"} /\ store[d][k] # Absent => sync[d].library.of[k] # Absent
  /\ sync[d].pc \in Merged /\ FileState(k) # Absent => sync[d].library.of[k] # Absent

Orderly ==
  \A d \in Devices :
    /\ Quiet(sync[d])
    /\ sync[d].pc = "commit" => sync[d].library = drive[1]
    /\ \A k \in Keys : Sourced(d, k) /\ Covered(d, k)
\* What a step of a sync does to the sync.
SameExcept(s, t, pc) ==
  t.pc = pc /\ t.library = s.library /\ t.todo = s.todo /\ t.moved = s.moved
Only(d) == \A e \in Devices : e # d => sync'[e] = sync[e]

LEMMA SyncShapes ==
  ASSUME Types, NEW d \in Devices
  PROVE
  /\ Begin(d) => Only(d) /\ SameExcept(sync[d], sync'[d], "read")
  /\ ReadLocal(d) => Only(d) /\ sync'[d].pc = "find" /\ sync'[d].library = Snapshot(d)
                     /\ sync'[d].moved = sync[d].moved
  /\ Find(d) => Only(d) /\ sync'[d].pc = (IF newest = NoFile THEN "apply" ELSE "download")
                /\ sync'[d].library = sync[d].library /\ sync'[d].moved = FALSE
  /\ Download(d) => Only(d) /\ sync'[d].pc = "apply" /\ sync'[d].moved = sync[d].moved
       /\ sync'[d].library =
            mergeLibrarySnapshots(sync[d].library, drive[sync[d].file], baseline[d], now)
  /\ BeginApply(d) => Only(d) /\ sync'[d].pc = "put" /\ sync'[d].todo = ChangedKeys(d)
       /\ sync'[d].library = sync[d].library /\ sync'[d].moved = sync[d].moved
  /\ \A k \in Keys : Apply(d, k) => Only(d) /\ sync'[d].pc = "put" /\ sync'[d].todo = sync[d].todo \ {k}
       /\ sync'[d].library = sync[d].library /\ sync'[d].moved = sync[d].moved
  /\ Applied(d) => Only(d) /\ SameExcept(sync[d], sync'[d], "check")
  /\ Check(d) /\ ~sync[d].moved => Only(d) /\ SameExcept(sync[d], sync'[d], "save")
  /\ Save(d) => /\ SameExcept(sync[d], sync'[d], "commit")
                /\ \A e \in Devices : e # d => /\ sync'[e].pc = sync[e].pc
                                               /\ sync'[e].library = sync[e].library
                                               /\ sync'[e].todo = sync[e].todo
                                               /\ sync'[e].attempt = sync[e].attempt
                                               /\ sync'[e].file = sync[e].file
  /\ Commit(d) => Only(d) /\ sync'[d] = Resting
<1> USE DEF Only, SameExcept
<1>a. sync \in [Devices -> SyncState] /\ sync[d] \in SyncState
  BY DEF Types, SyncTypes
<1>1. Begin(d) => Only(d) /\ SameExcept(sync[d], sync'[d], "read")
  BY <1>a DEF Begin, Step, SyncState
<1>2. ReadLocal(d) => Only(d) /\ sync'[d].pc = "find" /\ sync'[d].library = Snapshot(d)
                     /\ sync'[d].moved = sync[d].moved
  BY <1>a DEF ReadLocal, SyncState
<1>3. Find(d) => Only(d) /\ sync'[d].pc = (IF newest = NoFile THEN "apply" ELSE "download")
                /\ sync'[d].library = sync[d].library /\ sync'[d].moved = FALSE
  BY <1>a DEF Find, SyncState
<1>4. Download(d) => Only(d) /\ sync'[d].pc = "apply" /\ sync'[d].moved = sync[d].moved
       /\ sync'[d].library =
            mergeLibrarySnapshots(sync[d].library, drive[sync[d].file], baseline[d], now)
  BY <1>a DEF Download, SyncState
<1>5. BeginApply(d) => Only(d) /\ sync'[d].pc = "put" /\ sync'[d].todo = ChangedKeys(d)
       /\ sync'[d].library = sync[d].library /\ sync'[d].moved = sync[d].moved
  BY <1>a DEF BeginApply, SyncState
<1>6. ASSUME NEW k \in Keys, Apply(d, k)
      PROVE  Only(d) /\ sync'[d].pc = "put" /\ sync'[d].todo = sync[d].todo \ {k}
             /\ sync'[d].library = sync[d].library /\ sync'[d].moved = sync[d].moved
  BY <1>a, <1>6 DEF Apply, SyncState
<1>7. Applied(d) => Only(d) /\ SameExcept(sync[d], sync'[d], "check")
  BY <1>a DEF Applied, Step, SyncState
<1>8. Check(d) /\ ~sync[d].moved => Only(d) /\ SameExcept(sync[d], sync'[d], "save")
  BY <1>a DEF Check, SyncState
<1>9. Save(d) => /\ SameExcept(sync[d], sync'[d], "commit")
                /\ \A e \in Devices : e # d => /\ sync'[e].pc = sync[e].pc
                                               /\ sync'[e].library = sync[e].library
                                               /\ sync'[e].todo = sync[e].todo
                                               /\ sync'[e].attempt = sync[e].attempt
                                               /\ sync'[e].file = sync[e].file
  BY <1>a, SMTT(60) DEF Save, SyncState
<1>10. Commit(d) => Only(d) /\ sync'[d] = Resting
  BY <1>a DEF Commit
<1>11. QED BY <1>1, <1>2, <1>3, <1>4, <1>5, <1>6, <1>7, <1>8, <1>9, <1>10
\* What applying a key, saving and committing do.
LEMMA AppliedState ==
  ASSUME Types, NEW d \in Devices, NEW k \in Keys, Apply(d, k)
  PROVE  /\ \A e \in Devices, j \in Keys : (e # d \/ j # k) => store'[e][j] = store[e][j]
         /\ store'[d][k].doc = sync[d].library.of[k].doc
         /\ store'[d][k] # Absent => Has(sync[d].library.of[k]) /\ sync[d].library.of[k] # Absent
<1>1. sync[d].library.of[k] \in State
  BY DEF Types, SyncTypes, SyncState, LibraryDoc
<1>2. sync[d].library.of[k].kind # "record" => sync[d].library.of[k].doc = NoDoc
  BY <1>1 DEF State, Absent
<1>3. QED BY <1>2, StateForms DEF Apply, Types, StoreTypes, Record, Absent, Has

LEMMA SavedFileExists ==
  ASSUME Types, Alone, NEW d \in Devices, Save(d)
  PROVE  drive' # <<>>
<1>1. Len(drive') = 1 /\ Len(<<>>) = 0 /\ 0 # 1
  BY SavedFile
<1>2. QED BY <1>1, Zenon

LEMMA SavesAlone ==
  ASSUME Types, Alone, NEW d \in Devices, Save(d), NEW e \in Devices, e # d, Quiet(sync[e])
  PROVE  sync[e] = Resting /\ sync'[e] = Resting
<1>1. sync[e] = Resting
  BY DEF Alone, Busy, Quiet, Save
<1> DEFINE file == IF sync[d].file = NoFile THEN Len(drive) + 1 ELSE sync[d].file
<1>2. file # NoFile /\ sync'[e] = [sync[e] EXCEPT !.moved = @ \/ sync[e].file = file]
  <2>1. Len(drive) \in Nat
    BY DEF Types, DriveTypes
  <2>2. QED BY <2>1 DEF Save, NoFile
<1> HIDE DEF file
<1>3. ~(sync[e].moved \/ sync[e].file = file)
  BY <1>1, <1>2 DEF Resting
<1>4. (sync[e].moved \/ sync[e].file = file) = FALSE
  BY <1>3, Zenon
<1>5. sync'[e] = [Resting EXCEPT !.moved = FALSE]
  BY <1>1, <1>2, <1>4, Zenon
<1>6. QED BY <1>1, <1>5 DEF Resting

LEMMA CommittedState ==
  ASSUME Types, NEW d \in Devices, Commit(d)
  PROVE  /\ \A e \in Devices : e # d => baseline'[e] = baseline[e]
         /\ \A k \in Keys :
              /\ baseline'[d][k].doc = sync[d].library.of[k].doc
              /\ baseline'[d][k].kind = sync[d].library.of[k].kind
              /\ baseline'[d][k] # Absent => sync[d].library.of[k] # Absent
<1>1. /\ \A e \in Devices : e # d => baseline'[e] = baseline[e]
      /\ baseline'[d] = createLibraryManifest(sync[d].library)
  BY DEF Commit, Types, StoreTypes
<1>2. QED BY <1>1, StateForms DEF createLibraryManifest, Record, Has

LEMMA Restful ==
  /\ Quiet(Resting) /\ Resting.pc = "idle" /\ Resting.library = NoLibrary
  /\ NoLibrary.conflicts = {} /\ \A k \in Keys : NoLibrary.of[k] = Absent
  BY DEF Quiet, Resting, NoLibrary, Nothing

LEMMA InitOrderly == Init => Orderly
<1> SUFFICES ASSUME Init PROVE Orderly
  OBVIOUS
<1>1. \A d \in Devices : sync[d] = Resting
  BY DEF Init
<1>2. \A d \in Devices, k \in Keys : Sourced(d, k)
  BY <1>1, Restful DEF Sourced
<1>3. CASE store = [d \in Devices |-> Nothing] /\ baseline = [d \in Devices |-> Nothing]
  <2>1. \A d \in Devices, k \in Keys : Covered(d, k)
    BY <1>1, <1>3, Restful DEF Covered, Merged, Nothing
  <2>2. QED BY <1>1, <1>2, <2>1, Restful DEF Orderly
<1>4. CASE \E k \in Keys :
             LET library == [NoLibrary EXCEPT !.of[k] = Record(1, 1)]
             IN  /\ store = [d \in Devices |-> library.of]
                 /\ baseline = [d \in Devices |-> createLibraryManifest(library)]
                 /\ drive = <<library>>
  <2> DEFINE library(k) == [NoLibrary EXCEPT !.of[k] = Record(1, 1)]
  <2>1. PICK k \in Keys :
          /\ baseline = [d \in Devices |-> createLibraryManifest(library(k))]
          /\ drive = <<library(k)>>
    BY <1>4
  <2> HIDE DEF library
  <2>2. drive # <<>> /\ drive[1] = library(k)
    BY <2>1
  <2>3. \A d \in Devices, j \in Keys : library(k).of[j] = Absent => baseline[d][j] = Absent
    BY <2>1, StateForms DEF createLibraryManifest, Has
  <2>4. \A d \in Devices, j \in Keys : Covered(d, j)
    BY <1>1, <2>2, <2>3, Restful DEF Covered, Merged, FileState
  <2>5. QED BY <1>1, <1>2, <2>4, Restful DEF Orderly
<1>5. QED BY <1>3, <1>4 DEF Init

\* A merge selects, key by key, from what the two sides have.
LEMMA MergeSelects ==
  ASSUME NEW local \in LibraryDoc, NEW remote \in LibraryDoc, NEW base \in [Keys -> State],
         NEW t \in Nat, NEW k \in Keys
  PROVE  LET l == effectiveState(local.of[k], base[k], local.generatedAt)
             r == effectiveState(remote.of[k], base[k], remote.generatedAt)
             n == mergeLibrarySnapshots(local, remote, base, t).of[k]
         IN  n = selected(base[k], l, r) /\ l \in State /\ r \in State /\ n \in {l, r}
<1>1. /\ effectiveState(local.of[k], base[k], local.generatedAt) \in State
      /\ effectiveState(remote.of[k], base[k], remote.generatedAt) \in State
  BY EffectiveType DEF LibraryDoc
<1>2. mergeLibrarySnapshots(local, remote, base, t).of[k] =
        selected(base[k], effectiveState(local.of[k], base[k], local.generatedAt),
                          effectiveState(remote.of[k], base[k], remote.generatedAt))
  BY DEF mergeLibrarySnapshots, Library
<1>3. QED BY <1>1, <1>2, SelectedIsASide

\* The two sides of the merge of a sync that nothing disturbs.
LEMMA Sides ==
  ASSUME Types, Alone, Orderly, NEW d \in Devices, Download(d)
  PROVE  /\ drive # <<>> /\ drive[1] \in LibraryDoc /\ sync[d].library \in LibraryDoc
         /\ baseline[d] \in [Keys -> State] /\ now \in Nat
         /\ sync'[d].library = mergeLibrarySnapshots(sync[d].library, drive[1], baseline[d], now)
         /\ \A k \in Keys :
              LET l == LocalSide(d, k, sync[d].library.generatedAt)
              IN  /\ effectiveState(sync[d].library.of[k], baseline[d][k], sync[d].library.generatedAt) = l
                  /\ effectiveState(drive[1].of[k], baseline[d][k], drive[1].generatedAt) = FileState(k)
                  /\ store[d][k] # Absent => l = store[d][k]
                  /\ store[d][k] = Absent => ~Has(l)
                  /\ store[d][k] = Absent /\ ~Has(baseline[d][k]) => l = baseline[d][k]
<1> DEFINE local == sync[d].library
           remote == drive[1]
           base == baseline[d]
           l(k) == LocalSide(d, k, local.generatedAt)
<1>1. /\ sync[d].pc = "download" /\ drive # <<>> /\ remote \in LibraryDoc
      /\ sync'[d].library = mergeLibrarySnapshots(local, remote, base, now)
  BY TheFile, SyncShapes DEF Download
<1>2. local \in LibraryDoc /\ base \in [Keys -> State] /\ now \in Nat
  BY DEF Types, SyncTypes, SyncState, StoreTypes, CounterTypes
<1>3. ASSUME NEW k \in Keys
      PROVE  /\ effectiveState(local.of[k], base[k], local.generatedAt) = l(k)
             /\ effectiveState(remote.of[k], base[k], remote.generatedAt) = FileState(k)
             /\ store[d][k] # Absent => l(k) = store[d][k]
             /\ store[d][k] = Absent => ~Has(l(k))
             /\ store[d][k] = Absent /\ ~Has(base[k]) => l(k) = base[k]
  <2>1. Sourced(d, k) /\ Covered(d, k) /\ store[d][k] \in Held /\ base[k] \in State
    BY <1>2 DEF Orderly, Types, StoreTypes
  <2>2. local.of[k] = l(k)
    BY <1>1, <2>1 DEF Sourced
  <2>3. /\ store[d][k] # Absent => l(k) = store[d][k]
        /\ store[d][k] = Absent => ~Has(l(k))
        /\ store[d][k] = Absent /\ ~Has(base[k]) => l(k) = base[k]
        /\ l(k) = Absent => base[k] = Absent
    BY <2>1, StateForms DEF LocalSide, effectiveState, Has, Tombstone, Absent
  <2>4. effectiveState(l(k), base[k], local.generatedAt) = l(k)
    BY <2>3 DEF effectiveState, Absent
  <2>5. effectiveState(remote.of[k], base[k], remote.generatedAt) = FileState(k)
    BY <1>1, <2>1 DEF effectiveState, Absent, Covered, FileState
  <2>6. QED BY <2>2, <2>3, <2>4, <2>5
<1>4. QED BY <1>1, <1>2, <1>3

\* So a download selects, key by key, from what the device and the file have.
LEMMA Downloaded ==
  ASSUME Types, Alone, Orderly, NEW d \in Devices, Download(d), NEW k \in Keys
  PROVE  LET l == LocalSide(d, k, sync[d].library.generatedAt)
             r == FileState(k)
             n == sync'[d].library.of[k]
         IN  /\ n = selected(baseline[d][k], l, r) /\ n \in {l, r}
             /\ l \in State /\ r \in State /\ drive # <<>>
             /\ store[d][k] # Absent => l = store[d][k]
             /\ store[d][k] = Absent => ~Has(l)
             /\ store[d][k] = Absent /\ ~Has(baseline[d][k]) => l = baseline[d][k]
  BY Sides, MergeSelects

\* A step of one sync that changes neither a store, a baseline nor a file.
LEMMA SyncOrderly ==
  ASSUME Orderly, NEW d \in Devices, UNCHANGED <<store, baseline, drive>>, Only(d),
         \A e \in Devices : Busy(e) => e = d,
         Quiet(sync[d])', \A k \in Keys : Sourced(d, k)' /\ Covered(d, k)', sync'[d].pc # "commit"
  PROVE  Orderly'
<1>1. \A e \in Devices : e # d => sync'[e] = sync[e] /\ sync[e].pc = "idle"
  BY DEF Only, Busy
<1>2. ASSUME NEW e \in Devices, e # d
      PROVE  /\ Quiet(sync[e])' /\ (sync[e].pc = "commit" => sync[e].library = drive[1])'
             /\ \A k \in Keys : Sourced(e, k)' /\ Covered(e, k)'
  BY <1>1, <1>2 DEF Orderly, Quiet, Sourced, Covered, Merged, FileState
<1>3. QED BY <1>2 DEF Orderly

\* Every step keeps the syncs orderly: nothing happens between two steps of one
\* that its later steps do not expect.
LEMMA NextOrderly ==
  ASSUME ~Overlap, ~EditsWhileSyncing, MaxFailures = 0, Types, Alone, Orderly, [Next]_vars
  PROVE  Orderly'
<1>a. \A d \in Devices :
        /\ Quiet(sync[d]) /\ sync[d] \in SyncState /\ sync[d].library \in LibraryDoc
        /\ sync[d].pc = "commit" => sync[d].library = drive[1]
        /\ \A k \in Keys : Sourced(d, k) /\ Covered(d, k)
        /\ Busy(d) => \A e \in Devices : Busy(e) => e = d
  BY DEF Orderly, Alone, Types, SyncTypes, SyncState
<1>b. \A d \in Devices, k \in Keys : store[d][k] \in Held /\ baseline[d][k] \in State
  BY DEF Types, StoreTypes
<1>1. ASSUME NEW d \in Devices, NEW k \in Keys, Edit(d, k) \/ Delete(d, k) PROVE Orderly'
  <2>1. /\ UNCHANGED <<baseline, sync, drive>> /\ sync[d].pc = "idle"
        /\ \A e \in Devices, j \in Keys : e # d => store'[e][j] = store[e][j]
    BY <1>1 DEF Edit, Delete, MayEdit, Types, StoreTypes
  <2>2. ASSUME NEW e \in Devices
        PROVE  /\ Quiet(sync[e])' /\ (sync[e].pc = "commit" => sync[e].library = drive[1])'
               /\ \A j \in Keys : Sourced(e, j)' /\ Covered(e, j)'
    <3>1. CASE e = d
      BY <1>a, <2>1, <3>1 DEF Quiet, Sourced, Covered, FileState, Merged
    <3>2. CASE e # d
      BY <1>a, <2>1, <3>2 DEF Quiet, Sourced, AppliedTo, LocalSide, Covered, FileState
    <3>3. QED BY <3>1, <3>2
  <2>3. QED BY <2>2 DEF Orderly
<1>2. CASE UNCHANGED <<store, baseline, sync, drive>>
  BY <1>2 DEF Orderly, Quiet, Sourced, AppliedTo, LocalSide, Covered, FileState
<1>3. ASSUME NEW d \in Devices, Begin(d) PROVE Orderly'
  <2>1. /\ UNCHANGED <<store, baseline, drive>> /\ \A e \in Devices : ~Busy(e) /\ sync[d].pc = "idle"
        /\ Only(d) /\ SameExcept(sync[d], sync'[d], "read")
    BY <1>3, SyncShapes DEF Begin, Busy, Step
  <2>2. Quiet(sync[d])' /\ \A k \in Keys : Sourced(d, k)' /\ Covered(d, k)'
    BY <1>a, <2>1 DEF SameExcept, Quiet, Sourced, Covered, FileState, Merged
  <2>3. QED BY <2>1, <2>2, SyncOrderly DEF SameExcept
<1>4. ASSUME NEW d \in Devices, ReadLocal(d) PROVE Orderly'
  <2>1. /\ UNCHANGED <<store, baseline, drive>> /\ sync[d].pc = "read" /\ Only(d)
        /\ sync'[d].pc = "find" /\ sync'[d].library = Snapshot(d) /\ sync'[d].moved = sync[d].moved
    BY <1>4, SyncShapes DEF ReadLocal
  <2>2. Snapshot(d).conflicts = {} /\ Snapshot(d).generatedAt = now
        /\ \A k \in Keys : Snapshot(d).of[k] = LocalSide(d, k, now)
    BY DEF Snapshot, Library, sortConflictHistory, LocalSide
  <2>3. Quiet(sync[d])'
    BY <1>a, <2>1, <2>2 DEF Quiet
  <2>4. \A k \in Keys : Sourced(d, k)' /\ Covered(d, k)'
    BY <1>a, <2>1, <2>2 DEF Sourced, Covered, LocalSide, FileState, Merged
  <2>5. QED BY <1>a, <2>1, <2>3, <2>4, SyncOrderly DEF Busy
<1>5. ASSUME NEW d \in Devices, Find(d) PROVE Orderly'
  <2>1. /\ UNCHANGED <<store, baseline, drive>> /\ sync[d].pc = "find" /\ Only(d)
        /\ sync'[d].pc = (IF newest = NoFile THEN "apply" ELSE "download")
        /\ sync'[d].library = sync[d].library /\ sync'[d].moved = FALSE
    BY <1>5, SyncShapes DEF Find
  <2>2. Quiet(sync[d])' /\ \A k \in Keys : Sourced(d, k)'
    BY <1>a, <2>1 DEF Quiet, Sourced, LocalSide
  <2>3. ASSUME NEW k \in Keys PROVE Covered(d, k)'
    <3>1. newest = NoFile => FileState(k) = Absent
      BY DEF FileState, Types, DriveTypes
    <3>2. store[d][k] # Absent => sync[d].library.of[k] # Absent
      BY <1>a, <2>1 DEF Sourced, LocalSide
    <3>3. QED BY <1>a, <2>1, <3>1, <3>2 DEF Covered, FileState, Merged
  <2>4. QED BY <1>a, <2>1, <2>2, <2>3, SyncOrderly DEF Busy
<1>6. ASSUME NEW d \in Devices, Download(d) PROVE Orderly'
  <2>1. /\ UNCHANGED <<store, baseline, drive>> /\ sync[d].pc = "download" /\ Only(d)
        /\ sync'[d].pc = "apply" /\ sync'[d].moved = sync[d].moved
    BY <1>6, SyncShapes DEF Download
  <2>2. Quiet(sync[d])' /\ \A k \in Keys : Sourced(d, k)'
    BY <1>a, <2>1 DEF Quiet, Sourced
  <2>3. ASSUME NEW k \in Keys PROVE Covered(d, k)'
    <3> DEFINE l == LocalSide(d, k, sync[d].library.generatedAt)
               n == sync'[d].library.of[k]
    <3>1. /\ n = selected(baseline[d][k], l, FileState(k)) /\ n \in {l, FileState(k)}
          /\ store[d][k] # Absent => l = store[d][k]
          /\ store[d][k] = Absent => ~Has(l)
          /\ store[d][k] = Absent /\ ~Has(baseline[d][k]) => l = baseline[d][k]
      BY <1>6, Downloaded
    <3>2. baseline[d][k] # Absent => FileState(k) # Absent
      BY <1>a DEF Covered
    <3>3. l \in State /\ FileState(k) \in State
      BY <1>6, Downloaded
    <3>0. \A s \in State : s.kind = Absent.kind => s = Absent
      BY DEF State, Absent
    <3> HIDE DEF l, n
    <3>4. FileState(k) = Absent => baseline[d][k] = Absent /\ n = l
      BY <3>1, <3>2, <3>3, <3>0 DEF selected, Changed, semanticallyEqual
    <3>5. l = Absent => n = FileState(k)
      <4>1. CASE Has(baseline[d][k])
        BY <3>1, <3>3, <4>1, StateForms DEF LocalSide, effectiveState, Tombstone, Absent, Has, l
      <4>2. CASE ~Has(baseline[d][k]) /\ store[d][k] = Absent
        BY <3>1, <3>3, <3>0, <4>2 DEF selected, Changed, semanticallyEqual
      <4>3. QED BY <3>1, <4>1, <4>2
    <3>6. n = Absent => l = Absent /\ FileState(k) = Absent
      BY <3>1, <3>4, <3>5
    <3>7. QED BY <1>a, <2>1, <3>1, <3>6 DEF Covered, FileState, n
  <2>4. QED BY <1>a, <2>1, <2>2, <2>3, SyncOrderly DEF Busy
<1>7. ASSUME NEW d \in Devices, BeginApply(d) PROVE Orderly'
  <2>1. /\ UNCHANGED <<store, baseline, drive>> /\ sync[d].pc = "apply" /\ Only(d)
        /\ sync'[d].pc = "put" /\ sync'[d].todo = ChangedKeys(d)
        /\ sync'[d].library = sync[d].library /\ sync'[d].moved = sync[d].moved
    BY <1>7, SyncShapes DEF BeginApply
  <2>2. Quiet(sync[d])' /\ \A k \in Keys : Sourced(d, k)' /\ Covered(d, k)'
    BY <1>a, <2>1 DEF Quiet, Sourced, AppliedTo, ChangedKeys, Covered, FileState, Merged
  <2>3. QED BY <1>a, <2>1, <2>2, SyncOrderly DEF Busy
<1>8. ASSUME NEW d \in Devices, NEW k \in Keys, Apply(d, k) PROVE Orderly'
  <2>1. /\ UNCHANGED <<baseline, drive>> /\ sync[d].pc = "put" /\ Only(d)
        /\ sync'[d].pc = "put" /\ sync'[d].todo = sync[d].todo \ {k}
        /\ sync'[d].library = sync[d].library /\ sync'[d].moved = sync[d].moved
    BY <1>8, SyncShapes DEF Apply
  <2>2. /\ \A e \in Devices, j \in Keys : (e # d \/ j # k) => store'[e][j] = store[e][j]
        /\ store'[d][k].doc = sync[d].library.of[k].doc
        /\ store'[d][k] # Absent => sync[d].library.of[k] # Absent
    BY <1>8, AppliedState
  <2>3. \A e \in Devices : e # d => sync'[e] = sync[e] /\ sync[e].pc = "idle"
    BY <1>a, <2>1 DEF Only, Busy
  <2>4. ASSUME NEW e \in Devices
        PROVE  /\ Quiet(sync[e])' /\ (sync[e].pc = "commit" => sync[e].library = drive[1])'
               /\ \A j \in Keys : Sourced(e, j)' /\ Covered(e, j)'
    <3>1. CASE e = d
      BY <1>a, <2>1, <2>2, <3>1 DEF Quiet, Sourced, AppliedTo, Covered, FileState, Merged
    <3>2. CASE e # d
      BY <1>a, <2>1, <2>3, <3>2 DEF Quiet, Sourced, Covered, FileState, Merged
    <3>3. QED BY <3>1, <3>2
  <2>5. QED BY <2>4 DEF Orderly
<1>9. ASSUME NEW d \in Devices, Applied(d) PROVE Orderly'
  <2>1. /\ UNCHANGED <<store, baseline, drive>> /\ sync[d].pc = "put" /\ Only(d) /\ sync[d].todo = {}
        /\ SameExcept(sync[d], sync'[d], "check")
    BY <1>9, SyncShapes DEF Applied, Step
  <2>2. Quiet(sync[d])' /\ \A k \in Keys : Sourced(d, k)' /\ Covered(d, k)'
    BY <1>a, <2>1 DEF Quiet, Sourced, AppliedTo, Covered, FileState, Merged, SameExcept
  <2>3. QED BY <1>a, <2>1, <2>2, SyncOrderly DEF Busy, SameExcept
<1>10. ASSUME NEW d \in Devices, Check(d) PROVE Orderly'
  <2>1. /\ UNCHANGED <<store, baseline, drive>> /\ sync[d].pc = "check" /\ Only(d)
        /\ SameExcept(sync[d], sync'[d], "save")
    BY <1>10, <1>a, SyncShapes DEF Check, Quiet
  <2>2. Quiet(sync[d])' /\ \A k \in Keys : Sourced(d, k)' /\ Covered(d, k)'
    BY <1>a, <2>1 DEF Quiet, Sourced, AppliedTo, Covered, FileState, Merged, SameExcept
  <2>3. QED BY <1>a, <2>1, <2>2, SyncOrderly DEF Busy, SameExcept
<1>11. ASSUME NEW d \in Devices, Save(d) PROVE Orderly'
  <2>1. /\ UNCHANGED <<store, baseline>> /\ sync[d].pc = "save"
        /\ SameExcept(sync[d], sync'[d], "commit")
        /\ drive'[1] = sync[d].library /\ drive' # <<>>
    BY <1>11, SavedFile, SavedFileExists, SyncShapes DEF Save
  <2>2. \A e \in Devices : e # d => sync'[e] = Resting /\ sync[e] = Resting
    BY <1>11, <1>a, SavesAlone
  <2>3. \A k \in Keys : FileState(k)' = sync[d].library.of[k]
                        /\ (FileState(k) # Absent => FileState(k)' # Absent)
    BY <1>a, <2>1 DEF FileState, Covered, Merged
  <2>4. ASSUME NEW e \in Devices
        PROVE  /\ Quiet(sync[e])' /\ (sync[e].pc = "commit" => sync[e].library = drive[1])'
               /\ \A j \in Keys : Sourced(e, j)' /\ Covered(e, j)'
    <3>1. CASE e = d
      BY <1>a, <2>1, <2>3, <3>1 DEF Quiet, Sourced, AppliedTo, Covered, Merged, SameExcept
    <3>2. CASE e # d
      <4>1. Quiet(sync[e])' /\ sync'[e].pc = "idle"
        BY <2>2, <3>2, Restful DEF Quiet
      <4>2. \A j \in Keys : Sourced(e, j)' /\ Covered(e, j)'
        BY <1>a, <2>1, <2>3, <4>1 DEF Sourced, Covered, Merged
      <4>3. QED BY <4>1, <4>2
    <3>3. QED BY <3>1, <3>2
  <2>5. QED BY <2>4 DEF Orderly
<1>12. ASSUME NEW d \in Devices, Commit(d) PROVE Orderly'
  <2>1. /\ UNCHANGED <<store, drive>> /\ sync[d].pc = "commit" /\ Only(d) /\ sync'[d] = Resting
        /\ \A e \in Devices : e # d => baseline'[e] = baseline[e]
        /\ \A k \in Keys : baseline'[d][k] # Absent => sync[d].library.of[k] # Absent
    BY <1>12, SyncShapes, CommittedState DEF Commit
  <2>2. \A e \in Devices : e # d => sync'[e] = sync[e] /\ sync[e].pc = "idle"
    BY <1>a, <2>1 DEF Only, Busy
  <2>3. ASSUME NEW e \in Devices
        PROVE  /\ Quiet(sync[e])' /\ (sync[e].pc = "commit" => sync[e].library = drive[1])'
               /\ \A j \in Keys : Sourced(e, j)' /\ Covered(e, j)'
    <3>1. CASE e = d
      <4>1. Quiet(sync[e])' /\ sync'[e].pc = "idle"
        BY <2>1, <3>1, Restful DEF Quiet
      <4>2. \A j \in Keys : baseline'[d][j] # Absent => FileState(j) # Absent
        BY <1>a, <2>1 DEF FileState, Alone, Working
      <4>3. QED BY <2>1, <3>1, <4>1, <4>2 DEF Sourced, Covered, FileState, Merged
    <3>2. CASE e # d
      BY <1>a, <2>1, <2>2, <3>2 DEF Quiet, Sourced, Covered, FileState, Merged
    <3>3. QED BY <3>1, <3>2
  <2>4. QED BY <2>3 DEF Orderly
<1>13. ASSUME NEW d \in Devices, Fail(d) PROVE Orderly'
  BY <1>13 DEF Fail, Types, CounterTypes
<1>14. CASE UNCHANGED vars
  BY <1>2, <1>14 DEF vars
<1>15. CASE Tick
  BY <1>2, <1>15 DEF Tick
<1>16. QED
  BY <1>1, <1>3, <1>4, <1>5, <1>6, <1>7, <1>8, <1>9, <1>10, <1>11, <1>12, <1>13,
     <1>14, <1>15 DEF Next, Synchronize

----------------------------------------------------------------------------
\* No edit is lost.

\* A content its user edited or deleted; one that the file keeps.
Superseded(x) == \E e \in Made : over[e] = x
GivenUp(x) == Superseded(x) \/ x \in AllDropped
InFile(x) == drive # <<>> /\ x \in Kept(drive[1])
BeforeMerge == {"idle", "read", "find", "download"}

\* Between syncs a baseline is a copy of what the file or the device has, unless
\* it was given up; a merged library keeps what it is about to replace.
BaselineSecure(d, k) ==
  Has(baseline[d][k]) =>
    /\ GivenUp(baseline[d][k].doc) \/ InFile(baseline[d][k].doc)
    /\ sync[d].pc \in BeforeMerge /\ store[d][k].doc # baseline[d][k].doc =>
         GivenUp(baseline[d][k].doc)

MergeSecure(d) ==
  sync[d].pc \in Merged =>
    \A x \in Docs : (\E k \in Keys : x = store[d][k].doc) \/ InFile(x) =>
      GivenUp(x) \/ x \in Kept(sync[d].library)

FiniteHistories ==
  /\ \A d \in Devices : IsFiniteSet(sync[d].library.conflicts)
  /\ drive # <<>> => IsFiniteSet(drive[1].conflicts)

Secure ==
  /\ FiniteHistories
  /\ \A d \in Devices : MergeSecure(d) /\ \A k \in Keys : BaselineSecure(d, k)

\* The libraries have room for the findings of one more merge.
HistoryHasRoom ==
  \A library \in Libraries : Cardinality(library.conflicts) + Cardinality(Keys) <= ConflictLimit

\* The library file in use is the only one.
LEMMA FileInUse ==
  ASSUME Types, Alone
  PROVE  drive # <<>> => drive[1] \in Libraries /\ drive[1] \in LibraryDoc /\ drive[newest] = drive[1]
<1> SUFFICES ASSUME drive # <<>>
             PROVE  drive[1] \in Libraries /\ drive[1] \in LibraryDoc /\ drive[newest] = drive[1]
  OBVIOUS
<1>1. drive \in Seq(LibraryDoc) /\ Len(drive) \in Nat /\ Len(drive) <= 1
  BY DEF Types, DriveTypes, Alone
<1>2. newest \in 0..Len(drive) /\ newest # 0
  BY DEF Types, DriveTypes, NoFile
<1>3. \A n \in Nat : \A f \in 0..n : n <= 1 /\ f # 0 => f = 1 /\ n = 1
  OBVIOUS
<1>4. newest = 1 /\ Len(drive) = 1
  BY <1>1, <1>2, <1>3, Zenon
<1>5. drive[1] \in LibraryDoc
  BY <1>1, <1>4
<1>6. QED BY <1>4, <1>5, <1>2 DEF Libraries, NoFile

\* What was given up stays so.
LEMMA GivenUpStays ==
  ASSUME Types, [Next]_vars, NEW x, GivenUp(x)
  PROVE  GivenUp(x)'
<1>1. \/ UNCHANGED <<over, dropped>>
      \/ \E d \in Devices, k \in Keys : Edit(d, k) \/ Delete(d, k)
  BY DEF Next, Synchronize, Tick, Begin, ReadLocal, Find, Download, BeginApply, Apply,
         Applied, Check, Save, Commit, Fail, vars
<1>2. CASE UNCHANGED <<over, dropped>>
  BY <1>2 DEF GivenUp, Superseded, AllDropped, Made
<1>3. ASSUME NEW d \in Devices, NEW k \in Keys, Edit(d, k) PROVE GivenUp(x)'
  <2>1. over \in Seq(Docs \cup {NoDoc}) /\ store[d][k].doc \in Docs \cup {NoDoc}
    BY DEF Types, CounterTypes, StoreTypes, Held, State, Absent
  <2>2. over' = Append(over, store[d][k].doc) /\ dropped' = dropped
    BY <1>3 DEF Edit
  <2>3. \A e \in Made : e \in Made' /\ over'[e] = over[e]
    BY <2>1, <2>2 DEF Made
  <2>4. Superseded(x) => Superseded(x)'
    BY <2>3 DEF Superseded
  <2>5. AllDropped' = AllDropped
    BY <2>2 DEF AllDropped
  <2>6. QED BY <2>4, <2>5 DEF GivenUp
<1>4. ASSUME NEW d \in Devices, NEW k \in Keys, Delete(d, k) PROVE GivenUp(x)'
  <2>1. \A e \in Devices, j \in Keys : dropped[e][j] \subseteq dropped'[e][j]
    BY <1>4 DEF Delete, Types, StoreTypes
  <2>2. over' = over
    BY <1>4 DEF Delete
  <2>3. QED BY <2>1, <2>2 DEF GivenUp, Superseded, AllDropped, Made
<1>5. QED BY <1>1, <1>2, <1>3, <1>4

\* A content that its user replaces or deletes is given up.
LEMMA ReplacedIsGivenUp ==
  ASSUME Types, NEW d \in Devices, NEW k \in Keys, Edit(d, k) \/ Delete(d, k),
         store[d][k] # Absent, NEW x, x = store[d][k].doc
  PROVE  GivenUp(x)'
<1>1. over \in Seq(Docs \cup {NoDoc}) /\ store[d][k].doc \in Docs \cup {NoDoc}
  BY DEF Types, CounterTypes, StoreTypes, Held, State, Absent
<1>2. CASE Edit(d, k)
  <2>1. over' = Append(over, store[d][k].doc)
    BY <1>2 DEF Edit
  <2>2. Len(over) + 1 \in 1..Len(over') /\ over'[Len(over) + 1] = store[d][k].doc
    BY <1>1, <2>1
  <2>3. Superseded(x)'
    BY <2>2 DEF Superseded, Made
  <2>4. QED BY <2>3 DEF GivenUp
<1>3. CASE Delete(d, k)
  <2>1. dropped' = [dropped EXCEPT ![d][k] = @ \cup {store[d][k].doc}]
    BY <1>3 DEF Delete
  <2>2. dropped'[d][k] = dropped[d][k] \cup {store[d][k].doc}
    BY <2>1 DEF Types, StoreTypes
  <2>3. x \in AllDropped'
    BY <2>2 DEF AllDropped
  <2>4. QED BY <2>3 DEF GivenUp
<1>4. QED BY <1>2, <1>3

\* The steps of one sync. What is downloaded is merged with everything kept.
LEMMA DownloadSecure ==
  ASSUME IsFiniteSet(Keys), Types, Alone, Orderly, Secure, HistoryHasRoom, NEW d \in Devices, Download(d)
  PROVE  /\ \A x \in Docs : (\E k \in Keys : x = store[d][k].doc) \/ InFile(x) =>
              GivenUp(x) \/ x \in Kept(sync'[d].library)
         /\ IsFiniteSet(sync'[d].library.conflicts)
<1> DEFINE local == sync[d].library
           remote == drive[1]
           base == baseline[d]
           merged == mergeLibrarySnapshots(local, remote, base, now)
           l == [k \in Keys |-> effectiveState(local.of[k], base[k], local.generatedAt)]
           r == [k \in Keys |-> effectiveState(remote.of[k], base[k], remote.generatedAt)]
<1>1. sync[d].pc = "download" /\ drive # <<>> /\ remote \in LibraryDoc /\ sync'[d].library = merged
  BY TheFile, SyncShapes DEF Download
<1>2. local \in LibraryDoc /\ base \in [Keys -> State] /\ now \in Nat
  BY DEF Types, SyncTypes, SyncState, StoreTypes, CounterTypes
<1>3. /\ local.conflicts = {} /\ IsFiniteSet(remote.conflicts)
      /\ Cardinality(remote.conflicts) + Cardinality(Keys) <= ConflictLimit
  <2>1. remote \in Libraries
    BY <1>1, FileInUse
  <2>2. QED BY <1>1, <2>1 DEF HistoryHasRoom, Orderly, Secure, FiniteHistories, Quiet
<1>4. /\ IsFiniteSet(merged.conflicts)
      /\ \A c \in remote.conflicts : \A s \in c.alternatives : s.doc \in Kept(merged)
      /\ \A k \in Keys :
           /\ l[k].doc \in Kept(merged) \/ (~Changed(l[k], base[k]) /\ Changed(r[k], base[k]))
           /\ r[k].doc \in Kept(merged) \/ (~Changed(r[k], base[k]) /\ Changed(l[k], base[k]))
  <2> HIDE DEF local, remote, base
  <2>1. QED BY <1>1, <1>2, <1>3, MergeKeeps
<1>5. \A k \in Keys : BaselineSecure(d, k) /\ Sourced(d, k)
  BY DEF Secure, Orderly
<1>6. \A k \in Keys : /\ store[d][k] \in Held /\ base[k] \in State /\ remote.of[k] \in State
                      /\ local.of[k] \in State
  BY <1>1, <1>2 DEF Types, StoreTypes, LibraryDoc
<1>7. \A k \in Keys : store[d][k] # Absent => l[k] = store[d][k]
  BY <1>1, <1>5 DEF Sourced, LocalSide, effectiveState
<1>8. \A k \in Keys : store[d][k] = Absent => ~Has(l[k])
  BY <1>1, <1>5, <1>6, StateForms DEF Sourced, LocalSide, effectiveState, Has, Tombstone
<1>9. \A k \in Keys : remote.of[k] # Absent => r[k] = remote.of[k]
  BY DEF effectiveState
<1>10. \A s \in State : s.doc \in Docs <=> Has(s)
  BY StateKinds, MergeAssumption DEF State, Absent, Has, NoDoc
<1> HIDE DEF l, r, merged
<1>11. ASSUME NEW x \in Docs, InFile(x) PROVE GivenUp(x) \/ x \in Kept(merged)
  <2>1. x \in Kept(remote)
    BY <1>11 DEF InFile
  <2>2. CASE \E c \in remote.conflicts : \E s \in c.alternatives : x = s.doc
    BY <1>4, <2>2
  <2>3. CASE \E k \in Keys : x = remote.of[k].doc
    <3>1. PICK k \in Keys : x = remote.of[k].doc
      BY <2>3
    <3>2. Has(remote.of[k]) /\ r[k] = remote.of[k]
      BY <1>6, <1>9, <1>10, <3>1, StateForms
    <3>3. CASE ~Changed(r[k], base[k]) /\ Changed(l[k], base[k])
      <4>1. Has(base[k]) /\ base[k].doc = x
        BY <3>1, <3>2, <3>3 DEF Changed, semanticallyEqual, Has
      <4>2. store[d][k].doc # x
        <5>1. CASE store[d][k] = Absent
          BY <5>1, MergeAssumption DEF Absent, NoDoc
        <5>2. CASE store[d][k] # Absent
          <6>1. l[k] = store[d][k] /\ Has(l[k])
            BY <1>6, <1>7, <5>2 DEF Held, State, Has
          <6>2. QED BY <3>3, <4>1, <6>1 DEF Changed, semanticallyEqual, Has
        <5>3. QED BY <5>1, <5>2
      <4>3. QED BY <1>1, <1>5, <4>1, <4>2 DEF BaselineSecure, BeforeMerge, Has
    <3>4. CASE r[k].doc \in Kept(merged)
      BY <3>1, <3>2, <3>4
    <3>5. QED BY <1>4, <3>3, <3>4
  <2>4. QED BY <2>1, <2>2, <2>3 DEF Kept
<1>12. ASSUME NEW x \in Docs, NEW k \in Keys, x = store[d][k].doc
       PROVE  GivenUp(x) \/ x \in Kept(merged)
  <2>1. store[d][k] # Absent /\ l[k] = store[d][k] /\ Has(l[k])
    <3>1. store[d][k] # Absent
      BY <1>12, MergeAssumption DEF Absent, NoDoc
    <3>2. QED BY <1>6, <1>7, <3>1 DEF Held, State, Has
  <2>2. CASE ~Changed(l[k], base[k]) /\ Changed(r[k], base[k])
    <3>1. Has(base[k]) /\ base[k].doc = x
      BY <1>12, <2>1, <2>2 DEF Changed, semanticallyEqual, Has
    <3>2. GivenUp(x) \/ InFile(x)
      BY <1>5, <3>1 DEF BaselineSecure, Has
    <3>3. QED BY <1>11, <3>2
  <2>3. CASE l[k].doc \in Kept(merged)
    BY <1>12, <2>1, <2>3
  <2>4. QED BY <1>4, <2>2, <2>3
<1>13. QED BY <1>1, <1>4, <1>11, <1>12

\* Every step keeps a copy of what it replaces, or finds it given up.
LEMMA NextSecure ==
  ASSUME ~Overlap, ~EditsWhileSyncing, MaxFailures = 0, IsFiniteSet(Keys),
         Types, Alone, Orderly, Secure, HistoryHasRoom, [Next]_vars
  PROVE  Secure'
<1>a. \A d \in Devices :
        /\ Quiet(sync[d]) /\ MergeSecure(d) /\ IsFiniteSet(sync[d].library.conflicts)
        /\ \A k \in Keys : Sourced(d, k) /\ BaselineSecure(d, k)
        /\ Busy(d) => \A e \in Devices : Busy(e) => e = d
  BY DEF Orderly, Secure, FiniteHistories, Alone
<1>b. \A x : GivenUp(x) => GivenUp(x)'
  BY GivenUpStays
<1>c. \A d \in Devices, k \in Keys : store[d][k] \in Held /\ baseline[d][k] \in State
  BY DEF Types, StoreTypes
\* A step of one sync that changes neither a store, a baseline nor a file.
<1>d. ASSUME NEW d \in Devices, UNCHANGED <<store, baseline, drive>>, Only(d), MergeSecure(d)',
             \A e \in Devices : Busy(e) => e = d, IsFiniteSet(sync'[d].library.conflicts),
             sync'[d].pc \in BeforeMerge => sync[d].pc \in BeforeMerge
      PROVE  Secure'
  <2>1. \A e \in Devices : e # d => sync'[e] = sync[e] /\ sync[e].pc = "idle"
    BY <1>d DEF Only, Busy
  <2>2. FiniteHistories'
    BY <1>d, <2>1 DEF Secure, FiniteHistories
  <2>3. ASSUME NEW e \in Devices PROVE MergeSecure(e)'
    BY <1>d, <2>1 DEF MergeSecure, Merged
  <2>4. ASSUME NEW e \in Devices, NEW k \in Keys PROVE BaselineSecure(e, k)'
    <3>1. BaselineSecure(e, k) /\ (sync'[e].pc \in BeforeMerge => sync[e].pc \in BeforeMerge)
      BY <1>a, <1>d, <2>1
    <3>2. \A x : InFile(x) => InFile(x)'
      BY <1>d DEF InFile
    <3>3. QED BY <1>b, <1>d, <3>1, <3>2 DEF BaselineSecure, Has
  <2>5. QED BY <2>2, <2>3, <2>4 DEF Secure
<1>e. \A d \in Devices : sync[d].pc \in Merged /\ sync'[d].library = sync[d].library
                         /\ UNCHANGED <<store, drive>> => MergeSecure(d)'
  BY <1>a, <1>b DEF MergeSecure, InFile
<1>1. ASSUME NEW d \in Devices, NEW k \in Keys, Edit(d, k) \/ Delete(d, k) PROVE Secure'
  <2>1. /\ UNCHANGED <<baseline, sync, drive>> /\ sync[d].pc = "idle"
        /\ \A e \in Devices, j \in Keys : (e # d \/ j # k) => store'[e][j] = store[e][j]
    BY <1>1 DEF Edit, Delete, MayEdit, Types, StoreTypes
  <2>2. \A x : store[d][k] # Absent /\ x = store[d][k].doc => GivenUp(x)'
    BY <1>1, ReplacedIsGivenUp
  <2>3. FiniteHistories'
    BY <2>1 DEF Secure, FiniteHistories
  <2>4. ASSUME NEW e \in Devices PROVE MergeSecure(e)'
    <3>1. CASE e = d
      BY <2>1, <3>1 DEF MergeSecure, Merged
    <3>2. CASE e # d
      BY <1>a, <1>b, <2>1, <3>2 DEF MergeSecure, InFile
    <3>3. QED BY <3>1, <3>2
  <2>5. ASSUME NEW e \in Devices, NEW j \in Keys PROVE BaselineSecure(e, j)'
    <3>1. BaselineSecure(e, j)
      BY <1>a
    <3>2. GivenUp(baseline[e][j].doc) => GivenUp(baseline[e][j].doc)'
      BY <1>b, <2>1
    <3>3. CASE e = d /\ j = k /\ store[d][k].doc = baseline[d][k].doc /\ Has(baseline[d][k])
      <4>1. store[d][k] # Absent
        <5>1. baseline[d][k].doc \in Docs /\ NoDoc \notin Docs
          BY <1>c, <3>3, StateKinds, MergeAssumption DEF NoDoc, Has
        <5>2. QED BY <3>3, <5>1 DEF Absent
      <4>2. baseline'[e][j] = baseline[e][j] /\ baseline[e][j].doc = store[d][k].doc
        BY <2>1, <3>3
      <4>3. GivenUp(baseline[e][j].doc)'
        BY <2>2, <4>1, <4>2
      <4>4. QED BY <2>1, <4>3 DEF BaselineSecure
    <3>4. CASE ~(e = d /\ j = k /\ store[d][k].doc = baseline[d][k].doc /\ Has(baseline[d][k]))
      <4>1. CASE e = d /\ j = k
        BY <2>1, <3>1, <3>2, <3>4, <4>1 DEF BaselineSecure, InFile, Has, BeforeMerge
      <4>2. CASE e # d \/ j # k
        BY <2>1, <3>1, <3>2, <4>2 DEF BaselineSecure, InFile, Has
      <4>3. QED BY <4>1, <4>2
    <3>5. QED BY <3>3, <3>4
  <2>6. QED BY <2>3, <2>4, <2>5 DEF Secure
<1>2. CASE UNCHANGED <<store, baseline, sync, drive, over, dropped>>
  <2>1. \A x : (GivenUp(x)' <=> GivenUp(x)) /\ (InFile(x)' <=> InFile(x))
    BY <1>2 DEF GivenUp, Superseded, AllDropped, Made, InFile
  <2>2. FiniteHistories'
    BY <1>2 DEF Secure, FiniteHistories
  <2>3. ASSUME NEW d \in Devices
        PROVE  MergeSecure(d)' /\ \A k \in Keys : BaselineSecure(d, k)'
    BY <1>2, <1>a, <2>1 DEF MergeSecure, BaselineSecure
  <2>4. QED BY <2>2, <2>3 DEF Secure
<1>3. ASSUME NEW d \in Devices, Begin(d) PROVE Secure'
  <2>1. /\ UNCHANGED <<store, baseline, drive>> /\ \A e \in Devices : ~Busy(e) /\ sync[d].pc = "idle"
        /\ Only(d) /\ SameExcept(sync[d], sync'[d], "read")
    BY <1>3, SyncShapes DEF Begin, Busy, Step
  <2>2. MergeSecure(d)' /\ IsFiniteSet(sync'[d].library.conflicts)
    BY <1>a, <2>1 DEF SameExcept, MergeSecure, Merged
  <2>3. QED BY <1>d, <2>1, <2>2 DEF BeforeMerge
<1>4. ASSUME NEW d \in Devices, ReadLocal(d) PROVE Secure'
  <2>1. /\ UNCHANGED <<store, baseline, drive>> /\ sync[d].pc = "read" /\ Only(d)
        /\ sync'[d].pc = "find" /\ sync'[d].library = Snapshot(d)
    BY <1>4, SyncShapes DEF ReadLocal
  <2>2. Snapshot(d).conflicts = {}
    BY DEF Snapshot, Library, sortConflictHistory
  <2>3. MergeSecure(d)' /\ IsFiniteSet(sync'[d].library.conflicts)
    BY <2>1, <2>2, FS_EmptySet DEF MergeSecure, Merged
  <2>4. QED BY <1>a, <1>d, <2>1, <2>3 DEF BeforeMerge, Busy
<1>5. ASSUME NEW d \in Devices, Find(d) PROVE Secure'
  <2>1. /\ UNCHANGED <<store, baseline, drive>> /\ sync[d].pc = "find" /\ Only(d)
        /\ sync'[d].pc = (IF newest = NoFile THEN "apply" ELSE "download")
        /\ sync'[d].library = sync[d].library
    BY <1>5, SyncShapes DEF Find
  <2>2. MergeSecure(d)'
    <3>1. CASE newest # NoFile
      BY <2>1, <3>1 DEF MergeSecure, Merged
    <3>2. CASE newest = NoFile
      <4>1. \A x : ~InFile(x)'
        BY <2>1, <3>2 DEF InFile, Types, DriveTypes
      <4>2. ASSUME NEW x \in Docs, NEW k \in Keys, x = store[d][k].doc
            PROVE  x \in Kept(sync[d].library)
        <5>1. store[d][k] # Absent
          BY <4>2, MergeAssumption DEF Absent, NoDoc
        <5>2. sync[d].library.of[k] = store[d][k]
          BY <1>a, <2>1, <5>1 DEF Sourced, LocalSide
        <5>3. QED BY <4>2, <5>2 DEF Kept
      <4>3. QED BY <2>1, <4>1, <4>2 DEF MergeSecure
    <3>3. QED BY <3>1, <3>2
  <2>3. QED BY <1>a, <1>d, <2>1, <2>2 DEF BeforeMerge, Busy
<1>6. ASSUME NEW d \in Devices, Download(d) PROVE Secure'
  <2>1. /\ UNCHANGED <<store, baseline, drive>> /\ sync[d].pc = "download" /\ Only(d)
        /\ sync'[d].pc = "apply"
    BY <1>6, SyncShapes DEF Download
  <2>2. /\ \A x \in Docs : (\E k \in Keys : x = store[d][k].doc) \/ InFile(x) =>
              GivenUp(x) \/ x \in Kept(sync'[d].library)
        /\ IsFiniteSet(sync'[d].library.conflicts)
    BY <1>6, DownloadSecure
  <2>3. MergeSecure(d)'
    <3>1. \A x : InFile(x)' <=> InFile(x)
      BY <2>1 DEF InFile
    <3>2. \A x \in Kept(sync'[d].library) : x \in Kept(sync[d].library)'
      BY DEF Kept
    <3>3. QED BY <1>b, <2>1, <2>2, <3>1, <3>2 DEF MergeSecure
  <2>4. QED BY <1>a, <1>d, <2>1, <2>2, <2>3 DEF BeforeMerge, Busy
<1>7. ASSUME NEW d \in Devices, BeginApply(d) PROVE Secure'
  <2>1. /\ UNCHANGED <<store, baseline, drive>> /\ sync[d].pc = "apply" /\ Only(d)
        /\ sync'[d].pc = "put" /\ sync'[d].library = sync[d].library
    BY <1>7, SyncShapes DEF BeginApply
  <2>2. QED BY <1>a, <1>d, <1>e, <2>1 DEF BeforeMerge, Busy, Merged
<1>8. ASSUME NEW d \in Devices, NEW k \in Keys, Apply(d, k) PROVE Secure'
  <2>1. /\ UNCHANGED <<baseline, drive>> /\ sync[d].pc = "put" /\ Only(d)
        /\ sync'[d].pc = "put" /\ sync'[d].library = sync[d].library
    BY <1>8, SyncShapes DEF Apply
  <2>2. /\ \A e \in Devices, j \in Keys : (e # d \/ j # k) => store'[e][j] = store[e][j]
        /\ store'[d][k].doc = sync[d].library.of[k].doc
    BY <1>8, AppliedState
  <2>3. \A e \in Devices : e # d => sync'[e] = sync[e] /\ sync[e].pc = "idle"
    BY <1>a, <2>1 DEF Only, Busy
  <2>4. FiniteHistories'
    BY <2>1, <2>3 DEF Secure, FiniteHistories
  <2>5. MergeSecure(d)'
    <3>1. sync[d].library.of[k].doc \in Kept(sync[d].library)
      BY DEF Kept
    <3>2. \A x : InFile(x)' <=> InFile(x)
      BY <2>1 DEF InFile
    <3>3. QED BY <1>a, <1>b, <2>1, <2>2, <3>1, <3>2 DEF MergeSecure, Merged
  <2>6. \A e \in Devices : e # d => MergeSecure(e)'
    BY <2>3 DEF MergeSecure, Merged
  <2>7. ASSUME NEW e \in Devices, NEW j \in Keys PROVE BaselineSecure(e, j)'
    <3>1. GivenUp(baseline[e][j].doc) => GivenUp(baseline[e][j].doc)'
      BY <1>b, <2>1
    <3>2. sync'[e].pc \in BeforeMerge => e # d
      BY <2>1 DEF BeforeMerge
    <3>3. QED BY <1>a, <2>1, <2>2, <2>3, <3>1, <3>2 DEF BaselineSecure, InFile, Has
  <2>8. QED BY <2>4, <2>5, <2>6, <2>7 DEF Secure
<1>9. ASSUME NEW d \in Devices, Applied(d) PROVE Secure'
  <2>1. /\ UNCHANGED <<store, baseline, drive>> /\ sync[d].pc = "put" /\ Only(d)
        /\ SameExcept(sync[d], sync'[d], "check")
    BY <1>9, SyncShapes DEF Applied, Step
  <2>2. QED BY <1>a, <1>d, <1>e, <2>1 DEF BeforeMerge, Busy, Merged, SameExcept
<1>10. ASSUME NEW d \in Devices, Check(d) PROVE Secure'
  <2>1. /\ UNCHANGED <<store, baseline, drive>> /\ sync[d].pc = "check" /\ Only(d)
        /\ SameExcept(sync[d], sync'[d], "save")
    BY <1>10, <1>a, SyncShapes DEF Check, Quiet
  <2>2. QED BY <1>a, <1>d, <1>e, <2>1 DEF BeforeMerge, Busy, Merged, SameExcept
<1>11. ASSUME NEW d \in Devices, Save(d) PROVE Secure'
  <2>1. /\ UNCHANGED <<store, baseline, over, dropped>> /\ sync[d].pc = "save"
        /\ SameExcept(sync[d], sync'[d], "commit")
        /\ drive'[1] = sync[d].library /\ drive' # <<>>
    BY <1>11, SavedFile, SavedFileExists, SyncShapes DEF Save
  <2>2. \A e \in Devices : e # d => sync[e] = Resting /\ sync'[e] = Resting
    BY <1>11, <1>a, SavesAlone
  <2>3. FiniteHistories'
    BY <1>a, <2>1, <2>2, FS_EmptySet, Restful DEF FiniteHistories, SameExcept
  <2>4. ASSUME NEW e \in Devices PROVE MergeSecure(e)'
    BY <2>1, <2>2, Restful DEF MergeSecure, Merged, SameExcept
  <2>5. \A x \in Docs : InFile(x) => GivenUp(x) \/ InFile(x)'
    BY <1>a, <2>1 DEF MergeSecure, Merged, InFile, Kept
  <2>6. ASSUME NEW e \in Devices, NEW k \in Keys PROVE BaselineSecure(e, k)'
    <3>1. SUFFICES ASSUME Has(baseline[e][k]) PROVE BaselineSecure(e, k)'
      BY <2>1 DEF BaselineSecure, Has
    <3>2. baseline[e][k].doc \in Docs /\ baseline'[e][k].doc = baseline[e][k].doc
      BY <1>c, <2>1, <3>1, StateKinds DEF Has
    <3>3. \A x \in Docs : GivenUp(x) \/ InFile(x) => GivenUp(x)' \/ InFile(x)'
      BY <1>b, <2>5
    <3>4. sync'[e].pc \in BeforeMerge => sync[e].pc \in BeforeMerge
      BY <2>1, <2>2 DEF BeforeMerge, SameExcept
    <3>5. QED BY <1>a, <1>b, <2>1, <3>1, <3>2, <3>3, <3>4 DEF BaselineSecure, Has
  <2>7. QED BY <2>3, <2>4, <2>6 DEF Secure
<1>12. ASSUME NEW d \in Devices, Commit(d) PROVE Secure'
  <2>1. /\ UNCHANGED <<store, drive, over, dropped>> /\ sync[d].pc = "commit" /\ Only(d)
        /\ sync'[d] = Resting /\ sync[d].library = drive[1] /\ drive # <<>>
    BY <1>12, SyncShapes DEF Commit, Orderly, Alone, Working
  <2>2. /\ \A e \in Devices : e # d => baseline'[e] = baseline[e]
        /\ \A k \in Keys : /\ baseline'[d][k].doc = sync[d].library.of[k].doc
                           /\ baseline'[d][k] # Absent => sync[d].library.of[k] # Absent
    BY <1>12, CommittedState
  <2>3. \A e \in Devices : e # d => sync'[e] = sync[e] /\ sync[e].pc = "idle"
    BY <1>a, <2>1 DEF Only, Busy
  <2>4. FiniteHistories'
    BY <2>1, <2>3, FS_EmptySet, Restful DEF Secure, FiniteHistories
  <2>5. \A e \in Devices : MergeSecure(e)'
    BY <2>1, <2>3, Restful DEF MergeSecure, Merged
  <2>6. ASSUME NEW e \in Devices, NEW k \in Keys PROVE BaselineSecure(e, k)'
    <3>1. CASE e # d
      <4>1. \A x : (GivenUp(x) => GivenUp(x)') /\ (InFile(x) => InFile(x)')
        BY <1>b, <2>1 DEF InFile
      <4>2. QED BY <1>a, <2>1, <2>2, <2>3, <3>1, <4>1 DEF BaselineSecure, Has
    <3>2. CASE e = d
      <4>1. InFile(baseline[e][k].doc)'
        BY <2>1, <2>2, <3>2 DEF InFile, Kept
      <4>2. SUFFICES ASSUME Has(baseline'[e][k]) PROVE store'[e][k].doc = baseline'[e][k].doc
        BY <4>1 DEF BaselineSecure, Has
      <4>3. baseline'[e][k] # Absent
        BY <4>2, StateForms
      <4>4. QED BY <1>a, <2>1, <2>2, <3>2, <4>3 DEF Sourced, AppliedTo
    <3>3. QED BY <3>1, <3>2
  <2>7. QED BY <2>4, <2>5, <2>6 DEF Secure
<1>13. ASSUME NEW d \in Devices, Fail(d) PROVE Secure'
  BY <1>13 DEF Fail, Types, CounterTypes
<1>14. CASE UNCHANGED vars
  BY <1>2, <1>14 DEF vars
<1>15. CASE Tick
  BY <1>2, <1>15 DEF Tick
<1>16. QED
  BY <1>1, <1>3, <1>4, <1>5, <1>6, <1>7, <1>8, <1>9, <1>10, <1>11, <1>12, <1>13,
     <1>14, <1>15 DEF Next, Synchronize

----------------------------------------------------------------------------
\* NothingLost with the file in use by its place.
Somewhere(x) ==
  \/ \E d \in Devices, k \in Keys : store[d][k].doc = x
  \/ \E d \in Devices : x \in Kept(sync[d].library)
  \/ InFile(x)
Accounted == \A x \in Made : GivenUp(x) \/ Somewhere(x)

LEMMA AccountedSuffices ==
  ASSUME Types, Alone, Accounted
  PROVE  NothingLost
<1> SUFFICES ASSUME NEW x \in Made
             PROVE  \/ \E e \in Made : over[e] = x
                    \/ x \in AllDropped
                    \/ \E d \in Devices, k \in Keys : store[d][k].doc = x
                    \/ \E library \in Libraries : x \in Kept(library)
  BY DEF NothingLost
<1>1. CASE GivenUp(x)
  BY <1>1 DEF GivenUp, Superseded
<1>2. CASE \E d \in Devices : x \in Kept(sync[d].library)
  BY <1>2 DEF Libraries
<1>3. CASE InFile(x)
  BY <1>3, FileInUse DEF InFile
<1>4. QED BY <1>1, <1>2, <1>3 DEF Accounted, Somewhere

LEMMA MadeDocs == ASSUME Types, NEW x \in Made PROVE x \in Docs /\ x # NoDoc
  BY MergeAssumption DEF Types, CounterTypes, NoDoc

LEMMA RestKeepsNothing == ASSUME NEW x \in Docs PROVE x \notin Kept(NoLibrary)
  BY MergeAssumption DEF Kept, NoLibrary, Nothing, Absent, NoDoc

\* Every content stays somewhere or was given up.
LEMMA NextAccounted ==
  ASSUME ~Overlap, ~EditsWhileSyncing, MaxFailures = 0, Types, Alone, Orderly, Secure, Accounted, [Next]_vars
  PROVE  Accounted'
<1>a. \A x : GivenUp(x) => GivenUp(x)'
  BY GivenUpStays
<1>b. \A d \in Devices :
        /\ Quiet(sync[d]) /\ MergeSecure(d) /\ sync[d].library \in LibraryDoc
        /\ \A k \in Keys : Sourced(d, k)
  BY DEF Orderly, Secure, Types, SyncTypes, SyncState
<1>c. \A x \in Made : x \in Docs
  BY MadeDocs
\* A sync step that leaves the stores and the file, and a library or what it keeps.
<1>d. ASSUME NEW d \in Devices, Only(d), UNCHANGED <<store, drive, over, dropped>>,
             \A x \in Docs : x \in Kept(sync[d].library) =>
               \/ x \in Kept(sync'[d].library)
               \/ \E k \in Keys : store[d][k].doc = x
               \/ InFile(x)
      PROVE  Accounted'
  <2> SUFFICES ASSUME NEW x \in Made, ~GivenUp(x)' PROVE Somewhere(x)'
    BY <1>d DEF Accounted, Made
  <2>1. Somewhere(x) /\ x \in Docs
    BY <1>a, <1>c DEF Accounted
  <2>2. CASE \E e \in Devices, k \in Keys : store[e][k].doc = x
    BY <1>d, <2>2 DEF Somewhere
  <2>3. CASE InFile(x)
    BY <1>d, <2>3 DEF Somewhere, InFile
  <2>4. CASE \E e \in Devices : x \in Kept(sync[e].library)
    <3>1. PICK e \in Devices : x \in Kept(sync[e].library)
      BY <2>4
    <3>2. CASE e # d
      <4>1. x \in Kept(sync[e].library)'
        BY <1>d, <3>1, <3>2 DEF Only, Kept
      <4>2. QED BY <4>1 DEF Somewhere
    <3>3. CASE e = d /\ x \in Kept(sync'[d].library)
      <4>1. x \in Kept(sync[d].library)'
        BY <3>3 DEF Kept
      <4>2. QED BY <4>1 DEF Somewhere
    <3>4. QED BY <1>d, <2>1, <2>2, <2>3, <3>1, <3>2, <3>3
  <2>5. QED BY <2>1, <2>2, <2>3, <2>4 DEF Somewhere
<1>1. ASSUME NEW d \in Devices, NEW k \in Keys, Edit(d, k) \/ Delete(d, k) PROVE Accounted'
  <2>1. /\ UNCHANGED <<baseline, sync, drive>>
        /\ \A e \in Devices, j \in Keys : (e # d \/ j # k) => store'[e][j] = store[e][j]
    BY <1>1 DEF Edit, Delete, Types, StoreTypes
  <2>2. ASSUME NEW x \in Made PROVE GivenUp(x)' \/ Somewhere(x)'
    <3>1. CASE GivenUp(x)
      BY <1>a, <3>1
    <3>2. CASE \E e \in Devices, j \in Keys : store[e][j].doc = x
      <4>1. PICK e \in Devices, j \in Keys : store[e][j].doc = x
        BY <3>2
      <4>2. CASE e = d /\ j = k
        <5>1. store[d][k] # Absent
          BY <4>1, <4>2, MadeDocs DEF Absent
        <5>2. QED BY <1>1, <4>1, <4>2, <5>1, ReplacedIsGivenUp
      <4>3. CASE e # d \/ j # k
        BY <2>1, <4>1, <4>3 DEF Somewhere
      <4>4. QED BY <4>2, <4>3
    <3>3. CASE InFile(x) \/ \E e \in Devices : x \in Kept(sync[e].library)
      BY <2>1, <3>3 DEF Somewhere, InFile, Kept
    <3>4. QED BY <3>1, <3>2, <3>3 DEF Accounted, Somewhere
  <2>3. CASE Edit(d, k)
    <3>1. Made' = Made \cup {Len(over) + 1} /\ store'[d][k].doc = Len(over) + 1
      <4>1. over' = Append(over, store[d][k].doc) /\ over \in Seq(Docs \cup {NoDoc})
        BY <2>3 DEF Edit, Types, CounterTypes
      <4>2. Len(over') = Len(over) + 1 /\ Len(over) \in Nat
        <5>1. store[d][k].doc \in Docs \cup {NoDoc}
          BY DEF Types, StoreTypes, Held, State, Absent
        <5>2. QED BY <4>1, <5>1
      <4>3. store'[d][k] = Record(Len(over) + 1, now)
        BY <2>3 DEF Edit, Types, StoreTypes
      <4>4. QED BY <4>2, <4>3 DEF Made, Record
    <3>2. ASSUME NEW x \in Made' PROVE GivenUp(x)' \/ Somewhere(x)'
      <4>1. CASE x \in Made
        BY <2>2, <4>1
      <4>2. CASE x = Len(over) + 1
        BY <3>1, <4>2 DEF Somewhere
      <4>3. QED BY <3>1, <4>1, <4>2
    <3>3. QED BY <3>2 DEF Accounted
  <2>4. CASE Delete(d, k)
    BY <2>2, <2>4 DEF Delete, Accounted, Made
  <2>5. QED BY <1>1, <2>3, <2>4
<1>2. CASE UNCHANGED <<store, sync, drive, over, dropped>>
  BY <1>2 DEF Accounted, Somewhere, GivenUp, Superseded, AllDropped, Made, InFile, Kept
<1>3. ASSUME NEW d \in Devices, Begin(d) PROVE Accounted'
  BY <1>3, <1>d, SyncShapes DEF Begin, SameExcept
<1>4. ASSUME NEW d \in Devices, ReadLocal(d) PROVE Accounted'
  <2>1. sync[d].library = NoLibrary
    BY <1>4, <1>b DEF ReadLocal, Quiet
  <2>2. QED BY <1>4, <1>d, <2>1, RestKeepsNothing, SyncShapes DEF ReadLocal
<1>5. ASSUME NEW d \in Devices, Find(d) PROVE Accounted'
  BY <1>5, <1>d, SyncShapes DEF Find
<1>6. ASSUME NEW d \in Devices, Download(d) PROVE Accounted'
  <2>1. sync[d].pc = "download" /\ sync[d].library.conflicts = {}
    BY <1>6, <1>b DEF Download, Quiet
  <2>2. ASSUME NEW k \in Keys, sync[d].library.of[k].doc \in Docs
        PROVE  sync[d].library.of[k].doc = store[d][k].doc
    <3>1. CASE store[d][k] # Absent
      BY <1>b, <2>1, <3>1 DEF Sourced, LocalSide
    <3>2. CASE store[d][k] = Absent
      <4>1. sync[d].library.of[k].doc = NoDoc
        <5>1. baseline[d][k] \in State
          BY DEF Types, StoreTypes
        <5>2. \A t : \A b \in State : effectiveState(Absent, b, t).doc = NoDoc
          BY DEF effectiveState, Tombstone, State, Absent
        <5>3. QED BY <1>b, <2>1, <3>2, <5>1, <5>2 DEF Sourced, LocalSide
      <4>2. QED BY <2>2, <4>1, MergeAssumption DEF NoDoc
    <3>3. QED BY <3>1, <3>2
  <2>3. \A x \in Docs : x \in Kept(sync[d].library) => \E k \in Keys : store[d][k].doc = x
    BY <2>1, <2>2 DEF Kept
  <2>4. QED BY <1>6, <1>d, <2>3, SyncShapes DEF Download
<1>7. ASSUME NEW d \in Devices, BeginApply(d) PROVE Accounted'
  BY <1>7, <1>d, SyncShapes DEF BeginApply
<1>8. ASSUME NEW d \in Devices, NEW k \in Keys, Apply(d, k) PROVE Accounted'
  <2>1. /\ UNCHANGED <<drive, over, dropped>> /\ sync[d].pc = "put" /\ Only(d)
        /\ sync'[d].library = sync[d].library
        /\ \A e \in Devices, j \in Keys : (e # d \/ j # k) => store'[e][j] = store[e][j]
    BY <1>8, SyncShapes, ZenonT(60) DEF Apply, Types, StoreTypes
  <2>2. \A e \in Devices : sync'[e].library = sync[e].library
    BY <2>1 DEF Only
  <2>3. ASSUME NEW x \in Made PROVE GivenUp(x)' \/ Somewhere(x)'
    <3>1. CASE GivenUp(x)
      BY <1>a, <3>1
    <3>2. CASE \E e \in Devices, j \in Keys : (e # d \/ j # k) /\ store[e][j].doc = x
      BY <2>1, <3>2 DEF Somewhere
    <3>3. CASE InFile(x) \/ \E e \in Devices : x \in Kept(sync[e].library)
      BY <2>1, <2>2, <3>3 DEF Somewhere, InFile, Kept
    <3>4. CASE store[d][k].doc = x
      BY <1>a, <1>b, <1>c, <2>1, <3>3, <3>4 DEF MergeSecure, Merged
    <3>5. QED BY <3>1, <3>2, <3>3, <3>4 DEF Accounted, Somewhere
  <2>4. QED BY <2>1, <2>3 DEF Accounted, Made
<1>9. ASSUME NEW d \in Devices, Applied(d) PROVE Accounted'
  BY <1>9, <1>d, SyncShapes DEF Applied, SameExcept
<1>10. ASSUME NEW d \in Devices, Check(d) PROVE Accounted'
  BY <1>10, <1>b, <1>d, SyncShapes DEF Check, SameExcept, Quiet
<1>11. ASSUME NEW d \in Devices, Save(d) PROVE Accounted'
  <2>1. /\ UNCHANGED <<store, baseline, over, dropped>> /\ sync[d].pc = "save"
        /\ \A e \in Devices : sync'[e].library = sync[e].library
    BY <1>11, SyncShapes DEF Save, SameExcept
  <2>2. ASSUME NEW x \in Made PROVE GivenUp(x)' \/ Somewhere(x)'
    <3>1. CASE GivenUp(x)
      BY <1>a, <3>1
    <3>2. CASE \E e \in Devices, j \in Keys : store[e][j].doc = x
      BY <2>1, <3>2 DEF Somewhere
    <3>3. CASE \E e \in Devices : x \in Kept(sync[e].library)
      BY <2>1, <3>3 DEF Somewhere, Kept
    <3>4. CASE InFile(x)
      BY <1>a, <1>b, <1>c, <2>1, <3>3, <3>4 DEF MergeSecure, Merged
    <3>5. QED BY <3>1, <3>2, <3>3, <3>4 DEF Accounted, Somewhere
  <2>3. QED BY <2>1, <2>2 DEF Accounted, Made
<1>12. ASSUME NEW d \in Devices, Commit(d) PROVE Accounted'
  <2>1. sync[d].pc = "commit" /\ sync[d].library = drive[1] /\ drive # <<>>
    BY <1>12 DEF Commit, Orderly, Alone, Working
  <2>2. \A x : x \in Kept(sync[d].library) => InFile(x)
    BY <2>1 DEF InFile
  <2>3. QED BY <1>12, <1>d, <2>2, SyncShapes DEF Commit
<1>13. ASSUME NEW d \in Devices, Fail(d) PROVE Accounted'
  BY <1>13 DEF Fail, Types, CounterTypes
<1>14. CASE UNCHANGED vars
  BY <1>2, <1>14 DEF vars
<1>15. CASE Tick
  BY <1>2, <1>15 DEF Tick
<1>16. QED
  BY <1>1, <1>3, <1>4, <1>5, <1>6, <1>7, <1>8, <1>9, <1>10, <1>11, <1>12, <1>13,
     <1>14, <1>15 DEF Next, Synchronize

LEMMA InitSecure == Init => Secure /\ Accounted
<1> SUFFICES ASSUME Init PROVE Secure /\ Accounted
  OBVIOUS
<1>1. \A d \in Devices : sync[d] = Resting
  BY DEF Init
<1>2. \A d \in Devices : MergeSecure(d)
  BY <1>1, Restful DEF MergeSecure, Merged
<1>3. IsFiniteSet({}) /\ NoLibrary.conflicts = {}
  BY FS_EmptySet DEF NoLibrary
<1>4. CASE store = [d \in Devices |-> Nothing] /\ baseline = [d \in Devices |-> Nothing]
           /\ drive = <<>> /\ over = <<>>
  <2>1. \A d \in Devices, k \in Keys : BaselineSecure(d, k)
    BY <1>4 DEF BaselineSecure, Nothing, Absent, Has
  <2>2. Accounted
    BY <1>4 DEF Accounted, Made
  <2>3. QED BY <1>1, <1>2, <1>3, <1>4, <2>1, <2>2, Restful DEF Secure, FiniteHistories
<1>5. CASE \E k \in Keys :
             LET library == [NoLibrary EXCEPT !.of[k] = Record(1, 1)]
             IN  /\ store = [d \in Devices |-> library.of]
                 /\ baseline = [d \in Devices |-> createLibraryManifest(library)]
                 /\ drive = <<library>> /\ over = <<NoDoc>>
  <2> DEFINE library(k) == [NoLibrary EXCEPT !.of[k] = Record(1, 1)]
  <2>1. PICK k \in Keys :
          /\ store = [d \in Devices |-> library(k).of]
          /\ baseline = [d \in Devices |-> createLibraryManifest(library(k))]
          /\ drive = <<library(k)>> /\ over = <<NoDoc>>
    BY <1>5
  <2>2. library(k) = [of |-> [Nothing EXCEPT ![k] = Record(1, 1)],
                      conflicts |-> {}, generatedAt |-> 0]
    BY DEF NoLibrary
  <2>3. /\ library(k).conflicts = {} /\ library(k).of[k].doc = 1
        /\ \A j \in Keys : j # k => library(k).of[j] = Absent
    BY <2>2 DEF Nothing, Record
  <2> HIDE DEF library
  <2>4. drive # <<>> /\ drive[1] = library(k) /\ \A d \in Devices : store[d] = library(k).of
    BY <2>1
  <2>5. InFile(1)
    BY <2>3, <2>4 DEF InFile, Kept
  <2>6. ASSUME NEW d \in Devices, NEW j \in Keys PROVE BaselineSecure(d, j)
    <3>1. /\ Has(baseline[d][j]) => /\ Has(library(k).of[j])
                                    /\ baseline[d][j].doc = library(k).of[j].doc
      BY <2>1 DEF createLibraryManifest, Has, Record
    <3>2. Has(baseline[d][j]) => j = k
      BY <2>3, <3>1, StateForms
    <3>3. QED BY <2>3, <2>4, <2>5, <3>1, <3>2 DEF BaselineSecure
  <2>7. FiniteHistories
    BY <1>1, <1>3, <2>3, <2>4, Restful DEF FiniteHistories
  <2>8. Accounted
    <3>1. Made = {1}
      BY <2>1 DEF Made
    <3>2. QED BY <2>5, <3>1 DEF Accounted, Somewhere
  <2>9. QED BY <1>2, <2>6, <2>7, <2>8 DEF Secure
<1>6. QED BY <1>4, <1>5 DEF Init

\* When syncs run one at a time to their end and the user does not edit the device
\* meanwhile, no edit is lost as long as the conflict history has room.
THEOREM NoEditLost ==
  ASSUME ~Overlap, ~EditsWhileSyncing, MaxFailures = 0, IsFiniteSet(Keys)
  PROVE  Spec /\ []HistoryHasRoom => []NothingLost
<1> DEFINE Inv == Types /\ Alone /\ Orderly /\ Secure /\ Accounted
<1>1. Init => Inv
  BY InitTypes, InitAlone, InitOrderly, InitSecure
<1>2. Inv /\ HistoryHasRoom /\ [Next]_vars => Inv'
  BY NextTypes, NextAlone, NextOrderly, NextSecure, NextAccounted
<1>3. Inv => NothingLost
  BY AccountedSuffices
<1>4. QED BY <1>1, <1>2, <1>3, PTL DEF Spec

----------------------------------------------------------------------------
\* Ancestors.

\* The contents one was made from, as a function of the history alone.
AncestorsIn(ov) ==
  CHOOSE f : f = [doc \in Nat |-> IF doc \notin 1..Len(ov) \/ ov[doc] = NoDoc THEN {}
                                  ELSE {ov[doc]} \cup f[ov[doc]]]

LEMMA AncestorsOf == Ancestors = AncestorsIn(over)
  BY DEF Ancestors, AncestorsIn, Made

LEMMA AncestorsOfNext == Ancestors' = AncestorsIn(over')
  BY DEF Ancestors, AncestorsIn, Made

\* What a content was made from is what every set has that is closed under it.
LEMMA AncestorsExist ==
  ASSUME NEW ov \in Seq(Docs \cup {NoDoc})
  PROVE  \A doc \in Nat : AncestorsIn(ov)[doc] =
           IF doc \notin 1..Len(ov) \/ ov[doc] = NoDoc THEN {}
           ELSE {ov[doc]} \cup AncestorsIn(ov)[ov[doc]]
<1> DEFINE Derived(doc) == doc \in 1..Len(ov) /\ ov[doc] # NoDoc
           Closed(S, doc) == /\ Derived(doc) => ov[doc] \in S
                             /\ \A s \in S : Derived(s) => ov[s] \in S
           g == [doc \in Nat |-> {y \in Nat : \A S \in SUBSET Nat : Closed(S, doc) => y \in S}]
<1>1. \A doc : Derived(doc) => doc \in Nat /\ ov[doc] \in Nat
  <2>1. \A doc : Derived(doc) => doc \in Nat /\ ov[doc] \in Docs \cup {NoDoc}
    OBVIOUS
  <2>2. QED BY <2>1, MergeAssumption
<1>2. ASSUME NEW doc \in Nat, ~Derived(doc) PROVE g[doc] = {}
  <2>1. Closed({}, doc) /\ {} \in SUBSET Nat
    BY <1>2
  <2> HIDE DEF Closed
  <2>2. QED BY <2>1
<1>3. ASSUME NEW doc \in Nat, Derived(doc) PROVE g[doc] = {ov[doc]} \cup g[ov[doc]]
  <2> DEFINE up == ov[doc]
             T == {up} \cup g[up]
  <2>1. up \in Nat
    BY <1>1, <1>3
  <2>2. \A S \in SUBSET Nat : Closed(S, doc) => up \in S /\ Closed(S, up)
    BY <1>3
  <2>3. T \subseteq g[doc]
    <3> HIDE DEF Closed, Derived, up
    <3>1. QED BY <2>1, <2>2
  <2>4. T \in SUBSET Nat
    BY <2>1
  <2>5. ASSUME NEW s \in T, Derived(s) PROVE ov[s] \in T
    <3>1. ov[s] \in Nat
      BY <1>1, <2>5
    <3>2. ASSUME NEW S \in SUBSET Nat, Closed(S, up) PROVE ov[s] \in S
      <4>1. CASE s = up
        BY <2>5, <3>2, <4>1
      <4>2. CASE s \in g[up]
        <5>1. s \in S
          <6> HIDE DEF Closed
          <6>1. QED BY <2>1, <3>2, <4>2
        <5>2. QED BY <2>5, <3>2, <5>1
      <4>3. QED BY <2>5, <4>1, <4>2
    <3>3. ov[s] \in g[up]
      <4> HIDE DEF Closed, Derived, up
      <4>1. QED BY <2>1, <3>1, <3>2
    <3>4. QED BY <3>3
  <2>6. Closed(T, doc)
    <3> HIDE DEF g
    <3>1. QED BY <2>5
  <2>7. g[doc] \subseteq T
    <3> HIDE DEF Closed, Derived, T
    <3>1. QED BY <2>4, <2>6
  <2>8. QED BY <2>3, <2>7
<1>4. g = [doc \in Nat |-> IF doc \notin 1..Len(ov) \/ ov[doc] = NoDoc THEN {}
                           ELSE {ov[doc]} \cup g[ov[doc]]]
  <2>1. \A doc \in Nat : g[doc] = IF doc \notin 1..Len(ov) \/ ov[doc] = NoDoc THEN {}
                                  ELSE {ov[doc]} \cup g[ov[doc]]
    BY <1>2, <1>3
  <2>2. g = [doc \in Nat |-> g[doc]]
    OBVIOUS
  <2> HIDE DEF g
  <2>3. QED BY <2>1, <2>2
<1> HIDE DEF g
<1>5. \E f : f = [doc \in Nat |-> IF doc \notin 1..Len(ov) \/ ov[doc] = NoDoc THEN {}
                                  ELSE {ov[doc]} \cup f[ov[doc]]]
  BY <1>4
<1>6. AncestorsIn(ov) = [doc \in Nat |-> IF doc \notin 1..Len(ov) \/ ov[doc] = NoDoc THEN {}
                                         ELSE {ov[doc]} \cup AncestorsIn(ov)[ov[doc]]]
  BY <1>5 DEF AncestorsIn
<1>7. QED
  <2> DEFINE f == AncestorsIn(ov)
  <2>1. f = [doc \in Nat |-> IF doc \notin 1..Len(ov) \/ ov[doc] = NoDoc THEN {}
                             ELSE {ov[doc]} \cup f[ov[doc]]]
    BY <1>6
  <2> HIDE DEF f
  <2>2. \A doc \in Nat : f[doc] = IF doc \notin 1..Len(ov) \/ ov[doc] = NoDoc THEN {}
                                  ELSE {ov[doc]} \cup f[ov[doc]]
    BY <2>1
  <2>3. QED BY <2>2 DEF f

\* Every content was made from an earlier one, or from nothing.
Chain(ov) == \A i \in 1..Len(ov) : ov[i] # NoDoc => ov[i] \in 1..Len(ov) /\ ov[i] < i

\* What a content was made from was made before it.
LEMMA AncestorsBelow ==
  ASSUME NEW ov \in Seq(Docs \cup {NoDoc}), Chain(ov)
  PROVE  \A x \in Nat : \A y \in AncestorsIn(ov)[x] : y \in 1..Len(ov) /\ y < x
<1> DEFINE f == AncestorsIn(ov)
           Bad == {x \in Nat : \E y \in f[x] : ~(y \in 1..Len(ov) /\ y < x)}
<1>0. \A doc \in Nat : f[doc] = IF doc \notin 1..Len(ov) \/ ov[doc] = NoDoc THEN {}
                                ELSE {ov[doc]} \cup f[ov[doc]]
  BY AncestorsExist
<1> HIDE DEF f
<1>1. ASSUME Bad # {} PROVE FALSE
  <2>1. PICK x \in Bad : \A y \in Bad : x <= y
    <3>1. Bad \in SUBSET Nat
      OBVIOUS
    <3> HIDE DEF Bad
    <3>2. QED BY <1>1, <3>1, LeastNumber
  <2>2. PICK y \in f[x] : ~(y \in 1..Len(ov) /\ y < x)
    OBVIOUS
  <2>3. x \in 1..Len(ov) /\ ov[x] # NoDoc /\ f[x] = {ov[x]} \cup f[ov[x]]
    BY <1>0, <2>2
  <2>4. ov[x] \in 1..Len(ov) /\ ov[x] < x /\ ov[x] \in Nat
    BY <2>3 DEF Chain
  <2>5. ov[x] \notin Bad
    BY <2>1, <2>4
  <2>6. y \in f[ov[x]]
    BY <2>2, <2>3, <2>4
  <2>7. y \in 1..Len(ov) /\ y < ov[x]
    BY <2>4, <2>5, <2>6
  <2>8. QED BY <2>2, <2>4, <2>7
<1>2. QED BY <1>1 DEF f

\* A new content changes the ancestors of no other.
LEMMA AncestorsAppend ==
  ASSUME NEW ov \in Seq(Docs \cup {NoDoc}), Chain(ov),
         NEW s \in Docs \cup {NoDoc}, s # NoDoc => s \in 1..Len(ov)
  PROVE  /\ \A x \in 1..Len(ov) : AncestorsIn(Append(ov, s))[x] = AncestorsIn(ov)[x]
         /\ AncestorsIn(Append(ov, s))[Len(ov) + 1] =
              IF s = NoDoc THEN {} ELSE {s} \cup AncestorsIn(ov)[s]
<1> DEFINE ow == Append(ov, s)
           f == AncestorsIn(ov)
           g == AncestorsIn(ow)
           Bad == {x \in 1..Len(ov) : g[x] # f[x]}
<1>1. /\ ow \in Seq(Docs \cup {NoDoc}) /\ Len(ow) = Len(ov) + 1 /\ Len(ov) \in Nat
      /\ \A x \in 1..Len(ov) : ow[x] = ov[x]
      /\ ow[Len(ov) + 1] = s
  OBVIOUS
<1>2. \A doc \in Nat : f[doc] = IF doc \notin 1..Len(ov) \/ ov[doc] = NoDoc THEN {}
                                ELSE {ov[doc]} \cup f[ov[doc]]
  BY AncestorsExist
<1> HIDE DEF ow
<1>3. \A doc \in Nat : g[doc] = IF doc \notin 1..Len(ow) \/ ow[doc] = NoDoc THEN {}
                                ELSE {ow[doc]} \cup g[ow[doc]]
  BY <1>1, AncestorsExist
<1> HIDE DEF f, g
<1>4. ASSUME Bad # {} PROVE FALSE
  <2>1. PICK x \in Bad : \A y \in Bad : x <= y
    <3>1. Bad \in SUBSET Nat
      OBVIOUS
    <3> HIDE DEF Bad
    <3>2. QED BY <1>4, <3>1, LeastNumber
  <2>2. x \in 1..Len(ov) /\ x \in 1..Len(ow) /\ ow[x] = ov[x] /\ g[x] # f[x]
    BY <1>1
  <2>3. ov[x] # NoDoc /\ g[x] = {ov[x]} \cup g[ov[x]] /\ f[x] = {ov[x]} \cup f[ov[x]]
    <3>1. x \in Nat /\ x \in 1..Len(ov) /\ x \in 1..Len(ow)
      BY <2>2
    <3>2. /\ f[x] = IF ov[x] = NoDoc THEN {} ELSE {ov[x]} \cup f[ov[x]]
          /\ g[x] = IF ov[x] = NoDoc THEN {} ELSE {ov[x]} \cup g[ov[x]]
      BY <1>2, <1>3, <2>2, <3>1
    <3>3. QED BY <2>2, <3>2
  <2>4. ov[x] \in 1..Len(ov) /\ ov[x] < x
    BY <2>2, <2>3 DEF Chain
  <2>5. ov[x] \notin Bad
    BY <2>1, <2>4
  <2>6. QED BY <2>2, <2>3, <2>4, <2>5
<1>5. \A x \in 1..Len(ov) : g[x] = f[x]
  BY <1>4
<1>6. g[Len(ov) + 1] = IF s = NoDoc THEN {} ELSE {s} \cup g[s]
  <2>1. Len(ov) + 1 \in Nat /\ Len(ov) + 1 \in 1..Len(ow)
    BY <1>1
  <2>2. QED BY <1>1, <1>3, <2>1
<1>7. QED
  <2>1. s # NoDoc => g[s] = f[s]
    BY <1>5
  <2>2. QED BY <1>5, <1>6, <2>1 DEF f, g, ow

\* A content and what it was made from, or nothing.
Line(x) == IF x = NoDoc THEN {} ELSE Lineage(x)

\* A content is in its own line and is none of its ancestors.
LEMMA LineFacts ==
  ASSUME Types, Chain(over), NEW x \in Made \cup {NoDoc}
  PROVE  /\ Line(x) \subseteq Made /\ NoDoc \notin Line(x)
         /\ x # NoDoc => x \in Line(x) /\ Line(x) = Lineage(x)
         /\ x # NoDoc => x \notin Ancestors[x] /\ Ancestors[x] \subseteq Line(x)
<1>1. over \in Seq(Docs \cup {NoDoc}) /\ Made \subseteq Nat /\ NoDoc \notin Made
  BY MergeAssumption DEF Types, CounterTypes, Made, NoDoc
<1>2. x # NoDoc => \A y \in Ancestors[x] : y \in Made /\ y < x
  BY <1>1, AncestorsBelow, AncestorsOf DEF Made
<1>3. x # NoDoc => x \in Nat
  BY <1>1
<1>4. x # NoDoc => x \notin Ancestors[x]
  BY <1>2, <1>3
<1>5. QED BY <1>1, <1>2, <1>4 DEF Line, Lineage

LEMMA LinesStay ==
  ASSUME over' = over
  PROVE  \A x : Line(x)' = Line(x) /\ Ancestors'[x] = Ancestors[x]
  BY AncestorsOf, AncestorsOfNext DEF Line, Lineage

\* The line of a new content is its own and that of what it replaces.
LEMMA LinesGrow ==
  ASSUME Types, Chain(over), NEW s \in Made \cup {NoDoc}, over' = Append(over, s)
  PROVE  /\ \A x \in Made \cup {NoDoc} : Line(x)' = Line(x)
         /\ \A x \in Made : Ancestors'[x] = Ancestors[x]
         /\ \A x : x = Len(over) + 1 => Line(x)' = {x} \cup Line(s)
         /\ Made' = Made \cup {Len(over) + 1} /\ Len(over) + 1 \notin Made
         /\ Chain(over)'
<1>1. /\ over \in Seq(Docs \cup {NoDoc}) /\ Made = 1..Len(over) /\ Len(over) \in Nat
      /\ s \in Docs \cup {NoDoc}
  BY DEF Types, CounterTypes, Made
<1>2. /\ \A x \in Made : Ancestors'[x] = Ancestors[x]
      /\ Ancestors'[Len(over) + 1] = IF s = NoDoc THEN {} ELSE {s} \cup Ancestors[s]
  BY <1>1, AncestorsAppend, AncestorsOf, AncestorsOfNext
<1>3. \A x \in Made \cup {NoDoc} : Line(x)' = Line(x)
  BY <1>2 DEF Line, Lineage
<1>4. \A x : x = Len(over) + 1 => Line(x)' = {x} \cup Line(s)
  BY <1>1, <1>2 DEF Line, Lineage, NoDoc
<1>5. Len(over') = Len(over) + 1 /\ over'[Len(over) + 1] = s /\ \A x \in Made : over'[x] = over[x]
  BY <1>1
<1>6. Made' = Made \cup {Len(over) + 1} /\ Len(over) + 1 \notin Made
  BY <1>1, <1>5 DEF Made
<1>7. Chain(over)'
  BY <1>1, <1>5 DEF Chain, NoDoc
<1>8. QED BY <1>2, <1>3, <1>4, <1>6, <1>7

----------------------------------------------------------------------------
\* What a device knows of a key: what it has, had at its last sync, or has had
\* its user delete, and all that those were made from.
Known(d, k) ==
  UNION {Line(x) : x \in {baseline[d][k].doc, store[d][k].doc} \cup dropped[d][k]}

DocsMade ==
  /\ Chain(over)
  /\ \A k \in Keys : FileState(k).doc \in Made \cup {NoDoc}
  /\ \A d \in Devices, k \in Keys :
       /\ store[d][k].doc \in Made \cup {NoDoc} /\ baseline[d][k].doc \in Made \cup {NoDoc}
       /\ sync[d].library.of[k].doc \in Made \cup {NoDoc}
       /\ dropped[d][k] \subseteq Made

\* What the file has, and the device had not at its last sync, is new to it.
FileIsNews(d, k) ==
  LET shared == FileState(k).doc
  IN  sync[d].pc \in BeforeMerge /\ shared # NoDoc /\ shared \in Known(d, k) =>
        shared = baseline[d][k].doc

\* What the device's user made since its last sync is new to the file and to
\* every other device.
OwnIsNews(d, k) ==
  LET own == store[d][k].doc
  IN  sync[d].pc \in BeforeMerge /\ own \notin {NoDoc, baseline[d][k].doc} =>
        own \notin Line(FileState(k).doc) /\ \A e \in Devices : e # d => own \notin Known(e, k)

\* A merge makes nothing up, and what it adds to the file is new to the others.
MergeIsNews(d, k) ==
  LET new == sync[d].library.of[k].doc
      shared == FileState(k).doc
  IN  sync[d].pc \in Merged =>
        /\ Line(new) \subseteq Line(shared) \cup Known(d, k)
        /\ new \notin {NoDoc, shared} => \A e \in Devices : e # d => new \notin Known(e, k)

\* What is about to be put on the device is new to it.
PutIsNews(d, k) ==
  LET new == sync[d].library.of[k].doc
  IN  sync[d].pc \in {"apply", "put"} /\ new \notin {NoDoc, store[d][k].doc} => new \notin Known(d, k)

Descends(d, k) == FileIsNews(d, k) /\ OwnIsNews(d, k) /\ MergeIsNews(d, k) /\ PutIsNews(d, k)
Descent == DocsMade /\ \A d \in Devices, k \in Keys : Descends(d, k)

\* What a device knows of was made by a user.
LEMMA KnownFacts ==
  ASSUME Types, DocsMade, NEW d \in Devices, NEW k \in Keys
  PROVE  /\ Known(d, k) \subseteq Made /\ NoDoc \notin Made /\ NoDoc \notin Known(d, k)
         /\ store[d][k].doc # NoDoc => store[d][k].doc \in Known(d, k)
         /\ baseline[d][k].doc # NoDoc => baseline[d][k].doc \in Known(d, k)
         /\ Line(store[d][k].doc) \subseteq Known(d, k)
         /\ \A gone \in dropped[d][k] : Line(gone) \subseteq Known(d, k)
<1>1. \A x \in {baseline[d][k].doc, store[d][k].doc} \cup dropped[d][k] :
        /\ x \in Made \cup {NoDoc} /\ Line(x) \subseteq Made
        /\ x # NoDoc => x \in Line(x)
  BY LineFacts DEF DocsMade
<1>2. NoDoc \notin Made
  BY DEF Made, NoDoc
<1>3. QED BY <1>1, <1>2 DEF Known

LEMMA KnownStays ==
  ASSUME over' = over, NEW d \in Devices, NEW k \in Keys, dropped'[d][k] = dropped[d][k],
         baseline'[d][k].doc = baseline[d][k].doc, store'[d][k].doc = store[d][k].doc
  PROVE  Known(d, k)' = Known(d, k)
  BY LinesStay DEF Known

\* A step of one sync that changes neither a store, a baseline nor a file.
LEMMA SyncDescends ==
  ASSUME Descent, NEW d \in Devices, UNCHANGED <<store, baseline, drive, over, dropped>>, Only(d),
         \A k \in Keys : Descends(d, k)' /\ sync'[d].library.of[k].doc \in Made \cup {NoDoc}
  PROVE  Descent'
<1>1. /\ \A x : Line(x)' = Line(x) /\ Made' = Made
      /\ \A k \in Keys : FileState(k)' = FileState(k)
      /\ \A e \in Devices, k \in Keys : Known(e, k)' = Known(e, k)
  BY LinesStay, KnownStays DEF Made, FileState
<1>2. DocsMade'
  <2>1. \A e \in Devices, k \in Keys : (sync[e].library.of[k].doc \in Made \cup {NoDoc})'
    BY <1>1 DEF Only, Descent, DocsMade
  <2>2. Chain(over)'
    BY DEF Descent, DocsMade, Chain
  <2>3. QED BY <1>1, <2>1, <2>2 DEF DocsMade, Descent
<1>3. ASSUME NEW e \in Devices, e # d, NEW k \in Keys PROVE Descends(e, k)'
  <2>1. sync'[e] = sync[e] /\ Descends(e, k)
    BY <1>3 DEF Only, Descent
  <2>2. FileIsNews(e, k)' /\ OwnIsNews(e, k)'
    BY <1>1, <2>1 DEF Descends, FileIsNews, OwnIsNews
  <2>3. MergeIsNews(e, k)' /\ PutIsNews(e, k)'
    BY <1>1, <2>1, SMTT(60) DEF Descends, MergeIsNews, PutIsNews
  <2>4. QED BY <2>2, <2>3 DEF Descends
<1>4. QED BY <1>2, <1>3 DEF Descent

\* The steps of the users. A new content is new to everyone.
LEMMA EditDescends ==
  ASSUME ~EditsWhileSyncing, Types, Alone, Orderly, Descent,
         NEW d \in Devices, NEW k \in Keys, Edit(d, k)
  PROVE  Descent'
<1>0. PICK new \in Nat, s \in Made \cup {NoDoc} : new = Len(over) + 1 /\ s = store[d][k].doc
  <2>1. Len(over) + 1 \in Nat /\ store[d][k].doc \in Made \cup {NoDoc}
    BY DEF Types, CounterTypes, Descent, DocsMade
  <2>2. QED BY <2>1, Zenon
<1>1. /\ over' = Append(over, s) /\ UNCHANGED <<baseline, sync, drive, dropped>>
      /\ store'[d][k].doc = new /\ sync[d].pc = "idle"
      /\ \A e \in Devices, j \in Keys : (e # d \/ j # k) => store'[e][j] = store[e][j]
  BY <1>0 DEF Edit, MayEdit, Types, StoreTypes, Record
<1>2. s \in Made \cup {NoDoc} /\ DocsMade
  BY DEF Descent, DocsMade
<1>3. /\ \A x \in Made \cup {NoDoc} : Line(x)' = Line(x)
      /\ Line(new)' = {new} \cup Line(s)
      /\ Made' = Made \cup {new} /\ new \notin Made /\ Chain(over)'
  BY <1>0, <1>1, <1>2, LinesGrow DEF DocsMade
<1>4. NoDoc \notin Made /\ new # NoDoc
  BY DEF Made, NoDoc
<1>5. DocsMade'
  BY <1>1, <1>2, <1>3 DEF DocsMade, FileState
<1>6. \A e \in Devices, j \in Keys : (e # d \/ j # k) => Known(e, j)' = Known(e, j)
  BY <1>1, <1>2, <1>3 DEF Known, DocsMade
<1>7. Known(d, k)' \subseteq Known(d, k) \cup {new}
  <2>1. /\ baseline'[d][k] = baseline[d][k] /\ dropped'[d][k] = dropped[d][k]
        /\ Line(baseline[d][k].doc)' = Line(baseline[d][k].doc)
        /\ \A x \in dropped[d][k] : Line(x)' = Line(x)
        /\ \A x : x = new => Line(x)' \subseteq {new} \cup Line(store[d][k].doc)
    BY <1>0, <1>1, <1>2, <1>3 DEF DocsMade
  <2>2. ASSUME NEW y \in Known(d, k)' PROVE y \in Known(d, k) \cup {new}
    <3>1. PICK x \in {baseline[d][k].doc, new} \cup dropped[d][k] : y \in Line(x)'
      BY <1>1, <2>1, <2>2 DEF Known
    <3>2. QED BY <1>0, <2>1, <3>1 DEF Known
  <2>3. QED BY <2>2
<1>8. \A e \in Devices, j \in Keys : Known(e, j) \subseteq Made
  BY <1>2, KnownFacts
<1>9. \A j \in Keys : /\ FileState(j)' = FileState(j) /\ Line(FileState(j).doc) \subseteq Made
                      /\ Line(FileState(j).doc)' = Line(FileState(j).doc)
                      /\ FileState(j).doc \in Made \cup {NoDoc}
  BY <1>1, <1>2, <1>3, LineFacts DEF FileState, DocsMade
<1>10. \A e \in Devices, j \in Keys : FileIsNews(e, j)'
  BY <1>1, <1>3, <1>4, <1>6, <1>7, <1>9 DEF FileIsNews, Descent, Descends
<1>11. ASSUME NEW e \in Devices, NEW j \in Keys PROVE OwnIsNews(e, j)'
  <2>1. CASE e = d /\ j = k
    BY <1>1, <1>3, <1>6, <1>8, <1>9, <2>1 DEF OwnIsNews
  <2>2. CASE e # d \/ j # k
    <3>1. OwnIsNews(e, j) /\ store[e][j].doc \in Made \cup {NoDoc}
      BY DEF Descent, Descends, DocsMade
    <3>2. QED BY <1>1, <1>3, <1>6, <1>7, <1>9, <2>2, <3>1 DEF OwnIsNews
  <2>3. QED BY <2>1, <2>2
<1>12. ASSUME NEW e \in Devices, NEW j \in Keys PROVE MergeIsNews(e, j)' /\ PutIsNews(e, j)'
  <2>1. /\ MergeIsNews(e, j) /\ PutIsNews(e, j) /\ sync[e].library.of[j].doc \in Made \cup {NoDoc}
    BY DEF Descent, Descends, DocsMade
  <2>2. Line(sync[e].library.of[j].doc)' = Line(sync[e].library.of[j].doc)
    BY <1>1, <1>3, <2>1
  <2>3. e = d => sync[e].pc = "idle"
    BY <1>1
  <2>4. MergeIsNews(e, j)'
    BY <1>1, <1>3, <1>6, <1>7, <1>9, <2>1, <2>2, <2>3 DEF MergeIsNews, Merged
  <2>5. PutIsNews(e, j)'
    BY <1>1, <1>6, <2>1, <2>3 DEF PutIsNews
  <2>6. QED BY <2>4, <2>5
<1>13. QED BY <1>5, <1>10, <1>11, <1>12 DEF Descent, Descends

\* What is deleted is still known.
LEMMA DeleteDescends ==
  ASSUME ~EditsWhileSyncing, Types, Alone, Orderly, Descent,
         NEW d \in Devices, NEW k \in Keys, Delete(d, k)
  PROVE  Descent'
<1>1. /\ UNCHANGED <<baseline, sync, drive, over>>
      /\ store'[d][k].doc = NoDoc /\ sync[d].pc = "idle"
      /\ dropped'[d][k] = dropped[d][k] \cup {store[d][k].doc}
      /\ \A e \in Devices, j \in Keys : (e # d \/ j # k) =>
           store'[e][j] = store[e][j] /\ dropped'[e][j] = dropped[e][j]
  BY DEF Delete, MayEdit, Types, StoreTypes, Absent
<1>2. store[d][k].doc \in Made /\ DocsMade
  <2>1. store[d][k].doc # NoDoc
    BY StateKinds, MergeAssumption DEF Delete, Types, StoreTypes, Held, State, NoDoc
  <2>2. QED BY <2>1 DEF Descent, DocsMade
<1>3. /\ \A x : Line(x)' = Line(x) /\ Made' = Made /\ Line(NoDoc) = {}
      /\ \A j \in Keys : FileState(j)' = FileState(j)
  BY <1>1, LinesStay DEF Made, FileState, Line
<1>4. DocsMade'
  <2>1. Chain(over)'
    BY <1>1, <1>2 DEF DocsMade, Chain
  <2>2. ASSUME NEW e \in Devices, NEW j \in Keys
        PROVE  dropped'[e][j] \subseteq Made /\ store'[e][j].doc \in Made \cup {NoDoc}
    BY <1>1, <1>2 DEF DocsMade
  <2>3. QED BY <1>1, <1>2, <1>3, <2>1, <2>2 DEF DocsMade
<1>5. \A e \in Devices, j \in Keys : Known(e, j)' = Known(e, j)
  <2>1. \A e \in Devices, j \in Keys : (e # d \/ j # k) => Known(e, j)' = Known(e, j)
    BY <1>1, KnownStays
  <2>2. Known(d, k)' = Known(d, k)
    BY <1>1, <1>3 DEF Known
  <2>3. QED BY <2>1, <2>2
<1>6. ASSUME NEW e \in Devices, NEW j \in Keys PROVE Descends(e, j)'
  <2>1. Descends(e, j) /\ (store'[e][j].doc # NoDoc => store'[e][j].doc = store[e][j].doc)
    BY <1>1 DEF Descent
  <2>2. FileIsNews(e, j)' /\ OwnIsNews(e, j)'
    BY <1>1, <1>3, <1>5, <2>1 DEF Descends, FileIsNews, OwnIsNews
  <2>3. MergeIsNews(e, j)'
    BY <1>1, <1>3, <1>5, <2>1 DEF Descends, MergeIsNews
  <2>4. PutIsNews(e, j)'
    BY <1>1, <1>5, <2>1 DEF Descends, PutIsNews
  <2>5. QED BY <2>2, <2>3, <2>4 DEF Descends
<1>7. QED BY <1>4, <1>6 DEF Descent

\* What a merge selects is new to those that do not have it.
LEMMA DownloadDescends ==
  ASSUME Types, Alone, Orderly, Descent, NEW d \in Devices, NEW k \in Keys, Download(d)
  PROVE  Descends(d, k)' /\ sync'[d].library.of[k].doc \in Made \cup {NoDoc}
<1> DEFINE l == LocalSide(d, k, sync[d].library.generatedAt)
           r == FileState(k)
           n == sync'[d].library.of[k]
           b == baseline[d][k]
           s == store[d][k].doc
<1>1. /\ n = selected(b, l, r) /\ n \in {l, r} /\ l \in State /\ r \in State
      /\ store[d][k] # Absent => l = store[d][k]
      /\ store[d][k] = Absent => ~Has(l)
  BY Downloaded
<1>2. /\ sync[d].pc = "download" /\ sync'[d].pc = "apply" /\ b \in State /\ store[d][k] \in Held
      /\ UNCHANGED <<store, baseline, drive, over, dropped>>
  BY SyncShapes, ZenonT(60) DEF Download, Types, StoreTypes
<1>3. \A x \in State : /\ Has(x) <=> x.doc # NoDoc
                       /\ Has(x) => x.doc \in Docs
  BY StateKinds, MergeAssumption DEF State, Absent, NoDoc, Has
<1>4. l.doc \in {s, NoDoc} /\ (l.doc # NoDoc => store[d][k] # Absent /\ l.doc = s)
  BY <1>1, <1>3
<1>5. /\ FileIsNews(d, k) /\ OwnIsNews(d, k)
      /\ s \in Made \cup {NoDoc} /\ r.doc \in Made \cup {NoDoc}
  BY DEF Descent, Descends, DocsMade
<1>6. n.doc \in {NoDoc, s, r.doc}
  BY <1>1, <1>4
<1> HIDE DEF l, r, n, b, s
\* A side that equals the baseline is not selected unless the other does too.
<1>7. \A x \in {l, r} : x.doc # NoDoc /\ x.doc = b.doc => ~Changed(x, b)
  BY <1>1, <1>2, <1>3 DEF Changed, semanticallyEqual, Has
<1>8. \A x \in {l, r} : ~Changed(x, b) => x.doc = b.doc
  BY <1>1, <1>2, <1>3 DEF Changed, semanticallyEqual, Has
<1>9. r.doc # NoDoc /\ r.doc = b.doc => n.doc = l.doc
  BY <1>1, <1>7, <1>8 DEF selected
<1>10. l.doc # NoDoc /\ l.doc = b.doc => n.doc = r.doc
  BY <1>1, <1>7, <1>8 DEF selected
<1>11. n.doc \notin {NoDoc, s} => n.doc = r.doc /\ r.doc # NoDoc /\ r.doc # b.doc
  BY <1>4, <1>6, <1>9
<1>12. n.doc \notin {NoDoc, r.doc} => n.doc = s /\ s \notin {NoDoc, b.doc}
  BY <1>1, <1>4, <1>10
<1>13. /\ \A x : Line(x)' = Line(x)
       /\ \A e \in Devices : Known(e, k)' = Known(e, k)
       /\ FileState(k)' = r /\ FileState(k) = r /\ Line(NoDoc) = {}
       /\ Line(s) \subseteq Known(d, k) /\ store[d][k].doc = s /\ store'[d][k].doc = s
       /\ baseline[d][k] = b
  BY <1>2, LinesStay, KnownStays, KnownFacts DEF FileState, Line, Descent, r, s, b
<1>14. PutIsNews(d, k)'
  BY <1>2, <1>5, <1>11, <1>13 DEF PutIsNews, FileIsNews, BeforeMerge, n
<1>15. MergeIsNews(d, k)'
  <2>1. Line(n.doc) \subseteq Line(r.doc) \cup Known(d, k)
    BY <1>6, <1>13
  <2>2. n.doc \notin {NoDoc, r.doc} => \A e \in Devices : e # d => n.doc \notin Known(e, k)
    BY <1>2, <1>5, <1>12, <1>13 DEF OwnIsNews, BeforeMerge
  <2>3. QED BY <1>13, <2>1, <2>2 DEF MergeIsNews, n
<1>16. FileIsNews(d, k)' /\ OwnIsNews(d, k)'
  BY <1>2 DEF FileIsNews, OwnIsNews, BeforeMerge
<1>17. n.doc \in Made \cup {NoDoc}
  BY <1>5, <1>6
<1>18. QED BY <1>14, <1>15, <1>16, <1>17 DEF Descends, n

\* What is put on the device is known there from now on.
LEMMA ApplyDescends ==
  ASSUME Types, Alone, Orderly, Descent, NEW d \in Devices, NEW k \in Keys, Apply(d, k)
  PROVE  Descent'
<1>1. /\ UNCHANGED <<baseline, drive, over, dropped>> /\ sync[d].pc = "put" /\ sync'[d].pc = "put"
      /\ sync'[d].library = sync[d].library
      /\ \A e \in Devices, j \in Keys : (e # d \/ j # k) => store'[e][j] = store[e][j]
      /\ store'[d][k].doc = sync[d].library.of[k].doc
  BY AppliedState, SyncShapes, ZenonT(60) DEF Apply
<1>2. \A e \in Devices : e # d => sync'[e] = sync[e] /\ sync[e].pc = "idle"
  BY <1>1, SyncShapes, ZenonT(60) DEF Only, Alone, Busy
<1>3. /\ \A x : Line(x)' = Line(x) /\ Made' = Made
      /\ \A j \in Keys : FileState(j)' = FileState(j)
      /\ \A e \in Devices, j \in Keys : (e # d \/ j # k) => Known(e, j)' = Known(e, j)
  BY <1>1, LinesStay, KnownStays DEF FileState, Made
<1>4. Known(d, k)' \subseteq Known(d, k) \cup Line(sync[d].library.of[k].doc)
  BY <1>1, <1>3 DEF Known
<1>5. MergeIsNews(d, k) /\ DocsMade
  BY DEF Descent, Descends
<1>6. Known(d, k)' \subseteq Known(d, k) \cup Line(FileState(k).doc)
  BY <1>1, <1>4, <1>5 DEF MergeIsNews, Merged
<1>7. DocsMade'
  <2>1. Chain(over)'
    BY <1>1, <1>5 DEF DocsMade, Chain
  <2>2. \A e \in Devices, j \in Keys :
          store'[e][j].doc \in Made \cup {NoDoc} /\ sync'[e].library.of[j].doc \in Made \cup {NoDoc}
    BY <1>1, <1>2, <1>5 DEF DocsMade
  <2>3. QED BY <1>1, <1>3, <1>5, <2>1, <2>2 DEF DocsMade
<1>8. ASSUME NEW e \in Devices, NEW j \in Keys, e # d PROVE Descends(e, j)'
  <2>1. /\ FileIsNews(e, j) /\ OwnIsNews(e, j) /\ sync'[e].pc = "idle" /\ sync[e].pc = "idle"
        /\ store'[e][j] = store[e][j] /\ Known(e, j)' = Known(e, j)
    BY <1>1, <1>2, <1>3, <1>8 DEF Descent, Descends
  <2>2. FileIsNews(e, j)'
    BY <1>1, <1>3, <2>1 DEF FileIsNews
  <2>3. OwnIsNews(e, j)'
    <3>1. CASE j # k
      BY <1>1, <1>3, <2>1, <3>1 DEF OwnIsNews
    <3>2. CASE j = k
      BY <1>1, <1>3, <1>6, <1>8, <2>1, <3>2 DEF OwnIsNews, BeforeMerge
    <3>3. QED BY <3>1, <3>2
  <2>4. MergeIsNews(e, j)' /\ PutIsNews(e, j)'
    BY <2>1 DEF MergeIsNews, PutIsNews, Merged
  <2>5. QED BY <2>2, <2>3, <2>4 DEF Descends
<1>9. ASSUME NEW j \in Keys PROVE Descends(d, j)'
  <2>1. MergeIsNews(d, j) /\ PutIsNews(d, j)
    BY DEF Descent, Descends
  <2>2. Line(sync[d].library.of[j].doc) \subseteq Line(FileState(j).doc) \cup Known(d, j)'
    <3>1. CASE j # k
      BY <1>1, <1>3, <2>1, <3>1 DEF MergeIsNews, Merged
    <3>2. CASE j = k
      <4>1. \A x : x = store'[d][k].doc => Line(x)' \subseteq Known(d, k)'
        BY DEF Known
      <4>2. Line(sync[d].library.of[k].doc) \subseteq Known(d, k)'
        BY <1>1, <1>3, <4>1
      <4>3. QED BY <3>2, <4>2
    <3>3. QED BY <3>1, <3>2
  <2>3. MergeIsNews(d, j)'
    BY <1>1, <1>3, <2>1, <2>2 DEF MergeIsNews, Merged
  <2>4. PutIsNews(d, j)'
    BY <1>1, <1>3, <2>1 DEF PutIsNews
  <2>5. QED BY <1>1, <2>3, <2>4 DEF Descends, FileIsNews, OwnIsNews, BeforeMerge
<1>10. QED BY <1>7, <1>8, <1>9 DEF Descent

\* What is saved was new to the devices that do not sync.
LEMMA SaveDescends ==
  ASSUME Types, Alone, Orderly, Descent, NEW d \in Devices, Save(d)
  PROVE  Descent'
<1>1. /\ UNCHANGED <<store, baseline, over, dropped>> /\ sync[d].pc = "save"
      /\ SameExcept(sync[d], sync'[d], "commit")
      /\ drive'[1] = sync[d].library /\ drive' # <<>>
  BY SavedFile, SavedFileExists, SyncShapes DEF Save
<1>2. \A e \in Devices : e # d => sync[e] = Resting /\ sync'[e] = Resting
  BY SavesAlone DEF Orderly
<1>3. /\ \A x : Line(x)' = Line(x) /\ Made' = Made
      /\ \A j \in Keys : FileState(j)' = sync[d].library.of[j]
      /\ \A e \in Devices, j \in Keys : Known(e, j)' = Known(e, j)
  BY <1>1, LinesStay, KnownStays DEF FileState, Made
<1>4. DocsMade'
  <2>1. Chain(over)'
    BY <1>1 DEF Descent, DocsMade, Chain
  <2>2. \A e \in Devices, j \in Keys : sync'[e].library.of[j].doc \in Made \cup {NoDoc}
    BY <1>1, <1>2 DEF Descent, DocsMade, SameExcept
  <2>3. QED BY <1>1, <1>3, <2>1, <2>2 DEF Descent, DocsMade
<1>5. ASSUME NEW e \in Devices, NEW j \in Keys, e # d PROVE Descends(e, j)'
  <2>1. /\ FileIsNews(e, j) /\ OwnIsNews(e, j) /\ MergeIsNews(d, j)
        /\ sync[e].pc = "idle" /\ sync'[e].pc = "idle" /\ store'[e][j] = store[e][j]
        /\ baseline'[e][j] = baseline[e][j] /\ sync[d].pc \in Merged
    BY <1>1, <1>2, <1>5, Restful DEF Descent, Descends, Merged
  <2>2. FileIsNews(e, j)'
    BY <1>3, <1>5, <2>1 DEF FileIsNews, MergeIsNews, BeforeMerge
  <2>3. OwnIsNews(e, j)'
    BY <1>3, <1>5, <2>1 DEF OwnIsNews, MergeIsNews, BeforeMerge
  <2>4. QED BY <2>1, <2>2, <2>3 DEF Descends, MergeIsNews, PutIsNews, Merged
<1>6. \A j \in Keys : Descends(d, j)'
  BY <1>1 DEF Descends, FileIsNews, OwnIsNews, MergeIsNews, PutIsNews, Merged, BeforeMerge, SameExcept
<1>7. QED BY <1>4, <1>5, <1>6 DEF Descent

\* What becomes the baseline is what the device and the file have.
LEMMA CommitDescends ==
  ASSUME Types, Alone, Orderly, Descent, NEW d \in Devices, Commit(d)
  PROVE  Descent'
<1>1. /\ UNCHANGED <<store, drive, over, dropped>> /\ sync[d].pc = "commit" /\ Only(d)
      /\ sync'[d] = Resting /\ sync[d].library = drive[1] /\ drive # <<>>
  BY SyncShapes DEF Commit, Orderly, Alone, Working
<1>2. /\ \A e \in Devices : e # d => baseline'[e] = baseline[e]
      /\ \A j \in Keys : baseline'[d][j].doc = FileState(j).doc
  BY <1>1, CommittedState DEF FileState
<1>3. \A e \in Devices : e # d => sync'[e] = sync[e] /\ sync[e].pc = "idle"
  BY <1>1 DEF Only, Alone, Busy
<1>4. /\ \A x : Line(x)' = Line(x) /\ Made' = Made
      /\ \A j \in Keys : FileState(j)' = FileState(j)
      /\ \A e \in Devices, j \in Keys : e # d => Known(e, j)' = Known(e, j)
  BY <1>1, <1>2, LinesStay, KnownStays DEF FileState, Made
<1>5. \A j \in Keys : Known(d, j)' \subseteq Known(d, j) \cup Line(FileState(j).doc)
  <2>1. ASSUME NEW j \in Keys, NEW y \in Known(d, j)'
        PROVE  y \in Known(d, j) \cup Line(FileState(j).doc)
    <3>1. PICK x \in {FileState(j).doc, store[d][j].doc} \cup dropped[d][j] : y \in Line(x)
      BY <1>1, <1>2, <1>4, <2>1 DEF Known
    <3>2. QED BY <3>1 DEF Known
  <2>2. QED BY <2>1
<1>6. ASSUME NEW j \in Keys PROVE store[d][j].doc \in {NoDoc, FileState(j).doc}
  <2>1. Sourced(d, j) /\ Covered(d, j)
    BY DEF Orderly
  <2>2. store[d][j] # Absent => store[d][j].doc = FileState(j).doc
    BY <1>1, <2>1 DEF Sourced, Covered, AppliedTo, FileState
  <2>3. QED BY <2>2 DEF Absent
<1>7. DocsMade'
  <2>1. Chain(over)'
    BY <1>1 DEF Descent, DocsMade, Chain
  <2>2. \A e \in Devices, j \in Keys : baseline'[e][j].doc \in Made \cup {NoDoc}
    BY <1>2 DEF Descent, DocsMade
  <2>3. \A e \in Devices, j \in Keys : sync'[e].library.of[j].doc \in Made \cup {NoDoc}
    BY <1>1, <1>3, Restful DEF Descent, DocsMade, Absent
  <2>4. QED BY <1>1, <1>4, <2>1, <2>2, <2>3 DEF Descent, DocsMade
<1>8. ASSUME NEW e \in Devices, NEW j \in Keys, e # d PROVE Descends(e, j)'
  <2>1. /\ FileIsNews(e, j) /\ OwnIsNews(e, j) /\ sync[e].pc = "idle" /\ sync'[e].pc = "idle"
        /\ baseline'[e][j] = baseline[e][j]
    BY <1>2, <1>3, <1>8 DEF Descent, Descends
  <2>2. FileIsNews(e, j)'
    BY <1>4, <1>8, <2>1 DEF FileIsNews, BeforeMerge
  <2>3. OwnIsNews(e, j)'
    BY <1>1, <1>4, <1>5, <1>8, <2>1 DEF OwnIsNews, BeforeMerge
  <2>4. QED BY <2>1, <2>2, <2>3 DEF Descends, MergeIsNews, PutIsNews, Merged
<1>9. ASSUME NEW j \in Keys PROVE Descends(d, j)'
  <2>1. sync'[d].pc = "idle"
    BY <1>1, Restful
  <2>2. FileIsNews(d, j)' /\ OwnIsNews(d, j)'
    BY <1>1, <1>2, <1>4, <1>6 DEF FileIsNews, OwnIsNews
  <2>3. QED BY <2>1, <2>2 DEF Descends, MergeIsNews, PutIsNews, Merged
<1>10. QED BY <1>7, <1>8, <1>9 DEF Descent

\* Every step keeps what is new to a device or to the file new to it.
LEMMA NextDescends ==
  ASSUME ~Overlap, ~EditsWhileSyncing, MaxFailures = 0, Types, Alone, Orderly, Descent, [Next]_vars
  PROVE  Descent'
<1>a. \A d \in Devices, k \in Keys : Descends(d, k) /\ Sourced(d, k) /\ Covered(d, k)
  BY DEF Descent, Orderly
<1>b. \A d \in Devices, k \in Keys : sync[d].library.of[k].doc \in Made \cup {NoDoc}
  BY DEF Descent, DocsMade
\* A step of one sync that changes neither a store, a baseline nor a file, nor
\* what the sync has merged.
<1>c. ASSUME NEW d \in Devices, UNCHANGED <<store, baseline, drive, over, dropped>>, Only(d),
             sync'[d].library = sync[d].library,
             sync'[d].pc \in BeforeMerge => sync[d].pc \in BeforeMerge,
             sync'[d].pc \in Merged => sync[d].pc \in Merged,
             sync'[d].pc \in {"apply", "put"} => sync[d].pc \in {"apply", "put"}
      PROVE  Descent'
  <2>1. /\ \A x : Line(x)' = Line(x)
        /\ \A k \in Keys : FileState(k)' = FileState(k)
        /\ \A e \in Devices, k \in Keys : Known(e, k)' = Known(e, k)
    BY <1>c, LinesStay, KnownStays DEF FileState
  <2>2. ASSUME NEW k \in Keys PROVE Descends(d, k)'
    <3>1. FileIsNews(d, k)' /\ OwnIsNews(d, k)'
      BY <1>a, <1>c, <2>1 DEF Descends, FileIsNews, OwnIsNews
    <3>2. MergeIsNews(d, k)' /\ PutIsNews(d, k)'
      BY <1>a, <1>c, <2>1 DEF Descends, MergeIsNews, PutIsNews
    <3>3. QED BY <3>1, <3>2 DEF Descends
  <2>3. QED BY <1>b, <1>c, <2>2, SyncDescends
<1>1. CASE UNCHANGED <<store, baseline, sync, drive, over, dropped>>
  <2>1. /\ \A x : Line(x)' = Line(x) /\ Made' = Made
        /\ \A k \in Keys : FileState(k)' = FileState(k)
        /\ \A e \in Devices, k \in Keys : Known(e, k)' = Known(e, k)
    BY <1>1, LinesStay, KnownStays DEF FileState, Made
  <2>2. DocsMade'
    BY <1>1, <2>1 DEF Descent, DocsMade, Chain
  <2>3. \A d \in Devices, k \in Keys : Descends(d, k)'
    BY <1>1, <1>a, <2>1 DEF Descends, FileIsNews, OwnIsNews, MergeIsNews, PutIsNews
  <2>4. QED BY <2>2, <2>3 DEF Descent
<1>2. ASSUME NEW d \in Devices, Begin(d) PROVE Descent'
  <2>1. /\ UNCHANGED <<store, baseline, drive, over, dropped>> /\ sync[d].pc = "idle"
        /\ Only(d) /\ SameExcept(sync[d], sync'[d], "read")
    BY <1>2, SyncShapes DEF Begin, Step
  <2>2. QED BY <1>c, <2>1 DEF SameExcept, BeforeMerge, Merged
<1>3. ASSUME NEW d \in Devices, ReadLocal(d) PROVE Descent'
  <2>1. /\ UNCHANGED <<store, baseline, drive, over, dropped>> /\ sync[d].pc = "read" /\ Only(d)
        /\ sync'[d].pc = "find" /\ sync'[d].library = Snapshot(d)
    BY <1>3, SyncShapes DEF ReadLocal
  <2>2. \A x : Line(x)' = Line(x)
    BY <2>1, LinesStay
  <2>3. ASSUME NEW k \in Keys PROVE Descends(d, k)'
    <3>1. /\ FileState(k)' = FileState(k)
          /\ \A e \in Devices : Known(e, k)' = Known(e, k)
      BY <2>1, KnownStays DEF FileState
    <3>2. FileIsNews(d, k)' /\ OwnIsNews(d, k)'
      BY <1>a, <2>1, <2>2, <3>1 DEF Descends, FileIsNews, OwnIsNews, BeforeMerge
    <3>3. QED BY <2>1, <3>2 DEF Descends, MergeIsNews, PutIsNews, Merged
  <2>4. \A k \in Keys : sync'[d].library.of[k].doc \in Made \cup {NoDoc}
    <3>1. \A k \in Keys : /\ Snapshot(d).of[k] = LocalSide(d, k, now)
                          /\ store[d][k].doc \in Made \cup {NoDoc}
                          /\ baseline[d][k].doc \in Made \cup {NoDoc}
      BY DEF Snapshot, Library, LocalSide, Descent, DocsMade
    <3>2. QED BY <2>1, <3>1 DEF LocalSide, effectiveState, Tombstone
  <2>5. QED BY <2>1, <2>3, <2>4, SyncDescends
<1>4. ASSUME NEW d \in Devices, Find(d) PROVE Descent'
  <2>1. /\ UNCHANGED <<store, baseline, drive, over, dropped>> /\ sync[d].pc = "find" /\ Only(d)
        /\ sync'[d].pc = (IF newest = NoFile THEN "apply" ELSE "download")
        /\ sync'[d].library = sync[d].library
    BY <1>4, SyncShapes DEF Find
  <2>2. CASE newest # NoFile
    BY <1>c, <2>1, <2>2 DEF BeforeMerge, Merged
  <2>3. CASE newest = NoFile
    <3>1. \A x : Line(x)' = Line(x)
      BY <2>1, LinesStay
    <3>2. ASSUME NEW k \in Keys PROVE Descends(d, k)'
      <4>1. /\ FileState(k)' = Absent /\ FileState(k) = Absent
            /\ \A e \in Devices : Known(e, k)' = Known(e, k)
        BY <2>1, <2>3, KnownStays DEF FileState, Types, DriveTypes
      <4>2. baseline[d][k] = Absent
        BY <1>a, <4>1 DEF Covered
      <4>3. sync[d].library.of[k] = store[d][k]
        BY <1>a, <2>1, <4>2 DEF Sourced, LocalSide, effectiveState, Absent
      <4>4. Line(store[d][k].doc) \subseteq Known(d, k)
        BY DEF Known
      <4>5. MergeIsNews(d, k)'
        BY <1>a, <2>1, <3>1, <4>1, <4>2, <4>3, <4>4
           DEF MergeIsNews, Descends, OwnIsNews, BeforeMerge, Absent
      <4>6. PutIsNews(d, k)'
        BY <2>1, <4>3 DEF PutIsNews
      <4>7. QED BY <2>1, <2>3, <4>5, <4>6 DEF Descends, FileIsNews, OwnIsNews, BeforeMerge
    <3>3. QED BY <1>b, <2>1, <3>2, SyncDescends
  <2>4. QED BY <2>2, <2>3
<1>5. ASSUME NEW d \in Devices, Download(d) PROVE Descent'
  <2>1. UNCHANGED <<store, baseline, drive, over, dropped>> /\ Only(d)
    BY <1>5, SyncShapes DEF Download
  <2>2. \A k \in Keys : Descends(d, k)' /\ sync'[d].library.of[k].doc \in Made \cup {NoDoc}
    BY <1>5, DownloadDescends
  <2>3. QED BY <2>1, <2>2, SyncDescends
<1>6. ASSUME NEW d \in Devices, BeginApply(d) PROVE Descent'
  <2>1. /\ UNCHANGED <<store, baseline, drive, over, dropped>> /\ sync[d].pc = "apply" /\ Only(d)
        /\ sync'[d].pc = "put" /\ sync'[d].library = sync[d].library
    BY <1>6, SyncShapes DEF BeginApply
  <2>2. QED BY <1>c, <2>1 DEF BeforeMerge, Merged
<1>7. ASSUME NEW d \in Devices, Applied(d) PROVE Descent'
  <2>1. /\ UNCHANGED <<store, baseline, drive, over, dropped>> /\ sync[d].pc = "put" /\ Only(d)
        /\ SameExcept(sync[d], sync'[d], "check")
    BY <1>7, SyncShapes DEF Applied, Step
  <2>2. QED BY <1>c, <2>1 DEF BeforeMerge, Merged, SameExcept
<1>8. ASSUME NEW d \in Devices, Check(d) PROVE Descent'
  <2>1. /\ UNCHANGED <<store, baseline, drive, over, dropped>> /\ sync[d].pc = "check" /\ Only(d)
        /\ SameExcept(sync[d], sync'[d], "save")
    BY <1>8, SyncShapes DEF Check, Quiet, Orderly
  <2>2. QED BY <1>c, <2>1 DEF BeforeMerge, Merged, SameExcept
<1>9. ASSUME NEW d \in Devices, Fail(d) PROVE Descent'
  BY <1>9 DEF Fail, Types, CounterTypes
<1>10. CASE UNCHANGED vars
  BY <1>1, <1>10 DEF vars
<1>11. CASE Tick
  BY <1>1, <1>11 DEF Tick
<1>12. QED
  BY <1>2, <1>3, <1>4, <1>5, <1>6, <1>7, <1>8, <1>9, <1>10, <1>11, EditDescends, DeleteDescends,
     ApplyDescends, SaveDescends, CommitDescends DEF Next, Synchronize

LEMMA InitDescends == Init => Descent
<1> SUFFICES ASSUME Init PROVE Descent
  OBVIOUS
<1>1. \A d \in Devices : sync[d] = Resting /\ \A k \in Keys : dropped[d][k] = {}
  BY DEF Init
<1>2. \A d \in Devices, k \in Keys : sync[d].library.of[k].doc = NoDoc
  BY <1>1, Restful DEF Absent
<1>3. \A d \in Devices, k \in Keys : MergeIsNews(d, k) /\ PutIsNews(d, k)
  BY <1>1, Restful DEF MergeIsNews, PutIsNews, Merged
<1>4. CASE store = [d \in Devices |-> Nothing] /\ baseline = [d \in Devices |-> Nothing]
           /\ drive = <<>> /\ over = <<>>
  <2>1. /\ \A d \in Devices, k \in Keys : store[d][k].doc = NoDoc /\ baseline[d][k].doc = NoDoc
        /\ \A k \in Keys : FileState(k).doc = NoDoc
        /\ Chain(over)
    BY <1>4 DEF Nothing, Absent, FileState, Chain
  <2>2. QED BY <1>1, <1>2, <1>3, <2>1 DEF Descent, DocsMade, Descends, FileIsNews, OwnIsNews
<1>5. CASE \E k \in Keys :
             LET library == [NoLibrary EXCEPT !.of[k] = Record(1, 1)]
             IN  /\ store = [d \in Devices |-> library.of]
                 /\ baseline = [d \in Devices |-> createLibraryManifest(library)]
                 /\ drive = <<library>> /\ over = <<NoDoc>>
  <2> DEFINE library(k) == [NoLibrary EXCEPT !.of[k] = Record(1, 1)]
  <2>1. PICK k \in Keys :
          /\ store = [d \in Devices |-> library(k).of]
          /\ baseline = [d \in Devices |-> createLibraryManifest(library(k))]
          /\ drive = <<library(k)>> /\ over = <<NoDoc>>
    BY <1>5
  <2>2. library(k) = [of |-> [Nothing EXCEPT ![k] = Record(1, 1)],
                      conflicts |-> {}, generatedAt |-> 0]
    BY DEF NoLibrary
  <2>3. \A j \in Keys : library(k).of[j].doc \in {1, NoDoc}
    BY <2>2 DEF Nothing, Record, Absent
  <2> HIDE DEF library
  <2>4. /\ \A d \in Devices, j \in Keys : store[d][j].doc = library(k).of[j].doc
        /\ \A d \in Devices, j \in Keys : baseline[d][j].doc = library(k).of[j].doc
        /\ \A j \in Keys : FileState(j).doc = library(k).of[j].doc
    BY <2>1 DEF createLibraryManifest, Record, FileState
  <2>5. Made = {1} /\ Chain(over)
    BY <2>1 DEF Made, Chain
  <2>6. QED BY <1>1, <1>2, <1>3, <2>3, <2>4, <2>5
            DEF Descent, DocsMade, Descends, FileIsNews, OwnIsNews
<1>6. QED BY <1>4, <1>5 DEF Init

\* Under the same conditions, a device is never given a content in place of one
\* that was made from it, nor one that its user replaced or deleted.
THEOREM NothingComesBack ==
  ASSUME ~Overlap, ~EditsWhileSyncing, MaxFailures = 0
  PROVE  Spec => NoRegress
<1> DEFINE Inv == Types /\ Alone /\ Orderly /\ Descent
           Newer(d, k) ==
             LET old == store[d][k].doc
                 new == store'[d][k].doc
             IN  new \notin {NoDoc, old} =>
                   /\ old # NoDoc => new \notin Ancestors[old]
                   /\ \A gone \in dropped[d][k] : new \notin Lineage(gone)
<1>1. Init => Inv
  BY InitTypes, InitAlone, InitOrderly, InitDescends
<1>2. Inv /\ [Next]_vars => Inv'
  BY NextTypes, NextAlone, NextOrderly, NextDescends
<1>3. Inv /\ [Next]_vars => [\A d \in Devices, k \in Keys : Newer(d, k)]_store
  <2> SUFFICES ASSUME Inv, [Next]_vars, NEW d \in Devices, NEW k \in Keys, store' # store
               PROVE  Newer(d, k)
    OBVIOUS
  <2>1. Types /\ Alone /\ DocsMade /\ Known(d, k) \subseteq Made /\ store[d][k].doc \in Made \cup {NoDoc}
    BY KnownFacts DEF Descent, DocsMade
  <2>2. /\ store[d][k].doc # NoDoc => Ancestors[store[d][k].doc] \subseteq Known(d, k)
        /\ \A gone \in dropped[d][k] : Lineage(gone) \subseteq Known(d, k)
    <3>1. \A gone \in dropped[d][k] : gone # NoDoc
      BY <2>1, KnownFacts DEF DocsMade
    <3>2. QED BY <2>1, <3>1, KnownFacts, LineFacts DEF Line, DocsMade
  <2>3. SUFFICES ASSUME store'[d][k].doc \notin {NoDoc, store[d][k].doc}
                 PROVE  store'[d][k].doc \notin Known(d, k)
    BY <2>2
  <2>4. \E e \in Devices, j \in Keys : Edit(e, j) \/ Delete(e, j) \/ Apply(e, j)
    BY DEF Next, Synchronize, Tick, Begin, ReadLocal, Find, Download, BeginApply,
           Applied, Check, Save, Commit, Fail, vars
  <2>5. ASSUME NEW e \in Devices, NEW j \in Keys, Edit(e, j)
        PROVE  store'[d][k].doc \notin Known(d, k)
    <3>1. /\ store'[e][j].doc = Len(over) + 1
          /\ \A c \in Devices, i \in Keys : (c # e \/ i # j) => store'[c][i] = store[c][i]
      BY <2>1, <2>5 DEF Edit, Types, StoreTypes, Record
    <3>2. Len(over) + 1 \notin Made
      BY <2>1 DEF Made, Types, CounterTypes
    <3>3. QED BY <2>1, <2>3, <3>1, <3>2
  <2>6. ASSUME NEW e \in Devices, NEW j \in Keys, Delete(e, j) PROVE FALSE
    <3>1. /\ store'[e][j].doc = NoDoc
          /\ \A c \in Devices, i \in Keys : (c # e \/ i # j) => store'[c][i] = store[c][i]
      BY <2>1, <2>6 DEF Delete, Types, StoreTypes, Absent
    <3>2. QED BY <2>3, <3>1
  <2>7. ASSUME NEW e \in Devices, NEW j \in Keys, Apply(e, j)
        PROVE  store'[d][k].doc \notin Known(d, k)
    <3>1. /\ store'[e][j].doc = sync[e].library.of[j].doc /\ sync[e].pc = "put"
          /\ \A c \in Devices, i \in Keys : (c # e \/ i # j) => store'[c][i] = store[c][i]
      BY <2>1, <2>7, AppliedState, ZenonT(60) DEF Apply
    <3>2. PutIsNews(d, k)
      BY DEF Descent, Descends
    <3>3. QED BY <2>3, <3>1, <3>2 DEF PutIsNews
  <2>8. QED BY <2>4, <2>5, <2>6, <2>7
<1>4. QED BY <1>1, <1>2, <1>3, PTL DEF Spec, NoRegress

----------------------------------------------------------------------------
\* Only concurrent changes are taken for conflicts.

\* A deletion that a sync or the file knows of was asked for by a user: of the
\* device itself, or, when the device's baseline does not know of it, of another.
Asked(d, k) ==
  /\ sync[d].pc \in BeforeMerge /\ store[d][k] = Absent /\ Has(baseline[d][k]) =>
       dropped[d][k] # {}
  /\ sync[d].pc \in Merged /\ sync[d].library.of[k].kind = "deleted" =>
       dropped[d][k] # {} \/ FileState(k).kind = "deleted"
  /\ sync[d].pc # "commit" /\ FileState(k).kind = "deleted" /\ baseline[d][k].kind # "deleted" =>
       \E e \in Devices : e # d /\ dropped[e][k] # {}

\* The conflicts of a library are between contents that users made independently.
Sound(library) ==
  \A c \in library.conflicts : \A a, b \in c.alternatives :
    a.kind = "record" =>
      /\ a.doc \in Made
      /\ b.kind = "record" => a.doc \notin Ancestors[b.doc]
      /\ b.kind = "deleted" => \E gone \in AllDropped : a.doc \notin Lineage(gone)

SoundHistories ==
  /\ \A d \in Devices : Sound(sync[d].library)
  /\ drive # <<>> => Sound(drive[1])

\* The findings of a merge are of keys that both sides have changed.
LEMMA Findings ==
  ASSUME NEW local, NEW remote, NEW base, NEW t,
         NEW c \in mergeLibrarySnapshots(local, remote, base, t).conflicts
  PROVE  \/ c \in local.conflicts \cup remote.conflicts
         \/ \E k \in Keys :
              LET l == effectiveState(local.of[k], base[k], local.generatedAt)
                  r == effectiveState(remote.of[k], base[k], remote.generatedAt)
              IN  Conflicting(base[k], l, r) /\ c.alternatives = {l, r}
<1> DEFINE l == [k \in Keys |-> effectiveState(local.of[k], base[k], local.generatedAt)]
           r == [k \in Keys |-> effectiveState(remote.of[k], base[k], remote.generatedAt)]
           new == {[key |-> k, alternatives |-> {l[k], r[k]}, detectedAt |-> t] :
                     k \in {x \in Keys : Conflicting(base[x], l[x], r[x])}}
<1>1. c \in local.conflicts \cup remote.conflicts \cup new
  <2>1. mergeLibrarySnapshots(local, remote, base, t).conflicts =
          sortConflictHistory(local.conflicts \cup remote.conflicts \cup new)
    BY DEF mergeLibrarySnapshots, Library
  <2> HIDE DEF new
  <2>2. QED BY <2>1 DEF sortConflictHistory
<1>2. ASSUME c \in new
      PROVE  \E k \in Keys : Conflicting(base[k], l[k], r[k]) /\ c.alternatives = {l[k], r[k]}
  <2> HIDE DEF l, r
  <2>1. QED BY <1>2
<1>3. QED BY <1>1, <1>2

\* What users do later makes no recorded conflict unsound.
LEMMA SoundStays ==
  ASSUME Types, DocsMade, [Next]_vars, NEW library, Sound(library)
  PROVE  Sound(library)'
<1>1. /\ \A x \in Made : Ancestors'[x] = Ancestors[x] /\ x \in Made'
      /\ AllDropped \subseteq AllDropped'
  <2>1. \/ UNCHANGED <<over, dropped>>
        \/ \E d \in Devices, k \in Keys : Edit(d, k) \/ Delete(d, k)
    BY DEF Next, Synchronize, Tick, Begin, ReadLocal, Find, Download, BeginApply, Apply,
           Applied, Check, Save, Commit, Fail, vars
  <2>2. CASE UNCHANGED <<over, dropped>>
    BY <2>2, LinesStay DEF Made, AllDropped
  <2>3. ASSUME NEW d \in Devices, NEW k \in Keys, Edit(d, k)
        PROVE  /\ \A x \in Made : Ancestors'[x] = Ancestors[x] /\ x \in Made'
               /\ AllDropped \subseteq AllDropped'
    <3>1. over' = Append(over, store[d][k].doc) /\ dropped' = dropped
          /\ store[d][k].doc \in Made \cup {NoDoc} /\ Chain(over)
      BY <2>3 DEF Edit, DocsMade
    <3>2. QED BY <3>1, LinesGrow DEF AllDropped
  <2>4. ASSUME NEW d \in Devices, NEW k \in Keys, Delete(d, k)
        PROVE  /\ \A x \in Made : Ancestors'[x] = Ancestors[x] /\ x \in Made'
               /\ AllDropped \subseteq AllDropped'
    <3>1. over' = over /\ \A e \in Devices, j \in Keys : dropped[e][j] \subseteq dropped'[e][j]
      BY <2>4 DEF Delete, Types, StoreTypes
    <3>2. QED BY <3>1, LinesStay DEF Made, AllDropped
  <2>5. QED BY <2>1, <2>2, <2>3, <2>4
<1>2. AllDropped \subseteq Made
  BY DEF AllDropped, DocsMade
<1>3. SUFFICES ASSUME NEW c \in library.conflicts, NEW a \in c.alternatives, NEW b \in c.alternatives,
                      a.kind = "record"
               PROVE  /\ a.doc \in Made'
                      /\ b.kind = "record" => a.doc \notin Ancestors'[b.doc]
                      /\ b.kind = "deleted" =>
                           \E gone \in AllDropped' : a.doc \notin Ancestors'[gone] \cup {gone}
  BY DEF Sound, Lineage
<1>4. /\ a.doc \in Made
      /\ b.kind = "record" => a.doc \notin Ancestors[b.doc] /\ b.doc \in Made
      /\ b.kind = "deleted" => \E gone \in AllDropped : a.doc \notin Ancestors[gone] \cup {gone}
  BY <1>3 DEF Sound, Lineage
<1>5. QED BY <1>1, <1>2, <1>4

\* Both sides have changed since the device's last sync: each is new to the other.
LEMMA DownloadSound ==
  ASSUME Types, Alone, Orderly, Descent, SoundHistories, NEW d \in Devices, Download(d),
         \A k \in Keys : Asked(d, k)
  PROVE  Sound(sync'[d].library)
<1>1. /\ drive # <<>> /\ sync[d].library.conflicts = {} /\ sync[d].pc = "download"
      /\ sync[d].library \in LibraryDoc /\ baseline[d] \in [Keys -> State]
  BY Sides DEF Download, Orderly, Quiet
<1>2. SUFFICES ASSUME NEW c \in sync'[d].library.conflicts, c \notin drive[1].conflicts,
                      NEW a \in c.alternatives, NEW b \in c.alternatives, a.kind = "record"
               PROVE  /\ a.doc \in Made
                      /\ b.kind = "record" => a.doc \notin Ancestors[b.doc]
                      /\ b.kind = "deleted" => \E gone \in AllDropped : a.doc \notin Lineage(gone)
  BY <1>1 DEF Sound, SoundHistories
<1>3. PICK k \in Keys :
        LET l == LocalSide(d, k, sync[d].library.generatedAt)
            r == FileState(k)
        IN  Conflicting(baseline[d][k], l, r) /\ c.alternatives = {l, r}
  BY <1>1, <1>2, Sides, Findings
<1> DEFINE l == LocalSide(d, k, sync[d].library.generatedAt)
           r == FileState(k)
           base == baseline[d][k]
           s == store[d][k].doc
<1>4. /\ Conflicting(base, l, r) /\ a \in {l, r} /\ b \in {l, r}
      /\ l \in State /\ r \in State /\ base \in State
      /\ store[d][k] # Absent => l = store[d][k]
      /\ store[d][k] = Absent => ~Has(l)
      /\ store[d][k] = Absent /\ ~Has(base) => l = base
  BY <1>1, <1>2, <1>3, Downloaded
<1>5. \A x \in State : /\ Has(x) <=> x.doc # NoDoc
                       /\ Has(x) <=> x.kind = "record"
                       /\ Has(x) /\ Changed(x, base) => x.doc # base.doc
                       /\ x.kind = "deleted" /\ Changed(x, base) => base.kind # "deleted"
                       /\ x = base => ~Changed(x, base)
  BY <1>4, StateKinds, MergeAssumption DEF State, Absent, NoDoc, Has, Changed, semanticallyEqual
<1>6. Changed(l, base) /\ Changed(r, base) /\ ~semanticallyEqual(l, r)
  BY <1>4 DEF Conflicting
<1>7. /\ FileIsNews(d, k) /\ OwnIsNews(d, k) /\ Asked(d, k) /\ DocsMade
      /\ r.doc \in Made \cup {NoDoc} /\ s \in Made \cup {NoDoc}
  BY DEF Descent, Descends, DocsMade
<1> HIDE DEF l, r, base, s
<1>8. Has(l) => l.doc = s /\ s # NoDoc /\ s # base.doc
  BY <1>4, <1>5, <1>6 DEF s
<1>9. Has(r) => r.doc # NoDoc /\ r.doc # base.doc
  BY <1>4, <1>5, <1>6
\* The device's own content is new to the file and to the other devices.
<1>10. Has(l) => /\ s \notin Line(r.doc)
                 /\ \A e \in Devices : e # d => s \notin Known(e, k)
  BY <1>1, <1>7, <1>8 DEF OwnIsNews, BeforeMerge, s, base, r
\* The file's content is new to the device.
<1>11. Has(r) => r.doc \notin Known(d, k)
  BY <1>1, <1>7, <1>9 DEF FileIsNews, BeforeMerge, r, base
<1>12. \A e \in Devices : \A gone \in dropped[e][k] :
         gone \in AllDropped /\ Lineage(gone) \subseteq Known(e, k)
  <2>1. \A e \in Devices : \A gone \in dropped[e][k] : gone \in Made
    BY <1>7 DEF DocsMade
  <2>2. \A e \in Devices : \A gone \in dropped[e][k] : Line(gone) = Lineage(gone)
    BY <2>1 DEF Line, Made, NoDoc
  <2>3. QED BY <1>7, <2>2, KnownFacts DEF AllDropped
<1>13. a.doc \in Made
  BY <1>2, <1>4, <1>5, <1>7, <1>8, <1>9
<1>14. ASSUME b.kind = "record" PROVE a.doc \notin Ancestors[b.doc]
  <2>1. CASE a = b
    <3>1. a.doc \notin Ancestors[a.doc]
      BY <1>7, <1>13, LineFacts DEF DocsMade, Made, NoDoc
    <3>2. QED BY <2>1, <3>1
  <2>2. CASE a = l /\ b = r
    <3>1. Has(l) /\ Has(r) /\ r.doc # NoDoc
      BY <1>2, <1>4, <1>5, <1>14, <2>2
    <3>2. Ancestors[r.doc] \subseteq Line(r.doc)
      BY <1>7, <3>1, LineFacts DEF DocsMade
    <3>3. QED BY <1>8, <1>10, <2>2, <3>1, <3>2
  <2>3. CASE a = r /\ b = l
    <3>1. Has(l) /\ Has(r)
      BY <1>2, <1>4, <1>5, <1>14, <2>3
    <3>2. Ancestors[s] \subseteq Line(s) /\ Line(s) \subseteq Known(d, k)
      BY <1>7, <1>8, <3>1, LineFacts, KnownFacts DEF DocsMade, s
    <3>3. QED BY <1>8, <1>11, <2>3, <3>1, <3>2
  <2>4. QED BY <1>4, <2>1, <2>2, <2>3
<1>15. ASSUME b.kind = "deleted" PROVE \E gone \in AllDropped : a.doc \notin Lineage(gone)
  <2>1. a # b
    BY <1>2, <1>15
  <2>2. CASE a = l /\ b = r
    <3>1. Has(l) /\ base.kind # "deleted"
      BY <1>2, <1>4, <1>5, <1>6, <1>15, <2>2
    <3>2. PICK e \in Devices : e # d /\ dropped[e][k] # {}
      BY <1>1, <1>7, <1>15, <2>2, <3>1 DEF Asked, base, r
    <3>3. PICK gone \in dropped[e][k] : TRUE
      BY <3>2
    <3>4. QED BY <1>8, <1>10, <1>12, <2>2, <3>1, <3>2, <3>3
  <2>3. CASE a = r /\ b = l
    <3>1. Has(r) /\ ~Has(l)
      BY <1>2, <1>4, <1>5, <1>15, <2>3
    <3>2. store[d][k] = Absent
      BY <1>4, <3>1 DEF Types, StoreTypes, Held, State, Has, s
    <3>3. Has(base)
      BY <1>4, <1>5, <1>6, <3>2
    <3>4. dropped[d][k] # {}
      BY <1>1, <1>7, <3>2, <3>3 DEF Asked, BeforeMerge, base
    <3>5. QED BY <1>11, <1>12, <2>3, <3>1, <3>4
  <2>4. QED BY <1>4, <2>1, <2>2, <2>3
<1>16. QED BY <1>13, <1>14, <1>15

\* Every deletion that is recorded was asked for by a user.
LEMMA NextAsked ==
  ASSUME ~Overlap, ~EditsWhileSyncing, MaxFailures = 0, Types, Alone, Orderly,
         \A d \in Devices, k \in Keys : Asked(d, k), [Next]_vars
  PROVE  \A d \in Devices, k \in Keys : Asked(d, k)'
<1>a. \A d \in Devices :
        /\ Quiet(sync[d])
        /\ Busy(d) => \A e \in Devices : Busy(e) => e = d
        /\ \A k \in Keys : /\ Asked(d, k) /\ Sourced(d, k) /\ Covered(d, k)
                           /\ store[d][k] \in Held /\ baseline[d][k] \in State
  BY DEF Orderly, Alone, Types, StoreTypes
\* A step of one sync that changes neither a store, a baseline nor a file.
<1>b. ASSUME NEW d \in Devices, UNCHANGED <<store, baseline, drive, dropped>>, Only(d),
             sync[d].pc # "commit",
             sync'[d].pc \in BeforeMerge => sync[d].pc \in BeforeMerge,
             sync'[d].pc \in Merged =>
               \A k \in Keys : sync'[d].library.of[k].kind = "deleted" =>
                 dropped[d][k] # {} \/ FileState(k).kind = "deleted"
      PROVE  \A e \in Devices, k \in Keys : Asked(e, k)'
  <2>1. \A e \in Devices : e # d => sync'[e] = sync[e]
    BY <1>b DEF Only
  <2>2. \A k \in Keys : FileState(k)' = FileState(k)
    BY <1>b DEF FileState
  <2>3. ASSUME NEW e \in Devices, NEW k \in Keys PROVE Asked(e, k)'
    <3>1. CASE e = d
      BY <1>a, <1>b, <2>2, <3>1 DEF Asked
    <3>2. CASE e # d
      BY <1>a, <1>b, <2>1, <2>2, <3>2 DEF Asked
    <3>3. QED BY <3>1, <3>2
  <2>4. QED BY <2>3
<1>1. ASSUME NEW d \in Devices, NEW k \in Keys, Edit(d, k) \/ Delete(d, k)
      PROVE  \A e \in Devices, j \in Keys : Asked(e, j)'
  <2>1. /\ UNCHANGED <<baseline, sync, drive>>
        /\ \A e \in Devices, j \in Keys : (e # d \/ j # k) => store'[e][j] = store[e][j]
        /\ \A e \in Devices, j \in Keys : dropped[e][j] \subseteq dropped'[e][j]
    <3>1. CASE Edit(d, k)
      BY <3>1 DEF Edit, Types, StoreTypes
    <3>2. CASE Delete(d, k)
      BY <3>2 DEF Delete, Types, StoreTypes
    <3>3. QED BY <1>1, <3>1, <3>2
  <2>2. store'[d][k] = Absent => dropped'[d][k] # {}
    <3>1. CASE Edit(d, k)
      BY <3>1 DEF Edit, Types, StoreTypes, Absent, Record
    <3>2. CASE Delete(d, k)
      BY <3>2 DEF Delete, Types, StoreTypes
    <3>3. QED BY <1>1, <3>1, <3>2
  <2>3. \A j \in Keys : FileState(j)' = FileState(j)
    BY <2>1 DEF FileState
  <2>4. ASSUME NEW e \in Devices, NEW j \in Keys PROVE Asked(e, j)'
    BY <1>a, <2>1, <2>2, <2>3 DEF Asked, Has
  <2>5. QED BY <2>4
<1>2. CASE UNCHANGED <<store, baseline, sync, drive, dropped>>
  BY <1>a, <1>2 DEF Asked, FileState, Has
<1>3. ASSUME NEW d \in Devices, Begin(d) PROVE \A e \in Devices, k \in Keys : Asked(e, k)'
  <2>1. /\ UNCHANGED <<store, baseline, drive, dropped>> /\ sync[d].pc = "idle"
        /\ Only(d) /\ SameExcept(sync[d], sync'[d], "read")
    BY <1>3, SyncShapes DEF Begin, Step
  <2>2. QED BY <1>b, <2>1 DEF SameExcept, BeforeMerge, Merged
<1>4. ASSUME NEW d \in Devices, ReadLocal(d) PROVE \A e \in Devices, k \in Keys : Asked(e, k)'
  <2>1. /\ UNCHANGED <<store, baseline, drive, dropped>> /\ sync[d].pc = "read" /\ Only(d)
        /\ sync'[d].pc = "find"
    BY <1>4, SyncShapes DEF ReadLocal
  <2>2. QED BY <1>b, <2>1 DEF BeforeMerge, Merged
<1>5. ASSUME NEW d \in Devices, Find(d) PROVE \A e \in Devices, k \in Keys : Asked(e, k)'
  <2>1. /\ UNCHANGED <<store, baseline, drive, dropped>> /\ sync[d].pc = "find" /\ Only(d)
        /\ sync'[d].pc = (IF newest = NoFile THEN "apply" ELSE "download")
        /\ sync'[d].library = sync[d].library
    BY <1>5, SyncShapes DEF Find
  <2>2. ASSUME newest = NoFile, NEW k \in Keys PROVE sync[d].library.of[k].kind # "deleted"
    <3>1. baseline[d][k] = Absent
      BY <1>a, <2>2 DEF Covered, FileState, Types, DriveTypes
    <3>2. sync[d].library.of[k] = store[d][k]
      BY <1>a, <2>1, <3>1 DEF Sourced, LocalSide, effectiveState, Absent
    <3>3. QED BY <1>a, <3>2 DEF Held
  <2>3. QED BY <1>b, <2>1, <2>2 DEF BeforeMerge, Merged
<1>6. ASSUME NEW d \in Devices, Download(d) PROVE \A e \in Devices, k \in Keys : Asked(e, k)'
  <2>1. /\ UNCHANGED <<store, baseline, drive, dropped>> /\ sync[d].pc = "download" /\ Only(d)
        /\ sync'[d].pc = "apply"
    BY <1>6, SyncShapes DEF Download
  <2>2. ASSUME NEW k \in Keys, sync'[d].library.of[k].kind = "deleted"
        PROVE  dropped[d][k] # {} \/ FileState(k).kind = "deleted"
    <3> DEFINE l == LocalSide(d, k, sync[d].library.generatedAt)
               r == FileState(k)
               n == sync'[d].library.of[k]
               base == baseline[d][k]
    <3>1. /\ n = selected(base, l, r) /\ n \in {l, r} /\ l \in State /\ r \in State
          /\ store[d][k] # Absent => l = store[d][k]
          /\ store[d][k] = Absent /\ ~Has(base) => l = base
      BY <1>6, Downloaded
    <3>2. n.kind = "deleted" /\ store[d][k] \in Held
      BY <1>a, <2>2
    <3> HIDE DEF l, r, n, base
    <3>3. CASE r.kind = "deleted"
      BY <3>3 DEF r
    <3>4. CASE r.kind # "deleted"
      <4>1. n = l /\ l.kind = "deleted" /\ store[d][k] = Absent
        BY <3>1, <3>2, <3>4 DEF Held
      <4>2. ~Has(base) => ~Changed(l, base) /\ Changed(r, base)
        BY <3>1, <3>4, <4>1 DEF Changed, semanticallyEqual
      <4>3. Has(base)
        BY <3>1, <3>4, <4>1, <4>2 DEF selected
      <4>4. QED BY <1>a, <2>1, <4>1, <4>3 DEF Asked, BeforeMerge, base
    <3>5. QED BY <3>3, <3>4
  <2>3. QED BY <1>b, <2>1, <2>2 DEF BeforeMerge, Merged
<1>7. ASSUME NEW d \in Devices, BeginApply(d) PROVE \A e \in Devices, k \in Keys : Asked(e, k)'
  <2>1. /\ UNCHANGED <<store, baseline, drive, dropped>> /\ sync[d].pc = "apply" /\ Only(d)
        /\ sync'[d].pc = "put" /\ sync'[d].library = sync[d].library
    BY <1>7, SyncShapes DEF BeginApply
  <2>2. QED BY <1>a, <1>b, <2>1 DEF BeforeMerge, Merged, Asked
<1>8. ASSUME NEW d \in Devices, NEW k \in Keys, Apply(d, k)
      PROVE  \A e \in Devices, j \in Keys : Asked(e, j)'
  <2>1. /\ UNCHANGED <<baseline, drive, dropped>> /\ sync[d].pc = "put" /\ Only(d)
        /\ sync'[d].pc = "put" /\ sync'[d].library = sync[d].library
    BY <1>8, SyncShapes DEF Apply
  <2>2. \A e \in Devices : e # d => sync'[e] = sync[e] /\ store'[e] = store[e]
    BY <1>8, <2>1 DEF Only, Apply, Types, StoreTypes
  <2>3. ASSUME NEW e \in Devices, NEW j \in Keys PROVE Asked(e, j)'
    <3>1. FileState(j)' = FileState(j) /\ Asked(e, j)
      BY <1>a, <2>1 DEF FileState
    <3>2. CASE e = d
      BY <2>1, <3>1, <3>2 DEF Asked, BeforeMerge, Merged
    <3>3. CASE e # d
      BY <2>1, <2>2, <3>1, <3>3 DEF Asked
    <3>4. QED BY <3>2, <3>3
  <2>4. QED BY <2>3
<1>9. ASSUME NEW d \in Devices, Applied(d) PROVE \A e \in Devices, k \in Keys : Asked(e, k)'
  <2>1. /\ UNCHANGED <<store, baseline, drive, dropped>> /\ sync[d].pc = "put" /\ Only(d)
        /\ SameExcept(sync[d], sync'[d], "check")
    BY <1>9, SyncShapes DEF Applied, Step
  <2>2. QED BY <1>a, <1>b, <2>1 DEF BeforeMerge, Merged, SameExcept, Asked
<1>10. ASSUME NEW d \in Devices, Check(d) PROVE \A e \in Devices, k \in Keys : Asked(e, k)'
  <2>1. /\ UNCHANGED <<store, baseline, drive, dropped>> /\ sync[d].pc = "check" /\ Only(d)
        /\ SameExcept(sync[d], sync'[d], "save")
    BY <1>10, <1>a, SyncShapes DEF Check, Quiet
  <2>2. QED BY <1>a, <1>b, <2>1 DEF BeforeMerge, Merged, SameExcept, Asked
<1>11. ASSUME NEW d \in Devices, Save(d) PROVE \A e \in Devices, k \in Keys : Asked(e, k)'
  <2>1. /\ UNCHANGED <<store, baseline, dropped>> /\ sync[d].pc = "save"
        /\ SameExcept(sync[d], sync'[d], "commit")
        /\ drive'[1] = sync[d].library /\ drive' # <<>>
    BY <1>11, SavedFile, SavedFileExists, SyncShapes DEF Save
  <2>2. \A e \in Devices : e # d => sync[e] = Resting /\ sync'[e] = Resting
    BY <1>11, <1>a, SavesAlone
  <2>3. ASSUME NEW e \in Devices, NEW k \in Keys PROVE Asked(e, k)'
    <3>1. FileState(k)' = sync[d].library.of[k] /\ Asked(e, k) /\ Asked(d, k)
      BY <1>a, <2>1 DEF FileState
    <3>2. CASE e = d
      BY <2>1, <3>2 DEF Asked, BeforeMerge, Merged, SameExcept
    <3>3. CASE e # d
      <4>1. sync[e].pc = "idle" /\ sync'[e].pc = "idle" /\ sync[d].pc \in Merged
        BY <2>1, <2>2, <3>3, Restful DEF Merged
      <4>2. QED BY <2>1, <3>1, <3>3, <4>1 DEF Asked, BeforeMerge, Merged
    <3>4. QED BY <3>2, <3>3
  <2>4. QED BY <2>3
<1>12. ASSUME NEW d \in Devices, Commit(d) PROVE \A e \in Devices, k \in Keys : Asked(e, k)'
  <2>1. /\ UNCHANGED <<store, drive, dropped>> /\ sync[d].pc = "commit" /\ Only(d)
        /\ sync'[d] = Resting /\ sync[d].library = drive[1] /\ drive # <<>>
    BY <1>12, SyncShapes DEF Commit, Orderly, Alone, Working
  <2>2. /\ \A e \in Devices : e # d => baseline'[e] = baseline[e] /\ sync'[e] = sync[e]
        /\ \A k \in Keys : baseline'[d][k].kind = FileState(k).kind
    BY <1>12, <2>1, CommittedState DEF FileState, Only
  <2>3. \A k \in Keys : FileState(k)' = FileState(k)
    BY <2>1 DEF FileState
  <2>4. ASSUME NEW e \in Devices, NEW k \in Keys PROVE Asked(e, k)'
    <3>1. CASE e = d
      <4>1. sync'[d].pc = "idle"
        BY <2>1, Restful
      <4>2. Has(FileState(k)) => store[d][k] # Absent
        <5>1. Has(FileState(k)) => store[d][k].doc = FileState(k).doc
          BY <1>a, <2>1, StateForms DEF Sourced, AppliedTo, FileState
        <5>2. Has(FileState(k)) => FileState(k).doc # NoDoc
          BY <2>1, StateKinds, MergeAssumption
             DEF FileState, Types, SyncTypes, SyncState, LibraryDoc, Has, NoDoc
        <5>3. QED BY <5>1, <5>2 DEF Absent
      <4>3. QED BY <2>1, <2>2, <2>3, <3>1, <4>1, <4>2 DEF Asked, Merged, Has
    <3>2. CASE e # d
      BY <1>a, <2>1, <2>2, <2>3, <3>2 DEF Asked
    <3>3. QED BY <3>1, <3>2
  <2>5. QED BY <2>4
<1>13. ASSUME NEW d \in Devices, Fail(d) PROVE \A e \in Devices, k \in Keys : Asked(e, k)'
  BY <1>13 DEF Fail, Types, CounterTypes
<1>14. CASE UNCHANGED vars
  BY <1>2, <1>14 DEF vars
<1>15. CASE Tick
  BY <1>2, <1>15 DEF Tick
<1>16. QED
  BY <1>1, <1>3, <1>4, <1>5, <1>6, <1>7, <1>8, <1>9, <1>10, <1>11, <1>12, <1>13,
     <1>14, <1>15 DEF Next, Synchronize

\* Every conflict that is recorded stays one between independent contents.
LEMMA NextSound ==
  ASSUME ~Overlap, ~EditsWhileSyncing, MaxFailures = 0, Types, Alone, Orderly, Descent,
         \A d \in Devices, k \in Keys : Asked(d, k), SoundHistories, [Next]_vars
  PROVE  SoundHistories'
<1>1. \A library : Sound(library) => Sound(library)'
  BY SoundStays DEF Descent
<1>2. /\ \A d \in Devices : Sound(sync[d].library) /\ (sync[d].moved = FALSE)
      /\ drive # <<>> => Sound(drive[1])
  BY DEF SoundHistories, Orderly, Quiet, Types, SyncTypes, SyncState
\* The empty history is sound.
<1>3. \A library : library.conflicts = {} => Sound(library)
  BY DEF Sound
<1>4. ASSUME NEW d \in Devices, Save(d) PROVE SoundHistories'
  <2>1. /\ SameExcept(sync[d], sync'[d], "commit")
        /\ drive'[1] = sync[d].library /\ drive' # <<>>
        /\ \A e \in Devices : e # d => sync'[e].library = sync[e].library
    BY <1>4, SavedFile, SavedFileExists, SyncShapes
  <2>2. \A e \in Devices : \A library : library = sync'[e].library => Sound(library)'
    BY <1>1, <1>2, <2>1 DEF SameExcept
  <2>3. \A library : library = drive'[1] => Sound(library)'
    BY <1>1, <1>2, <2>1
  <2>4. QED BY <2>2, <2>3 DEF SoundHistories
\* A step of one sync that changes no file.
<1>5. ASSUME NEW d \in Devices, Only(d), drive' = drive, Sound(sync'[d].library)
      PROVE  SoundHistories'
  <2>1. \A e \in Devices : \A library : library = sync'[e].library => Sound(library)'
    BY <1>1, <1>2, <1>5 DEF Only
  <2>2. drive # <<>> => \A library : library = drive'[1] => Sound(library)'
    BY <1>1, <1>2, <1>5
  <2>3. QED BY <1>5, <2>1, <2>2 DEF SoundHistories
<1>6. CASE UNCHANGED <<sync, drive>>
  <2>1. \A e \in Devices : \A library : library = sync'[e].library => Sound(library)'
    BY <1>1, <1>2, <1>6
  <2>2. drive # <<>> => \A library : library = drive'[1] => Sound(library)'
    BY <1>1, <1>2, <1>6
  <2>3. QED BY <1>6, <2>1, <2>2 DEF SoundHistories
<1>7. ASSUME NEW d \in Devices,
             \/ Begin(d) \/ Find(d) \/ BeginApply(d) \/ (\E k \in Keys : Apply(d, k))
             \/ Applied(d) \/ Check(d)
      PROVE  SoundHistories'
  <2>1. Only(d) /\ sync'[d].library = sync[d].library
    BY <1>2, <1>7, SyncShapes DEF SameExcept
  <2>2. drive' = drive
    BY <1>7 DEF Begin, Find, BeginApply, Apply, Applied, Check
  <2>3. QED BY <1>2, <1>5, <2>1, <2>2
<1>8. ASSUME NEW d \in Devices, ReadLocal(d) \/ Commit(d) PROVE SoundHistories'
  <2>1. Only(d) /\ sync'[d].library.conflicts = {}
    <3>1. Snapshot(d).conflicts = {}
      BY DEF Snapshot, Library, sortConflictHistory
    <3>2. QED BY <1>8, <3>1, SyncShapes, Restful
  <2>2. drive' = drive
    BY <1>8 DEF ReadLocal, Commit
  <2>3. QED BY <1>3, <1>5, <2>1, <2>2
<1>9. ASSUME NEW d \in Devices, Download(d) PROVE SoundHistories'
  <2>1. Only(d) /\ drive' = drive
    BY <1>9, SyncShapes DEF Download
  <2>2. QED BY <1>5, <1>9, <2>1, DownloadSound
<1>10. ASSUME NEW d \in Devices, Fail(d) PROVE SoundHistories'
  BY <1>10 DEF Fail, Types, CounterTypes
<1>11. QED
  BY <1>4, <1>6, <1>7, <1>8, <1>9, <1>10 DEF Next, Synchronize, Edit, Delete, Tick, vars

LEMMA InitSound == Init => SoundHistories /\ \A d \in Devices, k \in Keys : Asked(d, k)
<1> SUFFICES ASSUME Init PROVE SoundHistories /\ \A d \in Devices, k \in Keys : Asked(d, k)
  OBVIOUS
<1>1. \A d \in Devices : sync[d] = Resting
  BY DEF Init
<1>2. \A d \in Devices : Sound(sync[d].library)
  BY <1>1, Restful DEF Sound
<1>3. CASE store = [d \in Devices |-> Nothing] /\ baseline = [d \in Devices |-> Nothing]
           /\ drive = <<>>
  <2>1. \A d \in Devices, k \in Keys : Asked(d, k)
    BY <1>1, <1>3, Restful DEF Asked, Nothing, Absent, Has, FileState, Merged
  <2>2. QED BY <1>2, <1>3, <2>1 DEF SoundHistories
<1>4. CASE \E k \in Keys :
             LET library == [NoLibrary EXCEPT !.of[k] = Record(1, 1)]
             IN  /\ store = [d \in Devices |-> library.of]
                 /\ baseline = [d \in Devices |-> createLibraryManifest(library)]
                 /\ drive = <<library>>
  <2> DEFINE library(k) == [NoLibrary EXCEPT !.of[k] = Record(1, 1)]
  <2>1. PICK k \in Keys :
          /\ store = [d \in Devices |-> library(k).of]
          /\ baseline = [d \in Devices |-> createLibraryManifest(library(k))]
          /\ drive = <<library(k)>>
    BY <1>4
  <2>2. library(k) = [of |-> [Nothing EXCEPT ![k] = Record(1, 1)],
                      conflicts |-> {}, generatedAt |-> 0]
    BY DEF NoLibrary
  <2>3. /\ library(k).conflicts = {}
        /\ \A j \in Keys : library(k).of[j].kind # "deleted"
        /\ \A j \in Keys : Has(library(k).of[j]) => library(k).of[j] # Absent
    BY <2>2 DEF Nothing, Record, Absent, Has
  <2> HIDE DEF library
  <2>4. /\ \A d \in Devices, j \in Keys : store[d][j] = library(k).of[j]
        /\ \A d \in Devices, j \in Keys : baseline[d][j].kind = library(k).of[j].kind
        /\ \A j \in Keys : FileState(j) = library(k).of[j]
        /\ drive[1] = library(k)
    BY <2>1 DEF createLibraryManifest, Record, FileState
  <2>5. \A d \in Devices, j \in Keys : Asked(d, j)
    BY <1>1, <2>3, <2>4, Restful DEF Asked, Has, Merged
  <2>6. QED BY <1>2, <2>3, <2>4, <2>5 DEF SoundHistories, Sound
<1>5. QED BY <1>3, <1>4 DEF Init

\* Under the same conditions, a conflict is recorded only for contents that users
\* made independently, and for deletions of contents made from others.
THEOREM OnlyConcurrentConflict ==
  ASSUME ~Overlap, ~EditsWhileSyncing, MaxFailures = 0
  PROVE  Spec => []ConflictsAreConcurrent
<1> DEFINE Inv == /\ Types /\ Alone /\ Orderly /\ Descent /\ SoundHistories
                  /\ \A d \in Devices, k \in Keys : Asked(d, k)
<1>1. Init => Inv
  BY InitTypes, InitAlone, InitOrderly, InitDescends, InitSound
<1>2. Inv /\ [Next]_vars => Inv'
  BY NextTypes, NextAlone, NextOrderly, NextDescends, NextAsked, NextSound
<1>3. Inv => ConflictsAreConcurrent
  <2> SUFFICES ASSUME Inv, NEW library \in Libraries PROVE Sound(library)
    BY DEF ConflictsAreConcurrent, Sound
  <2>1. drive # <<>> => drive[newest] = drive[1]
    BY FileInUse
  <2>2. newest = NoFile <=> drive = <<>>
    BY DEF Types, DriveTypes
  <2>3. QED BY <2>1, <2>2 DEF Libraries, SoundHistories
<1>4. QED BY <1>1, <1>2, <1>3, PTL DEF Spec
=============================================================================
