-------------------------- MODULE SyncServiceProofs --------------------------
(* Proofs about SyncService for any devices, pages, requests and faults: one *)
(* page of a device syncs at a time, and the pages of a device implement one *)
(* device of DriveSync, whose theorems so hold of them.                      *)
EXTENDS SyncService, DriveSyncProofs

PageState ==
  [token : {"none", "good", "refused"}, busy : BOOLEAN, connected : BOOLEAN,
   asked : SUBSET {"connect", "sync"}, sent : BOOLEAN, meta : [Keys -> State],
   connect : {"no", "authorise", "account", "denied", "sync"},
   sync : {"no", "queued", "flush", "folder", "coordinator", "live"},
   leave : {"no", "revoke", "read", "write"}]

PageTypes ==
  /\ page \in [Pages -> PageState]
  /\ lock \in [Devices -> Seq(Pages)]
  /\ requests \in 0..MaxRequests /\ faults \in 0..MaxFaults

\* What a disconnect will write is the baseline that is there.
MetadataFresh ==
  \A p \in Pages : page[p].leave = "write" => page[p].meta = baseline[DeviceOf[p]]

\* s differs from t in nothing a disconnect has left there.
Same(s, t) == s.leave = t.leave /\ s.meta = t.meta

SInv == Types /\ PageTypes /\ OneLeader

USE ServiceAssumption

----------------------------------------------------------------------------
\* Steps of a page.

LEMMA FreshTypes == Fresh \in PageState /\ Connected \in PageState
  BY StateForms DEF Fresh, Connected, PageState

\* What the operators on a page's state change.
LEMMA PageForms ==
  ASSUME NEW s \in PageState
  PROVE  /\ ConnectFails(s) \in PageState /\ Same(ConnectFails(s), s) /\ ConnectFails(s).sync = s.sync
         /\ SyncCalled(s) \in PageState /\ Same(SyncCalled(s), s)
         /\ SyncCalled(s).sync = IF s.sync = "no" THEN "queued" ELSE s.sync
         /\ Ended(s) \in PageState /\ Same(Ended(s), s) /\ Ended(s).sync = "no"
         /\ Failed(s) \in PageState /\ Same(Failed(s), s) /\ Failed(s).sync = "no"
         /\ Unauthorised(s) \in PageState /\ Same(Unauthorised(s), s)
         /\ Erred(s) \in PageState /\ Same(Erred(s), s)
<1>1. ConnectFails(s) \in PageState /\ Same(ConnectFails(s), s) /\ ConnectFails(s).sync = s.sync
  BY DEF ConnectFails, PageState, Same
<1>2. SyncCalled(s) \in PageState /\ Same(SyncCalled(s), s)
      /\ SyncCalled(s).sync = IF s.sync = "no" THEN "queued" ELSE s.sync
  <2> DEFINE c == IF s.sync = "no" THEN "queued" ELSE s.sync
  <2>1. SyncCalled(s) = [s EXCEPT !.sync = c]
    BY DEF SyncCalled
  <2>2. c \in {"no", "queued", "flush", "folder", "coordinator", "live"}
    BY DEF PageState
  <2> HIDE DEF c
  <2>3. SyncCalled(s) \in PageState /\ Same(SyncCalled(s), s) /\ SyncCalled(s).sync = c
    BY <2>1, <2>2 DEF PageState, Same
  <2>4. QED BY <2>3 DEF c
<1>3. ASSUME NEW t \in PageState
      PROVE  Ended(t) \in PageState /\ Same(Ended(t), t) /\ Ended(t).sync = "no"
  <2> DEFINE c == IF t.connect = "sync" THEN "no" ELSE t.connect
  <2>1. Ended(t) = [t EXCEPT !.sync = "no", !.sent = FALSE, !.connect = c]
    BY DEF Ended
  <2>2. c \in {"no", "authorise", "account", "denied", "sync"}
    BY DEF PageState
  <2> HIDE DEF c
  <2>3. QED BY <2>1, <2>2 DEF PageState, Same
<1>4. Unauthorised(s) \in PageState /\ Same(Unauthorised(s), s)
  BY DEF Unauthorised, PageState, Same
<1>5. Erred(s) \in PageState /\ Same(Erred(s), s)
  BY DEF Erred, PageState, Same
<1>6. QED BY <1>1, <1>2, <1>3, <1>4, <1>5 DEF Failed, Same

\* A page that leaves the line of its device leaves the others where they are.
LEMMA Release ==
  ASSUME PageTypes, NEW p \in Pages, Released(p)
  PROVE  /\ lock' \in [Devices -> Seq(Pages)]
         /\ \A q \in Pages : q # p /\ Holds(q) => Holds(q)'
<1> DEFINE d == DeviceOf[p]
           line == lock[d]
<1>1. d \in Devices /\ line \in Seq(Pages)
  BY DEF PageTypes
<1>2. CASE UNCHANGED lock
  BY <1>2 DEF PageTypes, Holds
<1>3. ASSUME NEW i \in DOMAIN line, line[i] = p, lock' = [lock EXCEPT ![d] = RemoveAt(line, i)]
      PROVE  /\ lock' \in [Devices -> Seq(Pages)]
             /\ \A q \in Pages : q # p /\ Holds(q) => Holds(q)'
  <2> DEFINE rest == RemoveAt(line, i)
  <2>1. rest \in Seq(Pages) /\ (line[1] # p => rest # <<>> /\ rest[1] = line[1])
    <3> DEFINE front == SubSeq(line, 1, i - 1)
               back == SubSeq(line, i + 1, Len(line))
    <3> HIDE DEF line
    <3>1. i \in 1..Len(line)
      BY <1>1
    <3>2. front \in Seq(Pages) /\ back \in Seq(Pages) /\ Len(front) = i - 1
      BY <1>1, <3>1
    <3>3. i # 1 => front[1] = line[1]
      BY <1>1, <3>1
    <3>4. rest = front \o back
      BY DEF RemoveAt
    <3> HIDE DEF front, back, rest
    <3>5. rest \in Seq(Pages) /\ (i # 1 => rest # <<>> /\ rest[1] = front[1])
      BY <3>1, <3>2, <3>4
    <3>6. QED BY <1>3, <3>3, <3>5
  <2> HIDE DEF rest
  <2>2. lock'[d] = rest /\ \A e \in Devices : e # d => lock'[e] = lock[e]
    BY <1>1, <1>3 DEF PageTypes, rest
  <2>3. lock' \in [Devices -> Seq(Pages)]
    BY <1>1, <1>3, <2>1 DEF PageTypes, rest
  <2>4. ASSUME NEW q \in Pages, q # p, Holds(q) PROVE Holds(q)'
    <3>1. CASE DeviceOf[q] = d
      <4>1. line # <<>> /\ Head(line) = q
        BY <2>4, <3>1 DEF Holds
      <4>2. line[1] = q
        BY <1>1, <4>1
      <4>3. rest # <<>> /\ Head(rest) = q
        BY <2>1, <2>4, <4>2
      <4>4. QED BY <2>2, <3>1, <4>3 DEF Holds
    <3>2. CASE DeviceOf[q] # d
      BY <2>2, <2>4, <3>2 DEF Holds
    <3>3. QED BY <3>1, <3>2
  <2>5. QED BY <2>3, <2>4
<1>4. QED BY <1>2, <1>3 DEF Released

\* A page that joins the line of its device joins at its end.
LEMMA Join ==
  ASSUME PageTypes, NEW p \in Pages, Queued(p)
  PROVE  /\ lock' \in [Devices -> Seq(Pages)]
         /\ \A q \in Pages : Holds(q) => Holds(q)'
<1> DEFINE d == DeviceOf[p]
<1>1. d \in Devices /\ lock[d] \in Seq(Pages)
  BY DEF PageTypes
<1>2. CASE UNCHANGED lock
  BY <1>2 DEF PageTypes, Holds
<1>3. CASE lock' = [lock EXCEPT ![d] = Append(@, p)]
  <2>1. lock'[d] = Append(lock[d], p) /\ \A e \in Devices : e # d => lock'[e] = lock[e]
    BY <1>1, <1>3 DEF PageTypes
  <2>2. lock' \in [Devices -> Seq(Pages)]
    BY <1>1, <1>3 DEF PageTypes
  <2>3. lock[d] # <<>> => Append(lock[d], p) # <<>> /\ Head(Append(lock[d], p)) = Head(lock[d])
    BY <1>1
  <2>4. ASSUME NEW q \in Pages, Holds(q) PROVE Holds(q)'
    <3>1. CASE DeviceOf[q] = d
      BY <2>1, <2>3, <2>4, <3>1 DEF Holds
    <3>2. CASE DeviceOf[q] # d
      BY <2>1, <2>4, <3>2 DEF Holds
    <3>3. QED BY <3>1, <3>2
  <2>5. QED BY <2>2, <2>4
<1>4. QED BY <1>2, <1>3 DEF Queued

\* Two pages of one device do not hold its lock.
LEMMA OneHolder ==
  ASSUME NEW p \in Pages, NEW q \in Pages, DeviceOf[p] = DeviceOf[q], Holds(p), Holds(q)
  PROVE  p = q
  BY DEF Holds

----------------------------------------------------------------------------
\* Steps of the coordinator, seen from the other devices.

LEMMA OthersStay ==
  ASSUME Types, NEW d \in Devices, Begin(d) \/ Synchronize(d) \/ Fail(d)
  PROVE  /\ \A e \in Devices \ {d} : sync'[e].pc = sync[e].pc /\ baseline'[e] = baseline[e]
         /\ sync[d].pc # "commit" => baseline' = baseline
<1> USE DEF Types, SyncTypes, StoreTypes, SyncState
<1>1. CASE Begin(d)
  BY <1>1 DEF Begin, Step
<1>2. CASE ReadLocal(d)
  BY <1>2 DEF ReadLocal
<1>3. CASE Find(d)
  BY <1>3 DEF Find
<1>4. CASE Download(d)
  BY <1>4 DEF Download
<1>5. CASE BeginApply(d)
  BY <1>5 DEF BeginApply
<1>6. ASSUME NEW k \in Keys, Apply(d, k)
      PROVE  UNCHANGED baseline /\ \A e \in Devices \ {d} : sync'[e].pc = sync[e].pc
  BY <1>6 DEF Apply
<1>7. CASE Applied(d)
  BY <1>7 DEF Applied, Step
<1>8. CASE Check(d)
  BY <1>8 DEF Check
<1>9. CASE Save(d)
  BY <1>9 DEF Save
<1>10. CASE Commit(d)
  BY <1>10 DEF Commit
<1>11. CASE Fail(d)
  BY <1>11 DEF Fail
<1>12. QED
  BY <1>1, <1>2, <1>3, <1>4, <1>5, <1>6, <1>7, <1>8, <1>9, <1>10, <1>11 DEF Synchronize

LEMMA Begun ==
  ASSUME Types, NEW d \in Devices
  PROVE  /\ Begin(d) => sync[d].pc = "idle" /\ sync'[d].pc # "idle"
         /\ Synchronize(d) => sync[d].pc # "idle"
         /\ Fail(d) => sync'[d].pc = "idle"
<1> USE DEF Types, SyncTypes
<1>1. Begin(d) => sync[d].pc = "idle" /\ sync'[d].pc # "idle"
  BY DEF Begin, Step, SyncState
<1>2. Synchronize(d) => sync[d].pc # "idle"
  BY DEF Synchronize, ReadLocal, Find, Download, BeginApply, Apply, Applied, Step, Check, Save, Commit
<1>3. Fail(d) => sync'[d].pc = "idle"
  BY DEF Fail, Resting
<1>4. QED BY <1>1, <1>2, <1>3

----------------------------------------------------------------------------
(* The actions come in few shapes: a step of one page that leaves the library*)
(* alone, and a step of the page that leads which is one of its coordinator. *)

LockKept(p) ==
  /\ lock' \in [Devices -> Seq(Pages)]
  /\ \A q \in Pages : q # p /\ Holds(q) => Holds(q)'

Counted == requests' \in 0..MaxRequests /\ faults' \in 0..MaxFaults

Ahead(s) == s.sync \in {"flush", "folder", "coordinator", "live"}

PageStep(p, s) ==
  /\ s \in PageState /\ Becomes(p, s) /\ LockKept(p)
  /\ Ahead(s) => Holds(p)'

Apart(p, s) ==
  /\ PageStep(p, s) /\ UNCHANGED vars
  /\ s.sync = "coordinator" <=> page[p].sync = "coordinator"
  /\ s.leave = "write" => s.meta = baseline[DeviceOf[p]] \/ Same(s, page[p])

Leads(p, s) ==
  LET d == DeviceOf[p]
  IN  /\ PageStep(p, s) /\ Leading(p) /\ (s.leave = "write" => Same(s, page[p]))
      /\ Begin(d) \/ Synchronize(d) \/ Fail(d)
      /\ s.sync = "coordinator" <=> sync'[d].pc # "idle"
      /\ TornMetadata \/ ~Torn(p) \/ UNCHANGED baseline

\* Keeping the lock, or all of the line.
LEMMA LockStays ==
  ASSUME PageTypes, NEW p \in Pages, UNCHANGED lock
  PROVE  LockKept(p) /\ \A q \in Pages : Holds(q) => Holds(q)'
  BY DEF PageTypes, LockKept, Holds

LEMMA LockJoined ==
  ASSUME PageTypes, NEW p \in Pages, Queued(p)
  PROVE  LockKept(p) /\ \A q \in Pages : Holds(q) => Holds(q)'
  BY Join DEF LockKept

LEMMA LockReleased ==
  ASSUME PageTypes, NEW p \in Pages, Released(p)
  PROVE  LockKept(p)
  BY Release DEF LockKept

LEMMA Counting ==
  ASSUME PageTypes, Requested \/ Fault \/ Calm
  PROVE  Counted
  BY DEF PageTypes, Requested, Fault, Calm, Counted

\* What connecting, asking and disconnecting do.
LEMMA UserSteps ==
  ASSUME SInv, NEW p \in Pages,
         Ask(p) \/ Sync(p) \/ Connecting(p) \/ AccountFails(p) \/ Disconnect(p) \/ ReadMetadata(p)
           \/ LoseToken(p)
  PROVE  \E s : Apart(p, s)
<1> DEFINE t == page[p]
<1> USE DEF SInv
<1>a. t \in PageState /\ (Ahead(t) => Holds(p))
  BY DEF PageTypes, OneLeader, Leading, Ahead
<1>b. ASSUME NEW s \in PageState, s.sync = t.sync, Becomes(p, s), UNCHANGED <<vars, lock>>,
             s.leave = "write" => s.meta = baseline[DeviceOf[p]] \/ Same(s, t)
      PROVE  \E u : Apart(p, u)
  <2>1. Apart(p, s)
    BY <1>a, <1>b, LockStays DEF Apart, PageStep, Ahead
  <2>2. QED BY <2>1
<1>c. ASSUME NEW s \in PageState, s.sync = t.sync, Becomes(p, SyncCalled(s)), Queued(p), UNCHANGED vars, Same(s, t)
      PROVE  \E u : Apart(p, u)
  <2>1. Apart(p, SyncCalled(s))
    BY <1>a, <1>c, LockJoined, PageForms DEF Apart, PageStep, Ahead, Same
  <2>2. QED BY <2>1
<1>1. CASE Ask(p)
  <2>1. \A c \in {"connect", "sync"} : [t EXCEPT !.asked = @ \cup {c}] \in PageState
    BY <1>a DEF PageState
  <2>2. PICK c \in {"connect", "sync"} : Becomes(p, [t EXCEPT !.asked = @ \cup {c}])
    BY <1>1 DEF Ask
  <2>3. QED BY <1>1, <1>a, <1>b, <2>1, <2>2 DEF Ask, PageState, Same
<1>2. CASE Sync(p)
  <2> DEFINE s == [t EXCEPT !.asked = @ \ {"sync"}]
  <2>1. s \in PageState /\ s.sync = t.sync /\ Same(s, t)
    BY <1>a DEF PageState, Same
  <2>2. QED BY <1>2, <1>c, <2>1 DEF Sync
<1>3. CASE Connect(p)
  <2> DEFINE s == [t EXCEPT !.asked = @ \ {"connect"}]
             c == IF s.token = "none" THEN "authorise" ELSE IF s.token = "good" THEN "account" ELSE "denied"
             u == [s EXCEPT !.busy = TRUE, !.connect = c]
  <2>1. s \in PageState /\ s.sync = t.sync /\ Same(s, t)
    BY <1>a DEF PageState, Same
  <2>2. c \in {"authorise", "account", "denied"}
    OBVIOUS
  <2>3. Becomes(p, s) \/ Becomes(p, u)
    BY <1>3 DEF Connect
  <2> HIDE DEF s, c
  <2>4. u \in PageState /\ u.sync = t.sync /\ Same(u, t)
    BY <2>1, <2>2 DEF PageState, Same
  <2>5. QED BY <1>3, <1>b, <2>1, <2>3, <2>4 DEF Connect
<1>4. CASE Authorise(p)
  <2> DEFINE s == [t EXCEPT !.token = "good", !.connect = "account"]
             u == [t EXCEPT !.token = "none"]
  <2>1. s \in PageState /\ s.sync = t.sync /\ Same(s, t)
    BY <1>a DEF PageState, Same
  <2>2. u \in PageState /\ u.sync = t.sync /\ Same(u, t)
    BY <1>a DEF PageState, Same
  <2>3. ConnectFails(u) \in PageState /\ ConnectFails(u).sync = t.sync /\ Same(ConnectFails(u), t)
    BY <2>2, PageForms DEF Same
  <2>4. QED BY <1>4, <1>b, <2>1, <2>3 DEF Authorise
<1>5. CASE Account(p)
  <2> DEFINE s == [t EXCEPT !.connect = "sync", !.busy = FALSE, !.connected = TRUE]
             u == [t EXCEPT !.token = "none"]
  <2>1. s \in PageState /\ s.sync = t.sync /\ Same(s, t)
    BY <1>a DEF PageState, Same
  <2>2. u \in PageState /\ u.sync = t.sync /\ Same(u, t)
    BY <1>a DEF PageState, Same
  <2>3. ConnectFails(u) \in PageState /\ ConnectFails(u).sync = t.sync /\ Same(ConnectFails(u), t)
    BY <2>2, PageForms DEF Same
  <2>4. QED BY <1>5, <1>b, <1>c, <2>1, <2>3 DEF Account
<1>6. CASE AccountFails(p)
  BY <1>6, <1>a, <1>b, PageForms DEF AccountFails
<1>7. CASE Disconnect(p)
  <2> DEFINE c == IF t.token = "none" THEN "read" ELSE "revoke"
             s == [t EXCEPT !.token = "none", !.busy = TRUE, !.leave = c]
  <2>1. c \in {"read", "revoke"} /\ Becomes(p, s)
    BY <1>7 DEF Disconnect
  <2> HIDE DEF c
  <2>2. s \in PageState /\ s.sync = t.sync /\ s.leave # "write"
    BY <1>a, <2>1 DEF PageState
  <2>3. QED BY <1>7, <1>b, <2>1, <2>2 DEF Disconnect
<1>8. CASE ReadMetadata(p)
  <2> DEFINE s == [t EXCEPT !.leave = "write", !.meta = baseline[DeviceOf[p]]]
  <2>1. s \in PageState /\ s.sync = t.sync /\ s.meta = baseline[DeviceOf[p]]
    BY <1>a DEF PageState, Types, StoreTypes
  <2>2. QED BY <1>8, <1>b, <2>1 DEF ReadMetadata
<1>9. CASE LoseToken(p)
  <2>1. \A c \in {"none", "refused"} : [t EXCEPT !.token = c] \in PageState
    BY <1>a DEF PageState
  <2>2. PICK c \in {"none", "refused"} : Becomes(p, [t EXCEPT !.token = c])
    BY <1>9 DEF LoseToken
  <2>3. QED BY <1>9, <1>a, <1>b, <2>1, <2>2 DEF LoseToken, PageState, Same
<1>10. QED
  BY <1>1, <1>2, <1>3, <1>4, <1>5, <1>6, <1>7, <1>8, <1>9 DEF Connecting

\* What the sync of a page does, and what ends it.
LEMMA SyncSteps ==
  ASSUME SInv, NEW p \in Pages, Syncing(p) \/ SyncFails(p) \/ Close(p)
  PROVE  \E s : Apart(p, s) \/ Leads(p, s)
<1> DEFINE t == page[p]
           d == DeviceOf[p]
<1> USE DEF SInv
<1>a. t \in PageState /\ (Ahead(t) => Holds(p)) /\ (Leading(p) <=> Ahead(t)) /\ d \in Devices
  BY DEF PageTypes, OneLeader, Leading, Ahead
<1>b. ASSUME NEW s \in PageState, Becomes(p, s), UNCHANGED <<vars, lock>>, Same(s, t),
             Ahead(s) => Holds(p), s.sync = "coordinator" <=> t.sync = "coordinator"
      PROVE  \E u : Apart(p, u) \/ Leads(p, u)
  <2>1. Apart(p, s)
    BY <1>b, LockStays DEF Apart, PageStep
  <2>2. QED BY <2>1
<1>c. ASSUME NEW s \in PageState, Becomes(p, s), Released(p), s.sync = "no",
             s.leave = "write" => Same(s, t),
             \/ UNCHANGED vars /\ t.sync # "coordinator"
             \/ /\ Synchronize(d) \/ Fail(d)
                /\ t.sync = "coordinator" /\ sync'[d].pc = "idle" /\ UNCHANGED baseline
      PROVE  \E u : Apart(p, u) \/ Leads(p, u)
  <2>1. PageStep(p, s)
    BY <1>c, LockReleased DEF PageStep, Ahead
  <2>2. Apart(p, s) \/ Leads(p, s)
    BY <1>a, <1>c, <2>1 DEF Apart, Leads, Ahead
  <2>3. QED BY <2>2
<1>d. ASSUME NEW s \in PageState, Becomes(p, s), Released(p), s.sync = "no",
             s.leave = "write" => Same(s, t), Stops(p)
      PROVE  \E u : Apart(p, u) \/ Leads(p, u)
  <2>1. Fail(d) => sync'[d].pc = "idle" /\ UNCHANGED baseline
    BY <1>a, Begun DEF Fail
  <2>2. QED BY <1>c, <1>d, <2>1 DEF Stops
<1>1. CASE Start(p)
  <2>1. CASE t.token = "none"
    <3>1. Unauthorised(t) \in PageState /\ Same(Unauthorised(t), t)
      BY <1>a, PageForms
    <3>2. Same(Failed(Unauthorised(t)), t)
      BY <3>1, PageForms DEF Same
    <3>3. QED BY <1>1, <1>c, <2>1, <3>1, <3>2, PageForms DEF Start
  <2>2. CASE t.token # "none"
    <3> DEFINE s == [t EXCEPT !.sync = "flush", !.busy = TRUE, !.connected = TRUE]
    <3>1. s \in PageState /\ Same(s, t) /\ s.sync = "flush"
      BY <1>a DEF PageState, Same
    <3>2. QED BY <1>1, <1>b, <2>2, <3>1 DEF Start
  <2>3. QED BY <2>1, <2>2
<1>2. CASE Flushed(p)
  <2> DEFINE c == t.token = "good"
             s == [t EXCEPT !.sync = "folder", !.sent = c]
  <2>1. c \in BOOLEAN
    OBVIOUS
  <2>2. Becomes(p, s) /\ t.sync = "flush" /\ UNCHANGED <<vars, lock>>
    BY <1>2 DEF Flushed
  <2> HIDE DEF c
  <2>3. s \in PageState /\ Same(s, t) /\ s.sync = "folder"
    BY <1>a, <2>1 DEF PageState, Same
  <2>4. QED BY <1>a, <1>b, <2>2, <2>3 DEF Ahead
<1>3. CASE FolderFound(p)
  <2> DEFINE s == [t EXCEPT !.sync = "coordinator", !.sent = FALSE]
  <2>1. s \in PageState /\ Same(s, t) /\ s.sync = "coordinator"
    BY <1>a DEF PageState, Same
  <2>2. PageStep(p, s)
    BY <1>3, <1>a, <2>1, LockStays DEF FolderFound, PageStep, Ahead
  <2>3. UNCHANGED baseline /\ sync'[d].pc # "idle"
    BY <1>3, <1>a, Begun DEF FolderFound, Begin
  <2>4. Leads(p, s)
    BY <1>3, <1>a, <2>1, <2>2, <2>3 DEF FolderFound, Leads, Ahead
  <2>5. QED BY <2>4
<1>4. CASE Coordinate(p)
  <2>0. t.sync = "coordinator" /\ Synchronize(d)
    BY <1>4 DEF Coordinate
  <2>1. CASE sync'[d].pc # "idle"
    <3> DEFINE c == AwaitsDrive(sync'[d]) /\ t.token = "good"
               s == [t EXCEPT !.sent = c]
    <3>1. c \in BOOLEAN
      OBVIOUS
    <3>2. Becomes(p, s) /\ UNCHANGED lock
      BY <1>4, <2>1 DEF Coordinate
    <3> HIDE DEF c
    <3>3. s \in PageState /\ Same(s, t) /\ s.sync = "coordinator"
      BY <1>a, <2>0, <3>1 DEF PageState, Same
    <3>4. PageStep(p, s)
      BY <1>a, <2>0, <3>2, <3>3, LockStays DEF PageStep, Ahead
    <3>5. TornMetadata \/ ~Torn(p) \/ UNCHANGED baseline
      BY <1>4, <1>a, OthersStay DEF Coordinate
    <3>6. Leads(p, s)
      BY <1>a, <2>0, <2>1, <3>3, <3>4, <3>5 DEF Leads, Ahead
    <3>7. QED BY <3>6
  <2>2. CASE sync'[d].pc = "idle" /\ sync[d].pc = "commit"
    <3> DEFINE s == [t EXCEPT !.sync = "live", !.sent = FALSE]
    <3>1. s \in PageState /\ Same(s, t) /\ s.sync = "live"
      BY <1>a DEF PageState, Same
    <3>2. Becomes(p, s) /\ UNCHANGED lock /\ (TornMetadata \/ ~Torn(p))
      BY <1>4, <2>2 DEF Coordinate
    <3>3. PageStep(p, s)
      BY <1>a, <2>0, <3>1, <3>2, LockStays DEF PageStep, Ahead
    <3>4. Leads(p, s)
      BY <1>a, <2>0, <2>2, <3>1, <3>2, <3>3 DEF Leads, Ahead
    <3>5. QED BY <3>4
  <2>3. CASE sync'[d].pc = "idle" /\ sync[d].pc # "commit"
    <3>1. Erred(t) \in PageState /\ Same(Erred(t), t)
      BY <1>a, PageForms
    <3>2. Same(Failed(Erred(t)), t) /\ UNCHANGED baseline
      BY <1>a, <2>0, <2>3, <3>1, PageForms, OthersStay DEF Same
    <3>3. Becomes(p, Failed(Erred(t))) /\ Released(p)
      BY <1>4, <2>3 DEF Coordinate
    <3>4. QED BY <1>c, <2>0, <2>3, <3>1, <3>2, <3>3, PageForms
  <2>4. QED BY <2>1, <2>2, <2>3
<1>5. CASE Finish(p)
  <2> DEFINE s == [t EXCEPT !.busy = FALSE, !.connected = TRUE]
  <2>1. s \in PageState /\ Same(s, t)
    BY <1>a DEF PageState, Same
  <2>2. Becomes(p, Ended(s)) /\ Released(p) /\ UNCHANGED vars /\ t.sync = "live"
    BY <1>5 DEF Finish
  <2> HIDE DEF s
  <2>3. Same(Ended(s), t)
    BY <2>1, PageForms DEF Same
  <2>4. QED BY <1>c, <2>1, <2>2, <2>3, PageForms
<1>6. CASE Refused(p)
  <2>1. Unauthorised(t) \in PageState /\ Same(Unauthorised(t), t)
    BY <1>a, PageForms
  <2>2. Same(Failed(Unauthorised(t)), t)
    BY <2>1, PageForms DEF Same
  <2>3. QED BY <1>6, <1>d, <2>1, <2>2, PageForms DEF Refused
<1>7. CASE SyncFails(p)
  <2>1. Erred(t) \in PageState /\ Same(Erred(t), t)
    BY <1>a, PageForms
  <2>2. Same(Failed(Erred(t)), t)
    BY <2>1, PageForms DEF Same
  <2>3. QED BY <1>7, <1>d, <2>1, <2>2, PageForms DEF SyncFails
<1>8. CASE Close(p)
  <2>1. Fresh.sync = "no" /\ Fresh.leave = "no"
    BY DEF Fresh
  <2>2. QED BY <1>8, <1>d, <2>1, FreshTypes DEF Close
<1>9. QED
  BY <1>1, <1>2, <1>3, <1>4, <1>5, <1>6, <1>7, <1>8 DEF Syncing

\* Every step has one of these shapes.
LEMMA Shapes ==
  ASSUME SInv, ServiceNext
  PROVE  \/ Counted /\ \E p \in Pages : \E s : Apart(p, s) \/ Leads(p, s)
         \/ Counted /\ \E p \in Pages : Revoked(p) \/ WriteMetadata(p)
         \/ Counted /\ Elsewhere
<1>1. CASE Elsewhere
  BY <1>1, Counting DEF SInv, Elsewhere
<1>2. ASSUME NEW p \in Pages,
             Ask(p) \/ Disconnect(p) \/ Proceeds(p) \/ AccountFails(p) \/ SyncFails(p)
               \/ LoseToken(p) \/ Close(p)
      PROVE  \/ Counted /\ \E s : Apart(p, s) \/ Leads(p, s)
             \/ Counted /\ (Revoked(p) \/ WriteMetadata(p))
  <2>1. Counted
    <3>1. CASE Ask(p) \/ Disconnect(p) \/ AccountFails(p) \/ SyncFails(p) \/ LoseToken(p) \/ Close(p)
      BY <3>1, Counting DEF SInv, Ask, Disconnect, AccountFails, SyncFails, LoseToken, Close
    <3>2. CASE Syncing(p)
      BY <3>2, Counting
      DEF SInv, Syncing, Start, Flushed, FolderFound, Coordinate, Finish, Refused
    <3>3. CASE Sync(p) \/ Connecting(p) \/ Leaving(p)
      BY <3>3, Counting
      DEF SInv, Sync, Connecting, Connect, Authorise, Account, Leaving, Revoked, ReadMetadata, WriteMetadata
    <3>4. QED BY <1>2, <3>1, <3>2, <3>3 DEF Proceeds
  <2>2. QED BY <1>2, <2>1, UserSteps, SyncSteps DEF Proceeds, Leaving
<1>3. QED BY <1>1, <1>2 DEF ServiceNext

----------------------------------------------------------------------------
\* What each shape keeps.

LEMMA PageMoves ==
  ASSUME PageTypes, NEW p \in Pages, NEW s, PageStep(p, s), Counted
  PROVE  /\ PageTypes' /\ page'[p] = s
         /\ \A q \in Pages : q # p => page'[q] = page[q]
  BY DEF PageTypes, PageStep, Becomes, LockKept, Counted

\* A page that leads goes on only with the lock.
LEMMA HoldersLead ==
  ASSUME SInv, NEW p \in Pages, NEW s, PageStep(p, s), Counted
  PROVE  \A q \in Pages : Leading(q)' => Holds(q)'
<1> SUFFICES ASSUME NEW q \in Pages, Leading(q)' PROVE Holds(q)'
  OBVIOUS
<1>1. CASE q = p
  BY <1>1, PageMoves DEF SInv, Leading, PageStep, Ahead
<1>2. CASE q # p
  <2>1. Leading(q)
    BY <1>2, PageMoves DEF SInv, Leading
  <2>2. Holds(q)
    BY <2>1 DEF SInv, OneLeader
  <2>3. QED BY <1>2, <2>2 DEF PageStep, LockKept
<1>3. QED BY <1>1, <1>2

LEMMA ApartKeeps ==
  ASSUME SInv, NEW p \in Pages, NEW s, Apart(p, s), Counted
  PROVE  PageTypes' /\ OneLeader' /\ (MetadataFresh => MetadataFresh')
<1>1. PageStep(p, s) /\ UNCHANGED vars
  BY DEF Apart
<1>2. PageTypes' /\ page'[p] = s /\ \A q \in Pages : q # p => page'[q] = page[q]
  BY <1>1, PageMoves DEF SInv
<1>3. \A q \in Pages : page'[q].sync = "coordinator" <=> page[q].sync = "coordinator"
  BY <1>2 DEF Apart
<1>4. OneLeader'
  BY <1>1, <1>3, HoldersLead DEF SInv, OneLeader, vars
<1>5. ASSUME MetadataFresh PROVE MetadataFresh'
  BY <1>1, <1>2, <1>5 DEF MetadataFresh, Apart, Same, vars
<1>6. QED BY <1>2, <1>4, <1>5

LEMMA LeadsKeeps ==
  ASSUME SInv, NEW p \in Pages, NEW s, Leads(p, s), Counted
  PROVE  PageTypes' /\ OneLeader' /\ (~TornMetadata /\ MetadataFresh => MetadataFresh')
<1> DEFINE d == DeviceOf[p]
<1>1. PageStep(p, s) /\ Leading(p) /\ (Begin(d) \/ Synchronize(d) \/ Fail(d)) /\ d \in Devices
  BY DEF Leads
<1>2. PageTypes' /\ page'[p] = s /\ \A q \in Pages : q # p => page'[q] = page[q]
  BY <1>1, PageMoves DEF SInv
<1>3. \A e \in Devices \ {d} : sync'[e].pc = sync[e].pc /\ baseline'[e] = baseline[e]
  BY <1>1, OthersStay DEF SInv
<1>4. OneLeader'
  <2>1. ASSUME NEW e \in Paged
        PROVE  sync'[e].pc # "idle" <=> \E q \in Pages : DeviceOf[q] = e /\ page'[q].sync = "coordinator"
    <3>1. CASE e # d
      <4>1. e \in Devices
        BY DEF Paged
      <4>2. sync'[e].pc = sync[e].pc /\ \A q \in Pages : DeviceOf[q] = e => page'[q] = page[q]
        BY <1>2, <1>3, <3>1, <4>1
      <4>3. QED BY <4>2 DEF SInv, OneLeader
    <3>2. CASE e = d
      <4>1. ASSUME NEW q \in Pages, DeviceOf[q] = e, page'[q].sync = "coordinator" PROVE q = p
        <5>1. SUFFICES ASSUME q # p PROVE FALSE
          OBVIOUS
        <5>2. Leading(q)
          BY <1>2, <4>1, <5>1 DEF Leading
        <5>3. Holds(q) /\ Holds(p)
          BY <1>1, <5>2 DEF SInv, OneLeader
        <5>4. QED BY <3>2, <4>1, <5>1, <5>3, OneHolder
      <4>2. s.sync = "coordinator" <=> sync'[d].pc # "idle"
        BY DEF Leads
      <4>3. QED BY <1>2, <3>2, <4>1, <4>2
    <3>3. QED BY <3>1, <3>2
  <2>2. QED BY <1>1, <2>1, HoldersLead DEF OneLeader
<1>5. ASSUME ~TornMetadata, MetadataFresh PROVE MetadataFresh'
  <2> SUFFICES ASSUME NEW q \in Pages, page'[q].leave = "write"
               PROVE  page'[q].meta = baseline'[DeviceOf[q]]
    BY DEF MetadataFresh
  <2>1. page[q].leave = "write" /\ page'[q].meta = page[q].meta
    BY <1>2 DEF Leads, Same
  <2>2. page[q].meta = baseline[DeviceOf[q]]
    BY <1>5, <2>1 DEF MetadataFresh
  <2>3. CASE DeviceOf[q] = d
    <3>1. UNCHANGED baseline
      BY <1>5, <2>1, <2>3 DEF Leads, Torn
    <3>2. QED BY <2>1, <2>2, <3>1
  <2>4. CASE DeviceOf[q] # d
    BY <1>3, <2>1, <2>2, <2>4
  <2>5. QED BY <2>3, <2>4
<1>6. QED BY <1>2, <1>4, <1>5

\* Steps that touch neither the line nor what a page's sync does.
LEMMA StayPut ==
  ASSUME SInv, Counted, UNCHANGED lock, page' \in [Pages -> PageState],
         \A q \in Pages : page'[q].sync = page[q].sync,
         \A d \in Paged : sync'[d].pc = sync[d].pc
  PROVE  PageTypes' /\ OneLeader'
<1>1. PageTypes'
  BY DEF SInv, PageTypes, Counted
<1>2. \A q \in Pages : (Leading(q)' <=> Leading(q)) /\ (Holds(q)' <=> Holds(q))
  BY DEF Leading, Holds
<1>3. QED BY <1>1, <1>2 DEF SInv, OneLeader

LEMMA RevokedKeeps ==
  ASSUME SInv, NEW p \in Pages, Revoked(p), Counted
  PROVE  PageTypes' /\ OneLeader' /\ (MetadataFresh => MetadataFresh')
<1>1. PICK gone \in BOOLEAN :
       page' = [q \in Pages |->
         IF q = p THEN [page[p] EXCEPT !.token = "none", !.leave = "read"]
         ELSE IF gone /\ page[q].token = "good" THEN [page[q] EXCEPT !.token = "refused"] ELSE page[q]]
  BY DEF Revoked
<1>2. ASSUME NEW q \in Pages
      PROVE  /\ page'[q] \in PageState /\ page'[q].sync = page[q].sync
             /\ q # p => Same(page'[q], page[q])
             /\ q = p => page'[q].leave = "read"
  <2>1. page[q] \in PageState
    BY DEF SInv, PageTypes
  <2> DEFINE s == [page[q] EXCEPT !.token = "none", !.leave = "read"]
  <2>2. s \in PageState /\ s.sync = page[q].sync /\ s.leave = "read"
        /\ [page[q] EXCEPT !.token = "refused"] \in PageState
        /\ Same([page[q] EXCEPT !.token = "refused"], page[q])
    BY <2>1 DEF PageState, Same
  <2>3. CASE q = p
    <3>1. page'[q] = s
      BY <1>1, <2>3
    <3> HIDE DEF s
    <3>2. QED BY <2>2, <2>3, <3>1
  <2>4. CASE q # p
    <3>1. page'[q] \in {page[q], [page[q] EXCEPT !.token = "refused"]}
      BY <1>1, <2>4
    <3>2. QED BY <2>1, <2>2, <2>4, <3>1 DEF PageState, Same
  <2>5. QED BY <2>3, <2>4
<1>3. page' \in [Pages -> PageState] /\ UNCHANGED <<vars, lock>>
  BY <1>1, <1>2 DEF Revoked
<1>4. PageTypes' /\ OneLeader'
  BY <1>2, <1>3, StayPut DEF vars
<1>5. ASSUME MetadataFresh PROVE MetadataFresh'
  BY <1>2, <1>3, <1>5 DEF MetadataFresh, Same, vars
<1>6. QED BY <1>4, <1>5

LEMMA WriteKeeps ==
  ASSUME SInv, NEW p \in Pages, WriteMetadata(p), Counted
  PROVE  /\ PageTypes' /\ OneLeader' /\ Types'
         /\ MetadataFresh => MetadataFresh' /\ UNCHANGED vars
<1> DEFINE d == DeviceOf[p]
           s == [page[p] EXCEPT !.leave = "no", !.meta = Nothing, !.busy = FALSE, !.connected = FALSE]
<1>1. /\ baseline' = [baseline EXCEPT ![d] = page[p].meta] /\ page' = [page EXCEPT ![p] = s]
      /\ UNCHANGED <<store, sync, drive, newest, now, failures, over, dropped, lock>>
      /\ page[p].leave = "write"
  BY DEF WriteMetadata, Becomes
<1>2. page[p] \in PageState /\ page \in [Pages -> PageState] /\ d \in Devices
  BY DEF SInv, PageTypes
<1>3. s \in PageState /\ s.sync = page[p].sync /\ s.leave = "no"
  BY <1>2, StateForms DEF PageState
<1> HIDE DEF s
<1>4. page' \in [Pages -> PageState] /\ page'[p] = s /\ \A q \in Pages : q # p => page'[q] = page[q]
  BY <1>1, <1>2, <1>3
<1>5. PageTypes' /\ OneLeader'
  BY <1>1, <1>3, <1>4, StayPut
<1>6. Types'
  <2>1. page[p].meta \in [Keys -> State]
    BY <1>2 DEF PageState
  <2>2. StoreTypes'
    BY <1>1, <2>1 DEF SInv, Types, StoreTypes
  <2>3. QED BY <1>1, <2>2 DEF SInv, Types, SyncTypes, DriveTypes, CounterTypes, Made
<1>7. ASSUME MetadataFresh PROVE MetadataFresh' /\ UNCHANGED vars
  <2>1. baseline' = baseline
    BY <1>1, <1>2, <1>7 DEF MetadataFresh, SInv, Types, StoreTypes
  <2>2. MetadataFresh'
    BY <1>3, <1>4, <1>7, <2>1 DEF MetadataFresh
  <2>3. QED BY <1>1, <2>1, <2>2 DEF vars
<1>8. QED BY <1>5, <1>6, <1>7

LEMMA ElsewhereKeeps ==
  ASSUME SInv, Elsewhere, Counted
  PROVE  PageTypes' /\ OneLeader' /\ Next /\ (MetadataFresh => MetadataFresh')
<1>1. ASSUME NEW d \in Devices, NEW k \in Keys, Edit(d, k) \/ Delete(d, k)
      PROVE  Next /\ UNCHANGED <<sync, baseline>>
  BY <1>1 DEF Edit, Delete, Next
<1>2. ASSUME NEW d \in Devices \ Paged, Begin(d) \/ Synchronize(d) \/ Fail(d)
      PROVE  Next /\ \A e \in Paged : sync'[e].pc = sync[e].pc /\ baseline'[e] = baseline[e]
  <2>1. \A e \in Paged : e \in Devices \ {d}
    BY DEF Paged
  <2>2. QED BY <1>2, <2>1, OthersStay DEF SInv, Next
<1>3. Next /\ \A e \in Paged : sync'[e].pc = sync[e].pc /\ baseline'[e] = baseline[e]
  BY <1>1, <1>2 DEF Elsewhere
<1>4. UNCHANGED <<page, lock>> /\ \A q \in Pages : DeviceOf[q] \in Paged
  BY DEF Elsewhere, Paged
<1>5. PageTypes' /\ OneLeader'
  BY <1>3, <1>4, StayPut DEF SInv, PageTypes
<1>6. ASSUME MetadataFresh PROVE MetadataFresh'
  BY <1>3, <1>4, <1>6 DEF MetadataFresh
<1>7. QED BY <1>3, <1>5, <1>6

----------------------------------------------------------------------------
\* The invariant.

LEMMA ServiceStarts == ServiceInit => SInv /\ MetadataFresh
<1> SUFFICES ASSUME ServiceInit PROVE SInv /\ MetadataFresh
  OBVIOUS
<1>1. PICK S \in AtStart : page = [p \in Pages |-> IF p \in S THEN Connected ELSE Fresh]
  BY DEF ServiceInit
<1>2. \A p \in Pages : page[p] \in PageState /\ page[p].sync = "no" /\ page[p].leave = "no"
  BY <1>1, FreshTypes DEF Fresh, Connected
<1>3. Types /\ Init /\ \A d \in Devices : sync[d].pc = "idle"
  BY InitTypes DEF ServiceInit, Init, Resting
<1>4. PageTypes
  BY <1>1, <1>2 DEF ServiceInit, PageTypes
<1>5. OneLeader
  BY <1>2, <1>3 DEF OneLeader, Leading, Paged
<1>6. QED BY <1>2, <1>3, <1>4, <1>5 DEF SInv, MetadataFresh

LEMMA ServiceKeeps == SInv /\ [ServiceNext]_all => SInv'
<1> SUFFICES ASSUME SInv, [ServiceNext]_all PROVE SInv'
  OBVIOUS
<1>1. CASE UNCHANGED all
  <2>1. [Next]_vars /\ UNCHANGED svc
    BY <1>1 DEF all
  <2>2. Types'
    BY <2>1, NextTypes DEF SInv
  <2>3. QED BY <1>1, <2>2 DEF all, svc, vars, SInv, PageTypes, OneLeader, Leading, Holds
<1>2. ASSUME NEW p \in Pages, NEW s, Apart(p, s) \/ Leads(p, s), Counted PROVE SInv'
  <2>1. [Next]_vars
    BY <1>2 DEF Apart, Leads, Next
  <2>2. QED BY <1>2, <2>1, NextTypes, ApartKeeps, LeadsKeeps DEF SInv
<1>3. ASSUME NEW p \in Pages, Revoked(p), Counted PROVE SInv'
  <2>1. [Next]_vars
    BY <1>3 DEF Revoked
  <2>2. QED BY <1>3, <2>1, NextTypes, RevokedKeeps DEF SInv
<1>4. ASSUME NEW p \in Pages, WriteMetadata(p), Counted PROVE SInv'
  BY <1>4, WriteKeeps DEF SInv
<1>5. CASE Elsewhere /\ Counted
  BY <1>5, NextTypes, ElsewhereKeeps DEF SInv
<1>6. CASE ServiceNext
  BY <1>2, <1>3, <1>4, <1>5, <1>6, Shapes
<1>7. QED BY <1>1, <1>6

\* A disconnect writes the baseline that is there, unless a sync of another tab
\* commits in between.
LEMMA FreshKept ==
  ASSUME ~TornMetadata
  PROVE  SInv /\ MetadataFresh /\ [ServiceNext]_all => MetadataFresh' /\ [Next]_vars
<1> SUFFICES ASSUME SInv, MetadataFresh, [ServiceNext]_all PROVE MetadataFresh' /\ [Next]_vars
  OBVIOUS
<1>1. CASE UNCHANGED all
  BY <1>1 DEF all, svc, vars, MetadataFresh
<1>2. ASSUME NEW p \in Pages, NEW s, Apart(p, s) \/ Leads(p, s), Counted
      PROVE  MetadataFresh' /\ [Next]_vars
  <2>1. [Next]_vars
    BY <1>2 DEF Apart, Leads, Next
  <2>2. QED BY <1>2, <2>1, ApartKeeps, LeadsKeeps
<1>3. ASSUME NEW p \in Pages, Revoked(p) \/ WriteMetadata(p), Counted
      PROVE  MetadataFresh' /\ [Next]_vars
  BY <1>3, RevokedKeeps, WriteKeeps DEF Revoked
<1>4. CASE Elsewhere /\ Counted
  BY <1>4, ElsewhereKeeps
<1>5. CASE ServiceNext
  BY <1>2, <1>3, <1>4, <1>5, Shapes
<1>6. QED BY <1>1, <1>5

LEMMA ServiceInvariant == ServiceSpec => []SInv
<1>1. QED
  BY ServiceStarts, ServiceKeeps, PTL DEF ServiceSpec

----------------------------------------------------------------------------
\* The types, with the bounds on the retries and on what is counted.
THEOREM ServiceTypeCorrect == ServiceSpec => []ServiceTypeOK
<1>1. SInv => ServiceTypeOK
  BY TypesSuffice DEF SInv, PageTypes, PageState, ServiceTypeOK
<1>2. QED
  BY <1>1, ServiceInvariant, PTL

\* However many tabs a device has, the sync that is under way on it is that of
\* one page, which holds the origin's lock (withOriginLock).
THEOREM LeaderAlone == ServiceSpec => []OneLeader
<1>1. SInv => OneLeader
  BY DEF SInv
<1>2. QED
  BY <1>1, ServiceInvariant, PTL

\* The pages of a device, as they connect, sync, disconnect, lose their token
\* and close, implement one device of DriveSync, if no sync commits between the
\* read and the write of a disconnect.
THEOREM TabsSyncAsOne ==
  ASSUME ~TornMetadata
  PROVE  ServiceSpec => SyncsAsOne
<1>1. ServiceInit => Init
  BY DEF ServiceInit
<1>2. SInv /\ MetadataFresh /\ [ServiceNext]_all => MetadataFresh' /\ [Next]_vars
  BY FreshKept
<1>3. QED
  BY <1>1, <1>2, ServiceStarts, ServiceInvariant, PTL DEF ServiceSpec, SyncsAsOne, Spec

\* So what holds of the devices holds of their tabs: a sync that does not
\* overlap that of another device deletes no record that nobody deleted.
THEOREM TabsDeleteOnlyIfAsked ==
  ASSUME ~TornMetadata, ~Overlap
  PROVE  ServiceSpec => DeletedOnlyIfAsked
<1>1. ServiceSpec => Spec
  BY TabsSyncAsOne DEF SyncsAsOne
<1>2. Spec => DeletedOnlyIfAsked
  BY NoRecordLeavesUnasked
<1>3. QED BY <1>1, <1>2
=============================================================================
