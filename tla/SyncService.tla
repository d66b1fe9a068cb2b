----------------------------- MODULE SyncService -----------------------------
(* The pages of a device that sync its library (cloud/driveSyncService.js),  *)
(* with the authorisation each of them holds (cloud/googleIdentity.js) and   *)
(* what the Drive client does without one (cloud/googleDriveClient.js).      *)
(*                                                                           *)
(* A page connects, syncs and disconnects; its state says at which await     *)
(* each of the three stands. The coordinator's steps are those of DriveSync, *)
(* taken by the page that holds the origin's lock. A device without a page   *)
(* in Pages is a device as DriveSync has it.                                 *)
EXTENDS DriveSync, SequencesExt

CONSTANTS Pages,
          DeviceOf,     \* the device each page is open on
          AtStart,      \* sets of pages that are connected at the start
          TornMetadata, \* whether a sync may commit between the read and the write of a disconnect
          MaxRequests,  \* bound: what users ask for
          MaxFaults     \* bound: requests that fail, tokens that expire, pages that are closed

ASSUME ServiceAssumption ==
  /\ DeviceOf \in [Pages -> Devices] /\ AtStart \subseteq SUBSET Pages
  /\ TornMetadata \in BOOLEAN
  /\ MaxRequests \in Nat /\ MaxFaults \in Nat

VARIABLES page,     \* what each page holds
          lock,     \* the pages of a device that hold or await its lock, in order
          requests, \* what users have asked for
          faults

svc == <<page, lock, requests, faults>>
all == <<vars, svc>>

\* token: one that Google takes, one it refuses, or none. asked: clicks whose
\* beforeSync is running. sent: the request under way had a good token. meta:
\* the baseline a disconnect has read. connect, sync, leave: where each stands
\* (a connect whose request was sent with a bad token is "denied").
Fresh ==
  [token |-> "none", busy |-> FALSE, connected |-> FALSE, asked |-> {}, sent |-> FALSE,
   meta |-> Nothing, connect |-> "no", sync |-> "no", leave |-> "no"]
Connected == [Fresh EXCEPT !.token = "good", !.connected = TRUE]

\* Pages that have just been opened, and pages that have connected.
ServiceInit ==
  /\ Init
  /\ \E S \in AtStart : page = [p \in Pages |-> IF p \in S THEN Connected ELSE Fresh]
  /\ lock = [d \in Devices |-> <<>>]
  /\ requests = 0 /\ faults = 0

Requested == requests < MaxRequests /\ requests' = requests + 1 /\ UNCHANGED faults
Fault == faults < MaxFaults /\ faults' = faults + 1 /\ UNCHANGED requests
Calm == UNCHANGED <<requests, faults>>

Becomes(p, s) == page' = [page EXCEPT ![p] = s]
Holds(p) == lock[DeviceOf[p]] # <<>> /\ Head(lock[DeviceOf[p]]) = p
Released(p) ==
  LET line == lock[DeviceOf[p]]
  IN  \/ (\A i \in DOMAIN line : line[i] # p) /\ UNCHANGED lock
      \/ \E i \in DOMAIN line : line[i] = p /\ lock' = [lock EXCEPT ![DeviceOf[p]] = RemoveAt(line, i)]

----------------------------------------------------------------------------
\* What the user asks for. Sync is offered while the page shows a connection
\* (by the panel, and by the content manager after its changes).

Ask(p) ==
  /\ Requested
  /\ \/ /\ ~page[p].connected /\ ~page[p].busy
        /\ Becomes(p, [page[p] EXCEPT !.asked = @ \cup {"connect"}])
     \/ /\ page[p].connected
        /\ Becomes(p, [page[p] EXCEPT !.asked = @ \cup {"sync"}])
  /\ UNCHANGED <<vars, lock>>

\* sync(): one at a time in a page; the origin's lock is requested at once.
SyncCalled(s) == [s EXCEPT !.sync = IF @ = "no" THEN "queued" ELSE @]
Queued(p) == lock' = IF page[p].sync # "no" THEN lock
                     ELSE [lock EXCEPT ![DeviceOf[p]] = Append(@, p)]

Sync(p) ==
  /\ "sync" \in page[p].asked
  /\ Becomes(p, SyncCalled([page[p] EXCEPT !.asked = @ \ {"sync"}]))
  /\ Queued(p) /\ Calm /\ UNCHANGED vars

----------------------------------------------------------------------------
\* connect(): the authorisation, the account, a sync.

Connect(p) ==
  LET s == [page[p] EXCEPT !.asked = @ \ {"connect"}]
  IN  /\ "connect" \in page[p].asked
      /\ Becomes(p, IF s.connect # "no" THEN s
                    ELSE [s EXCEPT !.busy = TRUE,
                                   !.connect = IF s.token = "none" THEN "authorise"
                                               ELSE IF s.token = "good" THEN "account" ELSE "denied"])
      /\ Calm /\ UNCHANGED <<vars, lock>>

\* Fault: the failure of a connect is not shown.
ConnectHangs(s) == [s EXCEPT !.connect = "no", !.connected = FALSE]

ConnectFails(s) == [s EXCEPT !.connect = "no", !.busy = FALSE, !.connected = FALSE]

\* Google's window is answered, or closed.
Authorise(p) ==
  /\ page[p].connect = "authorise"
  /\ \/ Becomes(p, [page[p] EXCEPT !.token = "good", !.connect = "account"])
     \/ Becomes(p, ConnectFails([page[p] EXCEPT !.token = "none"]))
  /\ Calm /\ UNCHANGED <<vars, lock>>

\* getUserMetadata. A token that is lost while the request is under way may
\* still do for it.
Account(p) ==
  /\ \/ /\ page[p].connect = "account"
        /\ Becomes(p, SyncCalled([page[p] EXCEPT !.connect = "sync", !.busy = FALSE, !.connected = TRUE]))
        /\ Queued(p)
     \/ /\ page[p].connect \in {"account", "denied"} /\ page[p].token # "good"
        /\ Becomes(p, ConnectFails([page[p] EXCEPT !.token = "none"])) /\ UNCHANGED lock
  /\ Calm /\ UNCHANGED vars

AccountFails(p) ==
  /\ Fault
  /\ page[p].connect \in {"account", "denied"} /\ Becomes(p, ConnectFails(page[p]))
  /\ UNCHANGED <<vars, lock>>

----------------------------------------------------------------------------
\* executeSync(), under the lock.

\* The promise of sync() settles, and with it a connect that awaits it.
Ended(s) == [s EXCEPT !.sync = "no", !.sent = FALSE, !.connect = IF @ = "sync" THEN "no" ELSE @]
Failed(s) == Ended(IF s.connect = "sync" THEN ConnectFails(s) ELSE s)

\* An authorisation error takes the token, another error leaves it.
Unauthorised(s) == [s EXCEPT !.token = "none", !.busy = FALSE, !.connected = FALSE]
Erred(s) == [s EXCEPT !.busy = FALSE, !.connected = s.token # "none"]

\* Fault: the lock is not awaited.
StartAtOnce(p) ==
  /\ page[p].sync = "queued"
  /\ IF page[p].token = "none"
     THEN Becomes(p, Failed(Unauthorised(page[p]))) /\ Released(p)
     ELSE /\ Becomes(p, [page[p] EXCEPT !.sync = "flush", !.busy = TRUE, !.connected = TRUE])
          /\ UNCHANGED lock
  /\ Calm /\ UNCHANGED vars

Start(p) ==
  /\ page[p].sync = "queued" /\ Holds(p)
  /\ IF page[p].token = "none"
     THEN Becomes(p, Failed(Unauthorised(page[p]))) /\ Released(p)
     ELSE /\ Becomes(p, [page[p] EXCEPT !.sync = "flush", !.busy = TRUE, !.connected = TRUE])
          /\ UNCHANGED lock
  /\ Calm /\ UNCHANGED vars

\* The saves are flushed, and the folder is asked for.
Flushed(p) ==
  /\ page[p].sync = "flush"
  /\ Becomes(p, [page[p] EXCEPT !.sync = "folder", !.sent = page[p].token = "good"])
  /\ Calm /\ UNCHANGED <<vars, lock>>

FolderFound(p) ==
  /\ page[p].sync = "folder" /\ page[p].sent
  /\ Begin(DeviceOf[p])
  /\ Becomes(p, [page[p] EXCEPT !.sync = "coordinator", !.sent = FALSE])
  /\ Calm /\ UNCHANGED lock

AwaitsDrive(s) == s.pc \in {"find", "download", "save"} \/ (s.pc = "check" /\ s.file # NoFile)

Torn(p) == \E q \in Pages : DeviceOf[q] = DeviceOf[p] /\ page[q].leave = "write"

\* A step of synchronizeDriveLibrary. A request sees the token it was sent with.
Coordinate(p) ==
  LET d == DeviceOf[p]
  IN  /\ page[p].sync = "coordinator"
      /\ AwaitsDrive(sync[d]) => page[p].sent
      /\ sync[d].pc = "commit" /\ ~TornMetadata => ~Torn(p)
      /\ Synchronize(d)
      /\ IF sync'[d].pc # "idle"
         THEN /\ Becomes(p, [page[p] EXCEPT !.sent = AwaitsDrive(sync'[d]) /\ page[p].token = "good"])
              /\ UNCHANGED lock
         ELSE IF sync[d].pc = "commit"
         THEN Becomes(p, [page[p] EXCEPT !.sync = "live", !.sent = FALSE]) /\ UNCHANGED lock
         ELSE Becomes(p, Failed(Erred(page[p]))) /\ Released(p)
      /\ Calm

\* updateLiveLibrary, and the end of the sync.
Finish(p) ==
  /\ page[p].sync = "live"
  /\ Becomes(p, Ended([page[p] EXCEPT !.busy = FALSE, !.connected = TRUE])) /\ Released(p)
  /\ Calm /\ UNCHANGED vars

\* The sync that p runs stops where it is.
Stops(p) == IF page[p].sync = "coordinator" THEN Fail(DeviceOf[p]) ELSE UNCHANGED vars

\* Fault: the page shows that it is no longer connected, and the sync goes on.
RefusedQuietly(p) ==
  /\ page[p].token # "good"
  /\ page[p].sync = "folder" \/ (page[p].sync = "coordinator" /\ AwaitsDrive(sync[DeviceOf[p]]))
  /\ Becomes(p, Unauthorised(page[p])) /\ Calm /\ UNCHANGED <<vars, lock>>

\* A request finds no token, or one that Google refuses.
Refused(p) ==
  /\ page[p].token # "good"
  /\ page[p].sync = "folder" \/ (page[p].sync = "coordinator" /\ AwaitsDrive(sync[DeviceOf[p]]))
  /\ Stops(p)
  /\ Becomes(p, Failed(Unauthorised(page[p]))) /\ Released(p) /\ Calm

\* Anything else fails: the network, the store, the reload of the content.
SyncFails(p) ==
  /\ Fault
  /\ page[p].sync \in {"flush", "folder", "coordinator", "live"} /\ Stops(p)
  /\ Becomes(p, Failed(Erred(page[p]))) /\ Released(p)

----------------------------------------------------------------------------
\* disconnect(): the token is cleared before Google is asked to revoke it.

Disconnect(p) ==
  /\ Requested
  /\ page[p].connected /\ ~page[p].busy /\ page[p].leave = "no"
  /\ Becomes(p, [page[p] EXCEPT !.token = "none", !.busy = TRUE,
                                !.leave = IF page[p].token = "none" THEN "read" ELSE "revoke"])
  /\ UNCHANGED <<vars, lock>>

\* Revoking takes the grant, and with it the tokens of every page; it may fail.
Revoked(p) ==
  /\ page[p].leave = "revoke"
  /\ \E gone \in BOOLEAN :
       page' = [q \in Pages |->
         IF q = p THEN [page[p] EXCEPT !.token = "none", !.leave = "read"]
         ELSE IF gone /\ page[q].token = "good" THEN [page[q] EXCEPT !.token = "refused"] ELSE page[q]]
  /\ Calm /\ UNCHANGED <<vars, lock>>

\* The metadata is read, and written again as it was but for the link.
ReadMetadata(p) ==
  /\ page[p].leave = "read"
  /\ Becomes(p, [page[p] EXCEPT !.leave = "write", !.meta = baseline[DeviceOf[p]]])
  /\ Calm /\ UNCHANGED <<vars, lock>>

\* Fault: the metadata is written anew.
WriteMetadataAnew(p) ==
  /\ page[p].leave = "write"
  /\ baseline' = [baseline EXCEPT ![DeviceOf[p]] = Nothing]
  /\ Becomes(p, [page[p] EXCEPT !.leave = "no", !.meta = Nothing, !.busy = FALSE, !.connected = FALSE])
  /\ Calm /\ UNCHANGED <<store, sync, drive, newest, now, failures, over, dropped, lock>>

WriteMetadata(p) ==
  /\ page[p].leave = "write"
  /\ baseline' = [baseline EXCEPT ![DeviceOf[p]] = page[p].meta]
  /\ Becomes(p, [page[p] EXCEPT !.leave = "no", !.meta = Nothing, !.busy = FALSE, !.connected = FALSE])
  /\ Calm /\ UNCHANGED <<store, sync, drive, newest, now, failures, over, dropped, lock>>

----------------------------------------------------------------------------
\* Outside the page.

\* A token runs out, or the user withdraws the access at Google.
LoseToken(p) ==
  /\ Fault
  /\ page[p].token = "good"
  /\ \E t \in {"none", "refused"} : Becomes(p, [page[p] EXCEPT !.token = t])
  /\ UNCHANGED <<vars, lock>>

\* A page is closed or loaded anew: the browser takes its lock back.
Close(p) ==
  /\ Fault
  /\ Stops(p) /\ Becomes(p, Fresh) /\ Released(p)

Paged == {DeviceOf[p] : p \in Pages}
Elsewhere ==
  /\ \/ /\ Requested
        /\ \/ \E d \in Devices, k \in Keys : Edit(d, k) \/ Delete(d, k)
           \/ \E d \in Devices \ Paged : Begin(d)
     \/ Fault /\ \E d \in Devices \ Paged : Fail(d)
     \/ Calm /\ \E d \in Devices \ Paged : Synchronize(d)
  /\ UNCHANGED <<page, lock>>

----------------------------------------------------------------------------
\* What the page does once it is asked to: answers arrive, promises go on.
Syncing(p) == Start(p) \/ Flushed(p) \/ FolderFound(p) \/ Coordinate(p) \/ Finish(p) \/ Refused(p)
Connecting(p) == Connect(p) \/ Authorise(p) \/ Account(p)
Leaving(p) == Revoked(p) \/ ReadMetadata(p) \/ WriteMetadata(p)
Proceeds(p) == Sync(p) \/ Connecting(p) \/ Syncing(p) \/ Leaving(p)

ServiceNext ==
  \/ \E p \in Pages :
       \/ Ask(p) \/ Disconnect(p) \/ Proceeds(p)
       \/ AccountFails(p) \/ SyncFails(p) \/ LoseToken(p) \/ Close(p)
  \/ Elsewhere

ServiceSpec == ServiceInit /\ [][ServiceNext]_all
ServiceFairness ==
  /\ \A p \in Pages : WF_all(Proceeds(p))
  /\ \A d \in Devices \ Paged : WF_all(Synchronize(d) /\ UNCHANGED svc)
FairService == ServiceSpec /\ ServiceFairness

----------------------------------------------------------------------------
\* The page's tokens and awaits, the devices' syncs and the counts have their
\* types; a sync has been tried again at most maxRemoteRetries times.
ServiceTypeOK ==
  /\ TypeOK
  /\ \A p \in Pages :
       /\ page[p].token \in {"none", "good", "refused"}
       /\ page[p].asked \subseteq {"connect", "sync"}
       /\ page[p].connect \in {"no", "authorise", "account", "denied", "sync"}
       /\ page[p].sync \in {"no", "queued", "flush", "folder", "coordinator", "live"}
       /\ page[p].leave \in {"no", "revoke", "read", "write"}
  /\ requests \in 0..MaxRequests /\ faults \in 0..MaxFaults

\* One sync leader per origin: a sync that has begun, up to its last reload of
\* the live library, is that of the page at the head of the device's lock.
Leading(p) == page[p].sync \in {"flush", "folder", "coordinator", "live"}
OneLeader ==
  /\ \A p \in Pages : Leading(p) => Holds(p)
  /\ \A d \in Paged :
       sync[d].pc # "idle" <=> \E p \in Pages : DeviceOf[p] = d /\ page[p].sync = "coordinator"

\* Seen from the library, the pages of a device are one device of DriveSync:
\* connecting, disconnecting, closing a tab or losing a token touch neither its
\* records, its baseline nor the file, and no two tabs mix their syncs.
SyncsAsOne == Spec

\* The promise of a sync settles, though other tabs want the lock too, tokens
\* are lost and pages closed.
SyncsSettle == SyncsEnd /\ \A p \in Pages : page[p].sync # "no" ~> page[p].sync = "no"

\* What a page has begun ends, and its buttons come back.
BusyEnds == \A p \in Pages : page[p].busy ~> ~page[p].busy
=============================================================================
