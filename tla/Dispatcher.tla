----------------------------- MODULE Dispatcher -----------------------------
(* The page's engine client and the worker's dispatcher, joined by the two   *)
(* directions of a message port (packages/api/src/runtime.ts).               *)
(*                                                                           *)
(* Requests are numbered 1, 2, ... by the client, so a request is its number *)
(* and calls[id] is the method it names. The port never loses or reorders a  *)
(* message: what was posted to the worker is calls, of which the worker has  *)
(* received the first `received`; what was posted to the page is answers, of *)
(* which the client has handled the first `delivered`. An answer is the      *)
(* number alone: a handler that throws is answered like one that returns.    *)
EXTENDS EngineQueue

CONSTANTS Methods,    \* the method names the page's client may call
          KindOf,     \* queueKindFor: the kind of work of each method
          Known,      \* the method names of the worker's build; a deployment
                      \* may name another worker (VITE_FCB_WORKER_URL)
          Handled,    \* the methods that worker has a handler for
          MaxCalls    \* bound: calls the page makes

ASSUME MethodsAssumption ==
  /\ KindOf \in [Methods -> QueueKind]
  /\ Known \subseteq Methods
  /\ Handled \subseteq Known
  /\ MaxCalls \in Nat

VARIABLES calls,      \* every call, in order: nextId is Len(calls) + 1
          pending,    \* the client's map from request number to promise
          received,   \* how many requests the worker has received
          queue,      \* the dispatcher's waiting line, of request numbers
          active,     \* the request whose handler runs, or Idle
          answers,    \* the responses posted to the page, in order
          delivered   \* how many of them the client has handled

vars == <<calls, pending, received, queue, active, answers, delivered>>

Idle == 0
Requests == 1..Len(calls)
Urgency(id) == priority(KindOf[calls[id]])
Urgencies(q) == [k \in DOMAIN q |-> Urgency(q[k])]
IsKnown(id) == calls[id] \in Known

Init == /\ calls = <<>> /\ pending = {} /\ received = 0 /\ queue = <<>>
        /\ active = Idle /\ answers = <<>> /\ delivered = 0

----------------------------------------------------------------------------
\* The client: createEngineClient.

Invoke(m) ==
  /\ Len(calls) < MaxCalls
  /\ calls' = Append(calls, m)
  /\ pending' = pending \cup {Len(calls) + 1}
  /\ UNCHANGED <<received, queue, active, answers, delivered>>

\* Fault: a promise that settled stays in the map.
DeliverKeeping ==
  /\ delivered < Len(answers)
  /\ delivered' = delivered + 1
  /\ UNCHANGED <<calls, pending, received, queue, active, answers>>

\* A response for a number that is not pending is dropped.
Deliver ==
  /\ delivered < Len(answers)
  /\ delivered' = delivered + 1
  /\ pending' = pending \ {answers[delivered + 1]}
  /\ UNCHANGED <<calls, received, queue, active, answers>>

----------------------------------------------------------------------------
\* The worker: createEngineDispatcher behind startEngineWorker.

\* Where run() stops when the line is q: it answers requests without a handler
\* in the same turn and goes on to the next, up to the first that has one.
Stop(q) ==
  LET handled == {i \in DOMAIN q : calls[q[i]] \in Handled}
  IN  IF handled = {} THEN Len(q) + 1
                      ELSE CHOOSE i \in handled : \A j \in handled : i <= j

\* Fault: run() starts the next request although a handler is active.
RunOverlapping(q, running, posted) ==
  LET k == Stop(q)
  IN  /\ answers' = posted \o SubSeq(q, 1, k - 1)
      /\ active' = (IF k \in DOMAIN q THEN q[k] ELSE running)
      /\ queue' = SubSeq(q, k + 1, Len(q))

\* run(): nothing while a handler is active, else the line up to Stop.
Run(q, running, posted) ==
  IF running # Idle
  THEN queue' = q /\ active' = running /\ answers' = posted
  ELSE LET k == Stop(q)
       IN  /\ answers' = posted \o SubSeq(q, 1, k - 1)
           /\ active' = (IF k \in DOMAIN q THEN q[k] ELSE Idle)
           /\ queue' = SubSeq(q, k + 1, Len(q))

\* Fault: the newest request goes to the front of the line.
QueuedFirst(q, id) == <<id>> \o q

\* The line with request id in its place.
Queued(q, id) == Enqueue(q, id, Urgencies(q), Urgency(id))

\* Fault: a request that fails validation is ignored.
ReceiveIgnoring ==
  /\ received < Len(calls)
  /\ received' = received + 1
  /\ IF IsKnown(received + 1)
     THEN Run(Queued(queue, received + 1), active, answers)
     ELSE UNCHANGED <<queue, active, answers>>
  /\ UNCHANGED <<calls, pending, delivered>>

\* A request that fails validation is answered at once, past the line.
Receive ==
  /\ received < Len(calls)
  /\ received' = received + 1
  /\ LET id == received + 1
     IN  IF IsKnown(id)
         THEN Run(Queued(queue, id), active, answers)
         ELSE answers' = Append(answers, id) /\ UNCHANGED <<queue, active>>
  /\ UNCHANGED <<calls, pending, delivered>>

\* Fault: a response is posted although no handler ran.
CompleteIdle ==
  /\ Run(queue, Idle, Append(answers, active))
  /\ UNCHANGED <<calls, pending, received, delivered>>

\* Fault: the dispatcher does not go on to the next request.
CompleteAndRest ==
  /\ active # Idle
  /\ answers' = Append(answers, active) /\ active' = Idle
  /\ UNCHANGED <<calls, pending, received, queue, delivered>>

\* The active handler returns or throws.
Complete ==
  /\ active # Idle
  /\ Run(queue, Idle, Append(answers, active))
  /\ UNCHANGED <<calls, pending, received, delivered>>

----------------------------------------------------------------------------
Next == \/ \E m \in Methods : Invoke(m)
        \/ Deliver
        \/ Receive
        \/ Complete

Spec == Init /\ [][Next]_vars

\* The port hands over every message and every handler's promise settles; the
\* page is never obliged to call.
Fairness == WF_vars(Deliver) /\ WF_vars(Receive) /\ WF_vars(Complete)
FairSpec == Spec /\ Fairness

----------------------------------------------------------------------------
\* What has been answered, and what the client has seen answered.
Answered == {answers[k] : k \in DOMAIN answers}
settled == SubSeq(answers, 1, delivered)

TypeOK ==
  /\ calls \in Seq(Methods)
  /\ pending \subseteq Requests
  /\ received \in 0..Len(calls)
  /\ queue \in Seq(1..received)
  /\ active \in 0..received
  /\ answers \in Seq(1..received)
  /\ delivered \in 0..Len(answers)

\* A request the worker has received is in exactly one of three places, once:
\* the waiting line, the running handler, the answers. So run(), dispatch()
\* and the unsupported path never drop a request nor answer it twice.
InOnePlace ==
  /\ \A k, l \in DOMAIN answers : answers[k] = answers[l] => k = l
  /\ \A k, l \in DOMAIN queue : queue[k] = queue[l] => k = l
  /\ \A k \in DOMAIN queue : queue[k] \notin Answered \cup {active}
  /\ active \notin Answered
  /\ \A id \in 1..received :
       id \in Answered \/ id = active \/ \E k \in DOMAIN queue : queue[k] = id

\* The client's map holds exactly the requests it has not seen answered: no
\* promise is left behind by an answered request, none is settled early.
PendingIsUnsettled ==
  pending = Requests \ {answers[k] : k \in 1..delivered}

\* A request is answered before an older one only if its kind is strictly more
\* urgent (or the worker does not know its method): writes stay in the order
\* of the calls, a read never sees the engine before a write called earlier,
\* and only homebrew patches and writes pass queued reads.
ServedInOrder ==
  \A k \in DOMAIN answers : \A older \in 1..(answers[k] - 1) :
    \/ ~IsKnown(answers[k])
    \/ \E l \in 1..(k - 1) : answers[l] = older
    \/ Urgency(answers[k]) < Urgency(older)

\* The worker is never idle while a request waits in its line: every path out
\* of run() starts the next one.
NeverIdleWhileWaiting == active = Idle => queue = <<>>

\* Every call is settled, whatever the handlers do and however the calls mix.
EveryCallSettles ==
  \A id \in 1..MaxCalls : (id \in pending) ~> (id \in Requests \ pending)

\* The promise to the page: see EngineCalls.
Calls == INSTANCE EngineCalls WITH settled <- settled
CallsSpec == Calls!FairSpec
=============================================================================
