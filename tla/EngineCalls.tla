---------------------------- MODULE EngineCalls ----------------------------
(* What the typed engine client promises the page, without the worker, the   *)
(* port or the waiting line: every call settles once, and a call settles     *)
(* before an older one only when its kind of work is strictly more urgent.   *)
(* Dispatcher implements it.                                                 *)
EXTENDS EngineQueue

CONSTANTS Methods, KindOf, Known, MaxCalls

VARIABLES calls,    \* the method of each call, in order
          settled   \* the calls whose promise settled, in the order they did

vars == <<calls, settled>>

Settled == {settled[k] : k \in DOMAIN settled}
Open == DOMAIN calls \ Settled

Init == calls = <<>> /\ settled = <<>>

Call(m) ==
  /\ Len(calls) < MaxCalls
  /\ calls' = Append(calls, m)
  /\ UNCHANGED settled

\* `id` may settle: no older open call is of the same urgency or a higher one.
MaySettle(id) ==
  \/ calls[id] \notin Known
  \/ \A older \in Open :
       older < id => priority(KindOf[calls[id]]) < priority(KindOf[calls[older]])

Settle(id) ==
  /\ MaySettle(id)
  /\ settled' = Append(settled, id)
  /\ UNCHANGED calls

Next == (\E m \in Methods : Call(m)) \/ (\E id \in Open : Settle(id))

Spec == Init /\ [][Next]_vars
FairSpec == Spec /\ WF_vars(\E id \in Open : Settle(id))
=============================================================================
