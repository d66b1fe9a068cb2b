---------------------------- MODULE EngineQueue ----------------------------
(* The scheduling rule of the engine worker: the kinds of queued work, their *)
(* urgency, and where dispatch() inserts a request into the waiting line.    *)
(* packages/api/src/protocol.ts, packages/api/src/runtime.ts.                *)
EXTENDS Integers, SequencesExt

QueueKind ==
  {"content-write", "character-write", "homebrew", "read-only", "unknown-write"}

\* The smaller, the more urgent.
priority(kind) ==
  CASE kind \in {"content-write", "character-write", "unknown-write"} -> 0
    [] kind = "homebrew" -> 1
    [] OTHER -> 2

\* Below, urgencies are those of the requests in the line, and p that of the
\* request that is dispatched.

\* Fault: a request is placed before the requests of its own urgency.
InsertionBeforeEquals(urgencies, p) ==
  LET less == {i \in DOMAIN urgencies : urgencies[i] >= p}
  IN  IF less = {} THEN Len(urgencies) + 1
                   ELSE CHOOSE i \in less : \A j \in less : i <= j

\* The place of the first waiting request that is strictly less urgent; the end
\* of the line when there is none.
Insertion(urgencies, p) ==
  LET less == {i \in DOMAIN urgencies : urgencies[i] > p}
  IN  IF less = {} THEN Len(urgencies) + 1
                   ELSE CHOOSE i \in less : \A j \in less : i <= j

Enqueue(queue, item, urgencies, p) == InsertAt(queue, Insertion(urgencies, p), item)
=============================================================================
