---------------------------- MODULE MCDispatcher ----------------------------
(* A small instance of Dispatcher: one method of each behaviour. The engine  *)
(* methods named are those of packages/api/src/methods.ts; "ensureHostFile"  *)
(* stands for a method the worker has no handler for, "staleMethod" for one  *)
(* only a newer page knows.                                                  *)
EXTENDS Dispatcher

MCMethods ==
  {"setSelection", "patchHomebrew", "getCharacter", "ensureHostFile", "staleMethod"}
MCKindOf ==
  [m \in MCMethods |->
     CASE m = "setSelection" -> "character-write"
       [] m = "patchHomebrew" -> "homebrew"
       [] m = "ensureHostFile" -> "content-write"
       [] OTHER -> "read-only"]
MCKnown == MCMethods \ {"staleMethod"}
MCHandled == MCKnown \ {"ensureHostFile"}
=============================================================================
