------------------------------ MODULE LogSession ------------------------------
(***************************************************************************)
(* What the two sessions of src/core/sessions/LogSessionManager.ts have in *)
(* common: Main, the session's own code, and the tasks that it starts and  *)
(* does not await, each of them somewhere in the session's code.           *)
(***************************************************************************)
EXTENDS LogStore

CONSTANT Main  \* the session; the other callers are the tasks it starts

VARIABLES
  paginationOpened, \* the session's guard for its open
  stage,            \* stage[c]: where a task or Main is in the session's code
  manifestFaults    \* errors on manifest.json so far

Goto(c, s) == stage' = [stage EXCEPT ![c] = s]

=============================================================================
