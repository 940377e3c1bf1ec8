----------------------------- MODULE MCRequests -----------------------------
EXTENDS Requests

(***************************************************************************)
(* Threads share neither queues nor requests, so it is enough to see each  *)
(* of them serve its requests while the others are idle.                   *)
(***************************************************************************)
OneAtATime == \A t, u \in Threads : t # u => "idle" \in {phase'[t], phase'[u]}
=============================================================================
