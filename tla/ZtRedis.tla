------------------------------ MODULE ZtRedis ------------------------------
(***************************************************************************)
(* What one redisCommand of the server can do (hiredis, seen through its   *)
(* uses in zt_redis.c).  A server owns one connection, g_redis_ctx.  While *)
(* it is up a command ends in one of four ways:                            *)
(*                                                                         *)
(*   reply       executed, and the reply came back                         *)
(*   error       REDIS_REPLY_ERROR: not executed, the connection lives     *)
(*   lost        NULL: the connection broke before Redis executed it       *)
(*   unanswered  NULL: Redis executed it, the connection broke before the  *)
(*               reply                                                     *)
(*                                                                         *)
(* Nothing reconnects: once the context has an error every later command   *)
(* is lost, until the process restarts.                                    *)
(***************************************************************************)

CONSTANT Failures       \* the ways a command may fail on a live connection

ASSUME FailuresAssumption == Failures \subseteq {"error", "lost", "unanswered"}

LinkState == {"up", "down"}

Outcomes(linkState) ==
    IF linkState = "up" THEN {"reply"} \cup Failures ELSE {"lost"}

Executed(outcome) == outcome \in {"reply", "unanswered"}

\* The state of the connection after a command with this outcome.
LinkAfter(outcome) == IF outcome \in {"reply", "error"} THEN "up" ELSE "down"
============================================================================
