-------------------------- MODULE MCPlatformTasks --------------------------
(* PlatformTasks for TLC: a task that is retried once, and a more urgent   *)
(* one for which no handler is registered.                                 *)
EXTENDS PlatformTasks, TLC

CONSTANTS t1, t2

MCPriority == (t1 :> 0) @@ (t2 :> 1)
MCMaxAttempts == (t1 :> 2) @@ (t2 :> 1)
=============================================================================
