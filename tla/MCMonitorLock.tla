--------------------------- MODULE MCMonitorLock ---------------------------
(* Three monitor processes, two pids: r3 gets the pid r1 had.               *)
EXTENDS MonitorLock, TLC

CONSTANTS r1, r2, r3, p1, p2

MCPidOf == (r1 :> p1) @@ (r2 :> p2) @@ (r3 :> p1)
=============================================================================
