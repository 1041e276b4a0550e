----------------------------- MODULE MCScheduler -----------------------------
(* Instances of Scheduler for TLC.                                         *)
EXTENDS Scheduler

CONSTANTS w1, w2, p1

TwoWorkers == {w1, w2}
OneProc == {p1}

(* The windows in which a timer interrupt does no harm.                    *)
InUnblock == {"unblock", "exited"}

(* Windows in which it does harm, and what it breaks there:                *)
(* yield breaks NoThreadLost and EnqueuedRuns, create NoDanglingProcess,   *)
(* grow and shrink CountMatches, exit ExitHitsOnlyExited.                  *)
InExit == {"exit"}
InYield == {"yield", "exited"}
InCreate == {"create"}
InCount == {"grow"}
InDestroy == {"shrink"}
=============================================================================
