------------------------------ MODULE TaskSystem ------------------------------
(***************************************************************************)
(* The cooperative tasks of hev-task-system, the library NATMap runs on.   *)
(* The library is a git submodule and not part of src/: what is here is    *)
(* what the code in src/ relies on.                                        *)
(*                                                                         *)
(* A task runs without interruption until it yields, so one action of a    *)
(* component is everything a task does between two yields.  The scheduling *)
(* status of a task is one of                                              *)
(*                                                                         *)
(*   "none"     there is no such task                                      *)
(*   "run"      in the run queue: new, or its wait was cut short by an     *)
(*              event on one of its sockets or by hev_task_wakeup          *)
(*   "expired"  in the run queue because its timer ran out                 *)
(*   "wait"     blocked by hev_task_yield (HEV_TASK_WAITIO), no timer      *)
(*   "sleep"    blocked by hev_task_sleep with an armed timer              *)
(*                                                                         *)
(* The order in which queued tasks run is not known to src/: any of them   *)
(* may be next.                                                            *)
(***************************************************************************)

Blocked == {"wait", "sleep"}

Ready == {"run", "expired"}

TaskStatus == Blocked \cup Ready \cup {"none"}

(***************************************************************************)
(* hev_task_wakeup, or an event on a socket of the task: a blocked task    *)
(* joins the run queue, and on a task that is already there it has no      *)
(* effect at all.                                                          *)
(***************************************************************************)
Wakeup(st) == IF st \in Blocked THEN "run" ELSE st

(***************************************************************************)
(* What hev_task_sleep tells the task when it runs again.  A task whose    *)
(* timer ran out is told so.  One that was woken earlier usually has time  *)
(* left, but the timer may also have run out while it stood in the run     *)
(* queue.                                                                  *)
(***************************************************************************)
MayHaveElapsed(st) == st \in Ready

MayHaveTimeLeft(st) == st = "run"

=============================================================================
