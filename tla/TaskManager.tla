---------------------------- MODULE TaskManager ----------------------------
(***************************************************************************)
(* core/infra/task_manager.py: one wrapper task for each registered loop.  *)
(* It starts the loop again after a failure, each time later, and gives up *)
(* after a number of them.  At shutdown main() calls stop_all().           *)
(*                                                                         *)
(* stop_all() cancels every wrapper and gathers them with a timeout.  A    *)
(* wait that times out cancels what it waits for and then waits for that   *)
(* to end, so neither stop_all's own timeout nor the shorter one main()    *)
(* puts around it leaves a wrapper behind; each is one more cancellation.  *)
(* A loop that fails in answer to its cancellation looks to its wrapper    *)
(* like any failed loop.                                                   *)
(*                                                                         *)
(* Every registered loop has restart_on_failure.  Delays are left out:     *)
(* between two cancellations a wrapper may or may not have slept enough.   *)
(***************************************************************************)
EXTENDS Naturals

CONSTANTS
    Loops,              \* registered tasks
    MaxFailures,        \* max_restarts
    MaxBadCleanups,     \* how often a loop fails when it is cancelled
    LoopFaults          \* which of "failure", "finish", "dbError" happen

ASSUME TaskManagerAssumption ==
    /\ MaxFailures \in Nat \ {0}
    /\ MaxBadCleanups \in Nat
    /\ LoopFaults \subseteq {"failure", "finish", "dbError"}

VARIABLES
    status,         \* RegisteredTask.status
    at,             \* where each wrapper is
    failures,       \* restart_count, and the wrapper's consecutive
    cancelled,      \* wrappers that have not seen their cancellation yet
    badCleanups,    \* cancellations each loop answered with a failure
    notice,         \* whether the owner has been told that a loop was given up
    shutdown        \* how far main() has come with stop_all()

taskVars == <<status, at, failures, cancelled, badCleanups, notice, shutdown>>

TasksTypeOK ==
    /\ status \in [Loops -> {"running", "failed", "stopped"}]
    /\ at \in [Loops -> {"none", "ready", "loop", "backoff", "telling", "ended"}]
    /\ failures \in [Loops -> 0..MaxFailures]
    /\ cancelled \in SUBSET Loops
    /\ badCleanups \in [Loops -> 0..MaxBadCleanups]
    /\ notice \in [Loops -> {"none", "stored", "lost"}]
    /\ shutdown \in {"no", "waiting", "hurried", "overdue", "done"}

TasksInit ==
    /\ status = [l \in Loops |-> "stopped"]
    /\ at = [l \in Loops |-> "none"]
    /\ failures = [l \in Loops |-> 0]
    /\ cancelled = {}
    /\ badCleanups = [l \in Loops |-> 0]
    /\ notice = [l \in Loops |-> "none"]
    /\ shutdown = "no"

Alive == {l \in Loops : at[l] # "ended"}

To(l, place) == at' = [at EXCEPT ![l] = place]

Says(l, s) == status' = [status EXCEPT ![l] = s]

-----------------------------------------------------------------------------
(* start_all(), called once, before main() can come to stop_all(). *)
StartLoop(l) ==
    /\ at[l] = "none"
    /\ To(l, "ready")
    /\ UNCHANGED <<status, failures, cancelled, badCleanups, notice, shutdown>>

(* The first round of the wrapper, or one after a delay. *)
EnterLoop(l) ==
    /\ at[l] \in {"ready", "backoff"} /\ l \notin cancelled
    /\ To(l, "loop") /\ Says(l, "running")
    /\ UNCHANGED <<failures, cancelled, badCleanups, notice, shutdown>>

(* Mutant: the first failure ends the wrapper. *)
Failed_NoRestart(l) ==
    /\ failures' = [failures EXCEPT ![l] = @ + 1]
    /\ Says(l, "failed")
    /\ To(l, IF failures[l] + 1 >= MaxFailures THEN "telling" ELSE "ended")

(* An exception leaves the loop: the wrapper waits, or gives up. *)
Failed(l) ==
    /\ failures' = [failures EXCEPT ![l] = @ + 1]
    /\ Says(l, "failed")
    /\ To(l, IF failures[l] + 1 >= MaxFailures THEN "telling" ELSE "backoff")

LoopFails(l) ==
    /\ "failure" \in LoopFaults
    /\ at[l] = "loop" /\ l \notin cancelled
    /\ Failed(l)
    /\ UNCHANGED <<cancelled, badCleanups, notice, shutdown>>

(* The loop returns, or is cancelled by something it awaits; after either it
   is not started again. *)
LoopReturns(l) ==
    /\ "finish" \in LoopFaults
    /\ at[l] = "loop" /\ l \notin cancelled
    /\ To(l, "ended") /\ Says(l, "stopped")
    /\ UNCHANGED <<failures, cancelled, badCleanups, notice, shutdown>>

(* Mutant: the status of a cancelled loop is left to stop_all(). *)
LoopStops_NoStatus(l) ==
    /\ at[l] = "loop" /\ l \in cancelled
    /\ cancelled' = cancelled \ {l}
    /\ To(l, "ended")
    /\ UNCHANGED <<status, failures, badCleanups, notice, shutdown>>

(* What a cancelled loop does: it ends, by letting CancelledError pass or by
   returning, ... *)
LoopStops(l) ==
    /\ at[l] = "loop" /\ l \in cancelled
    /\ cancelled' = cancelled \ {l}
    /\ To(l, "ended") /\ Says(l, "stopped")
    /\ UNCHANGED <<failures, badCleanups, notice, shutdown>>

(* ... or fails, and nothing is left of the cancellation. *)
LoopFailsToStop(l) ==
    /\ at[l] = "loop" /\ l \in cancelled
    /\ badCleanups[l] < MaxBadCleanups
    /\ badCleanups' = [badCleanups EXCEPT ![l] = @ + 1]
    /\ cancelled' = cancelled \ {l}
    /\ Failed(l)
    /\ UNCHANGED <<notice, shutdown>>

(* Mutant: a delay swallows the cancellation. *)
CutOff_NotInDelay(l) ==
    /\ at[l] \in {"ready", "backoff", "telling"} /\ l \in cancelled
    /\ cancelled' = cancelled \ {l}
    /\ To(l, IF at[l] = "backoff" THEN "backoff" ELSE "ended")
    /\ UNCHANGED <<status, failures, badCleanups, notice, shutdown>>

(* Cancelled outside the loop the wrapper just ends: before its first step,
   in its delay or while it notifies. *)
CutOff(l) ==
    /\ at[l] \in {"ready", "backoff", "telling"} /\ l \in cancelled
    /\ cancelled' = cancelled \ {l}
    /\ To(l, "ended")
    /\ UNCHANGED <<status, failures, badCleanups, notice, shutdown>>

(* The owner is notified that the loop was given up. *)
Tell(l) ==
    /\ at[l] = "telling" /\ l \notin cancelled
    /\ To(l, "ended")
    /\ \/ notice' = [notice EXCEPT ![l] = "stored"]
       \/ "dbError" \in LoopFaults /\ notice' = [notice EXCEPT ![l] = "lost"]
    /\ UNCHANGED <<status, failures, cancelled, badCleanups, shutdown>>

-----------------------------------------------------------------------------
StopAll ==
    /\ shutdown = "no"
    /\ \A l \in Loops : at[l] # "none"
    /\ cancelled' = Alive
    /\ shutdown' = "waiting"
    /\ UNCHANGED <<status, at, failures, badCleanups, notice>>

(* main() has waited 15 seconds; every cancellation has long been seen. *)
MainTimesOut ==
    /\ shutdown = "waiting" /\ cancelled = {} /\ Alive # {}
    /\ cancelled' = Alive
    /\ shutdown' = "hurried"
    /\ UNCHANGED <<status, at, failures, badCleanups, notice>>

(* stop_all() has waited 30. *)
StopTimesOut ==
    /\ shutdown = "hurried" /\ cancelled = {} /\ Alive # {}
    /\ cancelled' = Alive
    /\ shutdown' = "overdue"
    /\ UNCHANGED <<status, at, failures, badCleanups, notice>>

(* gather() is done when all wrappers are.  Only an undisturbed stop_all()
   goes on to set the statuses. *)
StopEnds ==
    /\ shutdown \in {"waiting", "hurried", "overdue"}
    /\ Alive = {}
    /\ shutdown' = "done"
    /\ status' = IF shutdown = "waiting" THEN [l \in Loops |-> "stopped"] ELSE status
    /\ UNCHANGED <<at, failures, cancelled, badCleanups, notice>>

Wrapper(l) == EnterLoop(l) \/ LoopStops(l) \/ LoopFailsToStop(l) \/ CutOff(l) \/ Tell(l)

Stop == MainTimesOut \/ StopTimesOut \/ StopEnds

TasksNext ==
    \/ \E l \in Loops : StartLoop(l) \/ Wrapper(l) \/ LoopFails(l) \/ LoopReturns(l)
    \/ StopAll \/ Stop

TasksSpec == TasksInit /\ [][TasksNext]_taskVars

(* A wrapper does not stand still, except that the loop in it may run for
   ever, and time passes.  Nothing is assumed of the loops. *)
TasksFairness ==
    /\ \A l \in Loops : WF_taskVars(Wrapper(l))
    /\ WF_taskVars(Stop)

-----------------------------------------------------------------------------
(* /health reports a loop as running by its status and its task.  The two are
   set in different places and a wrapper may be cancelled at each of its
   awaits; still a status is "running" exactly while the loop is run, ended
   wrappers included ("task finished outside our wrapper (should not
   happen)"). *)
HealthIsTrue == \A l \in Loops : status[l] = "running" <=> at[l] = "loop"

(* A failed loop is started again, or given up for good with the owner told, as
   far as the notification can be stored and shutdown leaves the time.  It is
   given up for max_restarts failures only: that is what the code counts, and
   one restart less than its docs promise (AbandonedAfterRestarts). *)
Supervised ==
    \A l \in Loops :
        status[l] = "failed"
            ~> \/ status[l] = "running"
               \/ failures[l] = MaxFailures /\ notice[l] # "none"
               \/ shutdown # "no"

(* "After max_restarts restarts the task is abandoned" (task_manager.py:149),
   and every failure but the last was followed by a restart. *)
AbandonedAfterRestarts ==
    \A l \in Loops : at[l] = "telling" => failures[l] - 1 = MaxFailures

(* A loop is run at most max_restarts times, also when a shutdown makes it
   fail, and until then only its failures end it. *)
RestartsBounded ==
    \A l \in Loops :
        /\ at[l] \in {"loop", "backoff"} => failures[l] < MaxFailures
        /\ at[l] = "telling" => failures[l] = MaxFailures
        /\ at[l] = "ended" /\ status[l] = "failed" /\ shutdown = "no"
              => failures[l] = MaxFailures

(* A loop that fails to stop is started again in the middle of the shutdown.
   Three cancellations are enough for a loop that fails to stop twice. *)
ShutdownEnds == shutdown = "waiting" ~> shutdown = "done"
=============================================================================
