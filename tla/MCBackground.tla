----------------------------- MODULE MCBackground -----------------------------
(***************************************************************************)
(* The seven background components share no state, so they are checked     *)
(* side by side: subject says which of them has work in a behaviour.       *)
(***************************************************************************)
EXTENDS FactBatchBuffer, MemoryQueue, Timers, CronScheduler, KeyRotation,
        TaskManager, ProviderKeys, TLC

CONSTANTS e1, s1, j1, j2, j3, c1, k1    \* elements of Extracts, Saves, CronJobs, Askers and Slots

VARIABLE subject

others == <<batchVars, memoryVars, timerVars, cronVars, rotationVars, taskVars, keyVars>>

MCSaveOf == e1 :> s1
MCSchedules == {{0}, {1}, {}}

(* The scheduler is checked twice: two jobs that the owner edits, and three of
   which the first may be hopeless and is due before the others.  So are the
   provider's keys: two calls on one key, and one call on two. *)
MCInit ==
    /\ subject \in {"batch", "memory", "timers", "few jobs", "many jobs", "rotation",
                    "tasks", "shared key", "two keys"}
    /\ BatchInit /\ MemoryInit /\ TimersInit /\ CronInit /\ RotationInit
    /\ TasksInit /\ KeysInit
    /\ sched = (j1 :> IF subject = "many jobs" THEN {1} ELSE {})
              @@ (j2 :> {0}) @@ (j3 :> IF subject = "many jobs" THEN {0} ELSE {1})
    /\ limit = (j1 :> 0) @@ (j2 :> IF subject = "many jobs" THEN 0 ELSE MaxLimit) @@ (j3 :> 0)

(* Two edits, two troubles, or one of each, and none of them for j1. *)
FewJobs ==
    /\ edits' + troubles' <= 2
    /\ UNCHANGED <<sched[j1], limit[j1]>> /\ j1 \in enabled' \ deleted'

ManyJobs == edits' = 0 /\ troubles' <= 1

SharedKey == \A c \in Askers : using'[c] \in {k1, NoSlot}

OneCall == \A c \in Askers \ {c1} : step'[c] = "idle"

MCNext ==
    /\ UNCHANGED subject
    /\ subject # "batch" => UNCHANGED batchVars
    /\ subject # "memory" => UNCHANGED memoryVars
    /\ subject # "timers" => UNCHANGED timerVars
    /\ subject \notin {"few jobs", "many jobs"} => UNCHANGED cronVars
    /\ subject # "rotation" => UNCHANGED rotationVars
    /\ subject # "tasks" => UNCHANGED taskVars
    /\ subject \notin {"shared key", "two keys"} => UNCHANGED keyVars
    /\ \/ subject = "batch" /\ BatchNext
       \/ subject = "memory" /\ MemoryNext
       \/ subject = "timers" /\ TimersNext
       \/ subject = "few jobs" /\ CronNext /\ FewJobs
       \/ subject = "many jobs" /\ CronNext /\ ManyJobs
       \/ subject = "rotation" /\ RotationNext
       \/ subject = "tasks" /\ TasksNext
       \/ subject = "shared key" /\ KeysNext /\ SharedKey
       \/ subject = "two keys" /\ KeysNext /\ OneCall

MCFairness ==
    /\ MemoryFairness
    /\ TimersFairness
    /\ WF_cronVars(subject \in {"few jobs", "many jobs"} /\ HourPasses)
    /\ WF_cronVars(subject \in {"few jobs", "many jobs"} /\ Tick)
    /\ WF_cronVars(subject \in {"few jobs", "many jobs"} /\ Scheduler)
    /\ TasksFairness
    /\ KeysFairness

MCSpec == MCInit /\ [][MCNext]_<<subject, others>> /\ MCFairness

(* The states of the seven components are well-formed; the limits of the
   memory queue's lists, of a job's runs and of a loop's restarts are part of
   that. *)
BackgroundTypeOK ==
    /\ BatchTypeOK /\ MemoryTypeOK /\ TimersTypeOK /\ CronTypeOK
    /\ RotationTypeOK /\ TasksTypeOK /\ KeysTypeOK
=============================================================================
