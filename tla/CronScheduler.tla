--------------------------- MODULE CronScheduler ---------------------------
(***************************************************************************)
(* core/scheduling/cron/scheduler.py and db/repos/cron_repo.py: repeated   *)
(* jobs.  Every tick one loop reads the due jobs, up to a limit and the    *)
(* most overdue first, and goes through them: it reads the row again,      *)
(* computes the next time, delivers outside of any transaction, and then   *)
(* counts the run and stores the next time.  The owner may edit, switch or *)
(* delete a job in between; each of these is one transaction (mcp_cron.py).*)
(*                                                                         *)
(* Times are hours of a day of Day hours; a schedule is the set of hours   *)
(* at which it fires, and a time to come is the number of hours until      *)
(* then.  No tool sets max_run_date, so that column is left out.           *)
(***************************************************************************)
EXTENDS Naturals, FiniteSets

CONSTANTS
    CronJobs,
    Hopeless,       \* jobs of which every delivery is cut off by its timeout
    MaxDue,         \* MAX_DUE_PER_TICK
    Day,            \* hours of a day
    Schedules,      \* sets of hours
    MaxLimit,       \* bound on max_runs; runs are counted up to it
    MaxEdits,       \* bound on what the owner does
    MaxTroubles,    \* bound on failures of the database, deliveries, process
    NoneRuns

ASSUME CronAssumption ==
    /\ Day \in Nat \ {0} /\ Schedules \subseteq SUBSET (0..(Day - 1))
    /\ MaxLimit \in Nat /\ MaxEdits \in Nat /\ MaxTroubles \in Nat
    /\ Hopeless \subseteq CronJobs /\ MaxDue \in Nat \ {0}
    /\ NoneRuns \notin CronJobs

VARIABLES
    hour,
    enabled,    \* enabled jobs
    deleted,    \* jobs without a row
    runs,       \* run_count
    limit,      \* max_runs; 0 is no limit
    sched,      \* cron_expression and timezone
    wait,       \* hours until next_run_at; Never for NULL
    basis,      \* the schedule from which next_run_at was computed
    earlier,    \* which of the times that have come came before which
    waiting,    \* jobs this tick has still to look at
    running,    \* the job in _execute_job
    stage,      \* where _execute_job is
    plan,       \* its next_run, as hours to go, with the schedule it is from
    sent,       \* how often the loop dispatched each job
    excused,    \* jobs of which a dispatch was not counted, or whose limit was lowered
    edits, troubles

rowVars == <<enabled, deleted, runs, limit, sched, wait, basis, earlier>>
loopVars == <<waiting, running, stage, plan>>
counters == <<edits, troubles>>
cronVars == <<hour, rowVars, loopVars, sent, excused, counters>>

Never == Day + 1
NoPlan == <<Never, {}>>

(* The times are those of the jobs, and NoneRuns stands for the one in plan. *)
Times == CronJobs \cup {NoneRuns}
TimeOf(x) == IF x = NoneRuns THEN plan[1] ELSE wait[x]

CronTypeOK ==
    /\ hour \in 0..(Day - 1)
    /\ enabled \in SUBSET CronJobs /\ deleted \in SUBSET CronJobs
    /\ runs \in [CronJobs -> 0..MaxLimit] /\ limit \in [CronJobs -> 0..MaxLimit]
    /\ sched \in [CronJobs -> Schedules] /\ basis \in [CronJobs -> Schedules]
    /\ wait \in [CronJobs -> 0..Day \cup {Never}]
    /\ earlier \in SUBSET (Times \X Times)
    /\ waiting \in SUBSET CronJobs /\ running \in CronJobs \cup {NoneRuns}
    /\ stage \in {"idle", "delivering", "advancing"}
    /\ stage = "idle" <=> running = NoneRuns
    /\ plan \in (0..Day \cup {Never}) \X (Schedules \cup {{}})
    /\ stage # "idle" => plan[2] \in Schedules
    /\ sent \in [CronJobs -> 0..(MaxLimit + 1)] /\ excused \in SUBSET CronJobs
    /\ edits \in 0..MaxEdits /\ troubles \in 0..MaxTroubles

(* get_next_run: the first time after now, if there is one. *)
Fires(s, d) == (hour + d) % Day \in s
FirstOf(s, d) == Fires(s, d) /\ \A e \in 1..(d - 1) : ~Fires(s, e)

NextRun(s) ==
    IF \E d \in 1..Day : FirstOf(s, d)
    THEN CHOOSE d \in 1..Day : FirstOf(s, d)
    ELSE Never

(* Jobs are there before the loop starts, with the time create_and_schedule
   gave them. *)
CronInit ==
    /\ hour = 0
    /\ enabled = CronJobs /\ deleted = {}
    /\ runs = [j \in CronJobs |-> 0]
    /\ limit \in [CronJobs -> {0, MaxLimit}]
    /\ sched \in [CronJobs -> Schedules] /\ basis = sched
    /\ wait = [j \in CronJobs |-> NextRun(sched[j])]
    /\ earlier = {}
    /\ waiting = {} /\ running = NoneRuns /\ stage = "idle"
    /\ plan = NoPlan
    /\ sent = [j \in CronJobs |-> 0] /\ excused = {}
    /\ edits = 0 /\ troubles = 0

WithinLimit(j) == limit[j] = 0 \/ runs[j] < limit[j]
MayRun(j) == j \notin deleted /\ j \in enabled /\ WithinLimit(j)
IsDue(j) == MayRun(j) /\ wait[j] = 0

Without(x) == {p \in earlier : p[1] # x /\ p[2] # x}

-----------------------------------------------------------------------------
(* What the owner does. *)
Editing(j) ==
    /\ j \notin deleted
    /\ edits < MaxEdits
    /\ edits' = edits + 1
    /\ UNCHANGED <<hour, loopVars, sent, runs, troubles>>

Toggle(j) ==
    /\ Editing(j)
    /\ enabled' = IF j \in enabled THEN enabled \ {j} ELSE enabled \cup {j}
    /\ UNCHANGED <<deleted, limit, sched, wait, basis, earlier, excused>>

(* cron_update with an expression. *)
EditSchedule(j) ==
    /\ Editing(j)
    /\ \E s \in Schedules :
          /\ sched' = [sched EXCEPT ![j] = s]
          /\ basis' = [basis EXCEPT ![j] = s]
          /\ wait' = [wait EXCEPT ![j] = NextRun(s)]
    /\ earlier' = Without(j)
    /\ UNCHANGED <<enabled, deleted, limit, excused>>

(* cron_update with a timezone only leaves next_run_at as it is. *)
EditTimezone(j) ==
    /\ Editing(j)
    /\ \E s \in Schedules :
          /\ s = {} <=> sched[j] = {}
          /\ sched' = [sched EXCEPT ![j] = s]
    /\ UNCHANGED <<enabled, deleted, limit, wait, basis, earlier, excused>>

(* Deliveries of a job, with the one that can no longer be stopped. *)
Deliveries(j) == sent[j] + (IF running = j /\ stage = "delivering" THEN 1 ELSE 0)

EditLimit(j) ==
    /\ Editing(j)
    /\ \E k \in 0..MaxLimit :
          /\ limit' = [limit EXCEPT ![j] = k]
          /\ excused' = IF 0 < k /\ k < Deliveries(j) THEN excused \cup {j} ELSE excused
    /\ UNCHANGED <<enabled, deleted, sched, wait, basis, earlier>>

Delete(j) ==
    /\ Editing(j)
    /\ deleted' = deleted \cup {j}
    /\ UNCHANGED <<enabled, limit, sched, wait, basis, earlier, excused>>

-----------------------------------------------------------------------------
Sooner(d) == IF d \in 1..Day THEN d - 1 ELSE d

HourPasses ==
    /\ hour' = (hour + 1) % Day
    /\ wait' = [j \in CronJobs |-> Sooner(wait[j])]
    /\ plan' = <<Sooner(plan[1]), plan[2]>>
    /\ earlier' = earlier \cup ({x \in Times : TimeOf(x) = 0} \X {x \in Times : TimeOf(x) = 1})
    /\ UNCHANGED <<enabled, deleted, runs, limit, sched, basis, waiting, running, stage,
                   sent, excused, counters>>

Due == {j \in CronJobs : IsDue(j)}

(* Mutant: the rows are read with the latest time first. *)
Tick_LatestFirst ==
    /\ stage = "idle" /\ waiting = {}
    /\ waiting' \in SUBSET Due
    /\ Cardinality(waiting') <= MaxDue
    /\ waiting' # Due => Cardinality(waiting') = MaxDue
    /\ \A i \in Due \ waiting', j \in waiting' : <<j, i>> \notin earlier
    /\ UNCHANGED <<hour, rowVars, running, stage, plan, sent, excused, counters>>

(* _tick: get_due_jobs reads up to MaxDue rows, ordered by next_run_at.  The
   order in which the loop then goes through them is left open. *)
Tick ==
    /\ stage = "idle" /\ waiting = {}
    /\ waiting' \in SUBSET Due
    /\ Cardinality(waiting') <= MaxDue
    /\ waiting' # Due => Cardinality(waiting') = MaxDue
    /\ \A i \in Due \ waiting', j \in waiting' : <<i, j>> \notin earlier
    /\ UNCHANGED <<hour, rowVars, running, stage, plan, sent, excused, counters>>

Trouble == troubles < MaxTroubles /\ troubles' = troubles + 1

(* Mutant: the next time is computed from the schedule of the last run. *)
Recheck_OldSchedule(j) ==
    /\ stage = "idle" /\ j \in waiting
    /\ waiting' = waiting \ {j}
    /\ IF MayRun(j)
       THEN /\ running' = j /\ stage' = "delivering"
            /\ plan' = <<NextRun(basis[j]), basis[j]>>
       ELSE UNCHANGED <<running, stage, plan>>
    /\ UNCHANGED <<hour, rowVars, sent, excused, counters>>

(* Mutant: only whether the job is enabled is looked at again. *)
Recheck_NoLimit(j) ==
    /\ stage = "idle" /\ j \in waiting
    /\ waiting' = waiting \ {j}
    /\ IF j \notin deleted /\ j \in enabled
       THEN /\ running' = j /\ stage' = "delivering"
            /\ plan' = <<NextRun(sched[j]), sched[j]>>
       ELSE UNCHANGED <<running, stage, plan>>
    /\ UNCHANGED <<hour, rowVars, sent, excused, counters>>

(* _execute_job reads the row again: it may have been switched off, deleted or
   used up, and is then skipped.  Whether it is still due is not asked. *)
Recheck(j) ==
    /\ stage = "idle" /\ j \in waiting
    /\ waiting' = waiting \ {j}
    /\ IF MayRun(j)
       THEN /\ running' = j /\ stage' = "delivering"
            /\ plan' = <<NextRun(sched[j]), sched[j]>>
       ELSE UNCHANGED <<running, stage, plan>>
    /\ UNCHANGED <<hour, rowVars, sent, excused, counters>>

(* The text is generated and delivered; a delivery that reports an error is
   treated as one that succeeded. *)
Deliver ==
    /\ stage = "delivering" /\ running \notin Hopeless
    /\ stage' = "advancing"
    /\ sent' = [sent EXCEPT ![running] = IF @ <= MaxLimit THEN @ + 1 ELSE @]
    /\ UNCHANGED <<hour, rowVars, waiting, running, plan, excused, counters>>

EndJob == running' = NoneRuns /\ stage' = "idle" /\ plan' = NoPlan

(* The time in plan is given up. *)
DropPlan ==
    /\ earlier' = Without(NoneRuns)
    /\ UNCHANGED <<enabled, deleted, runs, limit, sched, wait, basis>>

(* The delivery is cut off after its timeout, having done its work or not; the
   exception skips the rest of the job, which stays due. *)
DeliveryTimesOut ==
    /\ stage = "delivering"
    /\ IF running \in Hopeless THEN UNCHANGED troubles ELSE Trouble
    /\ excused' = excused \cup {running}
    /\ sent' \in {sent, [sent EXCEPT ![running] = IF @ <= MaxLimit THEN @ + 1 ELSE @]}
    /\ EndJob /\ DropPlan
    /\ UNCHANGED <<hour, waiting, edits>>

(* run_count + 1; without a limit it is only counted up to MaxLimit. *)
More(j) == IF limit[j] = 0 /\ runs[j] = MaxLimit THEN MaxLimit ELSE runs[j] + 1

(* The time in plan becomes that of the job. *)
Advanced(x) == IF x = NoneRuns THEN running ELSE x

(* advance_job: one UPDATE that counts the run and stores the time computed
   before the delivery, unless the job was switched off meanwhile. *)
Advance ==
    /\ stage = "advancing"
    /\ IF MayRun(running)
       THEN /\ runs' = [runs EXCEPT ![running] = More(running)]
            /\ wait' = [wait EXCEPT ![running] = plan[1]]
            /\ basis' = [basis EXCEPT ![running] = plan[2]]
            /\ enabled' = IF plan[1] = Never THEN enabled \ {running} ELSE enabled
            /\ earlier' = {<<Advanced(p[1]), Advanced(p[2])>> : p \in Without(running)}
            /\ UNCHANGED <<deleted, limit, sched, excused>>
       ELSE DropPlan /\ excused' = excused \cup {running}
    /\ EndJob
    /\ UNCHANGED <<hour, waiting, sent, counters>>

(* The database raises before the delivery or after it. *)
DatabaseFails ==
    /\ Trouble
    /\ \/ /\ stage = "idle"
          /\ \E j \in waiting : waiting' = waiting \ {j}
          /\ UNCHANGED <<rowVars, running, stage, plan, excused>>
       \/ /\ stage = "advancing"
          /\ excused' = excused \cup {running}
          /\ EndJob /\ DropPlan
          /\ UNCHANGED waiting
    /\ UNCHANGED <<hour, sent, edits>>

(* The process ends at any point; time passes until the next one. *)
CronRestart ==
    /\ Trouble
    /\ waiting' = {}
    /\ excused' = IF stage = "idle" THEN excused ELSE excused \cup {running}
    /\ EndJob /\ DropPlan
    /\ UNCHANGED <<hour, sent, edits>>

CronNext ==
    \/ \E j \in CronJobs :
          \/ Toggle(j) \/ EditSchedule(j) \/ EditTimezone(j) \/ EditLimit(j) \/ Delete(j)
          \/ Recheck(j)
    \/ HourPasses \/ Tick \/ Deliver \/ DeliveryTimesOut \/ Advance
    \/ DatabaseFails \/ CronRestart

CronSpec == CronInit /\ [][CronNext]_cronVars

Scheduler == (\E j \in CronJobs : Recheck(j)) \/ Deliver \/ DeliveryTimesOut \/ Advance

(* The loop goes on, a delivery ends or is cut off, and time passes. *)
CronFairness ==
    WF_cronVars(HourPasses) /\ WF_cronVars(Tick) /\ WF_cronVars(Scheduler)

CronFairSpec == CronSpec /\ CronFairness

-----------------------------------------------------------------------------
(* "max_runs: maximal number of runs" (db/models/_cron.py:39).  The limit is
   compared with runs that are counted after the delivery, in a transaction of
   their own.  As long as none went uncounted, no more are delivered. *)
LimitKept ==
    \A j \in CronJobs \ excused : limit[j] > 0 => sent[j] <= limit[j]

(* The owner's change of a schedule may be overwritten by a run that started
   before it, and a change of the timezone alone leaves the old time.  The
   next run that is counted repairs both, so a job that is not cut off every
   time is not left with a time of an old schedule for ever. *)
EditTakesEffect ==
    \A j \in CronJobs \ Hopeless :
        []<>(basis[j] = sched[j] \/ wait[j] = Never \/ ~MayRun(j))

(* "Dispatch: sends every due job" (scheduler.py:5).  A job that is cut off
   keeps its time, becomes the most overdue and is read first for ever.  As
   long as such jobs are fewer than a tick reads, every due job is run, however
   the other jobs of a tick end: skipped, failed, cut off or deleted. *)
DueRuns ==
    Cardinality(Hopeless) < MaxDue =>
        \A j \in CronJobs : []<>(running = j \/ ~IsDue(j))
=============================================================================
