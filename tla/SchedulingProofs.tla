-------------------------- MODULE SchedulingProofs --------------------------
(***************************************************************************)
(* Proofs about Timers, for any set of timers, any faults and any number   *)
(* of restarts, about CronScheduler, for any jobs, schedules, limits and   *)
(* bounds, and about TaskManager, for any loops, limit and number of       *)
(* failing cleanups.                                                       *)
(***************************************************************************)
EXTENDS Timers, CronScheduler, TaskManager, TLAPS

(* What the three tasks of a timer leave each other: an alarm that sleeps is an
   active timer; a row is written by a setting that ended well; a cancellation
   under way has stopped the alarm; whatever fires or has fired is due, so a
   load does not start it again; and a timer between its INSERT and its COMMIT
   is still active or being cancelled. *)
TimerInv(t) ==
    /\ alarm[t] = "sleeping" => t \in active
    /\ ~loaded => /\ alarm[t] = "none" /\ cancelling[t] = "idle"
                  /\ setting[t] \notin {"persisting", "committing"}
    /\ setting[t] = "new" => /\ alarm[t] = "none" /\ cancelling[t] = "idle"
                             /\ fired[t] = 0 /\ t \notin revoked
    /\ t \in rows => setting[t] = "set"
    /\ cancelling[t] # "idle" => t \notin active /\ alarm[t] = "over" /\ fired[t] = 0
    /\ alarm[t] \in {"deleting", "notifying"} \/ fired[t] # 0 => t \in due
    /\ setting[t] = "committing" => t \in due \cup active \/ cancelling[t] # "idle"

TimersInv ==
    /\ TimersTypeOK
    /\ \A t \in TimerIds : TimerInv(t)
    /\ RevokedIsGone /\ FiresOnce /\ RowsWatched

-----------------------------------------------------------------------------
LEMMA InitTimers == TimersInit => TimersInv
  <1> SUFFICES ASSUME TimersInit PROVE TimersInv
    OBVIOUS
  <1>1. restarts \in 0..MaxRestarts
    BY TimersAssumption DEF TimersInit
  <1>2. TimersTypeOK
    <2>1. fired \in [TimerIds -> 0..2]
      BY DEF TimersInit
    <2> QED
      BY <1>1, <2>1, Zenon DEF TimersInit, TimersTypeOK
  <1>3. \A t \in TimerIds : TimerInv(t)
    BY DEF TimersInit, TimerInv
  <1>4. RevokedIsGone /\ FiresOnce /\ RowsWatched
    BY DEF TimersInit, RevokedIsGone, FiresOnce, RowsWatched
  <1> QED
    BY <1>2, <1>3, <1>4 DEF TimersInv

LEMMA StutterTimers == TimersInv /\ UNCHANGED timerVars => TimersInv'
  BY DEF timerVars, memory, TimersInv, TimersTypeOK, TimerInv, RevokedIsGone, FiresOnce, RowsWatched

LEMMA LoadKeeps == TimersInv /\ Load => TimersInv'
  BY DEF Load, TimersInv, TimersTypeOK, TimerInv, RevokedIsGone, FiresOnce, RowsWatched

LEMMA StartKeeps == \A t \in TimerIds : TimersInv /\ Start(t) => TimersInv'
  BY DEF Start, TimersInv, TimersTypeOK, TimerInv, RevokedIsGone, FiresOnce, RowsWatched

LEMMA PersistKeeps == \A t \in TimerIds : TimersInv /\ Persist(t) => TimersInv'
  BY DEF Persist, TimersInv, TimersTypeOK, TimerInv, RevokedIsGone, FiresOnce, RowsWatched

LEMMA CommitKeeps == \A t \in TimerIds : TimersInv /\ Commit(t) => TimersInv'
  BY DEF Commit, TimersInv, TimersTypeOK, TimerInv, RevokedIsGone, FiresOnce, RowsWatched

LEMMA PersistFailsKeeps == \A t \in TimerIds : TimersInv /\ PersistFails(t) => TimersInv'
  BY DEF PersistFails, Cancelled, TimersInv, TimersTypeOK, TimerInv, RevokedIsGone, FiresOnce, RowsWatched

LEMMA CancelKeeps == \A t \in TimerIds : TimersInv /\ Cancel(t) => TimersInv'
  BY DEF Cancel, Cancelled, TimersInv, TimersTypeOK, TimerInv, RevokedIsGone, FiresOnce, RowsWatched

LEMMA CancelDeletesKeeps == \A t \in TimerIds : TimersInv /\ CancelDeletes(t) => TimersInv'
  BY DEF CancelDeletes, CanWrite, TimersInv, TimersTypeOK, TimerInv, RevokedIsGone, FiresOnce, RowsWatched

LEMMA TimePassesKeeps == \A t \in TimerIds : TimersInv /\ TimePasses(t) => TimersInv'
  BY DEF TimePasses, memory, TimersInv, TimersTypeOK, TimerInv, RevokedIsGone, FiresOnce, RowsWatched

LEMMA FireKeeps == \A t \in TimerIds : TimersInv /\ Fire(t) => TimersInv'
  BY DEF Fire, TimersInv, TimersTypeOK, TimerInv, RevokedIsGone, FiresOnce, RowsWatched

LEMMA FireDeletesKeeps == \A t \in TimerIds : TimersInv /\ FireDeletes(t) => TimersInv'
  BY DEF FireDeletes, CanWrite, TimersInv, TimersTypeOK, TimerInv, RevokedIsGone, FiresOnce, RowsWatched

LEMMA NotifyKeeps == \A t \in TimerIds : TimersInv /\ Notify(t) => TimersInv'
  BY DEF Notify, TimersInv, TimersTypeOK, TimerInv, RevokedIsGone, FiresOnce, RowsWatched

LEMMA RestartKeeps == TimersInv /\ TimersRestart => TimersInv'
  <1> SUFFICES ASSUME TimersInv, TimersRestart PROVE TimersInv'
    OBVIOUS
  <1> USE DEF TimersInv, TimersRestart
  <1>1. restarts' \in 0..MaxRestarts
    BY TimersAssumption DEF TimersTypeOK
  <1>2. PICK later \in SUBSET {t \in TimerIds : setting[t] # "new"} : due' = due \cup later
    OBVIOUS
  <1>3. due \subseteq due' /\ due' \in SUBSET TimerIds
    BY <1>2 DEF TimersTypeOK
  <1>4. TimersTypeOK'
    BY <1>1, <1>3 DEF TimersTypeOK
  <1>5. \A t \in TimerIds : TimerInv(t)'
    BY <1>3 DEF TimersTypeOK, TimerInv
  <1>6. (RevokedIsGone /\ FiresOnce /\ RowsWatched)'
    BY DEF TimersTypeOK, RevokedIsGone, FiresOnce, RowsWatched
  <1> QED
    BY <1>4, <1>5, <1>6

-----------------------------------------------------------------------------
(* TimersInv is inductive, and with it all that follows from it. *)
THEOREM TimersInductive == TimersSpec => []TimersInv
  <1>1. TimersInv /\ [TimersNext]_timerVars => TimersInv'
    <2> SUFFICES ASSUME TimersInv, [TimersNext]_timerVars PROVE TimersInv'
      OBVIOUS
    <2>1. CASE Load \/ TimersRestart
      BY <2>1, LoadKeeps, RestartKeeps
    <2>2. ASSUME NEW t \in TimerIds, Start(t) \/ Persist(t) \/ Commit(t) \/ PersistFails(t)
          PROVE  TimersInv'
      BY <2>2, StartKeeps, PersistKeeps, CommitKeeps, PersistFailsKeeps
    <2>3. ASSUME NEW t \in TimerIds, Cancel(t) \/ CancelDeletes(t) \/ TimePasses(t)
          PROVE  TimersInv'
      BY <2>3, CancelKeeps, CancelDeletesKeeps, TimePassesKeeps
    <2>4. ASSUME NEW t \in TimerIds, Alarm(t)
          PROVE  TimersInv'
      BY <2>4, FireKeeps, FireDeletesKeeps, NotifyKeeps DEF Alarm
    <2>5. CASE UNCHANGED timerVars
      BY <2>5, StutterTimers
    <2> QED
      BY <2>1, <2>2, <2>3, <2>4, <2>5 DEF TimersNext
  <1> QED
    BY InitTimers, <1>1, PTL DEF TimersSpec

(* Every reachable state is well-formed; an active timer has a sleeping task. *)
THEOREM TimersTyped == TimersSpec => []TimersTypeOK
  <1>1. TimersInv => TimersTypeOK
    BY DEF TimersInv
  <1> QED
    BY <1>1, TimersInductive, PTL

(* A confirmed cancellation leaves neither a task nor a row, nor a row that is
   about to be committed (_timer_cancel, _start_timer). *)
THEOREM CancelledIsGone == TimersSpec => []RevokedIsGone
  <1>1. TimersInv => RevokedIsGone
    BY DEF TimersInv
  <1> QED
    BY <1>1, TimersInductive, PTL

(* No timer fires twice, across restarts and failures to delete its row
   (_timer_task, _ensure_timer_db_loaded). *)
THEOREM FiredAtMostOnce == TimersSpec => []FiresOnce
  <1>1. TimersInv => FiresOnce
    BY DEF TimersInv
  <1> QED
    BY <1>1, TimersInductive, PTL

(* A loaded process has a task for every row that is not due. *)
THEOREM RowsAreWatched == TimersSpec => []RowsWatched
  <1>1. TimersInv => RowsWatched
    BY DEF TimersInv
  <1> QED
    BY <1>1, TimersInductive, PTL

-----------------------------------------------------------------------------
(* A delivery that has been made and not been counted yet. *)
Uncounted(j) == IF running = j /\ stage = "advancing" THEN 1 ELSE 0

(* Unless a delivery went uncounted, run_count says what was delivered; beyond
   MaxLimit neither is counted. *)
CountsAgree ==
    \A j \in CronJobs \ excused :
        \/ sent[j] = runs[j] + Uncounted(j)
        \/ runs[j] = MaxLimit /\ sent[j] = MaxLimit + 1

(* What is about to be delivered is within the limit as well. *)
LimitHolds ==
    \A j \in CronJobs \ excused : limit[j] > 0 => Deliveries(j) <= limit[j]

CronInv == CronTypeOK /\ CountsAgree /\ LimitHolds

-----------------------------------------------------------------------------
LEMMA NextRunType ==
  ASSUME NEW s, hour \in 0..(Day - 1)
  PROVE  NextRun(s) \in 0..Day \cup {Never}
  <1>1. CASE \E d \in 1..Day : FirstOf(s, d)
    <2>1. NextRun(s) = CHOOSE d \in 1..Day : FirstOf(s, d)
      BY <1>1, Zenon DEF NextRun
    <2>2. NextRun(s) \in 1..Day
      BY <1>1, <2>1, Zenon
    <2> QED
      BY <2>2, CronAssumption
  <1>2. CASE ~ \E d \in 1..Day : FirstOf(s, d)
    BY <1>2, Zenon DEF NextRun
  <1> QED
    BY <1>1, <1>2

LEMMA SoonerType ==
  ASSUME NEW d \in 0..Day \cup {Never}
  PROVE  Sooner(d) \in 0..Day \cup {Never}
  BY CronAssumption DEF Sooner, Never

LEMMA WithoutType ==
  ASSUME CronTypeOK, NEW x
  PROVE  Without(x) \in SUBSET (Times \X Times)
  BY DEF Without, CronTypeOK

LEMMA InitCron == CronInit => CronInv
  <1> SUFFICES ASSUME CronInit PROVE CronInv
    OBVIOUS
  <1>1. hour \in 0..(Day - 1)
    BY CronAssumption DEF CronInit
  <1>2. wait \in [CronJobs -> 0..Day \cup {Never}]
    BY <1>1, NextRunType DEF CronInit
  <1>3. CronTypeOK
    BY <1>1, <1>2, CronAssumption DEF CronInit, CronTypeOK, NoPlan
  <1>4. CountsAgree /\ LimitHolds
    BY CronAssumption DEF CronInit, CountsAgree, LimitHolds, Uncounted, Deliveries
  <1> QED
    BY <1>3, <1>4 DEF CronInv

LEMMA StutterCron == CronInv /\ UNCHANGED cronVars => CronInv'
  BY DEF cronVars, rowVars, loopVars, counters, CronInv, CronTypeOK, CountsAgree, LimitHolds,
         Uncounted, Deliveries, Never

(* Steps that neither deliver nor count keep the two sums. *)
LEMMA SumsKept ==
  ASSUME CronInv, UNCHANGED <<sent, runs, limit>>, excused \subseteq excused',
         \A j \in CronJobs \ excused' :
            /\ running' = j /\ stage' = "advancing" <=> running = j /\ stage = "advancing"
            /\ running' = j /\ stage' = "delivering" <=> running = j /\ stage = "delivering"
  PROVE  CountsAgree' /\ LimitHolds'
  BY DEF CronInv, CountsAgree, LimitHolds, Uncounted, Deliveries

(* The owner's transactions. *)
LEMMA OwnerKeeps ==
  ASSUME CronInv, NEW j \in CronJobs,
         Toggle(j) \/ EditSchedule(j) \/ EditTimezone(j) \/ Delete(j)
  PROVE  CronInv'
  <1>1. edits' \in 0..MaxEdits
    BY CronAssumption DEF CronInv, CronTypeOK, Editing, Toggle, EditSchedule, EditTimezone, Delete
  <1>2. UNCHANGED <<hour, waiting, running, stage, plan, sent, runs, troubles, limit, excused>>
    BY DEF Editing, loopVars, Toggle, EditSchedule, EditTimezone, Delete
  <1>3. /\ enabled' \in SUBSET CronJobs /\ deleted' \in SUBSET CronJobs
        /\ sched' \in [CronJobs -> Schedules] /\ basis' \in [CronJobs -> Schedules]
    BY DEF CronInv, CronTypeOK, Toggle, EditSchedule, EditTimezone, Delete
  <1>4. wait' \in [CronJobs -> 0..Day \cup {Never}]
    <2>1. CASE EditSchedule(j)
      <3>1. PICK s \in Schedules : wait' = [wait EXCEPT ![j] = NextRun(s)]
        BY <2>1 DEF EditSchedule
      <3>2. NextRun(s) \in 0..Day \cup {Never}
        BY NextRunType DEF CronInv, CronTypeOK
      <3> QED
        BY <3>1, <3>2 DEF CronInv, CronTypeOK
    <2>2. CASE Toggle(j) \/ EditTimezone(j) \/ Delete(j)
      BY <2>2 DEF Toggle, EditTimezone, Delete, CronInv, CronTypeOK
    <2> QED
      BY <2>1, <2>2
  <1>5. earlier' \in SUBSET (Times \X Times)
    BY WithoutType DEF CronInv, CronTypeOK, Toggle, EditSchedule, EditTimezone, Delete
  <1>6. CronTypeOK'
    BY <1>1, <1>2, <1>3, <1>4, <1>5 DEF CronInv, CronTypeOK, Never, Times
  <1>7. CountsAgree' /\ LimitHolds'
    BY <1>2, SumsKept
  <1> QED
    BY <1>6, <1>7 DEF CronInv

LEMMA EditLimitKeeps ==
  ASSUME CronInv, NEW j \in CronJobs, EditLimit(j)
  PROVE  CronInv'
  <1>1. edits' \in 0..MaxEdits
    BY CronAssumption DEF CronInv, CronTypeOK, Editing, EditLimit
  <1>2. UNCHANGED <<hour, waiting, running, stage, plan, sent, runs, troubles, enabled, deleted,
                    sched, wait, basis, earlier>>
    BY DEF Editing, loopVars, EditLimit
  <1>3. PICK k \in 0..MaxLimit :
           /\ limit' = [limit EXCEPT ![j] = k]
           /\ excused' = IF 0 < k /\ k < Deliveries(j) THEN excused \cup {j} ELSE excused
    BY DEF EditLimit
  <1>4. CronTypeOK'
    BY <1>1, <1>2, <1>3 DEF CronInv, CronTypeOK, Never, Times
  <1>5. CountsAgree'
    BY <1>2, <1>3 DEF CronInv, CountsAgree, Uncounted
  <1>6. LimitHolds'
    <2> SUFFICES ASSUME NEW i \in CronJobs, i \notin excused', limit'[i] > 0
                 PROVE  Deliveries(i)' <= limit'[i]
      BY DEF LimitHolds
    <2>1. Deliveries(i)' = Deliveries(i) /\ Deliveries(i) \in Nat
      BY <1>2, CronAssumption DEF Deliveries, CronInv, CronTypeOK
    <2>2. CASE i = j
      BY <1>3, <2>1, <2>2 DEF CronInv, CronTypeOK
    <2>3. CASE i # j
      BY <1>3, <2>1, <2>3 DEF CronInv, CronTypeOK, LimitHolds
    <2> QED
      BY <2>2, <2>3
  <1> QED
    BY <1>4, <1>5, <1>6 DEF CronInv

LEMMA HourPassesKeeps ==
  ASSUME CronInv, HourPasses
  PROVE  CronInv'
  <1>1. hour' \in 0..(Day - 1)
    BY CronAssumption DEF HourPasses, CronInv, CronTypeOK
  <1>2. wait' \in [CronJobs -> 0..Day \cup {Never}]
    BY SoonerType DEF HourPasses, CronInv, CronTypeOK
  <1>3. plan' \in (0..Day \cup {Never}) \X (Schedules \cup {{}})
    BY SoonerType DEF HourPasses, CronInv, CronTypeOK
  <1>4. CronTypeOK'
    BY <1>1, <1>2, <1>3 DEF HourPasses, CronInv, CronTypeOK, counters, Never, Times
  <1>5. CountsAgree' /\ LimitHolds'
    BY SumsKept DEF HourPasses
  <1> QED
    BY <1>4, <1>5 DEF CronInv

LEMMA TickKeeps ==
  ASSUME CronInv, Tick
  PROVE  CronInv'
  <1>1. CronTypeOK'
    BY DEF Tick, Due, CronInv, CronTypeOK, rowVars, counters, Never, Times
  <1>2. CountsAgree' /\ LimitHolds'
    BY SumsKept DEF Tick, rowVars
  <1> QED
    BY <1>1, <1>2 DEF CronInv

(* Whoever passes the second look has room for one more delivery. *)
LEMMA RecheckKeeps ==
  ASSUME CronInv, NEW j \in CronJobs, Recheck(j)
  PROVE  CronInv'
  <1>1. UNCHANGED <<hour, rowVars, sent, excused, counters>> /\ stage = "idle" /\ running = NoneRuns
    BY DEF Recheck, CronInv, CronTypeOK
  <1>2. waiting' \in SUBSET CronJobs
    BY DEF Recheck, CronInv, CronTypeOK
  <1>3. CASE MayRun(j)
    <2>1. running' = j /\ stage' = "delivering" /\ plan' = <<NextRun(sched[j]), sched[j]>>
      BY <1>3 DEF Recheck
    <2>2. plan' \in (0..Day \cup {Never}) \X (Schedules \cup {{}})
      BY <2>1, NextRunType DEF CronInv, CronTypeOK
    <2>3. CronTypeOK'
      BY <1>1, <1>2, <2>1, <2>2, CronAssumption DEF CronInv, CronTypeOK, rowVars, counters, Never
    <2>4. CountsAgree'
      BY <1>1, <2>1 DEF CronInv, CountsAgree, Uncounted, rowVars
    <2>5. LimitHolds'
      <3> SUFFICES ASSUME NEW i \in CronJobs, i \notin excused, limit[i] > 0
                   PROVE  Deliveries(i)' <= limit[i]
        BY <1>1 DEF LimitHolds, rowVars
      <3>1. CASE i = j
        <4>1. runs[j] < limit[j] /\ limit[j] <= MaxLimit /\ runs[j] \in Nat /\ limit[j] \in Nat
          BY <1>3, <3>1, CronAssumption DEF MayRun, WithinLimit, CronInv, CronTypeOK
        <4>2. sent[j] = runs[j]
          BY <1>1, <3>1, <4>1, CronAssumption DEF CronInv, CountsAgree, Uncounted, CronTypeOK
        <4>3. Deliveries(j)' = sent[j] + 1
          BY <1>1, <2>1 DEF Deliveries
        <4> QED
          BY <3>1, <4>1, <4>2, <4>3
      <3>2. CASE i # j
        BY <1>1, <2>1, <3>2 DEF Deliveries, CronInv, LimitHolds
      <3> QED
        BY <3>1, <3>2
    <2> QED
      BY <2>3, <2>4, <2>5 DEF CronInv
  <1>4. CASE ~MayRun(j)
    <2>1. UNCHANGED <<running, stage, plan>>
      BY <1>4 DEF Recheck
    <2>2. CronTypeOK'
      BY <1>1, <1>2, <2>1 DEF CronInv, CronTypeOK, rowVars, counters, Never
    <2>3. CountsAgree' /\ LimitHolds'
      BY <1>1, <2>1, SumsKept DEF rowVars
    <2> QED
      BY <2>2, <2>3 DEF CronInv
  <1> QED
    BY <1>3, <1>4

LEMMA DeliverKeeps ==
  ASSUME CronInv, Deliver
  PROVE  CronInv'
  <1>1. /\ running \in CronJobs /\ stage = "delivering" /\ stage' = "advancing"
        /\ UNCHANGED <<hour, rowVars, waiting, running, plan, excused, counters>>
    BY DEF Deliver, CronInv, CronTypeOK
  <1>2. sent' = [sent EXCEPT ![running] = IF sent[running] <= MaxLimit
                                          THEN sent[running] + 1 ELSE sent[running]]
    BY DEF Deliver
  <1>3. sent' \in [CronJobs -> 0..(MaxLimit + 1)]
    BY <1>1, <1>2, CronAssumption DEF CronInv, CronTypeOK
  <1>4. CronTypeOK'
    BY <1>1, <1>3 DEF CronInv, CronTypeOK, rowVars, counters, Never
  <1>5. CountsAgree'
    <2> SUFFICES ASSUME NEW i \in CronJobs, i \notin excused
                 PROVE  \/ sent'[i] = runs[i] + Uncounted(i)'
                        \/ runs[i] = MaxLimit /\ sent'[i] = MaxLimit + 1
      BY <1>1 DEF CountsAgree, rowVars
    <2>1. CASE i = running
      BY <1>1, <1>2, <2>1, CronAssumption DEF CronInv, CronTypeOK, CountsAgree, Uncounted
    <2>2. CASE i # running
      BY <1>1, <1>2, <2>2 DEF CronInv, CronTypeOK, CountsAgree, Uncounted
    <2> QED
      BY <2>1, <2>2
  <1>6. LimitHolds'
    <2> SUFFICES ASSUME NEW i \in CronJobs, i \notin excused, limit[i] > 0
                 PROVE  Deliveries(i)' <= limit[i]
      BY <1>1 DEF LimitHolds, rowVars
    <2>1. Deliveries(i) <= limit[i]
      BY DEF CronInv, LimitHolds
    <2>2. CASE i = running
      BY <1>1, <1>2, <2>1, <2>2, CronAssumption DEF CronInv, CronTypeOK, Deliveries
    <2>3. CASE i # running
      BY <1>1, <1>2, <2>1, <2>3 DEF CronInv, CronTypeOK, Deliveries
    <2> QED
      BY <2>2, <2>3
  <1> QED
    BY <1>4, <1>5, <1>6 DEF CronInv

-----------------------------------------------------------------------------
(* A job that ends without being counted is excused. *)
LEMMA EndExcused ==
  ASSUME CronInv, EndJob, excused' = excused \cup {running}, running \in CronJobs,
         waiting' \in SUBSET CronJobs, troubles' \in 0..MaxTroubles,
         DropPlan, UNCHANGED <<hour, edits>>,
         sent' \in [CronJobs -> 0..(MaxLimit + 1)],
         \A i \in CronJobs : i # running => sent'[i] = sent[i]
  PROVE  CronInv'
  <1>1. earlier' \in SUBSET (Times \X Times)
    BY WithoutType DEF DropPlan, CronInv
  <1>2. CronTypeOK'
    BY <1>1 DEF EndJob, DropPlan, NoPlan, CronInv, CronTypeOK, Never, Times
  <1>3. CountsAgree' /\ LimitHolds'
    BY CronAssumption DEF EndJob, DropPlan, CronInv, CronTypeOK, CountsAgree, LimitHolds, Uncounted,
                          Deliveries
  <1> QED
    BY <1>2, <1>3 DEF CronInv

LEMMA DeliveryTimesOutKeeps ==
  ASSUME CronInv, DeliveryTimesOut
  PROVE  CronInv'
  <1>1. /\ running \in CronJobs /\ EndJob /\ excused' = excused \cup {running}
        /\ DropPlan /\ UNCHANGED <<hour, waiting, edits>>
    BY DEF DeliveryTimesOut, CronInv, CronTypeOK
  <1>2. troubles' \in 0..MaxTroubles
    BY CronAssumption DEF DeliveryTimesOut, Trouble, CronInv, CronTypeOK
  <1>3. \/ sent' = sent
        \/ sent' = [sent EXCEPT ![running] = IF sent[running] <= MaxLimit
                                             THEN sent[running] + 1 ELSE sent[running]]
    BY DEF DeliveryTimesOut
  <1>4. /\ sent' \in [CronJobs -> 0..(MaxLimit + 1)]
        /\ \A i \in CronJobs : i # running => sent'[i] = sent[i]
    BY <1>1, <1>3, CronAssumption DEF CronInv, CronTypeOK
  <1>5. waiting' \in SUBSET CronJobs
    BY <1>1 DEF CronInv, CronTypeOK
  <1> QED
    BY <1>1, <1>2, <1>4, <1>5, EndExcused

LEMMA DatabaseFailsKeeps ==
  ASSUME CronInv, DatabaseFails
  PROVE  CronInv'
  <1>1. troubles' \in 0..MaxTroubles /\ UNCHANGED <<hour, sent, edits>>
    BY CronAssumption DEF DatabaseFails, Trouble, CronInv, CronTypeOK
  <1>2. waiting' \in SUBSET CronJobs
    BY DEF DatabaseFails, CronInv, CronTypeOK
  <1>3. CASE stage = "idle"
    <2>1. UNCHANGED <<rowVars, running, stage, plan, excused>>
      BY <1>3 DEF DatabaseFails
    <2>2. CronTypeOK'
      BY <1>1, <1>2, <2>1 DEF CronInv, CronTypeOK, rowVars, Never, Times
    <2>3. CountsAgree' /\ LimitHolds'
      BY <1>1, <2>1, SumsKept DEF rowVars
    <2> QED
      BY <2>2, <2>3 DEF CronInv
  <1>4. CASE stage # "idle"
    <2>1. EndJob /\ DropPlan /\ excused' = excused \cup {running} /\ running \in CronJobs
      BY <1>4 DEF DatabaseFails, CronInv, CronTypeOK
    <2> QED
      BY <1>1, <1>2, <2>1, EndExcused DEF CronInv, CronTypeOK
  <1> QED
    BY <1>3, <1>4

LEMMA CronRestartKeeps ==
  ASSUME CronInv, CronRestart
  PROVE  CronInv'
  <1>1. /\ troubles' \in 0..MaxTroubles /\ waiting' \in SUBSET CronJobs
        /\ EndJob /\ DropPlan /\ UNCHANGED <<hour, sent, edits>>
    BY CronAssumption DEF CronRestart, Trouble, CronInv, CronTypeOK
  <1>2. CASE stage = "idle"
    <2>1. excused' = excused /\ UNCHANGED <<running, stage>>
      BY <1>1, <1>2 DEF CronRestart, EndJob, CronInv, CronTypeOK
    <2>2. CronTypeOK'
      BY <1>1, <2>1, WithoutType DEF EndJob, DropPlan, NoPlan, CronInv, CronTypeOK, Never, Times
    <2>3. CountsAgree' /\ LimitHolds'
      BY <1>1, <2>1, SumsKept DEF DropPlan
    <2> QED
      BY <2>2, <2>3 DEF CronInv
  <1>3. CASE stage # "idle"
    <2>1. excused' = excused \cup {running} /\ running \in CronJobs
      BY <1>3 DEF CronRestart, CronInv, CronTypeOK
    <2> QED
      BY <1>1, <2>1, EndExcused DEF CronInv, CronTypeOK
  <1> QED
    BY <1>2, <1>3

(* advance_job counts what was delivered, or the job is excused. *)
LEMMA AdvanceKeeps ==
  ASSUME CronInv, Advance
  PROVE  CronInv'
  <1>1. /\ running \in CronJobs /\ stage = "advancing" /\ EndJob
        /\ UNCHANGED <<hour, waiting, sent, counters>>
    BY DEF Advance, CronInv, CronTypeOK
  <1>2. CASE MayRun(running)
    <2>1. /\ runs' = [runs EXCEPT ![running] = More(running)]
          /\ wait' = [wait EXCEPT ![running] = plan[1]]
          /\ basis' = [basis EXCEPT ![running] = plan[2]]
          /\ enabled' = IF plan[1] = Never THEN enabled \ {running} ELSE enabled
          /\ earlier' = {<<Advanced(p[1]), Advanced(p[2])>> : p \in Without(running)}
          /\ UNCHANGED <<deleted, limit, sched, excused>>
      BY <1>2 DEF Advance
    <2>2. More(running) \in 0..MaxLimit
      BY <1>1, <1>2, CronAssumption DEF More, MayRun, WithinLimit, CronInv, CronTypeOK
    <2>3. plan[2] \in Schedules
      BY <1>1 DEF CronInv, CronTypeOK
    <2>4. earlier' \in SUBSET (Times \X Times)
      <3>1. \A x \in Times : Advanced(x) \in Times
        BY <1>1 DEF Advanced, Times
      <3>2. Without(running) \in SUBSET (Times \X Times)
        BY WithoutType DEF CronInv
      <3> QED
        BY <2>1, <3>1, <3>2
    <2>5. CronTypeOK'
      BY <1>1, <2>1, <2>2, <2>3, <2>4 DEF EndJob, NoPlan, CronInv, CronTypeOK, counters, Never, Times
    <2>6. CountsAgree'
      <3> SUFFICES ASSUME NEW i \in CronJobs, i \notin excused
                   PROVE  \/ sent[i] = runs'[i] + Uncounted(i)'
                          \/ runs'[i] = MaxLimit /\ sent[i] = MaxLimit + 1
        BY <1>1, <2>1 DEF CountsAgree
      <3>1. Uncounted(i)' = 0
        BY <1>1 DEF EndJob, Uncounted
      <3>2. CASE i = running
        BY <1>1, <1>2, <2>1, <3>1, <3>2, CronAssumption
           DEF More, MayRun, WithinLimit, CronInv, CronTypeOK, CountsAgree, Uncounted
      <3>3. CASE i # running
        BY <1>1, <2>1, <3>1, <3>3 DEF CronInv, CronTypeOK, CountsAgree, Uncounted
      <3> QED
        BY <3>2, <3>3
    <2>7. LimitHolds'
      BY <1>1, <2>1, CronAssumption DEF EndJob, CronInv, CronTypeOK, LimitHolds, Deliveries
    <2> QED
      BY <2>5, <2>6, <2>7 DEF CronInv
  <1>3. CASE ~MayRun(running)
    <2>1. DropPlan /\ excused' = excused \cup {running}
      BY <1>3 DEF Advance
    <2> QED
      BY <1>1, <2>1, EndExcused DEF CronInv, CronTypeOK, counters
  <1> QED
    BY <1>2, <1>3

-----------------------------------------------------------------------------
(* CronInv is inductive. *)
THEOREM CronInductive == CronSpec => []CronInv
  <1>1. CronInv /\ [CronNext]_cronVars => CronInv'
    <2> SUFFICES ASSUME CronInv, [CronNext]_cronVars PROVE CronInv'
      OBVIOUS
    <2>1. ASSUME NEW j \in CronJobs,
                 Toggle(j) \/ EditSchedule(j) \/ EditTimezone(j) \/ EditLimit(j) \/ Delete(j)
          PROVE  CronInv'
      BY <2>1, OwnerKeeps, EditLimitKeeps
    <2>2. ASSUME NEW j \in CronJobs, Recheck(j) PROVE CronInv'
      BY <2>2, RecheckKeeps
    <2>3. CASE HourPasses \/ Tick \/ Deliver \/ Advance
      BY <2>3, HourPassesKeeps, TickKeeps, DeliverKeeps, AdvanceKeeps
    <2>4. CASE DeliveryTimesOut \/ DatabaseFails \/ CronRestart
      BY <2>4, DeliveryTimesOutKeeps, DatabaseFailsKeeps, CronRestartKeeps
    <2>5. CASE UNCHANGED cronVars
      BY <2>5, StutterCron
    <2> QED
      BY <2>1, <2>2, <2>3, <2>4, <2>5 DEF CronNext
  <1> QED
    BY InitCron, <1>1, PTL DEF CronSpec

(* Every reachable state is well-formed: above all run_count never exceeds the
   limits, though it is raised after the delivery. *)
THEOREM CronTyped == CronSpec => []CronTypeOK
  <1>1. CronInv => CronTypeOK
    BY DEF CronInv
  <1> QED
    BY <1>1, CronInductive, PTL

(* A job whose deliveries were all counted is delivered max_runs times at most,
   whatever the owner edits and switches meanwhile (_execute_job, advance_job). *)
THEOREM RunsWithinLimit == CronSpec => []LimitKept
  <1>1. CronInv => LimitKept
    BY DEF CronInv, CronTypeOK, LimitHolds, Deliveries, LimitKept
  <1> QED
    BY <1>1, CronInductive, PTL

-----------------------------------------------------------------------------
(* TaskManager. *)

(* A wrapper has failures left wherever it may run its loop, and none where it
   gives up; one that ended after a failure had none left, unless a shutdown
   has cut it off. *)
TasksInv ==
    /\ TasksTypeOK /\ HealthIsTrue /\ RestartsBounded
    /\ cancelled # {} => shutdown # "no"
    /\ \A l \in Loops : at[l] \in {"none", "ready"} => failures[l] < MaxFailures

LEMMA InitTasks == TasksInit => TasksInv
  BY TaskManagerAssumption
     DEF TasksInit, TasksInv, TasksTypeOK, HealthIsTrue, RestartsBounded

LEMMA StutterTasks == TasksInv /\ UNCHANGED taskVars => TasksInv'
  BY DEF TasksInv, TasksTypeOK, HealthIsTrue, RestartsBounded, taskVars

(* A failure is counted, and with the last one the wrapper gives up. *)
LEMMA FailedKeeps ==
  ASSUME NEW l \in Loops, TasksTypeOK, HealthIsTrue, RestartsBounded,
         at[l] = "loop", Failed(l)
  PROVE  /\ failures' \in [Loops -> 0..MaxFailures]
         /\ status' \in [Loops -> {"running", "failed", "stopped"}]
         /\ at' \in [Loops -> {"none", "ready", "loop", "backoff", "telling", "ended"}]
         /\ HealthIsTrue'
         /\ \A k \in Loops \ {l} : failures'[k] = failures[k] /\ at'[k] = at[k]
                                   /\ status'[k] = status[k]
         /\ \/ at'[l] = "telling" /\ failures'[l] = MaxFailures
            \/ at'[l] = "backoff" /\ failures'[l] < MaxFailures
  <1>1. failures[l] \in 0..MaxFailures /\ failures[l] < MaxFailures /\ MaxFailures \in Nat
    BY TaskManagerAssumption DEF TasksTypeOK, RestartsBounded
  <1>2. failures[l] + 1 \in 0..MaxFailures
    BY <1>1
  <1> QED
    BY <1>1, <1>2 DEF Failed, To, Says, TasksTypeOK, HealthIsTrue

LEMMA StepTasks == TasksInv /\ TasksNext => TasksInv'
  <1> SUFFICES ASSUME TasksInv, TasksNext PROVE TasksInv'
    OBVIOUS
  <1>1. ASSUME NEW l \in Loops, StartLoop(l) PROVE TasksInv'
    BY <1>1 DEF TasksInv, TasksTypeOK, HealthIsTrue, RestartsBounded, StartLoop, To
  <1>2. ASSUME NEW l \in Loops, EnterLoop(l) PROVE TasksInv'
    BY <1>2 DEF TasksInv, TasksTypeOK, HealthIsTrue, RestartsBounded, EnterLoop, To, Says
  <1>3. ASSUME NEW l \in Loops, LoopStops(l) PROVE TasksInv'
    BY <1>3 DEF TasksInv, TasksTypeOK, HealthIsTrue, RestartsBounded, LoopStops, To, Says
  <1>4. ASSUME NEW l \in Loops, LoopFailsToStop(l) PROVE TasksInv'
    <2>1. badCleanups' \in [Loops -> 0..MaxBadCleanups]
      BY <1>4, TaskManagerAssumption DEF TasksInv, TasksTypeOK, LoopFailsToStop
    <2> QED
      BY <1>4, <2>1, FailedKeeps DEF TasksInv, TasksTypeOK, RestartsBounded, LoopFailsToStop
  <1>5. ASSUME NEW l \in Loops, LoopFails(l) PROVE TasksInv'
    BY <1>5, FailedKeeps DEF TasksInv, TasksTypeOK, RestartsBounded, LoopFails
  <1>6. ASSUME NEW l \in Loops, LoopReturns(l) PROVE TasksInv'
    BY <1>6 DEF TasksInv, TasksTypeOK, HealthIsTrue, RestartsBounded, LoopReturns, To, Says
  <1>7. ASSUME NEW l \in Loops, CutOff(l) PROVE TasksInv'
    BY <1>7 DEF TasksInv, TasksTypeOK, HealthIsTrue, RestartsBounded, CutOff, To
  <1>8. ASSUME NEW l \in Loops, Tell(l) PROVE TasksInv'
    BY <1>8 DEF TasksInv, TasksTypeOK, HealthIsTrue, RestartsBounded, Tell, To
  <1>9. CASE StopAll
    BY <1>9 DEF TasksInv, TasksTypeOK, HealthIsTrue, RestartsBounded, StopAll, Alive
  <1>10. CASE MainTimesOut
    BY <1>10 DEF TasksInv, TasksTypeOK, HealthIsTrue, RestartsBounded, MainTimesOut, Alive
  <1>11. CASE StopTimesOut
    BY <1>11 DEF TasksInv, TasksTypeOK, HealthIsTrue, RestartsBounded, StopTimesOut, Alive
  <1>12. CASE StopEnds
    BY <1>12 DEF TasksInv, TasksTypeOK, HealthIsTrue, RestartsBounded, StopEnds, Alive
  <1> QED
    BY <1>1, <1>2, <1>3, <1>4, <1>5, <1>6, <1>7, <1>8, <1>9, <1>10, <1>11, <1>12
       DEF TasksNext, Wrapper, Stop

(* What the wrappers and stop_all() keep. *)
THEOREM TasksInductive == TasksSpec => []TasksInv
  BY InitTasks, StutterTasks, StepTasks, PTL DEF TasksSpec

(* Type correctness. *)
THEOREM TasksTyped == TasksSpec => []TasksTypeOK
  <1>1. TasksInv => TasksTypeOK
    BY DEF TasksInv
  <1> QED
    BY <1>1, TasksInductive, PTL

(* /health calls a loop running exactly while its wrapper runs it. *)
THEOREM HealthReportsTrue == TasksSpec => []HealthIsTrue
  <1>1. TasksInv => HealthIsTrue
    BY DEF TasksInv
  <1> QED
    BY <1>1, TasksInductive, PTL

(* A loop is not run more than max_restarts times, and before shutdown only
   max_restarts failures make its wrapper give up. *)
THEOREM RestartsWithinLimit == TasksSpec => []RestartsBounded
  <1>1. TasksInv => RestartsBounded
    BY DEF TasksInv
  <1> QED
    BY <1>1, TasksInductive, PTL
=============================================================================
