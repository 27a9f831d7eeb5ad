------------------------------- MODULE Timers -------------------------------
(***************************************************************************)
(* core/actions/mcp_timer.py and db/repos/timer_repo.py: one-shot timers   *)
(* that live as a task in memory and as a row in the database.             *)
(*                                                                         *)
(* Setting a timer starts its task first and persists it afterwards;       *)
(* cancelling takes it out of memory first and deletes the row afterwards; *)
(* firing does the same.  So three tasks may be at work on one timer.      *)
(* _timer_lock is never held across an await, so what is done under it is  *)
(* one step.  SQLite lets one transaction write at a time: from its INSERT *)
(* to its COMMIT, _start_timer keeps the other writers waiting.            *)
(*                                                                         *)
(* After a restart nothing is in memory until the tool is used again: the  *)
(* first call loads the rows.                                              *)
(***************************************************************************)
EXTENDS Naturals, FiniteSets

CONSTANTS
    TimerIds,
    TimerFaults,    \* which of "dbError", "enqueueError", "restart" happen
    MaxRestarts     \* bound on the restarts

ASSUME TimersAssumption ==
    /\ TimerFaults \subseteq {"dbError", "enqueueError", "restart"}
    /\ MaxRestarts \in Nat

VARIABLES
    loaded,     \* _db_loaded
    due,        \* timers whose sleep should be over
    active,     \* _active_timers
    alarm,      \* what the task of each timer does
    setting,    \* where _start_timer of each timer is
    cancelling, \* where _timer_cancel of each timer is
    rows,       \* committed rows
    fired,      \* notifications enqueued for each timer
    revoked,    \* timers whose cancellation was confirmed
    restarts

memory == <<active, alarm, setting, cancelling>>
timerVars == <<loaded, due, memory, rows, fired, revoked, restarts>>

TimersTypeOK ==
    /\ loaded \in BOOLEAN
    /\ due \in SUBSET TimerIds
    /\ alarm \in [TimerIds -> {"none", "sleeping", "deleting", "notifying", "over", "unheard"}]
    /\ setting \in [TimerIds -> {"new", "persisting", "committing", "set", "refused"}]
    /\ active \in SUBSET {t \in TimerIds : alarm[t] = "sleeping" /\ setting[t] # "new"}
    /\ cancelling \in [TimerIds -> {"idle", "deleting", "failed"}]
    /\ rows \in SUBSET TimerIds
    /\ fired \in [TimerIds -> 0..2]
    /\ revoked \in SUBSET TimerIds
    /\ restarts \in 0..MaxRestarts

TimersInit ==
    /\ loaded = FALSE
    /\ due = {} /\ active = {} /\ rows = {} /\ revoked = {}
    /\ alarm = [t \in TimerIds |-> "none"]
    /\ setting = [t \in TimerIds |-> "new"]
    /\ cancelling = [t \in TimerIds |-> "idle"]
    /\ fired = [t \in TimerIds |-> 0]
    /\ restarts = 0

(* No transaction is between its first write and its commit. *)
CanWrite == \A t \in TimerIds : setting[t] # "committing"

-----------------------------------------------------------------------------
(* Mutant: the rows that are overdue at the load get a task as well. *)
Load_Overdue ==
    /\ ~loaded
    /\ loaded' = TRUE
    /\ active' = active \cup rows
    /\ alarm' = [t \in TimerIds |-> IF t \in rows THEN "sleeping" ELSE alarm[t]]
    /\ UNCHANGED <<due, rows, setting, cancelling, fired, revoked, restarts>>

(* Mutant: a load that fails after its query is not repeated. *)
Load_Nothing ==
    /\ ~loaded
    /\ loaded' = TRUE
    /\ UNCHANGED <<due, active, alarm, rows, setting, cancelling, fired, revoked, restarts>>

(* _ensure_timer_db_loaded, by the first call of the tool.  What is overdue is
   deleted, or passed over if it became due after the DELETE; what is not gets
   a task again. *)
Load ==
    /\ ~loaded
    /\ loaded' = TRUE
    /\ \E missed \in SUBSET (rows \cap due) : rows' = (rows \ due) \cup missed
    /\ active' = active \cup (rows \ due)
    /\ alarm' = [t \in TimerIds |-> IF t \in rows \ due THEN "sleeping" ELSE alarm[t]]
    /\ UNCHANGED <<due, setting, cancelling, fired, revoked, restarts>>

(* _start_timer: the task runs and the timer can be cancelled from now on. *)
Start(t) ==
    /\ loaded
    /\ setting[t] = "new"
    /\ setting' = [setting EXCEPT ![t] = "persisting"]
    /\ active' = active \cup {t}
    /\ alarm' = [alarm EXCEPT ![t] = "sleeping"]
    /\ UNCHANGED <<loaded, due, cancelling, rows, fired, revoked, restarts>>

(* Mutant: the INSERT is committed without looking at _active_timers again. *)
Persist_NoCheck(t) ==
    /\ setting[t] = "persisting" /\ CanWrite
    /\ setting' = [setting EXCEPT ![t] = "committing"]
    /\ UNCHANGED <<loaded, due, active, alarm, cancelling, rows, fired, revoked, restarts>>

(* The INSERT.  A timer no longer active is rolled back and reported as
   cancelled. *)
Persist(t) ==
    /\ setting[t] = "persisting" /\ CanWrite
    /\ setting' = [setting EXCEPT ![t] = IF t \in active THEN "committing" ELSE "refused"]
    /\ UNCHANGED <<loaded, due, active, alarm, cancelling, rows, fired, revoked, restarts>>

Commit(t) ==
    /\ setting[t] = "committing"
    /\ setting' = [setting EXCEPT ![t] = "set"]
    /\ rows' = rows \cup {t}
    /\ UNCHANGED <<loaded, due, active, alarm, cancelling, fired, revoked, restarts>>

Cancelled(t) == IF alarm[t] = "sleeping" THEN "over" ELSE alarm[t]

(* The database raises: the timer is withdrawn. *)
PersistFails(t) ==
    /\ "dbError" \in TimerFaults
    /\ setting[t] \in {"persisting", "committing"}
    /\ setting' = [setting EXCEPT ![t] = "refused"]
    /\ active' = active \ {t}
    /\ alarm' = [alarm EXCEPT ![t] = Cancelled(t)]
    /\ UNCHANGED <<loaded, due, cancelling, rows, fired, revoked, restarts>>

-----------------------------------------------------------------------------
(* _timer_cancel: the timer leaves _active_timers and its task is cancelled.
   Without an entry there the answer is "not found". *)
Cancel(t) ==
    /\ loaded
    /\ t \in active
    /\ active' = active \ {t}
    /\ alarm' = [alarm EXCEPT ![t] = Cancelled(t)]
    /\ cancelling' = [cancelling EXCEPT ![t] = "deleting"]
    /\ UNCHANGED <<loaded, due, setting, rows, fired, revoked, restarts>>

(* Then the row is deleted and the cancellation confirmed. *)
CancelDeletes(t) ==
    /\ cancelling[t] = "deleting"
    /\ \/ /\ CanWrite
          /\ rows' = rows \ {t}
          /\ revoked' = revoked \cup {t}
          /\ cancelling' = [cancelling EXCEPT ![t] = "idle"]
       \/ /\ "dbError" \in TimerFaults
          /\ cancelling' = [cancelling EXCEPT ![t] = "failed"]
          /\ UNCHANGED <<rows, revoked>>
    /\ UNCHANGED <<loaded, due, active, alarm, setting, fired, restarts>>

-----------------------------------------------------------------------------
TimePasses(t) ==
    /\ t \notin due
    /\ setting[t] # "new"
    /\ due' = due \cup {t}
    /\ UNCHANGED <<loaded, memory, rows, fired, revoked, restarts>>

(* _timer_task: the sleep is over. *)
Fire(t) ==
    /\ alarm[t] = "sleeping" /\ t \in due
    /\ alarm' = [alarm EXCEPT ![t] = "deleting"]
    /\ active' = active \ {t}
    /\ UNCHANGED <<loaded, due, setting, cancelling, rows, fired, revoked, restarts>>

(* Mutant: the failure to delete the row ends the task. *)
FireDeletes_Raises(t) ==
    /\ alarm[t] = "deleting"
    /\ \/ /\ CanWrite /\ rows' = rows \ {t}
          /\ alarm' = [alarm EXCEPT ![t] = "notifying"]
       \/ /\ "dbError" \in TimerFaults /\ UNCHANGED rows
          /\ alarm' = [alarm EXCEPT ![t] = "over"]
    /\ UNCHANGED <<loaded, due, active, setting, cancelling, fired, revoked, restarts>>

(* The row goes before the notification is enqueued; a failure to delete it is
   logged. *)
FireDeletes(t) ==
    /\ alarm[t] = "deleting"
    /\ alarm' = [alarm EXCEPT ![t] = "notifying"]
    /\ \/ CanWrite /\ rows' = rows \ {t}
       \/ "dbError" \in TimerFaults /\ UNCHANGED rows
    /\ UNCHANGED <<loaded, due, active, setting, cancelling, fired, revoked, restarts>>

Notify(t) ==
    /\ alarm[t] = "notifying"
    /\ \/ /\ fired' = [fired EXCEPT ![t] = IF @ < 2 THEN @ + 1 ELSE @]
          /\ alarm' = [alarm EXCEPT ![t] = "over"]
       \/ /\ "enqueueError" \in TimerFaults /\ UNCHANGED fired
          /\ alarm' = [alarm EXCEPT ![t] = "unheard"]
    /\ UNCHANGED <<loaded, due, active, setting, cancelling, rows, revoked, restarts>>

(* The process stops or crashes, and another one starts some time later.  An
   open transaction is rolled back. *)
TimersRestart ==
    /\ "restart" \in TimerFaults
    /\ restarts < MaxRestarts
    /\ restarts' = restarts + 1
    /\ loaded' = FALSE
    /\ active' = {}
    /\ alarm' = [t \in TimerIds |-> "none"]
    /\ setting' = [t \in TimerIds |->
                      IF setting[t] \in {"persisting", "committing"} THEN "refused" ELSE setting[t]]
    /\ cancelling' = [t \in TimerIds |-> "idle"]
    /\ \E later \in SUBSET {t \in TimerIds : setting[t] # "new"} : due' = due \cup later
    /\ UNCHANGED <<rows, fired, revoked>>

Alarm(t) == Fire(t) \/ FireDeletes(t) \/ Notify(t)

TimersNext ==
    \/ Load \/ TimersRestart
    \/ \E t \in TimerIds :
          \/ Start(t) \/ Persist(t) \/ Commit(t) \/ PersistFails(t)
          \/ Cancel(t) \/ CancelDeletes(t)
          \/ TimePasses(t) \/ Alarm(t)

TimersSpec == TimersInit /\ [][TimersNext]_timerVars

(* Time goes on, the event loop runs the tasks and the database answers. *)
TimersFairness ==
    \A t \in TimerIds :
        /\ WF_timerVars(TimePasses(t)) /\ WF_timerVars(Alarm(t))
        /\ WF_timerVars(Persist(t)) /\ WF_timerVars(Commit(t))

-----------------------------------------------------------------------------
(* Once a cancellation is confirmed nothing is left of the timer: neither a
   task that would fire nor a row that a later process would restore, though
   the cancelled timer may have been between its INSERT and its COMMIT. *)
RevokedIsGone ==
    \A t \in revoked :
        /\ t \notin rows \cup active
        /\ setting[t] # "committing"
        /\ alarm[t] \notin {"sleeping", "deleting", "notifying"}
        /\ fired[t] = 0

(* A timer fires once, whatever fails, and also when the process ends between
   firing and deleting the row. *)
FiresOnce ==
    \A t \in TimerIds :
        /\ fired[t] <= 1
        /\ fired[t] = 1 => alarm[t] \notin {"sleeping", "deleting", "notifying"}

(* Memory and database agree: once loaded, a row whose time is still to come
   has a task, unless a cancellation of it is on its way or has failed. *)
RowsWatched ==
    loaded => \A t \in rows \ due :
                 \/ t \in active
                 \/ cancelling[t] # "idle"

(* An active timer fires, unless it is cancelled, could not be persisted, or
   the process ends. *)
ActiveFires ==
    \A t \in TimerIds :
        t \in active ~> \/ fired[t] = 1
                        \/ alarm[t] = "unheard"
                        \/ cancelling[t] # "idle" \/ t \in revoked
                        \/ setting[t] = "refused" \/ ~loaded
=============================================================================
