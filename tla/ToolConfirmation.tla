-------------------------- MODULE ToolConfirmation --------------------------
(***************************************************************************)
(* Confirmation of tool calls and intents: bot/handlers/free_text/         *)
(* _confirm.py, with core/security/approval.py and db/repos/               *)
(* commitment_repo.py.                                                     *)
(*                                                                         *)
(* An action of high risk is a row of the database and survives a restart; *)
(* any other is an entry of a dict in memory.  The user presses the        *)
(* confirm or the cancel button, possibly several times and both; each     *)
(* press is a task.  On the memory route a press is one atomic step.  On   *)
(* the database route it takes the user's lock, reads the row, deletes and *)
(* commits, and only then runs the tool: other tasks run in between.       *)
(*                                                                         *)
(* Signatures are left out: a button carries the signature issued for its  *)
(* own action.                                                             *)
(***************************************************************************)
EXTENDS ConfirmLock, Naturals

CONSTANTS
    Actions,
    DbRoute,        \* actions stored as PendingAction rows
    NumericKey,     \* actions whose action_key is all digits
    Owner,          \* the user an action belongs to
    By,             \* the user of each press
    Faults          \* which of "timeout", "restart", "dbError" happen

ASSUME ConfirmationAssumption ==
    /\ Nobody \notin Actions
    /\ DbRoute \subseteq NumericKey /\ NumericKey \subseteq Actions
    /\ Owner \in [Actions -> Users]
    /\ By \in [Presses -> Users]
    /\ Faults \subseteq {"timeout", "restart", "dbError"}

VARIABLES
    asked,      \* actions whose keyboard has been shown
    stored,     \* actions with a row or an entry
    expired,    \* actions past their expires_at
    pc,         \* where each press is
    act,        \* the action of each press
    runs,       \* how often each action has been executed
    told        \* actions whose owner has read that they are cancelled

state == <<asked, stored, expired, pc, act, runs, told>>
vars == <<state, lockVars>>

Mine(p, a) == Owner[a] = By[p]

(* _cleanup_stale_pending. *)
Purged(S) == {a \in S : a \in DbRoute \/ a \notin expired}

Goto(p, l, a) == pc' = [pc EXCEPT ![p] = l] /\ act' = [act EXCEPT ![p] = a]

Stop(p) == Goto(p, "idle", Nobody)

Init ==
    /\ LockInit
    /\ asked = {} /\ stored = {} /\ expired = {} /\ told = {}
    /\ pc = [p \in Presses |-> "idle"]
    /\ act = [p \in Presses |-> Nobody]
    /\ runs = [a \in Actions |-> 0]

-----------------------------------------------------------------------------
(* Mutant: the action is stored, but its keyboard is never shown. *)
Store_Unshown(a) ==
    /\ a \notin stored
    /\ stored' = (IF a \in DbRoute THEN stored ELSE Purged(stored)) \cup {a}
    /\ UNCHANGED <<asked, expired, pc, act, runs, told, lockVars>>

(* _store_confirmation: create_pending_action or memory_entry. *)
Store(a) ==
    /\ a \notin asked
    /\ asked' = asked \cup {a}
    /\ stored' = (IF a \in DbRoute THEN stored ELSE Purged(stored)) \cup {a}
    /\ UNCHANGED <<expired, pc, act, runs, told, lockVars>>

(* Time passes the expires_at of a. *)
Expire(a) ==
    /\ a \in stored \ expired
    /\ expired' = expired \cup {a}
    /\ UNCHANGED <<asked, stored, pc, act, runs, told, lockVars>>

(* Mutant: the entry is read, but stays in the dict. *)
ClaimMemory_Keep(p, a) ==
    /\ pc[p] = "idle"
    /\ a \in Purged(stored) \ DbRoute /\ Mine(p, a)
    /\ stored' = Purged(stored)
    /\ Goto(p, "run", a)
    /\ UNCHANGED <<asked, expired, runs, told, lockVars>>

(* _pop_tool_confirmation finds the entry in memory and takes it. *)
ClaimMemory(p, a) ==
    /\ pc[p] = "idle"
    /\ a \in Purged(stored) \ DbRoute /\ Mine(p, a)
    /\ stored' = Purged(stored) \ {a}
    /\ Goto(p, "run", a)
    /\ UNCHANGED <<asked, expired, runs, told, lockVars>>

(* The entry is not in memory and its key is all digits: on to the database. *)
ConfirmDb(p, a) ==
    /\ pc[p] = "idle"
    /\ a \in asked \cap NumericKey
    /\ a \notin Purged(stored) \ DbRoute
    /\ stored' = Purged(stored)
    /\ Goto(p, "confirm", a)
    /\ Fetch(p, By[p])
    /\ UNCHANGED <<asked, expired, runs, told>>

(* In the lock: the row is there, belongs to the user and has not expired. *)
FindRow(p) ==
    /\ pc[p] = "confirm"
    /\ act[p] \in stored \cap DbRoute /\ act[p] \notin expired /\ Mine(p, act[p])
    /\ Enter(p)
    /\ pc' = [pc EXCEPT ![p] = "found"]
    /\ UNCHANGED <<asked, stored, expired, act, runs, told>>

(* In the lock: no such row, or an expired one, which is deleted. *)
MissRow(p) ==
    /\ pc[p] = "confirm"
    /\ ~(act[p] \in stored \cap DbRoute /\ act[p] \notin expired /\ Mine(p, act[p]))
    /\ EnterLeave(p)
    /\ stored' = IF act[p] \in DbRoute /\ Mine(p, act[p]) THEN stored \ {act[p]} ELSE stored
    /\ Stop(p)
    /\ UNCHANGED <<asked, expired, runs, told>>

(* The row is deleted and committed, the lock released. *)
ClaimRow(p) ==
    /\ pc[p] = "found"
    /\ stored' = stored \ {act[p]}
    /\ Goto(p, "run", act[p])
    /\ Exit(p)
    /\ UNCHANGED <<asked, expired, runs, told>>

(* The tool or the intent handler is called, or the callback has no message
   any more and nothing is. *)
Execute(p) ==
    /\ pc[p] = "run"
    /\ runs' = [runs EXCEPT ![act[p]] = @ + 1]
    /\ Stop(p)
    /\ UNCHANGED <<asked, stored, expired, told, lockVars>>

NoMessage(p) ==
    /\ pc[p] = "run"
    /\ Stop(p)
    /\ UNCHANGED <<asked, stored, expired, runs, told, lockVars>>

(* _cb_tool_cancel.  "Cancelled" is shown whether there was an entry or not. *)
Tell(p, a) == told' = IF Mine(p, a) THEN told \cup {a} ELSE told

CancelMemory(p, a) ==
    /\ pc[p] = "idle"
    /\ a \in asked \ NumericKey
    /\ stored' = IF Mine(p, a) THEN Purged(stored) \ {a} ELSE Purged(stored)
    /\ Tell(p, a)
    /\ UNCHANGED <<asked, expired, pc, act, runs, lockVars>>

CancelDb(p, a) ==
    /\ pc[p] = "idle"
    /\ a \in asked \cap NumericKey
    /\ Goto(p, "cancel", a)
    /\ Fetch(p, By[p])
    /\ UNCHANGED <<asked, stored, expired, runs, told>>

CancelFindRow(p) ==
    /\ pc[p] = "cancel"
    /\ act[p] \in stored \cap DbRoute /\ Mine(p, act[p])
    /\ Enter(p)
    /\ pc' = [pc EXCEPT ![p] = "deleting"]
    /\ UNCHANGED <<asked, stored, expired, act, runs, told>>

CancelMissRow(p) ==
    /\ pc[p] = "cancel"
    /\ ~(act[p] \in stored \cap DbRoute /\ Mine(p, act[p]))
    /\ EnterLeave(p)
    /\ Tell(p, act[p])
    /\ Stop(p)
    /\ UNCHANGED <<asked, stored, expired, runs>>

(* Mutant: the session is left without deleting the row. *)
CancelRow_Keep(p) ==
    /\ pc[p] = "deleting"
    /\ Tell(p, act[p])
    /\ Stop(p)
    /\ Exit(p)
    /\ UNCHANGED <<asked, stored, expired, runs>>

CancelRow(p) ==
    /\ pc[p] = "deleting"
    /\ stored' = stored \ {act[p]}
    /\ Tell(p, act[p])
    /\ Stop(p)
    /\ Exit(p)
    /\ UNCHANGED <<asked, expired, runs>>

-----------------------------------------------------------------------------
(* asyncio.timeout(300) strikes while p is inside the lock; a commit under way
   may still take effect.  Only the confirm callback puts a new lock into the
   table.  A lock serves its waiters in the order they came and all wait
   equally long, so the time of the one inside is up first: a waiter can only
   time out as it enters, or together with the one before it. *)
Timeout(p) ==
    /\ "timeout" \in Faults
    /\ \/ pc[p] = "found" /\ ExitAndReplace(p, By[p])
       \/ pc[p] = "deleting" /\ Exit(p)
    /\ stored' \in {stored, stored \ {act[p]}}
    /\ Stop(p)
    /\ UNCHANGED <<asked, expired, runs, told>>

(* A query or the commit raises: the session rolls back. *)
DbError(p) ==
    /\ "dbError" \in Faults
    /\ pc[p] \in {"confirm", "found", "cancel", "deleting"}
    /\ Exit(p)
    /\ Stop(p)
    /\ UNCHANGED <<asked, stored, expired, runs, told>>

(* _background_cleanup_stale_pending, and presses on entries that are gone. *)
PurgeMemory ==
    /\ Purged(stored) # stored
    /\ stored' = Purged(stored)
    /\ UNCHANGED <<asked, expired, pc, act, runs, told, lockVars>>

(* cleanup_expired_actions deletes rows an hour after they expired, and no
   press that saw the row alive is that old. *)
PurgeDb(a) ==
    /\ a \in stored \cap DbRoute \cap expired
    /\ \A p \in Presses : pc[p] = "found" => act[p] # a
    /\ stored' = stored \ {a}
    /\ UNCHANGED <<asked, expired, pc, act, runs, told, lockVars>>

Restart ==
    /\ "restart" \in Faults
    /\ stored' = stored \cap DbRoute
    /\ pc' = [p \in Presses |-> "idle"]
    /\ act' = [p \in Presses |-> Nobody]
    /\ want' = [p \in Presses |-> Nobody]
    /\ holder' = [l \in Locks |-> Nobody]
    /\ UNCHANGED <<asked, expired, runs, told, table>>

Next ==
    \/ \E a \in Actions : Store(a) \/ Expire(a) \/ PurgeDb(a)
    \/ \E p \in Presses, a \in Actions :
          ClaimMemory(p, a) \/ ConfirmDb(p, a) \/ CancelMemory(p, a) \/ CancelDb(p, a)
    \/ \E p \in Presses :
          \/ FindRow(p) \/ MissRow(p) \/ ClaimRow(p) \/ Execute(p) \/ NoMessage(p)
          \/ CancelFindRow(p) \/ CancelMissRow(p) \/ CancelRow(p)
          \/ Timeout(p) \/ DbError(p)
    \/ PurgeMemory
    \/ Restart

Spec == Init /\ [][Next]_vars

(* The event loop runs every callback on, and asyncio.Lock wakes its waiters
   in the order they came. *)
Goes(p) ==
    \/ FindRow(p) \/ MissRow(p) \/ ClaimRow(p) \/ Execute(p) \/ NoMessage(p)
    \/ CancelFindRow(p) \/ CancelMissRow(p) \/ CancelRow(p)

FairSpec == Spec /\ \A p \in Presses : SF_vars(Goes(p))

-----------------------------------------------------------------------------
(* The sets, the presses and the locks hold what the code can put there. *)
TypeOK ==
    /\ LockTypeOK
    /\ asked \in SUBSET Actions
    /\ stored \in SUBSET asked
    /\ expired \in SUBSET asked
    /\ told \in SUBSET asked
    /\ pc \in [Presses -> {"idle", "confirm", "found", "cancel", "deleting", "run"}]
    /\ act \in [Presses -> asked \cup {Nobody}]
    /\ \A p \in Presses : pc[p] = "idle" <=> act[p] = Nobody
    /\ runs \in [Actions -> Nat]

Claimed == {act[p] : p \in {q \in Presses : pc[q] = "run"}}

Ran == {a \in Actions : runs[a] > 0}

Found(a) == \E p \in Presses : pc[p] = "found" /\ act[p] = a

(* The actions somebody may still claim.  A row that expires under the press
   that has just verified it is claimed all the same. *)
Open == {a \in stored : a \in expired => Found(a)}

(* The confirmation dance keeps its promise: however often and in whatever
   order the buttons are pressed, an action is claimed once, while open, and
   run for that claim only (Approval). *)
Promise == INSTANCE Approval WITH open <- Open, claimed <- Claimed, ran <- Ran

KeepsPromise == Promise!Spec

(* "prevents double-execution race" (_confirm.py:40): no action runs twice. *)
AtMostOnce == \A a \in Actions : runs[a] <= 1

(* "The action is cancelled" (_confirm.py:628): once its owner has read that,
   no button can claim the action any more, whichever route it took.  The
   route is told by the key, and a memory entry may have a key of digits. *)
CancelRevokes == told \cap stored = {}

(* Such a key is all that goes wrong: of the actions whose owner has read that
   they are cancelled, only a memory entry with a key of digits can still be
   claimed, whatever races, times out, fails or restarts. *)
OnlyDigitsSurvive == told \cap stored \subseteq NumericKey \ DbRoute

(* No press waits for ever, though others time out inside the lock, fail in
   it, or replace it under those that wait. *)
PressEnds == \A p \in Presses : pc[p] # "idle" ~> pc[p] = "idle"

=============================================================================
