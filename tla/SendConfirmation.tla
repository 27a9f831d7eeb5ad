-------------------------- MODULE SendConfirmation --------------------------
(***************************************************************************)
(* Sending a Telegram message after a confirmation: bot/handlers/send.py   *)
(* with db/repos/commitment_repo.py.                                       *)
(*                                                                         *)
(* Where a confirmed tool call is claimed first and run afterwards         *)
(* (ToolConfirmation), here the row stays until the message is sent, so    *)
(* that a failure leaves something to retry.  The user's lock is held all  *)
(* the while: reading the row, sending, and deleting it are three steps.   *)
(* Editing the text replaces the row by a new one, without the lock.       *)
(***************************************************************************)
EXTENDS ConfirmLock, Naturals

CONSTANTS
    Actions,
    Owner,          \* the user: rows, locks and dialogues are per user
    Faults,         \* which of "timeout", "restart", "sendError", "edit" can happen
    MaxDeliveries   \* bound on how often a message is sent

ASSUME SendAssumption ==
    /\ Owner \in Users
    /\ Nobody \notin Actions
    /\ Faults \subseteq {"timeout", "restart", "sendError", "edit"}
    /\ MaxDeliveries \in Nat \ {0}

VARIABLES
    asked,      \* actions whose keyboard has been shown
    stored,     \* PendingAction rows
    expired,    \* rows past their expires_at
    draft,      \* action_id of the FSM state waiting_edit
    pc,         \* where each press of a button is
    act,        \* the action of each press
    delivered,  \* how often the message of an action has been sent
    told,       \* actions the owner has read "Отправка отменена" about
    superseded, \* actions whose text the owner has replaced
    faults      \* those of Faults that happen in this behaviour

state == <<asked, stored, expired, draft, pc, act, delivered, told, superseded>>
vars == <<state, lockVars>>
sendVars == <<vars, faults>>

Goto(p, l, a) == pc' = [pc EXCEPT ![p] = l] /\ act' = [act EXCEPT ![p] = a]

Stop(p) == Goto(p, "idle", Nobody)

Init ==
    /\ LockInit
    /\ asked = {} /\ stored = {} /\ expired = {} /\ told = {} /\ superseded = {}
    /\ draft = Nobody
    /\ pc = [p \in Presses |-> "idle"]
    /\ act = [p \in Presses |-> Nobody]
    /\ delivered = [a \in Actions |-> 0]
    /\ faults \in SUBSET Faults

-----------------------------------------------------------------------------
(* _create_and_confirm, cb_pick: a new row and its keyboard. *)
Ask(a) ==
    /\ a \notin asked
    /\ asked' = asked \cup {a}
    /\ stored' = stored \cup {a}
    /\ UNCHANGED <<expired, draft, pc, act, delivered, told, superseded, lockVars>>

Expire(a) ==
    /\ a \in stored \ expired
    /\ expired' = expired \cup {a}
    /\ UNCHANGED <<asked, stored, draft, pc, act, delivered, told, superseded, lockVars>>

(* cleanup_expired_actions, an hour later: nobody is still at such a row. *)
Purge(a) ==
    /\ a \in stored \cap expired
    /\ \A p \in Presses : act[p] # a
    /\ stored' = stored \ {a}
    /\ UNCHANGED <<asked, expired, draft, pc, act, delivered, told, superseded, lockVars>>

PressConfirm(p, a) ==
    /\ pc[p] = "idle"
    /\ a \in asked
    /\ Goto(p, "confirm", a)
    /\ Fetch(p, Owner)
    /\ UNCHANGED <<asked, stored, expired, draft, delivered, told, superseded>>

(* Mutant: the row is deleted before the message is sent. *)
FindRow_DeleteFirst(p) ==
    /\ pc[p] = "confirm"
    /\ act[p] \in stored \ expired
    /\ Enter(p)
    /\ pc' = [pc EXCEPT ![p] = "found"]
    /\ stored' = stored \ {act[p]}
    /\ UNCHANGED <<asked, expired, draft, act, delivered, told, superseded>>

(* In the lock: the row exists and has not expired. *)
FindRow(p) ==
    /\ pc[p] = "confirm"
    /\ act[p] \in stored \ expired
    /\ Enter(p)
    /\ pc' = [pc EXCEPT ![p] = "found"]
    /\ UNCHANGED <<asked, stored, expired, draft, act, delivered, told, superseded>>

MissRow(p) ==
    /\ pc[p] = "confirm"
    /\ act[p] \notin stored \ expired
    /\ EnterLeave(p)
    /\ Stop(p)
    /\ UNCHANGED <<asked, stored, expired, draft, delivered, told, superseded>>

(* The send guard warns, or sending fails: the row stays. *)
Refuse(p) ==
    /\ pc[p] = "found"
    /\ Exit(p)
    /\ Stop(p)
    /\ UNCHANGED <<asked, stored, expired, draft, delivered, told, superseded>>

(* The message of act[p] reaches Telegram. *)
Deliver(p) ==
    /\ pc[p] = "found"
    /\ delivered[act[p]] < MaxDeliveries
    /\ delivered' = [delivered EXCEPT ![act[p]] = @ + 1]
    /\ pc' = [pc EXCEPT ![p] = "sent"]
    /\ UNCHANGED <<asked, stored, expired, draft, act, told, superseded, lockVars>>

DeleteRow(p) ==
    /\ pc[p] = "sent"
    /\ stored' = stored \ {act[p]}
    /\ Exit(p)
    /\ Stop(p)
    /\ UNCHANGED <<asked, expired, draft, delivered, told, superseded>>

(* The message went out, but its reply is lost and send_message raises, or the
   deletion fails and the failure is swallowed: the row stays. *)
KeepRow(p) ==
    /\ "sendError" \in faults
    /\ pc[p] = "sent"
    /\ Exit(p)
    /\ Stop(p)
    /\ UNCHANGED <<asked, stored, expired, draft, delivered, told, superseded>>

PressCancel(p, a) ==
    /\ pc[p] = "idle"
    /\ a \in asked
    /\ Goto(p, "cancel", a)
    /\ Fetch(p, Owner)
    /\ UNCHANGED <<asked, stored, expired, draft, delivered, told, superseded>>

(* Mutant: the row is deleted without waiting for the lock. *)
CancelRow_Unlocked(p) ==
    /\ pc[p] = "cancel"
    /\ want' = [want EXCEPT ![p] = Nobody]
    /\ stored' = stored \ {act[p]}
    /\ told' = told \cup {act[p]}
    /\ draft' = Nobody
    /\ Stop(p)
    /\ UNCHANGED <<asked, expired, delivered, superseded, table, holder>>

(* In the lock, for which cb_cancel waits without a timeout: the row, if any,
   is deleted, the dialogue cleared, and "cancelled" shown either way. *)
CancelRow(p) ==
    /\ pc[p] = "cancel"
    /\ EnterLeave(p)
    /\ stored' = stored \ {act[p]}
    /\ told' = told \cup {act[p]}
    /\ draft' = Nobody
    /\ Stop(p)
    /\ UNCHANGED <<asked, expired, delivered, superseded>>

(* cb_edit: the bot waits for a new text for a. *)
BeginEdit(a) ==
    /\ "edit" \in faults
    /\ a \in asked
    /\ draft' = a
    /\ UNCHANGED <<asked, stored, expired, pc, act, delivered, told, superseded, lockVars>>

(* Mutant: the edited action is stored, but its keyboard is never shown. *)
EditRow_Unshown(b) ==
    /\ draft \in stored
    /\ b \notin stored
    /\ stored' = (stored \ {draft}) \cup {b}
    /\ superseded' = superseded \cup {draft}
    /\ draft' = Nobody
    /\ UNCHANGED <<asked, expired, pc, act, delivered, told, lockVars>>

(* step_edit: the row of the draft, expired or not, gives way to a new row b
   with the new text. *)
EditRow(b) ==
    /\ draft \in stored
    /\ b \notin asked
    /\ asked' = asked \cup {b}
    /\ stored' = (stored \ {draft}) \cup {b}
    /\ superseded' = superseded \cup {draft}
    /\ draft' = Nobody
    /\ UNCHANGED <<expired, pc, act, delivered, told, lockVars>>

(* step_edit finds no row, or the owner gives up the edit. *)
EndEdit ==
    /\ draft # Nobody
    /\ draft' = Nobody
    /\ UNCHANGED <<asked, stored, expired, pc, act, delivered, told, superseded, lockVars>>

-----------------------------------------------------------------------------
(* Mutant: asyncio.timeout covers the wait for the lock only. *)
Timeout_WaitOnly(p) ==
    /\ "timeout" \in faults
    /\ pc[p] = "confirm"
    /\ ExitAndReplace(p, Owner)
    /\ Stop(p)
    /\ UNCHANGED <<asked, stored, expired, draft, delivered, told, superseded>>

(* asyncio.timeout(300) strikes the confirm press inside the lock, which hangs
   in the send or in the database; a deletion under way may still take
   effect.  As in ToolConfirmation, the one inside is the first to time out. *)
Timeout(p) ==
    /\ "timeout" \in faults
    /\ \/ pc[p] = "found" /\ UNCHANGED stored
       \/ pc[p] = "sent" /\ stored' \in {stored, stored \ {act[p]}}
    /\ ExitAndReplace(p, Owner)
    /\ Stop(p)
    /\ UNCHANGED <<asked, expired, draft, delivered, told, superseded>>

(* The process dies between any two steps; the dialogue state is in memory. *)
Restart ==
    /\ "restart" \in faults
    /\ pc' = [p \in Presses |-> "idle"]
    /\ act' = [p \in Presses |-> Nobody]
    /\ want' = [p \in Presses |-> Nobody]
    /\ holder' = [l \in Locks |-> Nobody]
    /\ draft' = Nobody
    /\ UNCHANGED <<asked, stored, expired, delivered, told, superseded, table>>

Next ==
    /\ \/ \E a \in Actions : Ask(a) \/ Expire(a) \/ Purge(a) \/ BeginEdit(a) \/ EditRow(a)
       \/ EndEdit
       \/ \E p \in Presses, a \in Actions : PressConfirm(p, a) \/ PressCancel(p, a)
       \/ \E p \in Presses :
             \/ FindRow(p) \/ MissRow(p) \/ Refuse(p) \/ Deliver(p)
             \/ DeleteRow(p) \/ KeepRow(p) \/ CancelRow(p) \/ Timeout(p)
       \/ Restart
    /\ UNCHANGED faults

Spec == Init /\ [][Next]_sendVars

(* A send may hang for ever.  What the code answers for is its timeout, and
   asyncio.Lock wakes its waiters in the order they came. *)
Fairness ==
    \A p \in Presses :
        SF_vars(FindRow(p) \/ MissRow(p) \/ CancelRow(p)) /\ WF_vars(Timeout(p))

-----------------------------------------------------------------------------
(* Rows, presses and the dialogue hold what the code can put there. *)
TypeOK ==
    /\ LockTypeOK
    /\ asked \in SUBSET Actions
    /\ stored \in SUBSET asked
    /\ expired \in SUBSET asked
    /\ told \in SUBSET asked
    /\ superseded \in SUBSET asked
    /\ draft \in asked \cup {Nobody}
    /\ pc \in [Presses -> {"idle", "confirm", "found", "sent", "cancel"}]
    /\ act \in [Presses -> asked \cup {Nobody}]
    /\ \A p \in Presses : pc[p] = "idle" <=> act[p] = Nobody
    /\ delivered \in [Actions -> Nat]
    /\ faults \in SUBSET Faults

(* "Prevents double-send race" (send.py:47): without failures no message is
   sent twice. *)
DeliveredOnce == faults \subseteq {"edit"} => \A a \in Actions : delivered[a] <= 1

(* "Serialize via the per-user confirm lock" (send.py:346-349): nothing is
   sent any more once its owner has read that it was cancelled.  A timeout
   replaces the lock and with it this promise. *)
CancelIsFinal ==
    [][\A a \in told : "timeout" \in faults \/ delivered'[a] = delivered[a]]_sendVars

(* "M-44: the row is deleted only after a successful send" (send.py:577): what
   was neither sent nor withdrawn keeps its row, whatever failed. *)
Retryable ==
    \A a \in asked \ (told \cup expired \cup superseded) :
        delivered[a] = 0 => a \in stored

(* Every press comes to an end though sends hang: the timeout "prevents
   permanent deadlock for the user", for cb_cancel too, which has none. *)
PressEnds ==
    \A p \in Presses : "timeout" \in faults /\ pc[p] # "idle" ~> pc[p] = "idle"

(* "HMAC was computed from the old text and is no longer valid"
   (send.py:418): once the owner has edited it, the old text is not sent. *)
SupersededNotSent == [][\A a \in superseded : delivered'[a] = delivered[a]]_vars
=============================================================================
