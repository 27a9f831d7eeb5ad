---------------------------- MODULE ConfirmLock ----------------------------
(***************************************************************************)
(* The per-user asyncio locks of the confirmation callbacks, written twice *)
(* in the code: _get_tool_confirm_lock in bot/handlers/free_text/          *)
(* _confirm.py and _get_confirm_lock in bot/handlers/send.py.  A table     *)
(* maps a user to a lock object; a callback fetches the object, waits for  *)
(* it and, when asyncio.timeout strikes, may put a new object in the table *)
(* while others still use the old one.                                     *)
(*                                                                         *)
(* The code also evicts locks that are free and were last fetched over 300 *)
(* seconds ago.  Every wait for a lock is shorter than that, so an evicted *)
(* lock has no users and the next fetch makes a new one: to everybody it   *)
(* is the same free lock, and the model keeps it.                          *)
(***************************************************************************)
CONSTANTS
    Users,
    Presses,    \* callback tasks: one press of an inline button each
    Locks,      \* lock objects
    Nobody      \* no press, or no lock

ASSUME LockAssumption == Nobody \notin Presses /\ Nobody \notin Locks

VARIABLES
    table,      \* the lock object of each user
    want,       \* the lock object a press has fetched
    holder      \* the press inside each lock

lockVars == <<table, want, holder>>

LockTypeOK ==
    /\ table \in [Users -> Locks]
    /\ want \in [Presses -> Locks \cup {Nobody}]
    /\ holder \in [Locks -> Presses \cup {Nobody}]

LockInit ==
    /\ table \in [Users -> Locks]
    /\ \A u, v \in Users : table[u] = table[v] => u = v
    /\ want = [p \in Presses |-> Nobody]
    /\ holder = [l \in Locks |-> Nobody]

(* Press p of user u fetches the lock object. *)
Fetch(p, u) ==
    /\ want' = [want EXCEPT ![p] = table[u]]
    /\ UNCHANGED <<table, holder>>

(* Mutant: the callback does not wait for the holder. *)
Enter_Anyway(p) ==
    /\ holder' = [holder EXCEPT ![want[p]] = p]
    /\ UNCHANGED <<table, want>>

(* Press p finds the lock free and takes it. *)
Enter(p) ==
    /\ holder[want[p]] = Nobody
    /\ holder' = [holder EXCEPT ![want[p]] = p]
    /\ UNCHANGED <<table, want>>

(* Press p finds the lock free, finishes in it without giving way. *)
EnterLeave(p) ==
    /\ holder[want[p]] = Nobody
    /\ want' = [want EXCEPT ![p] = Nobody]
    /\ UNCHANGED <<table, holder>>

Inside(p) == want[p] # Nobody /\ holder[want[p]] = p

(* Mutant: whoever leaves does not release the lock. *)
Out_Keep(p) == holder

(* The locks once p is out of the one it waits for or holds. *)
Out(p) == IF Inside(p) THEN [holder EXCEPT ![want[p]] = Nobody] ELSE holder

(* The end of `async with`, however it is left. *)
Exit(p) ==
    /\ holder' = Out(p)
    /\ want' = [want EXCEPT ![p] = Nobody]
    /\ UNCHANGED table

Unused(l) ==
    /\ holder[l] = Nobody
    /\ \A p \in Presses : want[p] # l
    /\ \A u \in Users : table[u] # l

(* `except TimeoutError`: p leaves, and puts a new lock into the table if its
   own is still there. *)
ExitAndReplace(p, u) ==
    /\ holder' = Out(p)
    /\ want' = [want EXCEPT ![p] = Nobody]
    /\ IF table[u] = want[p]
       THEN \E l \in Locks : Unused(l) /\ table' = [table EXCEPT ![u] = l]
       ELSE UNCHANGED table
=============================================================================
