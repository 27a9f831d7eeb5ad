----------------------- MODULE ToolConfirmationProofs -----------------------
(***************************************************************************)
(* ToolConfirmation implements Approval for any users, actions, presses    *)
(* and locks, through restarts and database errors, as long as no callback *)
(* times out: it is the timeout's replacement of the lock that breaks it   *)
(* (the run confirm_lock_replaced).                                        *)
(***************************************************************************)
EXTENDS ToolConfirmation, TLAPS

(* The presses that use the user's lock, and those that are inside it. *)
Locking == {"confirm", "found", "cancel", "deleting"}

LockInv ==
    /\ \A u, v \in Users : table[u] = table[v] => u = v
    /\ \A p \in Presses : pc[p] \in Locking => want[p] = table[By[p]]
    /\ \A p \in Presses : pc[p] \in {"found", "deleting"} => holder[want[p]] = p

(* A press that found a row may rely on it: the row is still there when the
   press deletes it, because everybody who could delete it needs the lock. *)
RowInv ==
    /\ \A p \in Presses :
          pc[p] = "found" => act[p] \in stored \cap DbRoute /\ Mine(p, act[p])
    /\ \A p \in Presses : pc[p] = "deleting" => Mine(p, act[p])

(* An action that is claimed or has run cannot be claimed again. *)
ClaimInv ==
    /\ \A p \in Presses :
          pc[p] = "run" => act[p] \notin stored /\ runs[act[p]] = 0
    /\ \A p, q \in Presses :
          pc[p] = "run" /\ pc[q] = "run" /\ act[p] = act[q] => p = q
    /\ \A a \in Actions : runs[a] > 0 => a \notin stored /\ a \in asked
    /\ AtMostOnce

IInv == TypeOK /\ LockInv /\ RowInv /\ ClaimInv

-----------------------------------------------------------------------------
LEMMA InitIInv == Init => IInv
  BY ConfirmationAssumption, LockAssumption
  DEF Init, LockInit, IInv, TypeOK, LockTypeOK, LockInv, RowInv, ClaimInv, AtMostOnce, Locking

LEMMA NextTypeOK ==
  ASSUME TypeOK, Next
  PROVE  TypeOK'
  <1> USE ConfirmationAssumption, LockAssumption
  <1>1. ASSUME NEW a \in Actions, Store(a) \/ Expire(a) \/ PurgeDb(a)
        PROVE  TypeOK'
    BY <1>1 DEF TypeOK, LockTypeOK, Store, Expire, PurgeDb, Purged, lockVars
  <1>2. ASSUME NEW p \in Presses, NEW a \in Actions,
               ClaimMemory(p, a) \/ ConfirmDb(p, a)
        PROVE  TypeOK'
    BY <1>2 DEF TypeOK, LockTypeOK, ClaimMemory, ConfirmDb, Goto, Fetch, Purged, lockVars
  <1>3. ASSUME NEW p \in Presses, NEW a \in Actions,
               CancelMemory(p, a) \/ CancelDb(p, a)
        PROVE  TypeOK'
    BY <1>3 DEF TypeOK, LockTypeOK, CancelMemory, CancelDb, Goto, Fetch, Purged, Tell, lockVars
  <1>4. ASSUME NEW p \in Presses, FindRow(p) \/ CancelFindRow(p)
        PROVE  TypeOK'
    BY <1>4 DEF TypeOK, LockTypeOK, FindRow, CancelFindRow, Enter
  <1>5. ASSUME NEW p \in Presses, MissRow(p) \/ CancelMissRow(p)
        PROVE  TypeOK'
    BY <1>5 DEF TypeOK, LockTypeOK, MissRow, CancelMissRow, EnterLeave, Stop, Goto, Tell
  <1>6. ASSUME NEW p \in Presses, ClaimRow(p) \/ CancelRow(p) \/ DbError(p)
        PROVE  TypeOK'
    BY <1>6 DEF TypeOK, LockTypeOK, ClaimRow, CancelRow, DbError, Exit, Out, Stop, Goto, Tell
  <1>7. ASSUME NEW p \in Presses, Execute(p) \/ NoMessage(p)
        PROVE  TypeOK'
    BY <1>7 DEF TypeOK, LockTypeOK, Execute, NoMessage, Stop, Goto, lockVars
  <1>8. ASSUME PurgeMemory \/ Restart
        PROVE  TypeOK'
    BY <1>8 DEF TypeOK, LockTypeOK, PurgeMemory, Restart, Purged, lockVars
  <1>9. ASSUME NEW p \in Presses, Timeout(p)
        PROVE  TypeOK'
    <2>1. By[p] \in Users
      OBVIOUS
    <2>2. LockTypeOK'
      BY <1>9, <2>1 DEF TypeOK, LockTypeOK, Timeout, Exit, ExitAndReplace, Out
    <2> QED
      BY <1>9, <2>2 DEF TypeOK, Timeout, Stop, Goto
  <1> QED
    BY <1>1, <1>2, <1>3, <1>4, <1>5, <1>6, <1>7, <1>8, <1>9 DEF Next

LEMMA NextLockInv ==
  ASSUME TypeOK, LockInv, Next, "timeout" \notin Faults
  PROVE  LockInv'
  <1> USE ConfirmationAssumption, LockAssumption
  <1>1. ASSUME NEW a \in Actions, Store(a) \/ Expire(a) \/ PurgeDb(a)
        PROVE  LockInv'
    BY <1>1 DEF LockInv, Store, Expire, PurgeDb, lockVars
  <1>2. ASSUME NEW p \in Presses, NEW a \in Actions,
               ClaimMemory(p, a) \/ CancelMemory(p, a)
        PROVE  LockInv'
    BY <1>2 DEF TypeOK, LockInv, ClaimMemory, CancelMemory, Goto, Locking, lockVars
  <1>3. ASSUME NEW p \in Presses, NEW a \in Actions, ConfirmDb(p, a) \/ CancelDb(p, a)
        PROVE  LockInv'
    BY <1>3 DEF TypeOK, LockTypeOK, LockInv, ConfirmDb, CancelDb, Goto, Fetch, Locking
  <1>4. ASSUME NEW p \in Presses, FindRow(p) \/ CancelFindRow(p)
        PROVE  LockInv'
    BY <1>4 DEF TypeOK, LockTypeOK, LockInv, FindRow, CancelFindRow, Enter, Locking
  <1>5. ASSUME NEW p \in Presses, MissRow(p) \/ CancelMissRow(p)
        PROVE  LockInv'
    BY <1>5 DEF TypeOK, LockTypeOK, LockInv, MissRow, CancelMissRow, EnterLeave, Stop, Goto, Locking
  <1>6. ASSUME NEW p \in Presses, ClaimRow(p) \/ CancelRow(p) \/ DbError(p)
        PROVE  LockInv'
    BY <1>6, SMTT(30) DEF TypeOK, LockTypeOK, LockInv, ClaimRow, CancelRow, DbError, Exit, Out, Inside,
                Stop, Goto, Locking
  <1>7. ASSUME NEW p \in Presses, Execute(p) \/ NoMessage(p)
        PROVE  LockInv'
    BY <1>7 DEF TypeOK, LockInv, Execute, NoMessage, Stop, Goto, Locking, lockVars
  <1>8. ASSUME PurgeMemory \/ Restart
        PROVE  LockInv'
    BY <1>8 DEF LockInv, PurgeMemory, Restart, Locking, lockVars
  <1>9. \A p \in Presses : ~Timeout(p)
    BY DEF Timeout
  <1> QED
    BY <1>1, <1>2, <1>3, <1>4, <1>5, <1>6, <1>7, <1>8, <1>9 DEF Next

(* Two presses on the same action of the same user are never both inside. *)
LEMMA Exclusion ==
  ASSUME TypeOK, LockInv, NEW p \in Presses, NEW q \in Presses,
         pc[p] \in {"found", "deleting"}, pc[q] \in {"found", "deleting"},
         act[p] = act[q], Mine(p, act[p]), Mine(q, act[q])
  PROVE  p = q
  BY DEF LockInv, Mine, Locking

(* A press that enters meets nobody inside for its action. *)
LEMMA Alone ==
  ASSUME TypeOK, LockInv, NEW p \in Presses, NEW q \in Presses,
         pc[p] \in Locking, holder[want[p]] = Nobody,
         pc[q] \in {"found", "deleting"}, Mine(p, act[p]), Mine(q, act[q])
  PROVE  act[p] # act[q]
  BY LockAssumption DEF LockInv, Mine, Locking

LEMMA NextRowInv ==
  ASSUME TypeOK, LockInv, RowInv, Next, "timeout" \notin Faults
  PROVE  RowInv'
  <1> USE ConfirmationAssumption, LockAssumption
  <1>1. ASSUME NEW a \in Actions, Store(a) \/ Expire(a) \/ PurgeDb(a)
        PROVE  RowInv'
    BY <1>1 DEF RowInv, Store, Expire, PurgeDb, Purged, Mine
  <1>2. ASSUME NEW p \in Presses, NEW a \in Actions,
               ClaimMemory(p, a) \/ CancelMemory(p, a) \/ ConfirmDb(p, a) \/ CancelDb(p, a)
        PROVE  RowInv'
    BY <1>2 DEF TypeOK, RowInv, ClaimMemory, CancelMemory, ConfirmDb, CancelDb, Goto, Purged, Mine
  <1>3. ASSUME NEW p \in Presses, FindRow(p) \/ CancelFindRow(p)
        PROVE  RowInv'
    BY <1>3 DEF TypeOK, RowInv, FindRow, CancelFindRow, Mine
  <1>4. ASSUME NEW p \in Presses, MissRow(p)
        PROVE  RowInv'
    <2>1. ASSUME NEW q \in Presses, pc[q] = "found", Mine(p, act[p])
          PROVE  act[p] # act[q]
      BY <1>4, <2>1, Alone DEF MissRow, EnterLeave, RowInv, Locking
    <2> QED
      BY <1>4, <2>1 DEF TypeOK, RowInv, MissRow, Stop, Goto, Mine
  <1>5. ASSUME NEW p \in Presses, ClaimRow(p) \/ CancelRow(p)
        PROVE  RowInv'
    <2>1. ASSUME NEW q \in Presses, pc[q] = "found", act[p] = act[q]
          PROVE  p = q
      BY <1>5, <2>1, Exclusion DEF ClaimRow, CancelRow, RowInv
    <2> QED
      BY <1>5, <2>1 DEF TypeOK, RowInv, ClaimRow, CancelRow, Stop, Goto, Mine
  <1>6. ASSUME NEW p \in Presses, CancelMissRow(p) \/ DbError(p) \/ Execute(p) \/ NoMessage(p)
        PROVE  RowInv'
    BY <1>6 DEF TypeOK, RowInv, CancelMissRow, DbError, Execute, NoMessage, Stop, Goto, Mine
  <1>7. ASSUME PurgeMemory \/ Restart
        PROVE  RowInv'
    BY <1>7 DEF RowInv, PurgeMemory, Restart, Purged, Mine
  <1>8. \A p \in Presses : ~Timeout(p)
    BY DEF Timeout
  <1> QED
    BY <1>1, <1>2, <1>3, <1>4, <1>5, <1>6, <1>7, <1>8 DEF Next

LEMMA NextClaimInv ==
  ASSUME TypeOK, RowInv, ClaimInv, Next, "timeout" \notin Faults
  PROVE  ClaimInv'
  <1> USE ConfirmationAssumption, LockAssumption
  <1>1. ASSUME NEW a \in Actions, Store(a) \/ Expire(a) \/ PurgeDb(a)
        PROVE  ClaimInv'
    BY <1>1 DEF TypeOK, ClaimInv, AtMostOnce, Store, Expire, PurgeDb, Purged
  <1>2. ASSUME NEW p \in Presses, NEW a \in Actions, ClaimMemory(p, a)
        PROVE  ClaimInv'
    BY <1>2 DEF TypeOK, ClaimInv, AtMostOnce, ClaimMemory, Goto, Purged
  <1>3. ASSUME NEW p \in Presses, NEW a \in Actions,
               CancelMemory(p, a) \/ ConfirmDb(p, a) \/ CancelDb(p, a)
        PROVE  ClaimInv'
    BY <1>3 DEF TypeOK, ClaimInv, AtMostOnce, CancelMemory, ConfirmDb, CancelDb, Goto, Purged
  <1>4. ASSUME NEW p \in Presses, FindRow(p) \/ CancelFindRow(p)
        PROVE  ClaimInv'
    BY <1>4 DEF TypeOK, ClaimInv, AtMostOnce, FindRow, CancelFindRow
  <1>5. ASSUME NEW p \in Presses, ClaimRow(p)
        PROVE  ClaimInv'
    BY <1>5 DEF TypeOK, ClaimInv, AtMostOnce, RowInv, ClaimRow, Goto
  <1>6. ASSUME NEW p \in Presses,
               MissRow(p) \/ CancelMissRow(p) \/ CancelRow(p) \/ DbError(p) \/ NoMessage(p)
        PROVE  ClaimInv'
    BY <1>6 DEF TypeOK, ClaimInv, AtMostOnce, MissRow, CancelMissRow, CancelRow, DbError, NoMessage, Stop, Goto
  <1>7. ASSUME NEW p \in Presses, Execute(p)
        PROVE  ClaimInv'
    BY <1>7 DEF TypeOK, ClaimInv, AtMostOnce, Execute, Stop, Goto
  <1>8. ASSUME PurgeMemory \/ Restart
        PROVE  ClaimInv'
    BY <1>8 DEF TypeOK, ClaimInv, AtMostOnce, PurgeMemory, Restart, Purged
  <1>9. \A p \in Presses : ~Timeout(p)
    BY DEF Timeout
  <1> QED
    BY <1>1, <1>2, <1>3, <1>4, <1>5, <1>6, <1>7, <1>8, <1>9 DEF Next

LEMMA NextIInv ==
  ASSUME "timeout" \notin Faults
  PROVE  IInv /\ [Next]_vars => IInv'
  <1> SUFFICES ASSUME IInv, [Next]_vars
               PROVE  IInv'
    OBVIOUS
  <1>1. CASE Next
    BY <1>1, NextTypeOK, NextLockInv, NextRowInv, NextClaimInv DEF IInv
  <1>2. CASE UNCHANGED vars
    BY <1>2 DEF vars, state, lockVars, IInv, TypeOK, LockTypeOK, LockInv, RowInv, ClaimInv, AtMostOnce, Mine
  <1> QED
    BY <1>1, <1>2

(* TypeOK and CancelInv hold whatever times out. *)
LEMMA NextTypeOKBox == TypeOK /\ [Next]_vars => TypeOK'
  <1> SUFFICES ASSUME TypeOK, [Next]_vars
               PROVE  TypeOK'
    OBVIOUS
  <1>1. CASE Next
    BY <1>1, NextTypeOK
  <1>2. CASE UNCHANGED vars
    BY <1>2 DEF vars, state, lockVars, TypeOK, LockTypeOK
  <1> QED
    BY <1>1, <1>2

-----------------------------------------------------------------------------
(* How the steps of the buttons change what Approval sees of them. *)
LEMMA RunStarts ==
  ASSUME TypeOK, NEW p \in Presses, NEW a \in Actions, pc[p] # "run", Goto(p, "run", a)
  PROVE  Claimed' = Claimed \cup {a}
  BY DEF TypeOK, Goto, Claimed

LEMMA RunEnds ==
  ASSUME TypeOK, ClaimInv, NEW p \in Presses, pc[p] = "run", Stop(p)
  PROVE  Claimed' = Claimed \ {act[p]}
  BY DEF TypeOK, ClaimInv, Stop, Goto, Claimed

LEMMA OtherGoto ==
  ASSUME TypeOK, NEW p \in Presses, pc[p] # "run", NEW l, l # "run", NEW a, Goto(p, l, a)
  PROVE  Claimed' = Claimed
  BY DEF TypeOK, Goto, Claimed

LEMMA InitRefines == Init => Promise!Init
  BY DEF Init, Promise!Init, Open, Found, Claimed, Ran

LEMMA NextRefines ==
  ASSUME IInv, Next, "timeout" \notin Faults
  PROVE  [Promise!Next]_<<asked, Open, Claimed, Ran>>
  <1> USE ConfirmationAssumption, LockAssumption DEF IInv
  <1>1. ASSUME NEW a \in Actions, Store(a)
        PROVE  Promise!Ask(a)
    <2>1. Claimed' = Claimed /\ Ran' = Ran
      BY <1>1 DEF Store, Claimed, Ran
    <2>2. a \in Open' /\ Open' \subseteq Open \cup {a}
      BY <1>1 DEF Store, Open, Found, Purged, TypeOK
    <2> QED
      BY <1>1, <2>1, <2>2 DEF Store, Promise!Ask
  <1>2. ASSUME NEW a \in Actions, Expire(a) \/ PurgeDb(a)
        PROVE  Promise!Withdraw
    BY <1>2 DEF Expire, PurgeDb, Open, Found, Claimed, Ran, Promise!Withdraw
  <1>3. ASSUME NEW p \in Presses, NEW a \in Actions, ClaimMemory(p, a)
        PROVE  Promise!Claim(a)
    <2>1. Claimed' = Claimed \cup {a} /\ Ran' = Ran
      BY <1>3, RunStarts DEF ClaimMemory, Ran
    <2>2. a \in Open /\ Open' \subseteq Open \ {a}
      BY <1>3 DEF TypeOK, ClaimMemory, Goto, Open, Found, Purged
    <2> QED
      BY <1>3, <2>1, <2>2 DEF ClaimMemory, Promise!Claim
  <1>4. ASSUME NEW p \in Presses, NEW a \in Actions,
               ConfirmDb(p, a) \/ CancelMemory(p, a) \/ CancelDb(p, a)
        PROVE  Promise!Withdraw
    <2>1. Claimed' = Claimed
      BY <1>4, OtherGoto DEF ConfirmDb, CancelMemory, CancelDb, Claimed
    <2>2. Open' \subseteq Open
      BY <1>4 DEF TypeOK, ConfirmDb, CancelMemory, CancelDb, Goto, Open, Found, Purged
    <2> QED
      BY <1>4, <2>1, <2>2 DEF ConfirmDb, CancelMemory, CancelDb, Ran, Promise!Withdraw
  <1>5. ASSUME NEW p \in Presses, FindRow(p) \/ CancelFindRow(p)
        PROVE  Promise!Withdraw
    <2>1. Open' \subseteq Open
      BY <1>5 DEF TypeOK, FindRow, CancelFindRow, Open, Found
    <2>2. Claimed' = Claimed
      BY <1>5 DEF TypeOK, FindRow, CancelFindRow, Claimed
    <2> QED
      BY <1>5, <2>1, <2>2 DEF FindRow, CancelFindRow, Ran, Promise!Withdraw
  <1>6. ASSUME NEW p \in Presses, MissRow(p) \/ CancelMissRow(p) \/ CancelRow(p) \/ DbError(p)
        PROVE  Promise!Withdraw
    <2>1. Claimed' = Claimed
      BY <1>6, OtherGoto DEF MissRow, CancelMissRow, CancelRow, DbError, Stop
    <2>2. Open' \subseteq Open
      BY <1>6 DEF TypeOK, MissRow, CancelMissRow, CancelRow, DbError, Stop, Goto, Open, Found
    <2> QED
      BY <1>6, <2>1, <2>2 DEF MissRow, CancelMissRow, CancelRow, DbError, Ran, Promise!Withdraw
  <1>7. ASSUME NEW p \in Presses, ClaimRow(p)
        PROVE  \E a \in Actions : Promise!Claim(a)
    <2>1. act[p] \in Actions /\ act[p] \in stored \cap DbRoute
      BY <1>7 DEF TypeOK, RowInv, ClaimRow
    <2>2. Claimed' = Claimed \cup {act[p]} /\ Ran' = Ran
      BY <1>7, <2>1, RunStarts DEF ClaimRow, Ran
    <2>3. act[p] \in Open /\ Open' \subseteq Open \ {act[p]}
      BY <1>7, <2>1 DEF TypeOK, ClaimRow, Goto, Open, Found
    <2> QED
      BY <1>7, <2>1, <2>2, <2>3 DEF ClaimRow, Promise!Claim
  <1>8. ASSUME NEW p \in Presses, Execute(p)
        PROVE  \E a \in Actions : Promise!Run(a)
    <2>1. act[p] \in Actions /\ act[p] \in Claimed /\ act[p] \notin Ran
      BY <1>8 DEF TypeOK, ClaimInv, Execute, Claimed, Ran
    <2>2. Claimed' = Claimed \ {act[p]}
      BY <1>8, RunEnds DEF Execute
    <2>3. Ran' = Ran \cup {act[p]}
      BY <1>8, <2>1 DEF TypeOK, Execute, Ran
    <2>4. Open' = Open
      BY <1>8 DEF TypeOK, Execute, Stop, Goto, Open, Found
    <2> QED
      BY <1>8, <2>1, <2>2, <2>3, <2>4 DEF Execute, Promise!Run
  <1>9. ASSUME NEW p \in Presses, NoMessage(p)
        PROVE  Promise!Withdraw
    <2>1. Open' = Open
      BY <1>9 DEF TypeOK, NoMessage, Stop, Goto, Open, Found
    <2> QED
      BY <1>9, <2>1, RunEnds DEF NoMessage, Ran, Promise!Withdraw
  <1>10. ASSUME PurgeMemory \/ Restart
         PROVE  Promise!Withdraw
    BY <1>10 DEF PurgeMemory, Restart, Purged, Open, Found, Claimed, Ran, Promise!Withdraw
  <1>11. \A p \in Presses : ~Timeout(p)
    BY DEF Timeout
  <1> HIDE DEF IInv
  <1> QED
    BY <1>1, <1>2, <1>3, <1>4, <1>5, <1>6, <1>7, <1>8, <1>9, <1>10, <1>11
    DEF Next, Promise!Next

LEMMA StepRefines ==
  ASSUME "timeout" \notin Faults
  PROVE  IInv /\ [Next]_vars => [Promise!Next]_<<asked, Open, Claimed, Ran>>
  <1> SUFFICES ASSUME IInv, [Next]_vars
               PROVE  [Promise!Next]_<<asked, Open, Claimed, Ran>>
    OBVIOUS
  <1>1. CASE Next
    BY <1>1, NextRefines
  <1>2. CASE UNCHANGED vars
    BY <1>2 DEF vars, state, Open, Found, Claimed, Ran
  <1> QED
    BY <1>1, <1>2

-----------------------------------------------------------------------------
(* Every press, row, entry and lock has the shape the code gives it, in every
   execution, those in which callbacks time out included. *)
THEOREM TypeCorrect == Spec => []TypeOK
  <1>1. Init => TypeOK
    BY InitIInv DEF IInv
  <1>2. TypeOK /\ [Next]_vars => TypeOK'
    BY NextTypeOKBox
  <1> QED
    BY <1>1, <1>2, PTL DEF Spec

(* No tool call or intent runs twice, whatever the order and the number of
   presses, as long as no callback times out. *)
THEOREM RunsAtMostOnce ==
  ASSUME "timeout" \notin Faults
  PROVE  Spec => []AtMostOnce
  <1>1. Init => IInv
    BY InitIInv
  <1>2. IInv /\ [Next]_vars => IInv'
    BY NextIInv
  <1>3. IInv => AtMostOnce
    BY DEF IInv, ClaimInv
  <1> QED
    BY <1>1, <1>2, <1>3, PTL DEF Spec

(* The buttons keep the promise of Approval, as long as no callback times
   out: nothing is claimed that was withdrawn, and a claim runs once. *)
THEOREM Implements ==
  ASSUME "timeout" \notin Faults
  PROVE  Spec => KeepsPromise
  <1>1. Init => IInv
    BY InitIInv
  <1>2. IInv /\ [Next]_vars => IInv'
    BY NextIInv
  <1>3. Init => Promise!Init
    BY InitRefines
  <1>4. IInv /\ [Next]_vars => [Promise!Next]_<<asked, Open, Claimed, Ran>>
    BY StepRefines
  <1> QED
    BY <1>1, <1>2, <1>3, <1>4, PTL DEF Spec, KeepsPromise, Promise!Spec

-----------------------------------------------------------------------------
(* A press that looks for a row to cancel has a key of digits. *)
CancelInv ==
    /\ \A p \in Presses : pc[p] \in {"cancel", "deleting"} => act[p] \in NumericKey
    /\ OnlyDigitsSurvive

LEMMA NextCancelInv ==
  TypeOK /\ CancelInv /\ [Next]_vars => CancelInv'
  <1> SUFFICES ASSUME TypeOK, CancelInv, [Next]_vars
               PROVE  CancelInv'
    OBVIOUS
  <1> USE ConfirmationAssumption, LockAssumption DEF CancelInv, OnlyDigitsSurvive
  <1>1. ASSUME NEW a \in Actions, Store(a) \/ Expire(a) \/ PurgeDb(a)
        PROVE  CancelInv'
    BY <1>1 DEF TypeOK, Store, Expire, PurgeDb, Purged
  <1>2. ASSUME NEW p \in Presses, NEW a \in Actions,
               ClaimMemory(p, a) \/ ConfirmDb(p, a) \/ CancelDb(p, a)
        PROVE  CancelInv'
    BY <1>2 DEF TypeOK, ClaimMemory, ConfirmDb, CancelDb, Goto, Purged
  <1>3. ASSUME NEW p \in Presses, NEW a \in Actions, CancelMemory(p, a)
        PROVE  CancelInv'
    BY <1>3 DEF TypeOK, CancelMemory, Purged, Tell
  <1>4. ASSUME NEW p \in Presses, FindRow(p) \/ CancelFindRow(p)
        PROVE  CancelInv'
    BY <1>4 DEF TypeOK, FindRow, CancelFindRow
  <1>5. ASSUME NEW p \in Presses, MissRow(p) \/ ClaimRow(p) \/ DbError(p)
        PROVE  CancelInv'
    BY <1>5 DEF TypeOK, MissRow, ClaimRow, DbError, Stop, Goto
  <1>6. ASSUME NEW p \in Presses, CancelMissRow(p) \/ CancelRow(p)
        PROVE  CancelInv'
    BY <1>6 DEF TypeOK, CancelMissRow, CancelRow, Tell, Stop, Goto
  <1>7. ASSUME NEW p \in Presses, Execute(p) \/ NoMessage(p) \/ Timeout(p)
        PROVE  CancelInv'
    BY <1>7 DEF TypeOK, Execute, NoMessage, Timeout, Stop, Goto
  <1>8. ASSUME PurgeMemory \/ Restart
        PROVE  CancelInv'
    BY <1>8 DEF PurgeMemory, Restart, Purged
  <1>9. CASE UNCHANGED vars
    BY <1>9 DEF vars, state
  <1> HIDE DEF CancelInv
  <1> QED
    BY <1>1, <1>2, <1>3, <1>4, <1>5, <1>6, <1>7, <1>8, <1>9 DEF Next

(* An action its owner has seen cancelled cannot be claimed any more, even when
   callbacks time out or fail, unless it is a memory entry with a key of
   digits: CancelRevokes, which the code does not keep, fails in no other way. *)
THEOREM CancelIsFinal ==
  Spec => []OnlyDigitsSurvive
  <1>1. Init => TypeOK
    BY InitIInv DEF IInv
  <1>2. TypeOK /\ [Next]_vars => TypeOK'
    BY NextTypeOKBox
  <1>3. Init => CancelInv
    BY DEF Init, CancelInv, OnlyDigitsSurvive
  <1>4. TypeOK /\ CancelInv /\ [Next]_vars => CancelInv'
    BY NextCancelInv
  <1>5. CancelInv => OnlyDigitsSurvive
    BY DEF CancelInv
  <1> QED
    BY <1>1, <1>2, <1>3, <1>4, <1>5, PTL DEF Spec
=============================================================================
