----------------------- MODULE SendConfirmationProofs -----------------------
(***************************************************************************)
(* What holds of SendConfirmation for any number of actions, presses and   *)
(* locks.  Two facts carry it: at most one press is inside the user's lock *)
(* (as long as no timeout replaces it), and the press inside has read a    *)
(* row that nobody has cancelled.                                          *)
(***************************************************************************)
EXTENDS SendConfirmation, TLAPS

LockInv ==
    /\ "timeout" \notin faults
    /\ \A p \in Presses : pc[p] # "idle" => want[p] = table[Owner]
    /\ \A p \in Presses : pc[p] \in {"found", "sent"} => holder[want[p]] = p

(* What a press inside the lock may send has not been cancelled. *)
CancelInv ==
    /\ told \cap stored = {}
    /\ \A p \in Presses : pc[p] = "found" => act[p] \notin told

RetryInv ==
    /\ Retryable
    /\ \A p \in Presses : pc[p] = "sent" => delivered[act[p]] > 0

(* The row of a message that was sent is only still there while the press
   that sent it is about to delete it. *)
SentOnce == \A a \in Actions : delivered[a] <= 1

OnceInv ==
    /\ faults \subseteq {"edit"}
    /\ SentOnce
    /\ \A p \in Presses : pc[p] = "found" => delivered[act[p]] = 0
    /\ \A a \in Actions :
          delivered[a] > 0 =>
              /\ a \in asked
              /\ a \in stored => \E p \in Presses : pc[p] = "sent" /\ act[p] = a

-----------------------------------------------------------------------------
LEMMA InitTypeOK == Init => TypeOK
  BY SendAssumption, LockAssumption DEF Init, LockInit, TypeOK, LockTypeOK

LEMMA NextTypeOK == TypeOK /\ [Next]_sendVars => TypeOK'
  <1> SUFFICES ASSUME TypeOK, [Next]_sendVars
               PROVE  TypeOK'
    OBVIOUS
  <1> USE SendAssumption, LockAssumption
  <1>0. UNCHANGED faults
    BY DEF Next, sendVars
  <1>1. ASSUME NEW a \in Actions,
               Ask(a) \/ Expire(a) \/ Purge(a) \/ BeginEdit(a) \/ EditRow(a)
        PROVE  TypeOK'
    BY <1>0, <1>1
    DEF TypeOK, LockTypeOK, Ask, Expire, Purge, BeginEdit, EditRow, lockVars
  <1>2. ASSUME NEW p \in Presses, NEW a \in Actions, PressConfirm(p, a) \/ PressCancel(p, a)
        PROVE  TypeOK'
    BY <1>0, <1>2 DEF TypeOK, LockTypeOK, PressConfirm, PressCancel, Goto, Fetch
  <1>3. ASSUME NEW p \in Presses, FindRow(p) \/ Deliver(p)
        PROVE  TypeOK'
    BY <1>0, <1>3 DEF TypeOK, LockTypeOK, FindRow, Deliver, Enter, lockVars
  <1>4. ASSUME NEW p \in Presses, MissRow(p) \/ CancelRow(p)
        PROVE  TypeOK'
    BY <1>0, <1>4 DEF TypeOK, LockTypeOK, MissRow, CancelRow, EnterLeave, Stop, Goto
  <1>5. ASSUME NEW p \in Presses, Refuse(p) \/ DeleteRow(p) \/ KeepRow(p)
        PROVE  TypeOK'
    BY <1>0, <1>5 DEF TypeOK, LockTypeOK, Refuse, DeleteRow, KeepRow, Exit, Out, Stop, Goto
  <1>6. ASSUME NEW p \in Presses, Timeout(p)
        PROVE  TypeOK'
    <2>1. LockTypeOK'
      BY <1>0, <1>6 DEF TypeOK, LockTypeOK, Timeout, ExitAndReplace, Out
    <2> QED
      BY <1>0, <1>6, <2>1 DEF TypeOK, Timeout, Stop, Goto
  <1>7. CASE Restart
    BY <1>0, <1>7 DEF TypeOK, LockTypeOK, Restart
  <1>8. CASE EndEdit
    BY <1>0, <1>8 DEF TypeOK, LockTypeOK, EndEdit, lockVars
  <1>9. CASE UNCHANGED sendVars
    BY <1>0, <1>9 DEF sendVars, vars, state, lockVars, TypeOK, LockTypeOK
  <1> QED
    BY <1>1, <1>2, <1>3, <1>4, <1>5, <1>6, <1>7, <1>8, <1>9 DEF Next

(* Every row, press, lock and dialogue has the shape the code gives it. *)
THEOREM TypeCorrect == Spec => []TypeOK
  <1> QED
    BY InitTypeOK, NextTypeOK, PTL DEF Spec

-----------------------------------------------------------------------------
LEMMA NextRetryInv == TypeOK /\ RetryInv /\ [Next]_sendVars => RetryInv'
  <1> SUFFICES ASSUME TypeOK, RetryInv, [Next]_sendVars
               PROVE  RetryInv'
    OBVIOUS
  <1> USE SendAssumption DEF RetryInv, Retryable
  <1>1. ASSUME NEW a \in Actions, Ask(a) \/ Expire(a) \/ Purge(a) \/ BeginEdit(a) \/ EditRow(a)
        PROVE  RetryInv'
    BY <1>1 DEF TypeOK, Ask, Expire, Purge, BeginEdit, EditRow
  <1>2. ASSUME NEW p \in Presses, NEW a \in Actions, PressConfirm(p, a) \/ PressCancel(p, a)
        PROVE  RetryInv'
    BY <1>2 DEF TypeOK, PressConfirm, PressCancel, Goto
  <1>3. ASSUME NEW p \in Presses, FindRow(p)
        PROVE  RetryInv'
    BY <1>3 DEF TypeOK, FindRow
  <1>4. ASSUME NEW p \in Presses, Deliver(p)
        PROVE  RetryInv'
    BY <1>4 DEF TypeOK, Deliver
  <1>5. ASSUME NEW p \in Presses, MissRow(p) \/ Refuse(p) \/ KeepRow(p) \/ CancelRow(p)
        PROVE  RetryInv'
    BY <1>5 DEF TypeOK, MissRow, Refuse, KeepRow, CancelRow, Stop, Goto
  <1>6. ASSUME NEW p \in Presses, DeleteRow(p) \/ Timeout(p)
        PROVE  RetryInv'
    BY <1>6 DEF TypeOK, DeleteRow, Timeout, Stop, Goto
  <1>7. CASE Restart \/ EndEdit \/ UNCHANGED sendVars
    BY <1>7 DEF Restart, EndEdit, sendVars, vars, state
  <1> HIDE DEF RetryInv
  <1> QED
    BY <1>1, <1>2, <1>3, <1>4, <1>5, <1>6, <1>7 DEF Next

(* No failure loses a message: what was not sent, cancelled, expired or edited
   keeps its row through crashes, timeouts and failed sends. *)
THEOREM NothingIsLost == Spec => []Retryable
  <1>1. Init => RetryInv
    BY DEF Init, RetryInv, Retryable
  <1>2. RetryInv => Retryable
    BY DEF RetryInv
  <1> QED
    BY <1>1, <1>2, InitTypeOK, NextTypeOK, NextRetryInv, PTL DEF Spec

-----------------------------------------------------------------------------
LEMMA InitLockInv == Init => (LockInv \/ "timeout" \in faults)
  BY DEF Init, LockInv

LEMMA NextLockInv == TypeOK /\ LockInv /\ [Next]_sendVars => LockInv'
  <1> SUFFICES ASSUME TypeOK, LockInv, [Next]_sendVars
               PROVE  LockInv'
    OBVIOUS
  <1> USE SendAssumption, LockAssumption DEF LockInv
  <1>0. UNCHANGED faults
    BY DEF Next, sendVars
  <1>1. ASSUME NEW a \in Actions, Ask(a) \/ Expire(a) \/ Purge(a) \/ BeginEdit(a) \/ EditRow(a)
        PROVE  LockInv'
    BY <1>0, <1>1 DEF Ask, Expire, Purge, BeginEdit, EditRow, lockVars
  <1>2. ASSUME NEW p \in Presses, NEW a \in Actions, PressConfirm(p, a) \/ PressCancel(p, a)
        PROVE  LockInv'
    BY <1>0, <1>2 DEF TypeOK, LockTypeOK, PressConfirm, PressCancel, Goto, Fetch
  <1>3. ASSUME NEW p \in Presses, FindRow(p) \/ Deliver(p)
        PROVE  LockInv'
    BY <1>0, <1>3 DEF TypeOK, LockTypeOK, FindRow, Deliver, Enter, lockVars
  <1>4. ASSUME NEW p \in Presses, MissRow(p) \/ CancelRow(p)
        PROVE  LockInv'
    BY <1>0, <1>4 DEF TypeOK, LockTypeOK, MissRow, CancelRow, EnterLeave, Stop, Goto
  <1>5. ASSUME NEW p \in Presses, Refuse(p) \/ DeleteRow(p) \/ KeepRow(p)
        PROVE  LockInv'
    BY <1>0, <1>5 DEF TypeOK, LockTypeOK, Refuse, DeleteRow, KeepRow, Exit, Out, Inside, Stop, Goto
  <1>6. \A p \in Presses : ~Timeout(p)
    BY DEF Timeout, LockInv
  <1>7. CASE Restart \/ EndEdit \/ UNCHANGED sendVars
    BY <1>0, <1>7 DEF Restart, EndEdit, sendVars, vars, state, lockVars
  <1> HIDE DEF LockInv
  <1> QED
    BY <1>1, <1>2, <1>3, <1>4, <1>5, <1>6, <1>7 DEF Next

(* At most one press is inside, and none when another finds the lock free. *)
LEMMA Exclusion ==
  ASSUME LockInv, NEW p \in Presses, NEW q \in Presses, pc[q] \in {"found", "sent"}
  PROVE  /\ pc[p] \in {"found", "sent"} => p = q
         /\ pc[p] # "idle" => holder[want[p]] # Nobody
  BY LockAssumption DEF LockInv

LEMMA NextCancelInv == TypeOK /\ LockInv /\ CancelInv /\ [Next]_sendVars => CancelInv'
  <1> SUFFICES ASSUME TypeOK, LockInv, CancelInv, [Next]_sendVars
               PROVE  CancelInv'
    OBVIOUS
  <1> USE DEF CancelInv
  <1>1. ASSUME NEW a \in Actions, Ask(a) \/ Expire(a) \/ Purge(a) \/ BeginEdit(a) \/ EditRow(a)
        PROVE  CancelInv'
    BY <1>1 DEF TypeOK, Ask, Expire, Purge, BeginEdit, EditRow
  <1>2. ASSUME NEW p \in Presses, NEW a \in Actions, PressConfirm(p, a) \/ PressCancel(p, a)
        PROVE  CancelInv'
    BY <1>2 DEF TypeOK, PressConfirm, PressCancel, Goto
  <1>3. ASSUME NEW p \in Presses, FindRow(p) \/ Deliver(p)
        PROVE  CancelInv'
    BY <1>3 DEF TypeOK, FindRow, Deliver
  <1>4. ASSUME NEW p \in Presses, MissRow(p) \/ Refuse(p) \/ DeleteRow(p) \/ KeepRow(p)
        PROVE  CancelInv'
    BY <1>4 DEF TypeOK, MissRow, Refuse, DeleteRow, KeepRow, Stop, Goto
  <1>5. ASSUME NEW p \in Presses, CancelRow(p)
        PROVE  CancelInv'
    <2>1. \A q \in Presses : pc[q] # "found"
      BY <1>5, Exclusion DEF CancelRow, EnterLeave
    <2> QED
      BY <1>5, <2>1 DEF TypeOK, CancelRow, Stop, Goto
  <1>6. \A p \in Presses : ~Timeout(p)
    BY DEF Timeout, LockInv
  <1>7. CASE Restart \/ EndEdit \/ UNCHANGED sendVars
    BY <1>7 DEF Restart, EndEdit, sendVars, vars, state
  <1> HIDE DEF CancelInv
  <1> QED
    BY <1>1, <1>2, <1>3, <1>4, <1>5, <1>6, <1>7 DEF Next

LEMMA CancelStep ==
  ASSUME TypeOK, CancelInv, [Next]_sendVars
  PROVE  [\A a \in told : delivered'[a] = delivered[a]]_sendVars
  <1>1. ASSUME NEW p \in Presses, Deliver(p)
        PROVE  \A a \in told : delivered'[a] = delivered[a]
    BY <1>1 DEF TypeOK, CancelInv, Deliver
  <1>2. ASSUME Next, \A p \in Presses : ~Deliver(p)
        PROVE  delivered' = delivered
    BY <1>2
    DEF Next, Ask, Expire, Purge, BeginEdit, EditRow, EndEdit, PressConfirm, PressCancel,
        FindRow, MissRow, Refuse, DeleteRow, KeepRow, CancelRow, Timeout, Restart
  <1> QED
    BY <1>1, <1>2

(* The inductive invariant of a behaviour without timeouts. *)
CancelSafe == "timeout" \in faults \/ (LockInv /\ CancelInv)

(* As long as no press times out, nothing is sent after its owner has read
   that it was cancelled: not after a crash, a failed send or an edit. *)
THEOREM CancelHolds == Spec => CancelIsFinal
  <1>1. Init => CancelSafe
    BY InitLockInv DEF Init, CancelInv, CancelSafe
  <1>2. TypeOK /\ CancelSafe /\ [Next]_sendVars => CancelSafe'
    <2> SUFFICES ASSUME TypeOK, CancelSafe, [Next]_sendVars
                 PROVE  CancelSafe'
      OBVIOUS
    <2>1. UNCHANGED faults
      BY DEF Next, sendVars
    <2> QED
      BY <2>1, NextLockInv, NextCancelInv DEF CancelSafe
  <1>3. TypeOK /\ CancelSafe /\ [Next]_sendVars
          => [\A a \in told : "timeout" \in faults \/ delivered'[a] = delivered[a]]_sendVars
    BY CancelStep DEF CancelSafe
  <1> QED
    BY <1>1, <1>2, <1>3, InitTypeOK, NextTypeOK, PTL
    DEF Spec, CancelIsFinal

-----------------------------------------------------------------------------
LEMMA NextOnceInv == TypeOK /\ LockInv /\ OnceInv /\ [Next]_sendVars => OnceInv'
  <1> SUFFICES ASSUME TypeOK, LockInv, OnceInv, [Next]_sendVars
               PROVE  OnceInv'
    OBVIOUS
  <1> USE SendAssumption DEF OnceInv, SentOnce
  <1>0. UNCHANGED faults
    BY DEF Next, sendVars
  <1>1. ASSUME NEW a \in Actions, Ask(a) \/ Expire(a) \/ Purge(a) \/ BeginEdit(a) \/ EditRow(a)
        PROVE  OnceInv'
    BY <1>0, <1>1 DEF TypeOK, Ask, Expire, Purge, BeginEdit, EditRow
  <1>2. ASSUME NEW p \in Presses, NEW a \in Actions, PressConfirm(p, a) \/ PressCancel(p, a)
        PROVE  OnceInv'
    BY <1>0, <1>2 DEF TypeOK, PressConfirm, PressCancel, Goto
  <1>3. ASSUME NEW p \in Presses, FindRow(p)
        PROVE  OnceInv'
    <2>1. \A q \in Presses : pc[q] # "sent"
      BY <1>3, Exclusion DEF FindRow, Enter
    <2>2. act[p] \in Actions /\ delivered[act[p]] = 0
      BY <1>3, <2>1 DEF TypeOK, FindRow
    <2> QED
      BY <1>0, <1>3, <2>1, <2>2 DEF TypeOK, FindRow
  <1>4. ASSUME NEW p \in Presses, Deliver(p)
        PROVE  OnceInv'
    <2>1. act[p] \in Actions /\ act[p] \in asked
      BY <1>4 DEF TypeOK, Deliver
    <2>2. \A q \in Presses : pc[q] \in {"found", "sent"} => q = p
      BY <1>4, Exclusion DEF Deliver
    <2>3. SentOnce'
      BY <1>4, <2>1 DEF TypeOK, Deliver
    <2>4. \A q \in Presses : pc'[q] # "found"
      BY <1>4, <2>2 DEF TypeOK, Deliver
    <2>5. ASSUME NEW a \in Actions, delivered'[a] > 0
          PROVE  /\ a \in asked'
                 /\ a \in stored' => \E q \in Presses : pc'[q] = "sent" /\ act'[q] = a
      BY <1>4, <2>1, <2>2, <2>5 DEF TypeOK, Deliver
    <2> QED
      BY <1>0, <2>3, <2>4, <2>5
  <1>5. ASSUME NEW p \in Presses, MissRow(p) \/ Refuse(p) \/ CancelRow(p)
        PROVE  OnceInv'
    BY <1>0, <1>5 DEF TypeOK, MissRow, Refuse, CancelRow, Stop, Goto
  <1>6. ASSUME NEW p \in Presses, DeleteRow(p)
        PROVE  OnceInv'
    BY <1>0, <1>6 DEF TypeOK, DeleteRow, Stop, Goto
  <1>7. CASE EndEdit \/ UNCHANGED sendVars
    BY <1>0, <1>7 DEF EndEdit, sendVars, vars, state
  <1>8. ~Restart /\ \A p \in Presses : ~Timeout(p) /\ ~KeepRow(p)
    BY DEF Restart, Timeout, KeepRow
  <1> HIDE DEF OnceInv
  <1> QED
    BY <1>1, <1>2, <1>3, <1>4, <1>5, <1>6, <1>7, <1>8 DEF Next

(* The inductive invariant of a behaviour without failures. *)
OnceSafe == faults \subseteq {"edit"} => LockInv /\ OnceInv

(* Without failures no message is sent twice, however often and in whatever
   order the buttons are pressed and the text is edited. *)
THEOREM SentAtMostOnce == Spec => []DeliveredOnce
  <1>1. Init => OnceSafe
    BY InitLockInv DEF Init, OnceInv, SentOnce, OnceSafe
  <1>2. TypeOK /\ OnceSafe /\ [Next]_sendVars => OnceSafe'
    <2> SUFFICES ASSUME TypeOK, OnceSafe, [Next]_sendVars
                 PROVE  OnceSafe'
      OBVIOUS
    <2>1. UNCHANGED faults
      BY DEF Next, sendVars
    <2> QED
      BY <2>1, NextLockInv, NextOnceInv DEF OnceSafe
  <1>3. OnceSafe => DeliveredOnce
    BY DEF OnceSafe, OnceInv, SentOnce, DeliveredOnce
  <1> QED
    BY <1>1, <1>2, <1>3, InitTypeOK, NextTypeOK, PTL DEF Spec
=============================================================================
