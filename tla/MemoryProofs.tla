---------------------------- MODULE MemoryProofs ----------------------------
(***************************************************************************)
(* Proofs about FactBatchBuffer, for any set of messages, any size of the  *)
(* batches and any faults, and about MemoryQueue, for any set of jobs, any *)
(* limits and faults.                                                      *)
(*                                                                         *)
(* The twelve places of a job in MemoryQueue are a division of the jobs    *)
(* (Division), and every action moves some jobs from one place to another  *)
(* (Move), once, twice or three times; a move keeps the division           *)
(* (MoveDivides).  The lemmas before that say which jobs a list holds      *)
(* after an operation on it and that no job is in it twice.                *)
(***************************************************************************)
EXTENDS FactBatchBuffer, MemoryQueue, SequenceTheorems, TLAPS

(* The batch of flush_now is a flight of its own, which nothing cancels. *)
OwnApart ==
    /\ own \cap buffer = {}
    /\ own # {} => closing \in {"waiting", "flushing"} /\ task # own /\ own \notin doomed
    /\ closing = "waiting" => own # {} /\ \A b \in flights : b \cap own = {}
    /\ closing = "flushing" => own \in flights

(* A flush that is cancelled may end without the finally block, so the flag and
   the messages left behind need one that is not. *)
Going == flights \ doomed # {}

FlagHasFlush == isFlushing /\ closing = "no" => Going

BufferHasFlush == buffer # {} /\ closing = "no" => armed \/ Going \/ task # {}

BatchInv ==
    /\ BatchTypeOK /\ InOneBatch
    /\ OwnApart
    /\ FlagHasFlush /\ BufferHasFlush

-----------------------------------------------------------------------------
LEMMA InitBatch == BatchInit => BatchInv
  BY DEF BatchInit, BatchInv, BatchTypeOK, InOneBatch, OwnApart, FlagHasFlush, BufferHasFlush, Going

LEMMA StutterBatch == BatchInv /\ UNCHANGED batchVars => BatchInv'
  BY DEF batchVars, flags, BatchInv, BatchTypeOK, InOneBatch, OwnApart, FlagHasFlush,
         BufferHasFlush, Going

LEMMA AddKeeps ==
  ASSUME BatchInv, NEW m \in Texts, Add(m)
  PROVE  BatchInv'
  <1> DEFINE grown == buffer \cup {m}
  <1>1. outcome' = [outcome EXCEPT ![m] = "held"] /\ outcome[m] = "new" /\ UNCHANGED <<closing, own>>
    BY DEF Add
  <1>2. m \notin buffer \cup own /\ \A b \in flights : m \notin b
    BY <1>1 DEF BatchInv, InOneBatch
  <1>3. CASE AddDuringFlush(grown)
    BY <1>1, <1>2, <1>3 DEF AddDuringFlush, flags, BatchInv, BatchTypeOK, InOneBatch, OwnApart,
       FlagHasFlush, BufferHasFlush, Going
  <1>4. CASE AddAndFlush(grown)
    <2>1. /\ buffer' = {} /\ flights' = flights \cup {grown}
          /\ isFlushing' = TRUE /\ task' = grown /\ armed' = FALSE
          /\ doomed' = doomed \cup ({task} \cap flights)
      BY <1>4 DEF AddAndFlush, CancelTask
    <2>2. BatchTypeOK'
      BY <1>1, <2>1 DEF BatchInv, BatchTypeOK
    <2>3. InOneBatch'
      <3>1. \A b \in flights : b \cap grown = {}
        BY <1>2 DEF BatchInv, InOneBatch
      <3>2. \A b \in flights' : b # {} /\ b \cap buffer' = {}
        BY <2>1 DEF BatchInv, InOneBatch
      <3>3. \A b, c \in flights' : b # c => b \cap c = {}
        BY <2>1, <3>1 DEF BatchInv, InOneBatch
      <3>4. \A n \in Texts : outcome'[n] = "held" <=> outcome[n] = "held" \/ n = m
        BY <1>1 DEF BatchInv, BatchTypeOK
      <3>5. \A n \in Texts :
               outcome'[n] = "held" <=> n \in grown \cup own \/ \E b \in flights : n \in b
        BY <3>4 DEF BatchInv, InOneBatch
      <3> QED
        BY <1>1, <2>1, <3>2, <3>3, <3>5 DEF InOneBatch
    <2>4. OwnApart'
      BY <1>1, <1>2, <2>1 DEF BatchInv, BatchTypeOK, InOneBatch, OwnApart
    <2>5. FlagHasFlush' /\ BufferHasFlush'
      <3>1. grown \notin doomed'
        BY <1>2, <2>1 DEF BatchInv, BatchTypeOK
      <3>2. Going'
        BY <2>1, <3>1 DEF Going
      <3> QED
        BY <3>2 DEF FlagHasFlush, BufferHasFlush
    <2> QED
      BY <2>2, <2>3, <2>4, <2>5 DEF BatchInv
  <1>5. CASE AddAndWait(grown)
    <2>1. /\ buffer' = grown /\ flights' = flights /\ isFlushing' = isFlushing /\ ~isFlushing
          /\ task' = {} /\ armed' = TRUE
          /\ doomed' = doomed \cup ({task} \cap flights)
      BY <1>5 DEF AddAndWait, CancelTask
    <2>2. BatchTypeOK' /\ InOneBatch'
      BY <1>1, <1>2, <2>1 DEF BatchInv, BatchTypeOK, InOneBatch
    <2>3. OwnApart' /\ FlagHasFlush' /\ BufferHasFlush'
      BY <1>1, <1>2, <2>1 DEF BatchInv, OwnApart, FlagHasFlush, BufferHasFlush
    <2> QED
      BY <2>2, <2>3 DEF BatchInv
  <1> QED
    BY <1>3, <1>4, <1>5 DEF Add

LEMMA TimeoutFlushKeeps ==
  ASSUME BatchInv, TimeoutFlush
  PROVE  BatchInv'
  <1>1. CASE buffer = {}
    BY <1>1 DEF TimeoutFlush, BatchInv, BatchTypeOK, InOneBatch, OwnApart, FlagHasFlush,
       BufferHasFlush, Going
  <1>2. CASE buffer # {}
    <2>1. /\ flights' = flights \cup {buffer} /\ buffer' = {} /\ isFlushing' = TRUE
          /\ armed' = FALSE /\ UNCHANGED <<task, doomed, closing, own, outcome>>
      BY <1>2 DEF TimeoutFlush
    <2>2. BatchTypeOK'
      BY <2>1 DEF BatchInv, BatchTypeOK, InOneBatch
    <2>3. InOneBatch'
      <3>1. \A b \in flights' : b # {} /\ b \cap buffer' = {}
        BY <1>2, <2>1 DEF BatchInv, InOneBatch
      <3>2. \A b, c \in flights' : b # c => b \cap c = {}
        BY <2>1 DEF BatchInv, InOneBatch
      <3>3. \A m \in Texts :
               outcome[m] = "held" <=> m \in own \/ \E b \in flights \cup {buffer} : m \in b
        BY DEF BatchInv, InOneBatch
      <3> QED
        BY <2>1, <3>1, <3>2, <3>3 DEF InOneBatch
    <2>5. OwnApart'
      BY <1>2, <2>1 DEF BatchInv, BatchTypeOK, OwnApart
    <2>4. Going'
      <3>1. buffer \notin doomed
        BY <1>2 DEF BatchInv, BatchTypeOK, InOneBatch
      <3> QED
        BY <2>1, <3>1 DEF Going
    <2> QED
      BY <2>2, <2>3, <2>4, <2>5 DEF BatchInv, FlagHasFlush, BufferHasFlush
  <1> QED
    BY <1>1, <1>2

(* What the end of a flush means for the rest, whichever way it ends: the
   messages of the batch are done with and no other is touched. *)
LEMMA BatchEnds ==
  ASSUME BatchInv, NEW b \in flights, NEW what \in {"saved", "failed", "cancelled"},
         Ended(b, what), flights' = flights \ {b}, doomed' = doomed \ {b},
         isFlushing' \in BOOLEAN, armed' \in BOOLEAN, task' \in {task, {}},
         own' = own \ b, buffer' = buffer,
         closing' = IF b = own THEN "flushed" ELSE closing
  PROVE  BatchTypeOK' /\ InOneBatch' /\ OwnApart'
  <1>1. b # {} /\ b \in SUBSET Texts /\ b \cap buffer = {}
    BY DEF BatchInv, BatchTypeOK, InOneBatch
  <1>2. b = own \/ b \cap own = {}
    BY DEF BatchInv, OwnApart, InOneBatch
  <1>3. BatchTypeOK'
    BY DEF BatchInv, BatchTypeOK, Ended
  <1>4. InOneBatch'
    <2>1. \A c \in flights' : c # {} /\ c \cap buffer' = {} /\ c \cap b = {}
      BY DEF BatchInv, InOneBatch
    <2>2. \A m \in Texts : outcome'[m] = IF m \in b THEN what ELSE outcome[m]
      BY DEF Ended
    <2>3. \A m \in Texts :
             outcome'[m] = "held" <=> m \in buffer' \cup own' \/ \E c \in flights' : m \in c
      BY <1>1, <1>2, <2>1, <2>2 DEF BatchInv, InOneBatch
    <2>4. \A c, d \in flights' : c # d => c \cap d = {}
      BY DEF BatchInv, InOneBatch
    <2> QED
      BY <2>1, <2>3, <2>4 DEF InOneBatch
  <1>5. OwnApart'
    BY <1>1, <1>2 DEF BatchInv, BatchTypeOK, OwnApart
  <1> QED
    BY <1>3, <1>4, <1>5

(* The finally block lowers the flag and leaves no message without a timer,
   unless there is a task. *)
LEMMA FinallyAttends ==
  ASSUME BatchInv, NEW b \in flights, Finally(b), buffer' = buffer
  PROVE  /\ isFlushing' \in BOOLEAN /\ armed' \in BOOLEAN /\ task' \in {task, {}}
         /\ FlagHasFlush' /\ BufferHasFlush'
  <1>1. isFlushing' = FALSE
    BY DEF Finally
  <1>2. CASE buffer # {} /\ ~TaskLives
    BY <1>1, <1>2 DEF Finally, FlagHasFlush, BufferHasFlush
  <1>3. CASE ~(buffer # {} /\ ~TaskLives)
    <2>1. task' = task /\ armed' = armed
      BY <1>3 DEF Finally
    <2>2. buffer # {} => armed \/ task # {}
      BY <1>3 DEF TaskLives, BatchInv, InOneBatch
    <2> QED
      BY <1>1, <2>1, <2>2 DEF BatchInv, BatchTypeOK, FlagHasFlush, BufferHasFlush
  <1> QED
    BY <1>2, <1>3

LEMMA FlushEndsKeeps ==
  ASSUME BatchInv, NEW b \in flights, FlushEnds(b)
  PROVE  BatchInv'
  <1>1. /\ Finally(b) /\ buffer' = buffer /\ own' = own \ b
        /\ closing' = IF b = own THEN "flushed" ELSE closing
        /\ Ended(b, "saved") \/ Ended(b, "failed")
    BY DEF FlushEnds
  <1>2. flights' = flights \ {b} /\ doomed' = doomed \ {b}
    BY <1>1 DEF Finally
  <1> QED
    BY <1>1, <1>2, BatchEnds, FinallyAttends DEF BatchInv

LEMMA FlushCancelledKeeps ==
  ASSUME BatchInv, NEW b \in flights, FlushCancelled(b)
  PROVE  BatchInv'
  <1>1. /\ b \in doomed /\ Ended(b, "cancelled")
        /\ buffer' = buffer /\ own' = own /\ closing' = closing
        /\ flights' = flights \ {b} /\ doomed' = doomed \ {b}
    BY DEF FlushCancelled, Finally
  <1>2. b # own
    BY <1>1 DEF BatchInv, OwnApart, InOneBatch
  <1>3. own' = own \ b
    BY <1>1, <1>2 DEF BatchInv, OwnApart, InOneBatch
  <1>4. /\ isFlushing' \in BOOLEAN /\ armed' \in BOOLEAN /\ task' \in {task, {}}
        /\ FlagHasFlush' /\ BufferHasFlush'
    <2>1. CASE Finally(b)
      BY <1>1, <2>1, FinallyAttends
    <2>2. CASE UNCHANGED flags
      BY <1>1, <2>2 DEF flags, BatchInv, BatchTypeOK, FlagHasFlush, BufferHasFlush, Going
    <2> QED
      BY <2>1, <2>2 DEF FlushCancelled
  <1> QED
    BY <1>1, <1>2, <1>3, <1>4, BatchEnds DEF BatchInv

LEMMA FlushNowKeeps ==
  ASSUME BatchInv, FlushNow
  PROVE  BatchInv'
  <1>1. CASE buffer = {}
    BY <1>1 DEF FlushNow, BatchInv, BatchTypeOK, InOneBatch, OwnApart, FlagHasFlush, BufferHasFlush
  <1>2. CASE buffer # {}
    <2>1. /\ isFlushing' = TRUE /\ closing' = "waiting" /\ closing = "no"
          /\ own' = buffer /\ buffer' = {} /\ task' = {} /\ armed' = FALSE
          /\ doomed' = doomed \cup ({task} \cap flights)
          /\ flights' = flights /\ outcome' = outcome
      BY <1>2 DEF FlushNow, CancelTask
    <2>2. own = {}
      BY <2>1 DEF BatchInv, OwnApart
    <2>3. BatchTypeOK' /\ InOneBatch'
      BY <2>1, <2>2 DEF BatchInv, BatchTypeOK, InOneBatch
    <2>4. OwnApart' /\ FlagHasFlush' /\ BufferHasFlush'
      BY <1>2, <2>1 DEF BatchInv, BatchTypeOK, InOneBatch, OwnApart, FlagHasFlush, BufferHasFlush
    <2> QED
      BY <2>3, <2>4 DEF BatchInv
  <1> QED
    BY <1>1, <1>2

LEMMA FlushOwnKeeps ==
  ASSUME BatchInv, FlushOwn
  PROVE  BatchInv'
  BY DEF FlushOwn, flags, BatchInv, BatchTypeOK, InOneBatch, OwnApart, FlagHasFlush, BufferHasFlush

LEMMA FlushNowTimesOutKeeps ==
  ASSUME BatchInv, FlushNowTimesOut
  PROVE  BatchInv'
  <1>1. own \in flights
    BY DEF FlushNowTimesOut, BatchInv, OwnApart
  <1>2. /\ Finally(own) /\ buffer' = buffer /\ own' = own \ own /\ closing' = "flushed"
        /\ Ended(own, "cancelled")
    BY DEF FlushNowTimesOut
  <1>3. flights' = flights \ {own} /\ doomed' = doomed \ {own}
    BY <1>2 DEF Finally
  <1> QED
    BY <1>1, <1>2, <1>3, BatchEnds, FinallyAttends DEF BatchInv

LEMMA StopTasksKeeps ==
  ASSUME BatchInv, StopTasks
  PROVE  BatchInv'
  BY DEF StopTasks, BatchInv, BatchTypeOK, InOneBatch, OwnApart, FlagHasFlush, BufferHasFlush

-----------------------------------------------------------------------------
(* BatchInv is inductive. *)
THEOREM BatchInductive == BatchSpec => []BatchInv
  <1>1. BatchInv /\ [BatchNext]_batchVars => BatchInv'
    <2> SUFFICES ASSUME BatchInv, [BatchNext]_batchVars PROVE BatchInv'
      OBVIOUS
    <2>1. ASSUME NEW m \in Texts, Add(m) PROVE BatchInv'
      BY <2>1, AddKeeps
    <2>2. ASSUME NEW b \in flights, FlushEnds(b) \/ FlushCancelled(b) PROVE BatchInv'
      BY <2>2, FlushEndsKeeps, FlushCancelledKeeps
    <2>3. CASE TimeoutFlush \/ FlushNow \/ FlushOwn
      BY <2>3, TimeoutFlushKeeps, FlushNowKeeps, FlushOwnKeeps
    <2>4. CASE FlushNowTimesOut \/ StopTasks
      BY <2>4, FlushNowTimesOutKeeps, StopTasksKeeps
    <2>5. CASE UNCHANGED batchVars
      BY <2>5, StutterBatch
    <2> QED
      BY <2>1, <2>2, <2>3, <2>4, <2>5 DEF BatchNext
  <1> QED
    BY InitBatch, <1>1, PTL DEF BatchSpec

(* Every reachable state is well-formed; only a running flush is cancelled. *)
THEOREM BatchTyped == BatchSpec => []BatchTypeOK
  <1>1. BatchInv => BatchTypeOK
    BY DEF BatchInv
  <1> QED
    BY <1>1, BatchInductive, PTL

(* No message is in two places, so none is extracted from twice (add,
   _timeout_flush, flush_now). *)
THEOREM MessagesInOneBatch == BatchSpec => []InOneBatch
  <1>1. BatchInv => InOneBatch
    BY DEF BatchInv
  <1> QED
    BY <1>1, BatchInductive, PTL

(* Until shutdown, _is_flushing does not outlive the flushes, and buffered
   messages have a timer, a flush, or the task of a flush that ended (the case
   of NothingStranded). *)
THEOREM BufferAttended == BatchSpec => []Attended
  <1>1. BatchInv => Attended
    BY DEF BatchInv, FlagHasFlush, BufferHasFlush, Going, Attended
  <1> QED
    BY <1>1, BatchInductive, PTL

-----------------------------------------------------------------------------
(* MemoryQueue. *)

(* What is in a list of members of S is in S. *)
LEMMA ElementsIn ==
  ASSUME NEW S, NEW s \in Seq(S)
  PROVE  DOMAIN s = 1..Len(s) /\ Len(s) \in Nat /\ Elements(s) \in SUBSET S
  BY DEF Elements

(* Appending adds one element, and no second copy of it if it is new. *)
LEMMA AppendElements ==
  ASSUME NEW S, NEW s \in Seq(S), NEW x \in S
  PROVE  /\ Append(s, x) \in Seq(S) /\ Len(Append(s, x)) = Len(s) + 1
         /\ Elements(Append(s, x)) = Elements(s) \cup {x}
         /\ Distinct(s) /\ x \notin Elements(s) => Distinct(Append(s, x))
  BY AppendProperties DEF Elements, Distinct

(* Two lists in a row hold a job twice if one of them does or both hold it. *)
LEMMA ConcatElements ==
  ASSUME NEW S, NEW s \in Seq(S), NEW u \in Seq(S)
  PROVE  /\ s \o u \in Seq(S) /\ Len(s \o u) = Len(s) + Len(u)
         /\ Elements(s \o u) = Elements(s) \cup Elements(u)
         /\ Distinct(s \o u) <=>
               Distinct(s) /\ Distinct(u) /\ Elements(s) \cap Elements(u) = {}
  <1> DEFINE c == s \o u
             n == Len(s)
             k == Len(u)
  <1>1. /\ c \in Seq(S) /\ Len(c) = n + k /\ n \in Nat /\ k \in Nat
        /\ DOMAIN s = 1..n /\ DOMAIN u = 1..k /\ DOMAIN c = 1..(n + k)
    BY ConcatProperties
  <1>2. \A i \in 1..n : c[i] = s[i]
    BY <1>1, ConcatProperties
  <1>3. \A i \in 1..k : c[n + i] = u[i]
    BY <1>1, ConcatProperties
  <1> HIDE DEF c, n, k
  <1>4. \A i \in 1..(n + k) : i \in 1..n \/ \E m \in 1..k : i = n + m
    <2> TAKE i \in 1..(n + k)
    <2>1. CASE i > n
      <3>1. i - n \in 1..k /\ i = n + (i - n)
        BY <1>1, <2>1
      <3> QED
        BY <3>1
    <2>2. CASE i <= n
      BY <1>1, <2>2
    <2> QED
      BY <1>1, <2>1, <2>2
  <1>5. \A m \in 1..k : n + m \in 1..(n + k)
    BY <1>1
  <1>6. \A i \in 1..n : i \in 1..(n + k)
    BY <1>1
  <1>7. Elements(c) = Elements(s) \cup Elements(u)
    <2>1. ASSUME NEW x \in Elements(c) PROVE x \in Elements(s) \cup Elements(u)
      <3>1. PICK i \in 1..(n + k) : x = c[i]
        BY <1>1 DEF Elements
      <3>2. CASE i \in 1..n
        BY <1>1, <1>2, <3>1, <3>2 DEF Elements
      <3>3. CASE \E m \in 1..k : i = n + m
        BY <1>1, <1>3, <3>1, <3>3 DEF Elements
      <3> QED
        BY <1>4, <3>2, <3>3
    <2>2. ASSUME NEW x \in Elements(s) PROVE x \in Elements(c)
      BY <1>1, <1>2, <1>6, <2>2 DEF Elements
    <2>3. ASSUME NEW x \in Elements(u) PROVE x \in Elements(c)
      BY <1>1, <1>3, <1>5, <2>3 DEF Elements
    <2> QED
      BY <2>1, <2>2, <2>3
  <1>8. ASSUME Distinct(c)
        PROVE  Distinct(s) /\ Distinct(u) /\ Elements(s) \cap Elements(u) = {}
    <2>1. Distinct(s)
      BY <1>1, <1>2, <1>6, <1>8 DEF Distinct
    <2>2. Distinct(u)
      <3> SUFFICES ASSUME NEW i \in 1..k, NEW m \in 1..k, i # m PROVE u[i] # u[m]
        BY <1>1 DEF Distinct
      <3>1. n + i # n + m
        BY <1>1
      <3> QED
        BY <1>1, <1>3, <1>5, <1>8, <3>1 DEF Distinct
    <2>3. ASSUME NEW i \in 1..n, NEW m \in 1..k PROVE s[i] # u[m]
      <3>1. i # n + m
        BY <1>1
      <3> QED
        BY <1>1, <1>2, <1>3, <1>5, <1>6, <1>8, <3>1 DEF Distinct
    <2> QED
      BY <1>1, <2>1, <2>2, <2>3 DEF Elements
  <1>9. ASSUME Distinct(s), Distinct(u), Elements(s) \cap Elements(u) = {}
        PROVE  Distinct(c)
    <2> SUFFICES ASSUME NEW i \in 1..(n + k), NEW m \in 1..(n + k), i # m PROVE c[i] # c[m]
      BY <1>1 DEF Distinct
    <2>1. ASSUME NEW a \in 1..n, NEW b \in 1..k PROVE s[a] # u[b]
      BY <1>1, <1>9 DEF Elements
    <2>2. CASE i \in 1..n /\ m \in 1..n
      BY <1>1, <1>2, <1>9, <2>2 DEF Distinct
    <2>3. CASE i \in 1..n /\ \E b \in 1..k : m = n + b
      BY <1>2, <1>3, <2>1, <2>3
    <2>4. CASE m \in 1..n /\ \E b \in 1..k : i = n + b
      BY <1>2, <1>3, <2>1, <2>4
    <2>5. CASE (\E a \in 1..k : i = n + a) /\ (\E b \in 1..k : m = n + b)
      <3>1. PICK a \in 1..k, b \in 1..k : i = n + a /\ m = n + b
        BY <2>5
      <3>2. a # b
        BY <3>1
      <3>3. u[a] # u[b]
        BY <1>1, <1>9, <3>2 DEF Distinct
      <3> QED
        BY <1>3, <3>1, <3>3
    <2> QED
      BY <1>4, <2>2, <2>3, <2>4, <2>5
  <1> QED
    BY <1>1, <1>7, <1>8, <1>9 DEF c, n, k

(* Cutting a list in two divides its elements. *)
LEMMA SplitElements ==
  ASSUME NEW S, NEW s \in Seq(S), NEW k \in 0..Len(s)
  PROVE  /\ SubSeq(s, 1, k) \in Seq(S) /\ SubSeq(s, k + 1, Len(s)) \in Seq(S)
         /\ Len(SubSeq(s, 1, k)) = k /\ Len(SubSeq(s, k + 1, Len(s))) = Len(s) - k
         /\ Elements(s) = Elements(SubSeq(s, 1, k)) \cup Elements(SubSeq(s, k + 1, Len(s)))
         /\ Distinct(s) => /\ Distinct(SubSeq(s, 1, k)) /\ Distinct(SubSeq(s, k + 1, Len(s)))
                           /\ Elements(SubSeq(s, 1, k)) \cap Elements(SubSeq(s, k + 1, Len(s))) = {}
  <1>1. Len(s) \in Nat /\ k \in Int /\ \A i \in 1..Len(s) : s[i] \in S
    OBVIOUS
  <1>2. SubSeq(s, 1, k) \in Seq(S) /\ Len(SubSeq(s, 1, k)) = k
    BY <1>1, SubSeqProperties
  <1>3. /\ SubSeq(s, k + 1, Len(s)) \in Seq(S)
        /\ Len(SubSeq(s, k + 1, Len(s))) = Len(s) - k
    BY <1>1, SubSeqProperties
  <1>4. SubSeq(s, 1, k) \o SubSeq(s, k + 1, Len(s)) = SubSeq(s, 1, Len(s))
    <2>1. 1 \in 1..Len(s) + 1 /\ k \in 1 - 1..Len(s) /\ Len(s) \in k..Len(s)
      BY <1>1
    <2> QED
      BY <2>1, ConcatAdjacentSubSeq
  <1>5. SubSeq(s, 1, Len(s)) = s
    BY SubSeqFull
  <1> DEFINE a == SubSeq(s, 1, k)
             b == SubSeq(s, k + 1, Len(s))
  <1>6. /\ Elements(a \o b) = Elements(a) \cup Elements(b)
        /\ Distinct(a \o b) <=> Distinct(a) /\ Distinct(b) /\ Elements(a) \cap Elements(b) = {}
    <2> HIDE DEF a, b
    <2>1. a \in Seq(S) /\ b \in Seq(S)
      BY <1>2, <1>3 DEF a, b
    <2> QED
      BY <2>1, ConcatElements
  <1>7. a \o b = s
    BY <1>4, <1>5
  <1> QED
    BY <1>2, <1>3, <1>6, <1>7

(* So does taking the first one off. *)
LEMMA TailElements ==
  ASSUME NEW S, NEW s \in Seq(S), s # <<>>
  PROVE  /\ Head(s) \in S /\ Tail(s) \in Seq(S) /\ Len(Tail(s)) = Len(s) - 1 /\ Len(s) > 0
         /\ Elements(s) = {Head(s)} \cup Elements(Tail(s))
         /\ Distinct(s) => Head(s) \notin Elements(Tail(s)) /\ Distinct(Tail(s))
  <1>1. Len(s) \in Nat \ {0} /\ Head(s) = s[1] /\ Head(s) \in S
    BY EmptySeq, HeadTailProperties
  <1>2. 1 \in 0..Len(s)
    BY <1>1
  <1>3. Tail(s) = SubSeq(s, 1 + 1, Len(s))
    BY TailIsSubSeq
  <1>4. /\ Len(SubSeq(s, 1, 1)) = 1 /\ SubSeq(s, 1, 1)[1] = s[1] /\ SubSeq(s, 1, 1) \in Seq(S)
    BY <1>1, SubSeqProperties
  <1>5. Elements(SubSeq(s, 1, 1)) = {Head(s)}
    BY <1>1, <1>4 DEF Elements
  <1> DEFINE a == SubSeq(s, 1, 1)
             b == SubSeq(s, 1 + 1, Len(s))
  <1>6. /\ b \in Seq(S) /\ Len(b) = Len(s) - 1
        /\ Elements(s) = Elements(a) \cup Elements(b)
        /\ Distinct(s) => Distinct(b) /\ Elements(a) \cap Elements(b) = {}
    <2>1. \A k \in 0..Len(s) :
             /\ SubSeq(s, k + 1, Len(s)) \in Seq(S)
             /\ Len(SubSeq(s, k + 1, Len(s))) = Len(s) - k
             /\ Elements(s) = Elements(SubSeq(s, 1, k)) \cup Elements(SubSeq(s, k + 1, Len(s)))
             /\ Distinct(s) => /\ Distinct(SubSeq(s, k + 1, Len(s)))
                               /\ Elements(SubSeq(s, 1, k)) \cap Elements(SubSeq(s, k + 1, Len(s))) = {}
      BY SplitElements
    <2> QED
      BY <1>2, <2>1
  <1>7. b = Tail(s) /\ Elements(a) = {Head(s)}
    BY <1>3, <1>5
  <1> HIDE DEF a, b
  <1>8. Len(Tail(s)) = Len(s) - 1 /\ Tail(s) \in Seq(S) /\ Len(s) > 0
    BY <1>1, <1>6, <1>7
  <1>9. Elements(s) = {Head(s)} \cup Elements(Tail(s))
    BY <1>6, <1>7
  <1>10. Distinct(s) => Head(s) \notin Elements(Tail(s)) /\ Distinct(Tail(s))
    BY <1>6, <1>7
  <1> QED
    BY <1>1, <1>8, <1>9, <1>10

-----------------------------------------------------------------------------
(* Every job is at one of the places, and at no two. *)
Division(P) ==
    /\ P \in [1..12 -> SUBSET Jobs]
    /\ \A j \in Jobs : \E n \in 1..12 : j \in P[n]
    /\ \A n, m \in 1..12 : n # m => P[n] \cap P[m] = {}

(* The jobs of X go from place m to place n. *)
Move(P, X, m, n) == [P EXCEPT ![m] = @ \ X, ![n] = @ \cup X]

(* The action of the queue in the small: nothing is copied or dropped. *)
LEMMA MoveDivides ==
  ASSUME NEW P, Division(P), NEW m \in 1..12, NEW n \in 1..12, m # n, NEW X, X \subseteq P[m]
  PROVE  /\ Division(Move(P, X, m, n))
         /\ Move(P, X, m, n)[m] = P[m] \ X /\ Move(P, X, m, n)[n] = P[n] \cup X
         /\ \A i \in 1..12 : i # m /\ i # n => Move(P, X, m, n)[i] = P[i]
  <1> DEFINE Q == Move(P, X, m, n)
  <1>1. /\ Q \in [1..12 -> SUBSET Jobs]
        /\ Q[m] = P[m] \ X /\ Q[n] = P[n] \cup X
        /\ \A i \in 1..12 : i # m /\ i # n => Q[i] = P[i]
    BY DEF Move, Division
  <1> HIDE DEF Q
  <1>2. ASSUME NEW j \in Jobs PROVE \E i \in 1..12 : j \in Q[i]
    <2>1. PICK i \in 1..12 : j \in P[i]
      BY DEF Division
    <2>2. CASE j \in X
      BY <1>1, <2>2
    <2>3. CASE j \notin X
      BY <1>1, <2>1, <2>3
    <2> QED
      BY <2>2, <2>3
  <1>3. ASSUME NEW i \in 1..12, NEW k \in 1..12, i # k, NEW j \in Q[i], j \in Q[k] PROVE FALSE
    <2>1. ASSUME NEW a \in 1..12, NEW b \in 1..12, j \in P[a], j \in P[b] PROVE a = b
      BY <2>1 DEF Division
    <2>2. CASE j \in X
      BY <1>1, <1>3, <2>1, <2>2
    <2>3. CASE j \notin X
      BY <1>1, <1>3, <2>1, <2>3
    <2> QED
      BY <2>2, <2>3
  <1> QED
    BY <1>1, <1>2, <1>3 DEF Division, Q

(* The places by number. *)
LEMMA PlacesAre ==
  /\ Places[1] = unborn /\ Places[2] = Elements(queue) /\ Places[3] = putting
  /\ Places[4] = Elements(dlq) /\ Places[5] = journaling /\ Places[6] = Elements(overflow)
  /\ Places[7] = Elements(aside) /\ Places[8] = Elements(again)
  /\ Places[9] = {work} \ {NoJob} /\ Places[10] = journal /\ Places[11] = done
  /\ Places[12] = lost
  /\ Len(Places) = 12 /\ DOMAIN Places = 1..12
  BY DEF Places

(* Moves that end in the places after a step show that the step divides. *)
LEMMA SamePlaces ==
  ASSUME NEW P, Division(P),
         P[1] = unborn', P[2] = Elements(queue)', P[3] = putting', P[4] = Elements(dlq)',
         P[5] = journaling', P[6] = Elements(overflow)', P[7] = Elements(aside)',
         P[8] = Elements(again)', P[9] = ({work} \ {NoJob})', P[10] = journal',
         P[11] = done', P[12] = lost'
  PROVE  Division(Places')
  <1>1. /\ Places'[1] = P[1] /\ Places'[2] = P[2] /\ Places'[3] = P[3] /\ Places'[4] = P[4]
        /\ Places'[5] = P[5] /\ Places'[6] = P[6] /\ Places'[7] = P[7] /\ Places'[8] = P[8]
        /\ Places'[9] = P[9] /\ Places'[10] = P[10] /\ Places'[11] = P[11]
        /\ Places'[12] = P[12]
    BY DEF Places
  <1>2. Places' = [n \in 1..12 |-> Places'[n]]
    BY DEF Places
  <1>3. P = [n \in 1..12 |-> P[n]]
    BY DEF Division
  <1>4. \A n \in 1..12 : Places'[n] = P[n]
    BY <1>1
  <1>5. Places' = P
    BY <1>2, <1>3, <1>4
  <1> QED
    BY <1>5

-----------------------------------------------------------------------------
(* No list holds a job twice, nor do the two lists of the retry loop. *)
Unmixed == Distinct(queue) /\ Distinct(dlq) /\ Distinct(overflow) /\ Distinct(aside \o again)

(* The inductive invariant. *)
QueueInv == MemoryTypeOK /\ Division(Places) /\ Unmixed

(* Nothing is anywhere yet. *)
LEMMA InitOK == MemoryInit => QueueInv
  <1> SUFFICES ASSUME MemoryInit PROVE QueueInv
    OBVIOUS
  <1>1. /\ unborn = Jobs /\ queue = <<>> /\ dlq = <<>> /\ overflow = <<>> /\ aside = <<>>
        /\ again = <<>> /\ putting = {} /\ journaling = {} /\ work = NoJob /\ stopped = {}
        /\ journal = {} /\ done = {} /\ lost = {}
    BY DEF MemoryInit
  <1>2. Elements(<<>>) = {} /\ Distinct(<<>>) /\ <<>> \o <<>> = <<>>
    BY DEF Elements, Distinct
  <1>3. MemoryTypeOK
    BY <1>1, MemoryQueueAssumption DEF MemoryTypeOK
  <1>4. Unmixed
    BY <1>1, <1>2 DEF Unmixed
  <1>5. Division(Places)
    <2>1. {work} \ {NoJob} = {}
      BY <1>1
    <2>2. /\ Places[1] = Jobs /\ Places[2] = {} /\ Places[3] = {} /\ Places[4] = {}
          /\ Places[5] = {} /\ Places[6] = {} /\ Places[7] = {} /\ Places[8] = {}
          /\ Places[9] = {} /\ Places[10] = {} /\ Places[11] = {} /\ Places[12] = {}
      BY <1>1, <1>2, <2>1, PlacesAre
    <2>3. \A n \in 1..12 : n # 1 => Places[n] = {}
      BY <2>2
    <2>4. Places = [n \in 1..12 |-> Places[n]]
      BY DEF Places
    <2>5. Places \in [1..12 -> SUBSET Jobs]
      BY <2>2, <2>3, <2>4
    <2> QED
      BY <2>2, <2>3, <2>5 DEF Division
  <1> QED
    BY <1>3, <1>4, <1>5 DEF QueueInv

(* The step lemmas, one per action. *)
LEMMA EnqueueOK ==
  ASSUME QueueInv, NEW j \in Jobs, Enqueue(j)
  PROVE  QueueInv'
  <1> USE DEF QueueInv
  <1>1. j \in Places[1] /\ \A n \in 1..12 : n # 1 => j \notin Places[n]
    BY PlacesAre DEF Enqueue, Division
  <1>2. /\ Append(queue, j) \in Seq(Jobs) /\ Len(Append(queue, j)) = Len(queue) + 1
        /\ Elements(Append(queue, j)) = Elements(queue) \cup {j} /\ Distinct(Append(queue, j))
        /\ Len(queue) \in Nat
    BY <1>1, AppendElements, ElementsIn, PlacesAre DEF MemoryTypeOK, Unmixed
  <1>3. CASE Len(queue) < QueueMax
    <2> DEFINE Q == Move(Places, {j}, 1, 2)
    <2>1. queue' = Append(queue, j) /\ UNCHANGED putting
      BY <1>3 DEF Enqueue
    <2>2. MemoryTypeOK'
      BY <1>2, <1>3, <2>1, MemoryQueueAssumption DEF MemoryTypeOK, Enqueue, lists, retrying
    <2>3. /\ Division(Q) /\ Q[1] = Places[1] \ {j} /\ Q[2] = Places[2] \cup {j}
          /\ \A i \in 1..12 : i # 1 /\ i # 2 => Q[i] = Places[i]
      BY <1>1, MoveDivides, SMTT(30)
    <2> HIDE DEF Q
    <2>4. /\ Q[1] = unborn' /\ Q[2] = Elements(queue)' /\ Q[3] = putting' /\ Q[4] = Elements(dlq)'
          /\ Q[5] = journaling' /\ Q[6] = Elements(overflow)' /\ Q[7] = Elements(aside)'
          /\ Q[8] = Elements(again)' /\ Q[9] = ({work} \ {NoJob})' /\ Q[10] = journal'
          /\ Q[11] = done' /\ Q[12] = lost'
      BY <1>2, <2>1, <2>3, PlacesAre DEF Enqueue, retrying
    <2>5. Division(Places')
      BY <2>3, <2>4, SamePlaces
    <2> QED
      BY <1>2, <2>1, <2>2, <2>5 DEF Unmixed, Enqueue, retrying
  <1>4. CASE ~(Len(queue) < QueueMax)
    <2> DEFINE Q == Move(Places, {j}, 1, 3)
    <2>1. putting' = putting \cup {j} /\ UNCHANGED queue
      BY <1>4 DEF Enqueue
    <2>2. MemoryTypeOK'
      BY <2>1 DEF MemoryTypeOK, Enqueue, retrying
    <2>3. /\ Division(Q) /\ Q[1] = Places[1] \ {j} /\ Q[3] = Places[3] \cup {j}
          /\ \A i \in 1..12 : i # 1 /\ i # 3 => Q[i] = Places[i]
      BY <1>1, MoveDivides, SMTT(30)
    <2> HIDE DEF Q
    <2>4. /\ Q[1] = unborn' /\ Q[2] = Elements(queue)' /\ Q[3] = putting' /\ Q[4] = Elements(dlq)'
          /\ Q[5] = journaling' /\ Q[6] = Elements(overflow)' /\ Q[7] = Elements(aside)'
          /\ Q[8] = Elements(again)' /\ Q[9] = ({work} \ {NoJob})' /\ Q[10] = journal'
          /\ Q[11] = done' /\ Q[12] = lost'
      BY <2>1, <2>3, PlacesAre DEF Enqueue, retrying
    <2>5. Division(Places')
      BY <2>3, <2>4, SamePlaces
    <2> QED
      BY <2>1, <2>2, <2>5 DEF Unmixed, Enqueue, retrying
  <1> QED
    BY <1>3, <1>4

LEMMA PutOK ==
  ASSUME QueueInv, NEW j \in Jobs, Put(j)
  PROVE  QueueInv'
  <1> USE DEF QueueInv
  <1>1. {j} \subseteq Places[3] /\ j \notin Elements(queue)
    BY PlacesAre DEF Put, Division
  <1>2. /\ queue' \in Seq(Jobs) /\ Len(queue)' = Len(queue) + 1 /\ Len(queue) \in Nat
        /\ Elements(queue)' = Elements(queue) \cup {j} /\ Distinct(queue)'
    BY <1>1, AppendElements, ElementsIn DEF MemoryTypeOK, Unmixed, Put
  <1>3. MemoryTypeOK'
    BY <1>2, MemoryQueueAssumption DEF MemoryTypeOK, Put, retrying
  <1> DEFINE Q == Move(Places, {j}, 3, 2)
  <1>4. /\ Division(Q) /\ Q[3] = Places[3] \ {j} /\ Q[2] = Places[2] \cup {j}
        /\ \A i \in 1..12 : i # 3 /\ i # 2 => Q[i] = Places[i]
    BY <1>1, <1>2, MoveDivides, SMTT(30)
  <1> HIDE DEF Q
  <1>5. /\ Q[1] = unborn' /\ Q[2] = Elements(queue)' /\ Q[3] = putting' /\ Q[4] = Elements(dlq)'
        /\ Q[5] = journaling' /\ Q[6] = Elements(overflow)' /\ Q[7] = Elements(aside)'
        /\ Q[8] = Elements(again)' /\ Q[9] = ({work} \ {NoJob})' /\ Q[10] = journal'
        /\ Q[11] = done' /\ Q[12] = lost'
    BY <1>1, <1>2, <1>4, PlacesAre DEF Put, retrying
  <1>6. Division(Places')
    BY <1>4, <1>5, SamePlaces
  <1> QED
    BY <1>2, <1>3, <1>6 DEF Unmixed, Put, retrying

LEMMA PutTimesOutOK ==
  ASSUME QueueInv, NEW j \in Jobs, PutTimesOut(j)
  PROVE  QueueInv'
  <1> USE DEF QueueInv
  <1>1. {j} \subseteq Places[3] /\ j \notin Elements(dlq)
    BY PlacesAre DEF PutTimesOut, Division
  <1>2. CASE Len(dlq) < DlqMax
    <2> DEFINE d == Append(dlq, j)
    <2>1. dlq' = d /\ journaling' = journaling
      BY <1>2 DEF PutTimesOut
    <2>2. /\ d \in Seq(Jobs) /\ Len(d) = Len(dlq) + 1 /\ Len(dlq) \in Nat
          /\ Elements(d) = Elements(dlq) \cup {j} /\ Distinct(d)
      BY <1>1, AppendElements, ElementsIn DEF MemoryTypeOK, Unmixed
    <2> HIDE DEF d
    <2>3. /\ dlq' \in Seq(Jobs) /\ Len(dlq)' = Len(dlq) + 1 /\ Len(dlq) \in Nat
          /\ Elements(dlq)' = Elements(dlq) \cup {j} /\ Distinct(dlq)' /\ journaling' = journaling
      BY <2>1, <2>2
    <2>4. MemoryTypeOK'
      BY <1>2, <2>3, MemoryQueueAssumption DEF MemoryTypeOK, PutTimesOut, retrying
    <2> DEFINE Q == Move(Places, {j}, 3, 4)
    <2>5. /\ Division(Q) /\ Q[3] = Places[3] \ {j} /\ Q[4] = Places[4] \cup {j}
          /\ \A i \in 1..12 : i # 3 /\ i # 4 => Q[i] = Places[i]
      BY <1>1, <2>3, MoveDivides, SMTT(30)
    <2> HIDE DEF Q
    <2>6. /\ Q[1] = unborn' /\ Q[2] = Elements(queue)' /\ Q[3] = putting' /\ Q[4] = Elements(dlq)'
          /\ Q[5] = journaling' /\ Q[6] = Elements(overflow)' /\ Q[7] = Elements(aside)'
          /\ Q[8] = Elements(again)' /\ Q[9] = ({work} \ {NoJob})' /\ Q[10] = journal'
          /\ Q[11] = done' /\ Q[12] = lost'
      BY <1>1, <2>3, <2>5, PlacesAre DEF PutTimesOut, retrying
    <2>7. Division(Places')
      BY <2>5, <2>6, SamePlaces
    <2> QED
      BY <2>3, <2>4, <2>7 DEF Unmixed, PutTimesOut, retrying
  <1>3. CASE ~(Len(dlq) < DlqMax)
    <2>1. journaling' = journaling \cup {j} /\ dlq' = dlq
      BY <1>3 DEF PutTimesOut
    <2>2. MemoryTypeOK'
      BY <2>1 DEF MemoryTypeOK, PutTimesOut, retrying
    <2> DEFINE Q == Move(Places, {j}, 3, 5)
    <2>3. /\ Division(Q) /\ Q[3] = Places[3] \ {j} /\ Q[5] = Places[5] \cup {j}
          /\ \A i \in 1..12 : i # 3 /\ i # 5 => Q[i] = Places[i]
      BY <1>1, <2>1, MoveDivides, SMTT(30)
    <2> HIDE DEF Q
    <2>4. /\ Q[1] = unborn' /\ Q[2] = Elements(queue)' /\ Q[3] = putting' /\ Q[4] = Elements(dlq)'
          /\ Q[5] = journaling' /\ Q[6] = Elements(overflow)' /\ Q[7] = Elements(aside)'
          /\ Q[8] = Elements(again)' /\ Q[9] = ({work} \ {NoJob})' /\ Q[10] = journal'
          /\ Q[11] = done' /\ Q[12] = lost'
      BY <1>1, <2>1, <2>3, PlacesAre DEF PutTimesOut, retrying
    <2>5. Division(Places')
      BY <2>3, <2>4, SamePlaces
    <2> QED
      BY <2>1, <2>2, <2>5 DEF Unmixed, PutTimesOut, retrying
  <1> QED
    BY <1>2, <1>3

(* What does not fit is lost, the rest is kept in the buffer. *)
LEMMA OverflowsKeeps ==
  ASSUME overflow \in Seq(Jobs), NEW s \in Seq(Jobs), Overflows(s), Distinct(overflow \o s)
  PROVE  /\ overflow' \in Seq(Jobs) /\ Len(overflow)' <= OverflowMax /\ Distinct(overflow)'
         /\ \E X \in SUBSET (Elements(overflow) \cup Elements(s)) :
              /\ Elements(overflow)' = (Elements(overflow) \cup Elements(s)) \ X
              /\ lost' = lost \cup X
  <1> DEFINE t == overflow \o s
             k == Excess(t)
             X == Elements(SubSeq(t, 1, k))
  <1>1. t \in Seq(Jobs) /\ Elements(t) = Elements(overflow) \cup Elements(s)
    BY ConcatElements
  <1>2. overflow' = SubSeq(t, k + 1, Len(t)) /\ lost' = lost \cup X
    BY DEF Overflows
  <1>3. Distinct(t)
    OBVIOUS
  <1> HIDE DEF t
  <1>4. Len(t) \in Nat /\ OverflowMax \in Nat
    BY <1>1, ElementsIn, MemoryQueueAssumption
  <1>5. k \in 0..Len(t) /\ Len(t) - k <= OverflowMax
    BY <1>4 DEF Excess
  <1> HIDE DEF k
  <1>6. /\ SubSeq(t, k + 1, Len(t)) \in Seq(Jobs) /\ Len(SubSeq(t, k + 1, Len(t))) = Len(t) - k
        /\ Elements(t) = X \cup Elements(SubSeq(t, k + 1, Len(t)))
        /\ Distinct(SubSeq(t, k + 1, Len(t))) /\ X \cap Elements(SubSeq(t, k + 1, Len(t))) = {}
    BY <1>1, <1>3, <1>5, SplitElements
  <1> HIDE DEF X
  <1>7. overflow' \in Seq(Jobs) /\ Len(overflow)' <= OverflowMax /\ Distinct(overflow)'
    BY <1>2, <1>5, <1>6
  <1>8. X \subseteq Elements(overflow) \cup Elements(s)
    BY <1>1, <1>6
  <1>9. Elements(overflow)' = (Elements(overflow) \cup Elements(s)) \ X
    BY <1>1, <1>2, <1>6
  <1> QED
    BY <1>2, <1>7, <1>8, <1>9

LEMMA JournalAnswersOK ==
  ASSUME QueueInv, NEW j \in Jobs, JournalAnswers(j)
  PROVE  QueueInv'
  <1> USE DEF QueueInv
  <1>1. {j} \subseteq Places[5] /\ j \notin Elements(overflow)
    BY PlacesAre DEF JournalAnswers, Division
  <1>2. CASE journal' = journal \cup {j} /\ UNCHANGED <<overflow, lost>>
    <2>1. MemoryTypeOK'
      BY <1>2 DEF MemoryTypeOK, JournalAnswers, retrying
    <2> DEFINE Q == Move(Places, {j}, 5, 10)
    <2>2. /\ Division(Q) /\ Q[5] = Places[5] \ {j} /\ Q[10] = Places[10] \cup {j}
          /\ \A i \in 1..12 : i # 5 /\ i # 10 => Q[i] = Places[i]
      BY <1>1, <1>2, MoveDivides, SMTT(30)
    <2> HIDE DEF Q
    <2>3. /\ Q[1] = unborn' /\ Q[2] = Elements(queue)' /\ Q[3] = putting' /\ Q[4] = Elements(dlq)'
          /\ Q[5] = journaling' /\ Q[6] = Elements(overflow)' /\ Q[7] = Elements(aside)'
          /\ Q[8] = Elements(again)' /\ Q[9] = ({work} \ {NoJob})' /\ Q[10] = journal'
          /\ Q[11] = done' /\ Q[12] = lost'
      BY <1>1, <1>2, <2>2, PlacesAre DEF JournalAnswers, retrying
    <2>4. Division(Places')
      BY <2>2, <2>3, SamePlaces
    <2> QED
      BY <1>2, <2>1, <2>4 DEF Unmixed, JournalAnswers, retrying
  <1>3. CASE Overflows(<<j>>) /\ UNCHANGED journal
    <2> DEFINE s == <<j>>
    <2>1. s \in Seq(Jobs) /\ Elements(s) = {j} /\ Distinct(s)
      BY DEF Elements, Distinct
    <2>2. Overflows(s)
      BY <1>3
    <2> HIDE DEF s
    <2>3. Distinct(overflow \o s)
      BY <1>1, <2>1, ConcatElements DEF MemoryTypeOK, Unmixed
    <2>4. PICK X \in SUBSET (Elements(overflow) \cup {j}) :
             /\ overflow' \in Seq(Jobs) /\ Len(overflow)' <= OverflowMax /\ Distinct(overflow)'
             /\ Elements(overflow)' = (Elements(overflow) \cup {j}) \ X
             /\ lost' = lost \cup X
      BY <2>1, <2>3, <2>2, OverflowsKeeps DEF MemoryTypeOK
    <2>5. X \in SUBSET Jobs
      BY <2>4, ElementsIn DEF MemoryTypeOK
    <2>6. MemoryTypeOK'
      BY <1>3, <2>4, <2>5 DEF MemoryTypeOK, JournalAnswers, retrying
    <2> DEFINE P == Move(Places, {j}, 5, 6)
               Q == Move(P, X, 6, 12)
    <2>7. /\ Division(P) /\ P[5] = Places[5] \ {j} /\ P[6] = Places[6] \cup {j}
          /\ \A i \in 1..12 : i # 5 /\ i # 6 => P[i] = Places[i]
      BY <1>1, MoveDivides, SMTT(30)
    <2> HIDE DEF P
    <2>8. X \subseteq P[6]
      BY <2>4, <2>7, PlacesAre
    <2>9. /\ Division(Q) /\ Q[6] = P[6] \ X /\ Q[12] = P[12] \cup X
          /\ \A i \in 1..12 : i # 6 /\ i # 12 => Q[i] = P[i]
      BY <2>7, <2>8, MoveDivides, SMTT(30)
    <2> HIDE DEF Q
    <2>10. /\ Q[1] = unborn' /\ Q[2] = Elements(queue)' /\ Q[3] = putting' /\ Q[4] = Elements(dlq)'
           /\ Q[5] = journaling' /\ Q[6] = Elements(overflow)' /\ Q[7] = Elements(aside)'
           /\ Q[8] = Elements(again)' /\ Q[9] = ({work} \ {NoJob})' /\ Q[10] = journal'
           /\ Q[11] = done' /\ Q[12] = lost'
      BY <1>3, <2>4, <2>7, <2>9, PlacesAre DEF JournalAnswers, retrying
    <2>11. Division(Places')
      BY <2>9, <2>10, SamePlaces
    <2> QED
      BY <1>3, <2>4, <2>6, <2>11 DEF Unmixed, JournalAnswers, retrying
  <1> QED
    BY <1>2, <1>3 DEF JournalAnswers

LEMMA GetOK ==
  ASSUME QueueInv, Get
  PROVE  QueueInv'
  <1> USE DEF QueueInv
  <1> DEFINE j == Head(queue)
  <1>1. /\ j \in Jobs /\ Tail(queue) \in Seq(Jobs) /\ Len(Tail(queue)) = Len(queue) - 1
        /\ Elements(queue) = {j} \cup Elements(Tail(queue)) /\ Len(queue) \in Nat
        /\ j \notin Elements(Tail(queue)) /\ Distinct(Tail(queue))
    BY TailElements, ElementsIn DEF MemoryTypeOK, Unmixed, Get
  <1>2. work = NoJob /\ work' = j /\ queue' = Tail(queue) /\ j # NoJob
    BY <1>1, MemoryQueueAssumption DEF Get
  <1> HIDE DEF j
  <1>3. {j} \subseteq Places[2] /\ Elements(queue)' = Elements(queue) \ {j} /\ ({work} \ {NoJob})' = {j}
    BY <1>1, <1>2, PlacesAre
  <1>4. MemoryTypeOK'
    BY <1>1, <1>2, MemoryQueueAssumption DEF MemoryTypeOK, Get, retrying
  <1>5. Places[9] = {}
    BY <1>2, PlacesAre
  <1>6. UNCHANGED <<unborn, dlq, overflow, putting, journaling, aside, again, journal, done, lost>>
    BY DEF Get, retrying
  <1> DEFINE Q == Move(Places, {j}, 2, 9)
  <1>7. /\ Division(Q) /\ Q[2] = Places[2] \ {j} /\ Q[9] = Places[9] \cup {j}
        /\ \A i \in 1..12 : i # 2 /\ i # 9 => Q[i] = Places[i]
    BY <1>3, <1>5, <1>6, MoveDivides, SMTT(30)
  <1> HIDE DEF Q
  <1>8. /\ Q[1] = unborn' /\ Q[2] = Elements(queue)' /\ Q[3] = putting' /\ Q[4] = Elements(dlq)'
        /\ Q[5] = journaling' /\ Q[6] = Elements(overflow)' /\ Q[7] = Elements(aside)'
        /\ Q[8] = Elements(again)' /\ Q[9] = ({work} \ {NoJob})' /\ Q[10] = journal'
        /\ Q[11] = done' /\ Q[12] = lost'
    BY <1>3, <1>5, <1>6, <1>7, PlacesAre DEF Elements
  <1>9. Division(Places')
    BY <1>7, <1>8, SamePlaces
  <1> QED
    BY <1>1, <1>2, <1>4, <1>9 DEF Unmixed, Get, retrying

LEMMA FinishOK ==
  ASSUME QueueInv, Finish
  PROVE  QueueInv'
  <1> USE DEF QueueInv
  <1>1. work \in Jobs /\ {work} \subseteq Places[9] /\ Places[9] = {work} /\ ({work} \ {NoJob})' = {}
    BY PlacesAre DEF Finish, MemoryTypeOK
  <1>2. CASE done' = done \cup {work} /\ UNCHANGED lost
    <2>1. MemoryTypeOK'
      BY <1>1, <1>2 DEF MemoryTypeOK, Finish, lists, retrying
    <2> DEFINE Q == Move(Places, {work}, 9, 11)
    <2>2. /\ Division(Q) /\ Q[9] = Places[9] \ {work} /\ Q[11] = Places[11] \cup {work}
          /\ \A i \in 1..12 : i # 9 /\ i # 11 => Q[i] = Places[i]
      BY <1>1, <1>2, MoveDivides, SMTT(30)
    <2> HIDE DEF Q
    <2>3. /\ Q[1] = unborn' /\ Q[2] = Elements(queue)' /\ Q[3] = putting' /\ Q[4] = Elements(dlq)'
          /\ Q[5] = journaling' /\ Q[6] = Elements(overflow)' /\ Q[7] = Elements(aside)'
          /\ Q[8] = Elements(again)' /\ Q[9] = ({work} \ {NoJob})' /\ Q[10] = journal'
          /\ Q[11] = done' /\ Q[12] = lost'
      BY <1>1, <1>2, <2>2, PlacesAre DEF Finish, lists, retrying
    <2>4. Division(Places')
      BY <2>2, <2>3, SamePlaces
    <2> QED
      BY <2>1, <2>4 DEF Unmixed, Finish, lists, retrying
  <1>3. CASE lost' = lost \cup {work} /\ UNCHANGED done
    <2>1. MemoryTypeOK'
      BY <1>1, <1>3 DEF MemoryTypeOK, Finish, lists, retrying
    <2> DEFINE Q == Move(Places, {work}, 9, 12)
    <2>2. /\ Division(Q) /\ Q[9] = Places[9] \ {work} /\ Q[12] = Places[12] \cup {work}
          /\ \A i \in 1..12 : i # 9 /\ i # 12 => Q[i] = Places[i]
      BY <1>1, <1>3, MoveDivides, SMTT(30)
    <2> HIDE DEF Q
    <2>3. /\ Q[1] = unborn' /\ Q[2] = Elements(queue)' /\ Q[3] = putting' /\ Q[4] = Elements(dlq)'
          /\ Q[5] = journaling' /\ Q[6] = Elements(overflow)' /\ Q[7] = Elements(aside)'
          /\ Q[8] = Elements(again)' /\ Q[9] = ({work} \ {NoJob})' /\ Q[10] = journal'
          /\ Q[11] = done' /\ Q[12] = lost'
      BY <1>1, <1>3, <2>2, PlacesAre DEF Finish, lists, retrying
    <2>4. Division(Places')
      BY <2>2, <2>3, SamePlaces
    <2> QED
      BY <2>1, <2>4 DEF Unmixed, Finish, lists, retrying
  <1> QED
    BY <1>2, <1>3 DEF Finish

LEMMA RetryOK ==
  ASSUME QueueInv, Retry
  PROVE  QueueInv'
  <1> USE DEF QueueInv
  <1> DEFINE moved == Smaller(Len(dlq), QueueMax - Len(queue))
             first == SubSeq(dlq, 1, moved)
             rest  == SubSeq(dlq, moved + 1, Len(dlq))
             back  == Smaller(Len(overflow), DlqMax - Len(rest))
             fit   == SubSeq(overflow, 1, back)
             over  == SubSeq(overflow, back + 1, Len(overflow))
  <1>1. /\ queue' = queue \o first /\ dlq' = rest \o fit /\ aside' = over /\ overflow' = <<>>
        /\ aside = <<>> /\ again = <<>>
        /\ UNCHANGED <<unborn, putting, journaling, again, work, stopped, journal, done, lost>>
    BY DEF Retry
  <1>2. /\ QueueMax \in Nat /\ DlqMax \in Nat /\ OverflowMax \in Nat /\ Len(queue) \in Nat
        /\ Len(dlq) \in Nat /\ Len(overflow) \in Nat
        /\ Len(queue) <= QueueMax /\ Len(dlq) <= DlqMax
    BY ElementsIn, MemoryQueueAssumption DEF MemoryTypeOK
  <1>3. moved \in 0..Len(dlq) /\ moved <= QueueMax - Len(queue)
    BY <1>2 DEF Smaller
  <1>4. /\ first \in Seq(Jobs) /\ rest \in Seq(Jobs) /\ Len(first) = moved
        /\ Len(rest) = Len(dlq) - moved /\ Elements(dlq) = Elements(first) \cup Elements(rest)
        /\ Distinct(first) /\ Distinct(rest) /\ Elements(first) \cap Elements(rest) = {}
    <2> HIDE DEF moved
    <2> QED
      BY <1>3, SplitElements DEF MemoryTypeOK, Unmixed
  <1>5. back \in 0..Len(overflow) /\ back <= DlqMax - Len(rest)
    <2> HIDE DEF moved, rest
    <2> QED
      BY <1>2, <1>3, <1>4 DEF Smaller
  <1>6. /\ fit \in Seq(Jobs) /\ over \in Seq(Jobs) /\ Len(fit) = back
        /\ Elements(overflow) = Elements(fit) \cup Elements(over)
        /\ Distinct(fit) /\ Distinct(over) /\ Elements(fit) \cap Elements(over) = {}
    <2> HIDE DEF back
    <2> QED
      BY <1>5, SplitElements DEF MemoryTypeOK, Unmixed
  <1> HIDE DEF moved, first, rest, back, fit, over
  <1>7. /\ Places[2] = Elements(queue) /\ Places[4] = Elements(dlq) /\ Places[6] = Elements(overflow)
        /\ Elements(first) \cap Elements(queue) = {} /\ Elements(fit) \cap Elements(rest) = {}
    BY <1>4, <1>6, PlacesAre DEF Division
  <1>8. /\ queue' \in Seq(Jobs) /\ Len(queue)' = Len(queue) + moved
        /\ Elements(queue)' = Elements(queue) \cup Elements(first) /\ Distinct(queue)'
    BY <1>1, <1>4, <1>7, ConcatElements DEF MemoryTypeOK, Unmixed
  <1>9. /\ dlq' \in Seq(Jobs) /\ Len(dlq)' = Len(rest) + back
        /\ Elements(dlq)' = Elements(rest) \cup Elements(fit) /\ Distinct(dlq)'
    BY <1>1, <1>4, <1>6, <1>7, ConcatElements
  <1>10. /\ overflow' \in Seq(Jobs) /\ Len(overflow)' = 0 /\ Elements(overflow)' = {}
         /\ Distinct(overflow)' /\ Elements(aside) = {} /\ Elements(again) = {}
    BY <1>1 DEF Elements, Distinct
  <1>11. aside' \o again' = over
    BY <1>1, <1>6
  <1>12. MemoryTypeOK'
    BY <1>1, <1>2, <1>3, <1>4, <1>5, <1>6, <1>8, <1>9, <1>10 DEF MemoryTypeOK
  <1>13. Unmixed'
    BY <1>6, <1>8, <1>9, <1>10, <1>11 DEF Unmixed
  <1> DEFINE P == Move(Places, Elements(first), 4, 2)
  <1>14. /\ Division(P) /\ P[4] = Places[4] \ Elements(first) /\ P[2] = Places[2] \cup Elements(first)
         /\ \A i \in 1..12 : i # 4 /\ i # 2 => P[i] = Places[i]
    BY <1>4, <1>7, MoveDivides, SMTT(30)
  <1> HIDE DEF P
  <1>15. P[4] = Elements(rest) /\ P[6] = Elements(overflow)
    BY <1>4, <1>7, <1>14
  <1> DEFINE Q == Move(P, Elements(fit), 6, 4)
  <1>16. /\ Division(Q) /\ Q[6] = P[6] \ Elements(fit) /\ Q[4] = P[4] \cup Elements(fit)
         /\ \A i \in 1..12 : i # 6 /\ i # 4 => Q[i] = P[i]
    BY <1>6, <1>14, <1>15, MoveDivides, SMTT(30)
  <1> HIDE DEF Q
  <1>17. Q[6] = Elements(over) /\ Q[7] = {} /\ Q[8] = {}
    BY <1>6, <1>10, <1>14, <1>15, <1>16, PlacesAre
  <1>18. Division(Q) /\ Elements(over) \subseteq Q[6]
    BY <1>16, <1>17
  <1> DEFINE R == Move(Q, Elements(over), 6, 7)
  <1>19. /\ Division(R) /\ R[6] = Q[6] \ Elements(over) /\ R[7] = Q[7] \cup Elements(over)
         /\ \A i \in 1..12 : i # 6 /\ i # 7 => R[i] = Q[i]
    BY <1>18, MoveDivides, SMTT(30)
  <1> HIDE DEF R
  <1>20. /\ R[1] = unborn' /\ R[2] = Elements(queue)' /\ R[3] = putting' /\ R[4] = Elements(dlq)'
         /\ R[5] = journaling' /\ R[6] = Elements(overflow)' /\ R[7] = Elements(aside)'
         /\ R[8] = Elements(again)' /\ R[9] = ({work} \ {NoJob})' /\ R[10] = journal'
         /\ R[11] = done' /\ R[12] = lost'
    BY <1>1, <1>8, <1>9, <1>10, <1>14, <1>15, <1>16, <1>17, <1>19, PlacesAre
  <1>21. Division(Places')
    BY <1>19, <1>20, SamePlaces
  <1> QED
    BY <1>12, <1>13, <1>21

LEMMA RetryJournalsOK ==
  ASSUME QueueInv, RetryJournals
  PROVE  QueueInv'
  <1> USE DEF QueueInv
  <1> DEFINE j == Head(aside)
             t == Tail(aside)
  <1>1. /\ aside' = t
        /\ UNCHANGED <<unborn, queue, dlq, overflow, putting, journaling, work, stopped, done, lost>>
    BY DEF RetryJournals, lists
  <1>2. /\ j \in Jobs /\ t \in Seq(Jobs) /\ Elements(aside) = {j} \cup Elements(t)
        /\ Distinct(aside) => j \notin Elements(t) /\ Distinct(t)
    BY TailElements DEF MemoryTypeOK, RetryJournals
  <1>3. \/ journal' = journal \cup {j} /\ UNCHANGED again
        \/ again' = Append(again, j) /\ UNCHANGED journal
    BY DEF RetryJournals
  <1> HIDE DEF j, t
  <1>4. Distinct(aside) /\ Distinct(again) /\ Elements(aside) \cap Elements(again) = {}
    BY ConcatElements DEF MemoryTypeOK, Unmixed
  <1>5. {j} \subseteq Places[7] /\ Elements(aside)' = Elements(aside) \ {j} /\ j \notin Elements(again)
    BY <1>1, <1>2, <1>4, PlacesAre
  <1>6. /\ Append(again, j) \in Seq(Jobs) /\ Distinct(Append(again, j))
        /\ Elements(Append(again, j)) = Elements(again) \cup {j}
    BY <1>2, <1>4, <1>5, AppendElements DEF MemoryTypeOK
  <1>7. CASE journal' = journal \cup {j} /\ UNCHANGED again
    <2>1. MemoryTypeOK'
      BY <1>1, <1>2, <1>7 DEF MemoryTypeOK
    <2>2. Unmixed'
      BY <1>1, <1>2, <1>4, <1>7, ConcatElements DEF Unmixed, MemoryTypeOK
    <2> DEFINE Q == Move(Places, {j}, 7, 10)
    <2>3. /\ Division(Q) /\ Q[7] = Places[7] \ {j} /\ Q[10] = Places[10] \cup {j}
          /\ \A i \in 1..12 : i # 7 /\ i # 10 => Q[i] = Places[i]
      BY <1>5, MoveDivides, SMTT(30)
    <2> HIDE DEF Q
    <2>4. /\ Q[1] = unborn' /\ Q[2] = Elements(queue)' /\ Q[3] = putting' /\ Q[4] = Elements(dlq)'
          /\ Q[5] = journaling' /\ Q[6] = Elements(overflow)' /\ Q[7] = Elements(aside)'
          /\ Q[8] = Elements(again)' /\ Q[9] = ({work} \ {NoJob})' /\ Q[10] = journal'
          /\ Q[11] = done' /\ Q[12] = lost'
      BY <1>1, <1>5, <1>7, <2>3, PlacesAre
    <2>5. Division(Places')
      BY <2>3, <2>4, SamePlaces
    <2> QED
      BY <2>1, <2>2, <2>5
  <1>8. CASE again' = Append(again, j) /\ UNCHANGED journal
    <2>1. MemoryTypeOK'
      BY <1>1, <1>2, <1>6, <1>8 DEF MemoryTypeOK
    <2>2. Unmixed'
      <3> DEFINE a == Append(again, j)
      <3>1. a \in Seq(Jobs) /\ Distinct(a) /\ Elements(a) = Elements(again) \cup {j}
        BY <1>6
      <3>2. aside' = t /\ again' = a
        BY <1>1, <1>8
      <3> HIDE DEF a
      <3>3. Distinct(t) /\ t \in Seq(Jobs) /\ Elements(t) \cap Elements(a) = {}
        BY <1>2, <1>4, <3>1
      <3>4. Distinct(t \o a)
        BY <3>1, <3>3, ConcatElements
      <3> QED
        BY <1>1, <3>2, <3>4 DEF Unmixed
    <2> DEFINE Q == Move(Places, {j}, 7, 8)
    <2>3. /\ Division(Q) /\ Q[7] = Places[7] \ {j} /\ Q[8] = Places[8] \cup {j}
          /\ \A i \in 1..12 : i # 7 /\ i # 8 => Q[i] = Places[i]
      BY <1>5, MoveDivides, SMTT(30)
    <2> HIDE DEF Q
    <2>4. /\ Q[1] = unborn' /\ Q[2] = Elements(queue)' /\ Q[3] = putting' /\ Q[4] = Elements(dlq)'
          /\ Q[5] = journaling' /\ Q[6] = Elements(overflow)' /\ Q[7] = Elements(aside)'
          /\ Q[8] = Elements(again)' /\ Q[9] = ({work} \ {NoJob})' /\ Q[10] = journal'
          /\ Q[11] = done' /\ Q[12] = lost'
      BY <1>1, <1>5, <1>6, <1>8, <2>3, PlacesAre
    <2>5. Division(Places')
      BY <2>3, <2>4, SamePlaces
    <2> QED
      BY <2>1, <2>2, <2>5
  <1> QED
    BY <1>3, <1>7, <1>8

LEMMA RetryReturnsOK ==
  ASSUME QueueInv, RetryReturns
  PROVE  QueueInv'
  <1> USE DEF QueueInv
  <1>1. /\ again' = <<>> /\ Overflows(again) /\ aside = <<>>
        /\ UNCHANGED <<unborn, queue, dlq, putting, journaling, aside, work, stopped, journal, done>>
    BY DEF RetryReturns
  <1>2. Distinct(again) /\ Elements(overflow) \cap Elements(again) = {}
    BY ConcatElements, PlacesAre DEF Division, MemoryTypeOK, Unmixed
  <1>3. Distinct(overflow \o again)
    BY <1>2, ConcatElements DEF MemoryTypeOK, Unmixed
  <1>4. PICK X \in SUBSET (Elements(overflow) \cup Elements(again)) :
           /\ overflow' \in Seq(Jobs) /\ Len(overflow)' <= OverflowMax /\ Distinct(overflow)'
           /\ Elements(overflow)' = (Elements(overflow) \cup Elements(again)) \ X
           /\ lost' = lost \cup X
    BY <1>1, <1>3, OverflowsKeeps DEF MemoryTypeOK
  <1>5. X \in SUBSET Jobs
    BY <1>4, ElementsIn DEF MemoryTypeOK
  <1>6. MemoryTypeOK'
    BY <1>1, <1>4, <1>5 DEF MemoryTypeOK
  <1>7. Elements(again)' = {} /\ Distinct(aside \o again)'
    BY <1>1 DEF Elements, Distinct
  <1>8. Elements(again) \subseteq Places[8]
    BY PlacesAre
  <1> DEFINE P == Move(Places, Elements(again), 8, 6)
  <1>9. /\ Division(P) /\ P[8] = Places[8] \ Elements(again) /\ P[6] = Places[6] \cup Elements(again)
        /\ \A i \in 1..12 : i # 8 /\ i # 6 => P[i] = Places[i]
    BY <1>8, MoveDivides, SMTT(30)
  <1> HIDE DEF P
  <1>10. X \subseteq P[6] /\ P[8] = {}
    BY <1>4, <1>9, PlacesAre
  <1> DEFINE Q == Move(P, X, 6, 12)
  <1>11. /\ Division(Q) /\ Q[6] = P[6] \ X /\ Q[12] = P[12] \cup X
         /\ \A i \in 1..12 : i # 6 /\ i # 12 => Q[i] = P[i]
    BY <1>9, <1>10, MoveDivides, SMTT(30)
  <1> HIDE DEF Q
  <1>12. Q[6] = Elements(overflow)' /\ Q[8] = {} /\ Q[12] = lost'
    <2>1. P[6] = Elements(overflow) \cup Elements(again) /\ P[12] = lost
      BY <1>9, PlacesAre
    <2> QED
      BY <1>4, <1>10, <1>11, <2>1
  <1>13. /\ Q[1] = unborn' /\ Q[2] = Elements(queue)' /\ Q[3] = putting' /\ Q[4] = Elements(dlq)'
         /\ Q[5] = journaling' /\ Q[6] = Elements(overflow)' /\ Q[7] = Elements(aside)'
         /\ Q[8] = Elements(again)' /\ Q[9] = ({work} \ {NoJob})' /\ Q[10] = journal'
         /\ Q[11] = done' /\ Q[12] = lost'
    BY <1>1, <1>7, <1>9, <1>11, <1>12, PlacesAre
  <1>14. Division(Places')
    BY <1>11, <1>13, SamePlaces
  <1> QED
    BY <1>1, <1>4, <1>6, <1>7, <1>14 DEF Unmixed

LEMMA StopWorkerOK ==
  ASSUME QueueInv, StopWorker
  PROVE  QueueInv'
  <1> USE DEF QueueInv
  <1> DEFINE given == IF work = NoJob THEN {} ELSE {work}
             found == IF InEnqueue THEN {SaveOf[work]} ELSE {}
             kept  == journal' \ journal
  <1>1. /\ putting' = putting \ found /\ journaling' = journaling \ found /\ work' = NoJob
        /\ stopped' = stopped \cup {"worker"}
        /\ UNCHANGED <<unborn, queue, dlq, overflow, aside, again, done>>
    BY DEF StopWorker, lists, retrying
  <1>2. \/ lost' = lost \cup given \cup found /\ UNCHANGED journal
        \/ found \subseteq journaling /\ lost' = lost \cup given /\ journal' = journal \cup found
    BY DEF StopWorker
  <1>3. given = Places[9] /\ given \subseteq Jobs /\ ({work} \ {NoJob})' = {}
    BY <1>1, PlacesAre DEF MemoryTypeOK
  <1>4. found \subseteq putting \cup journaling /\ found \subseteq Jobs
    BY DEF InEnqueue, MemoryTypeOK
  <1> HIDE DEF given, found
  <1>5. MemoryTypeOK'
    BY <1>1, <1>2, <1>3, <1>4, MemoryQueueAssumption DEF MemoryTypeOK
  <1>6. Unmixed'
    BY <1>1 DEF Unmixed
  <1> DEFINE P == Move(Places, given, 9, 12)
  <1>7. /\ Division(P) /\ P[9] = Places[9] \ given /\ P[12] = Places[12] \cup given
        /\ \A i \in 1..12 : i # 9 /\ i # 12 => P[i] = Places[i]
    BY <1>3, MoveDivides, SMTT(30)
  <1> HIDE DEF P
  <1>8. P[3] = putting /\ P[5] = journaling /\ P[9] = {} /\ P[10] = journal /\ P[12] = lost \cup given
    BY <1>3, <1>7, PlacesAre
  <1>9. CASE lost' = lost \cup given \cup found /\ UNCHANGED journal
    <2> DEFINE a == found \cap putting
               b == found \cap journaling
    <2>1. a \subseteq P[3] /\ b \subseteq P[5] /\ found = a \cup b
      BY <1>4, <1>8
    <2>2. putting' = putting \ a /\ journaling' = journaling \ b
      BY <1>1
    <2> HIDE DEF a, b
    <2> DEFINE Q == Move(P, a, 3, 12)
    <2>3. /\ Division(Q) /\ Q[3] = P[3] \ a /\ Q[12] = P[12] \cup a
          /\ \A i \in 1..12 : i # 3 /\ i # 12 => Q[i] = P[i]
      BY <1>7, <2>1, MoveDivides, SMTT(30)
    <2> HIDE DEF Q
    <2>4. b \subseteq Q[5]
      BY <2>1, <2>3
    <2> DEFINE R == Move(Q, b, 5, 12)
    <2>5. /\ Division(R) /\ R[5] = Q[5] \ b /\ R[12] = Q[12] \cup b
          /\ \A i \in 1..12 : i # 5 /\ i # 12 => R[i] = Q[i]
      BY <2>3, <2>4, MoveDivides, SMTT(30)
    <2> HIDE DEF R
    <2>6. /\ R[1] = unborn' /\ R[2] = Elements(queue)' /\ R[3] = putting' /\ R[4] = Elements(dlq)'
          /\ R[5] = journaling' /\ R[6] = Elements(overflow)' /\ R[7] = Elements(aside)'
          /\ R[8] = Elements(again)' /\ R[9] = ({work} \ {NoJob})' /\ R[10] = journal'
          /\ R[11] = done' /\ R[12] = lost'
      BY <1>1, <1>3, <1>7, <1>8, <1>9, <2>1, <2>2, <2>3, <2>5, PlacesAre
    <2>7. Division(Places')
      BY <2>5, <2>6, SamePlaces
    <2> QED
      BY <1>5, <1>6, <2>7
  <1>10. CASE found \subseteq journaling /\ lost' = lost \cup given /\ journal' = journal \cup found
    <2>1. putting' = putting
      <3>1. found \cap putting = {}
        BY <1>10, PlacesAre DEF Division
      <3> QED
        BY <1>1, <3>1
    <2>2. found \subseteq P[5]
      BY <1>8, <1>10
    <2> DEFINE Q == Move(P, found, 5, 10)
    <2>3. /\ Division(Q) /\ Q[5] = P[5] \ found /\ Q[10] = P[10] \cup found
          /\ \A i \in 1..12 : i # 5 /\ i # 10 => Q[i] = P[i]
      BY <1>7, <2>2, MoveDivides, SMTT(30)
    <2> HIDE DEF Q
    <2>4. /\ Q[1] = unborn' /\ Q[2] = Elements(queue)' /\ Q[3] = putting' /\ Q[4] = Elements(dlq)'
          /\ Q[5] = journaling' /\ Q[6] = Elements(overflow)' /\ Q[7] = Elements(aside)'
          /\ Q[8] = Elements(again)' /\ Q[9] = ({work} \ {NoJob})' /\ Q[10] = journal'
          /\ Q[11] = done' /\ Q[12] = lost'
      BY <1>1, <1>3, <1>7, <1>8, <1>10, <2>1, <2>3, PlacesAre
    <2>5. Division(Places')
      BY <2>3, <2>4, SamePlaces
    <2> QED
      BY <1>5, <1>6, <2>5
  <1> QED
    BY <1>2, <1>9, <1>10

LEMMA StopRetryOK ==
  ASSUME QueueInv, StopRetry
  PROVE  QueueInv'
  <1> USE DEF QueueInv
  <1>1. /\ stopped' = {"worker", "retry"} /\ aside' = <<>> /\ again' = <<>>
        /\ UNCHANGED <<unborn, queue, dlq, overflow, putting, journaling, work, done>>
    BY DEF StopRetry, lists
  <1>2. Elements(aside)' = {} /\ Elements(again)' = {} /\ Distinct(aside \o again)'
    BY <1>1 DEF Elements, Distinct
  <1>3. Unmixed'
    BY <1>1, <1>2 DEF Unmixed
  <1>4. /\ Elements(aside) = Places[7] /\ Elements(again) = Places[8]
        /\ Elements(aside) \subseteq Jobs /\ Elements(again) \subseteq Jobs
    BY PlacesAre, ElementsIn DEF MemoryTypeOK
  <1> DEFINE P == Move(Places, Elements(again), 8, 12)
  <1>5. /\ Division(P) /\ P[8] = Places[8] \ Elements(again) /\ P[12] = Places[12] \cup Elements(again)
        /\ \A i \in 1..12 : i # 8 /\ i # 12 => P[i] = Places[i]
    BY <1>4, MoveDivides, SMTT(30)
  <1> HIDE DEF P
  <1>6. P[8] = {} /\ P[7] = Elements(aside)
    BY <1>4, <1>5
  <1>7. /\ P[1] = unborn' /\ P[2] = Elements(queue)' /\ P[3] = putting' /\ P[4] = Elements(dlq)'
        /\ P[5] = journaling' /\ P[6] = Elements(overflow)' /\ P[8] = Elements(again)'
        /\ P[9] = ({work} \ {NoJob})' /\ P[10] = journal /\ P[11] = done'
    BY <1>1, <1>2, <1>5, <1>6, PlacesAre
  <1>8. CASE lost' = lost \cup Elements(aside) \cup Elements(again) /\ UNCHANGED journal
    <2>1. MemoryTypeOK'
      BY <1>1, <1>4, <1>8 DEF MemoryTypeOK
    <2>2. Elements(aside) \subseteq P[7]
      BY <1>4, <1>5
    <2> DEFINE Q == Move(P, Elements(aside), 7, 12)
    <2>3. /\ Division(Q) /\ Q[7] = P[7] \ Elements(aside) /\ Q[12] = P[12] \cup Elements(aside)
          /\ \A i \in 1..12 : i # 7 /\ i # 12 => Q[i] = P[i]
      BY <1>5, <2>2, MoveDivides, SMTT(30)
    <2> HIDE DEF Q
    <2>4. Q[7] = {}
      BY <1>6, <2>3
    <2>5. Q[12] = lost' /\ P[12] = lost \cup Elements(again)
      <3>1. P[12] = lost \cup Elements(again)
        BY <1>5, PlacesAre
      <3> QED
        BY <1>8, <2>3, <3>1
    <2>6. /\ Q[1] = unborn' /\ Q[2] = Elements(queue)' /\ Q[3] = putting' /\ Q[4] = Elements(dlq)'
          /\ Q[5] = journaling' /\ Q[6] = Elements(overflow)' /\ Q[7] = Elements(aside)'
          /\ Q[8] = Elements(again)' /\ Q[9] = ({work} \ {NoJob})' /\ Q[10] = journal'
          /\ Q[11] = done' /\ Q[12] = lost'
      BY <1>2, <1>8, <1>7, <2>3, <2>4, <2>5, PlacesAre
    <2>7. Division(Places')
      BY <2>3, <2>6, SamePlaces
    <2> QED
      BY <1>3, <2>1, <2>7
  <1>9. CASE /\ aside # <<>>
             /\ lost' = lost \cup Elements(Tail(aside)) \cup Elements(again)
             /\ journal' = journal \cup {Head(aside)}
    <2> DEFINE h == Head(aside)
               t == Elements(Tail(aside))
    <2>1. h \in Jobs /\ Elements(aside) = {h} \cup t /\ (Distinct(aside) => h \notin t)
      BY <1>9, TailElements DEF MemoryTypeOK
    <2>2. Distinct(aside)
      BY ConcatElements DEF MemoryTypeOK, Unmixed
    <2>3. P[7] = Places[7]
      BY <1>5
    <2>4. h \notin t /\ P[7] = Elements(aside)
      BY <1>4, <2>1, <2>2, <2>3
    <2>5. lost' = lost \cup t \cup Elements(again) /\ journal' = journal \cup {h}
      BY <1>9
    <2> HIDE DEF h, t
    <2>6. MemoryTypeOK'
      BY <1>1, <1>4, <2>1, <2>5 DEF MemoryTypeOK
    <2>7. {h} \subseteq P[7]
      BY <2>1, <2>4
    <2> DEFINE Q == Move(P, {h}, 7, 10)
    <2>8. /\ Division(Q) /\ Q[7] = P[7] \ {h} /\ Q[10] = P[10] \cup {h}
          /\ \A i \in 1..12 : i # 7 /\ i # 10 => Q[i] = P[i]
      <3> HIDE DEF QueueInv
      <3> QED
        BY <1>5, <2>7, MoveDivides, SMTT(30)
    <2> HIDE DEF Q
    <2>9. t \subseteq Q[7]
      BY <2>1, <2>4, <2>8
    <2> DEFINE R == Move(Q, t, 7, 12)
    <2>10. /\ Division(R) /\ R[7] = Q[7] \ t /\ R[12] = Q[12] \cup t
           /\ \A i \in 1..12 : i # 7 /\ i # 12 => R[i] = Q[i]
      BY <2>8, <2>9, MoveDivides, SMTT(30)
    <2> HIDE DEF R
    <2>11. R[7] = {}
      BY <1>6, <2>1, <2>8, <2>10
    <2>12. R[12] = lost'
      <3>1. P[12] = lost \cup Elements(again)
        BY <1>5, PlacesAre
      <3>2. R[12] = P[12] \cup t
        BY <2>8, <2>10
      <3> QED
        BY <2>5, <3>1, <3>2
    <2>13. /\ R[1] = unborn' /\ R[2] = Elements(queue)' /\ R[3] = putting' /\ R[4] = Elements(dlq)'
           /\ R[5] = journaling' /\ R[6] = Elements(overflow)' /\ R[7] = Elements(aside)'
           /\ R[8] = Elements(again)' /\ R[9] = ({work} \ {NoJob})' /\ R[10] = journal'
           /\ R[11] = done' /\ R[12] = lost'
      BY <1>2, <1>7, <2>5, <2>8, <2>10, <2>11, <2>12, PlacesAre
    <2>14. Division(Places')
      BY <2>10, <2>13, SamePlaces
    <2> QED
      BY <1>3, <2>6, <2>14
  <1> QED
    BY <1>8, <1>9 DEF StopRetry

-----------------------------------------------------------------------------
(* The inductive invariant holds of every behaviour. *)
THEOREM QueueInductive == MemorySpec => []QueueInv
  <1>1. QueueInv /\ [MemoryNext]_memoryVars => QueueInv'
    <2> SUFFICES ASSUME QueueInv, [MemoryNext]_memoryVars PROVE QueueInv'
      OBVIOUS
    <2>1. ASSUME NEW j \in Jobs, Submit(j) PROVE QueueInv'
      BY <2>1, EnqueueOK DEF Submit
    <2>2. ASSUME NEW j \in Jobs, Put(j) PROVE QueueInv'
      BY <2>2, PutOK
    <2>3. ASSUME NEW j \in Jobs, PutTimesOut(j) PROVE QueueInv'
      BY <2>3, PutTimesOutOK
    <2>4. ASSUME NEW j \in Jobs, JournalAnswers(j) PROVE QueueInv'
      BY <2>4, JournalAnswersOK
    <2>5. CASE EnqueueFound
      <3>1. SaveOf[work] \in Jobs /\ Enqueue(SaveOf[work])
        BY <2>5, MemoryQueueAssumption DEF EnqueueFound, Jobs
      <3> QED
        BY <3>1, EnqueueOK
    <2>6. CASE UNCHANGED memoryVars
      <3>1. QueueInv' = QueueInv
        BY <2>6 DEF memoryVars, lists, retrying, QueueInv, MemoryTypeOK, Division, Unmixed, Distinct,
                    Places, Elements
      <3> QED
        BY <3>1
    <2> QED
      BY <2>1, <2>2, <2>3, <2>4, <2>5, <2>6, RetryOK, RetryJournalsOK, RetryReturnsOK, GetOK,
         FinishOK, StopWorkerOK, StopRetryOK DEF MemoryNext
  <1> QED
    BY <1>1, InitOK, PTL DEF MemorySpec

(* The lists keep their limits, whatever fails. *)
THEOREM QueueTyped == MemorySpec => []MemoryTypeOK
  <1>1. QueueInv => MemoryTypeOK
    BY DEF QueueInv
  <1> QED
    BY <1>1, QueueInductive, PTL

(* No job is in two places and none in no place, however many there are and
   however small the lists. *)
THEOREM NoJobVanishes == MemorySpec => []JobsConserved
  <1>1. QueueInv => JobsConserved
    <2> SUFFICES ASSUME QueueInv PROVE JobsConserved
      OBVIOUS
    <2>1. DOMAIN Places = 1..12 /\ Places \in [1..12 -> SUBSET Jobs]
      BY PlacesAre DEF QueueInv, Division
    <2>2. Elements(Places) = {Places[n] : n \in 1..12}
      BY <2>1 DEF Elements
    <2>3. UNION Elements(Places) = Jobs
      BY <2>1, <2>2 DEF QueueInv, Division
    <2> QED
      BY <2>1, <2>3 DEF QueueInv, Division, JobsConserved, Unmixed
  <1> QED
    BY <1>1, QueueInductive, PTL
=============================================================================
