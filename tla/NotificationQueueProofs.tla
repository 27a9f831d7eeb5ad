---------------------- MODULE NotificationQueueProofs ----------------------
(***************************************************************************)
(* Proofs about NotificationQueue.  The messages of a flush are disjoint   *)
(* sets of unsent rows and, as long as the flush runs, every old row is in *)
(* one of them: that is what types the state, and what makes the cleanup   *)
(* harmless.                                                               *)
(***************************************************************************)
EXTENDS NotificationQueue, TLAPS

Disjoint(S) == \A b, c \in S : b # c => b \cap c = {}

(* The messages of a flush, beyond their types. *)
FlushInv ==
    /\ TypeOK
    /\ Disjoint(todo)
    /\ \A b \in todo : b \cap batch = {}
    /\ pc # "mark" => batch = {}
    /\ pc \notin {"send", "mark"} => todo = {}
    /\ draining => buffer # <<>>

(* No old row is left behind, and a new row is not old. *)
OldInv ==
    /\ \A n \in Notes \ made : age[n] = 0
    /\ pc \in {"send", "mark"} =>
          \A n \in pending : age[n] <= Window \/ n \in batch \/ \E b \in todo : n \in b
    /\ pc = "clean" => \A n \in pending : age[n] <= Window

-----------------------------------------------------------------------------
(* Grouping: flush() never puts a row into two messages, nor into none if it
   is old. *)
Group(n) == {m \in Fresh : Bucket[m] = Bucket[n]}

LEMMA OldestInside ==
  ASSUME NEW S
  PROVE  Oldest(S) \subseteq S
  BY DEF Oldest

LEMMA BatchKinds ==
  \A b \in Batches : \/ \E n \in Fresh : b = Oldest(Group(n))
                     \/ \E n \in pending \ Fresh : b = {n}
  BY DEF Batches, Group

LEMMA GroupInside ==
  ASSUME NEW n \in Fresh
  PROVE  /\ \A m \in Oldest(Group(n)) : m \in Fresh /\ Bucket[m] = Bucket[n]
         /\ Oldest(Group(n)) \subseteq Fresh
  BY OldestInside DEF Group

LEMMA FreshPending == Fresh \subseteq pending
  BY DEF Fresh

LEMMA BatchesInside == \A b \in Batches : b \subseteq pending
  <1> SUFFICES ASSUME NEW b \in Batches
               PROVE  b \subseteq pending
    OBVIOUS
  <1>1. CASE \E n \in Fresh : b = Oldest(Group(n))
    BY <1>1, GroupInside, FreshPending
  <1>2. CASE \E n \in pending \ Fresh : b = {n}
    BY <1>2
  <1> QED
    BY <1>1, <1>2, BatchKinds

LEMMA BatchesDisjoint == Disjoint(Batches)
  <1> SUFFICES ASSUME NEW b \in Batches, NEW c \in Batches, b # c,
                      NEW r \in b, r \in c
               PROVE  FALSE
    BY DEF Disjoint
  <1>1. CASE r \in Fresh
    <2>1. PICK n \in Fresh : b = Oldest(Group(n))
      BY <1>1, BatchKinds
    <2>2. PICK m \in Fresh : c = Oldest(Group(m))
      BY <1>1, BatchKinds
    <2>3. Bucket[n] = Bucket[m]
      BY <2>1, <2>2, GroupInside
    <2>4. Group(n) = Group(m)
      BY <2>3 DEF Group
    <2> QED
      BY <2>1, <2>2, <2>4
  <1>2. CASE r \notin Fresh
    <2>1. b = {r} /\ c = {r}
      BY <1>2, BatchKinds, GroupInside
    <2> QED
      BY <2>1
  <1> QED
    BY <1>1, <1>2

LEMMA OldBatched == \A n \in pending : n \in Fresh \/ {n} \in Batches
  BY DEF Batches

-----------------------------------------------------------------------------
(* The notifier keeps its types, and its task runs only while it has something
   to send. *)
NotifierInv == NotifierTypeOK /\ (draining => buffer # <<>>)

LEMMA AttemptTyped ==
  ASSUME NotifierTypeOK, NEW b \in SUBSET Notes, Attempt(b)
  PROVE  /\ handed' \in [Notes -> 0..2] /\ delivered' \in [Notes -> 0..2]
         /\ \A n \in Notes \ b : handed'[n] = handed[n] /\ delivered'[n] = delivered[n]
         /\ \A n \in b : handed[n] = 0 => handed'[n] = 1
         /\ \A n \in b : handed'[n] > 0
         /\ handed = delivered /\ "sendError" \notin faults => handed' = delivered'
  BY DEF NotifierTypeOK, Attempt, Added, Upto2, Copies

LEMMA NotifierStep ==
  ASSUME NotifierInv, faults' = faults,
         \/ \E b \in SUBSET Notes : notify(b)
         \/ attach \/ FlushOne \/ cleanup \/ NotifierRestart
         \/ UNCHANGED notifierVars
  PROVE  NotifierInv'
  <1> USE DEF NotifierInv, NotifierTypeOK
  <1>1. ASSUME NEW b \in SUBSET Notes, notify(b)
        PROVE  NotifierInv'
    <2>1. CASE bot = "attached"
      BY <1>1, <2>1, AttemptTyped DEF notify
    <2>2. CASE bot # "attached"
      <3>1. Append(buffer, b) \in Seq(SUBSET Notes) /\ Append(buffer, b) # <<>>
        OBVIOUS
      <3> QED
        BY <1>1, <2>2, <3>1 DEF notify, sendVars
    <2> QED
      BY <2>1, <2>2
  <1>2. CASE attach
    BY <1>2 DEF attach, sendVars
  <1>3. CASE FlushOne
    <2>1. Head(buffer) \in SUBSET Notes /\ Tail(buffer) \in Seq(SUBSET Notes)
      BY <1>3 DEF FlushOne
    <2>2. draining' \in BOOLEAN /\ (draining' => buffer' # <<>>)
      BY <1>3, Zenon DEF FlushOne
    <2>3. handed' \in [Notes -> 0..2] /\ delivered' \in [Notes -> 0..2]
      BY <1>3, <2>1, AttemptTyped DEF FlushOne, sendVars
    <2> QED
      BY <1>3, <2>1, <2>2, <2>3 DEF FlushOne
  <1>4. CASE cleanup
    BY <1>4 DEF cleanup, sendVars
  <1>5. CASE NotifierRestart
    <2>1. <<>> \in Seq(SUBSET Notes)
      OBVIOUS
    <2> QED
      BY <1>5, <2>1 DEF NotifierRestart, sendVars
  <1>6. CASE UNCHANGED notifierVars
    BY <1>6 DEF notifierVars, sendVars
  <1> QED
    BY <1>1, <1>2, <1>3, <1>4, <1>5, <1>6

-----------------------------------------------------------------------------
LEMMA AgedTyped ==
  ASSUME TypeOK, NEW d \in 0..TTL
  PROVE  /\ Aged(d) \in [Notes -> 0..TTL]
         /\ \A n \in Notes \ Rows : Aged(d)[n] = age[n]
  BY QueueAssumption DEF TypeOK, Aged

LEMMA InitFlushInv == Init => FlushInv /\ OldInv
  <1> SUFFICES ASSUME Init
               PROVE  FlushInv /\ OldInv
    OBVIOUS
  <1>1. NotifierTypeOK
    <2>1. <<>> \in Seq(SUBSET Notes)
      OBVIOUS
    <2>2. delivered \in [Notes -> 0..2]
      BY DEF Init, NotifierInit
    <2>3. bot \in {"none", "attached", "detached"} /\ draining \in BOOLEAN
      BY DEF Init, NotifierInit
    <2> QED
      BY <2>1, <2>2, <2>3 DEF Init, NotifierInit, NotifierTypeOK
  <1>2. TypeOK
    BY <1>1, QueueAssumption DEF Init, TypeOK
  <1> QED
    BY <1>2 DEF Init, NotifierInit, FlushInv, OldInv, Disjoint

(* Every step keeps the messages of a flush disjoint sets of unsent rows. *)
LEMMA StepFlushInv ==
  ASSUME FlushInv, [Next]_allVars
  PROVE  FlushInv'
  <1> faults' = faults
    BY DEF Next, allVars
  <1> USE QueueAssumption DEF FlushInv, TypeOK, Disjoint, queueVars
  <1>0. NotifierInv
    BY DEF NotifierInv
  <1>1. ASSUME NEW n \in Notes, Enqueue(n)
        PROVE  FlushInv'
    <2>1. NotifierInv'
      BY <1>0, <1>1, NotifierStep DEF Enqueue
    <2> QED
      BY <1>1, <2>1 DEF Enqueue, NotifierInv, notifierVars, sendVars, Newer
  <1>2. ASSUME NEW n \in Notes, EnqueueUrgent(n)
        PROVE  FlushInv'
    <2>1. NotifierInv'
      BY <1>0, <1>2, NotifierStep DEF EnqueueUrgent
    <2> QED
      BY <1>2, <2>1 DEF EnqueueUrgent, NotifierInv
  <1>3. CASE Reserve
    <2>1. NotifierInv'
      BY <1>0, <1>3, NotifierStep DEF Reserve
    <2>2. Batches \in SUBSET SUBSET pending
      BY BatchesInside
    <2>3. Disjoint(Batches)
      BY BatchesDisjoint
    <2>4. pending = {} => Batches = {}
      BY DEF Batches, Fresh
    <2> QED
      BY <1>3, <2>1, <2>2, <2>3, <2>4 DEF Reserve, NotifierInv
  <1>4. CASE Send
    <2>1. PICK b \in todo : notify(b) /\ todo' = todo \ {b} /\ batch' = b
      BY <1>4 DEF Send
    <2>2. NotifierInv'
      BY <1>0, <2>1, NotifierStep
    <2> QED
      BY <1>4, <2>1, <2>2 DEF Send, NotifierInv
  <1>5. CASE Mark
    <2>1. NotifierInv'
      BY <1>0, <1>5, NotifierStep DEF Mark
    <2>2. \A b \in todo : b \subseteq pending \ batch
      OBVIOUS
    <2> QED
      BY <1>5, <2>1, <2>2 DEF Mark, NotifierInv
  <1>6. CASE FlushFails
    <2>1. NotifierInv'
      BY <1>0, <1>6, NotifierStep DEF FlushFails
    <2> QED
      BY <1>6, <2>1 DEF FlushFails, NotifierInv
  <1>7. CASE Clean
    <2>1. NotifierInv'
      BY <1>0, <1>7, NotifierStep DEF Clean
    <2>2. rounds' \in 0..(CleanupEvery - 1)
      BY <1>7 DEF Clean
    <2>3. pending' \subseteq pending /\ flushed' \subseteq flushed
      BY <1>7 DEF Clean
    <2>4. todo = {} /\ batch = {}
      BY <1>7 DEF Clean
    <2> QED
      BY <1>7, <2>1, <2>2, <2>3, <2>4 DEF Clean, NotifierInv
  <1>8. CASE Sleep
    <2>1. NotifierInv'
      BY <1>0, <1>8, NotifierStep DEF Sleep
    <2>2. 1 \in 0..TTL
      OBVIOUS
    <2>3. age' \in [Notes -> 0..TTL]
      BY <1>8, <2>2, AgedTyped DEF Sleep
    <2> QED
      BY <1>8, <2>1, <2>3 DEF Sleep, NotifierInv
  <1>9. CASE Attach
    <2>1. NotifierInv'
      BY <1>0, <1>9, NotifierStep DEF Attach
    <2> QED
      BY <1>9, <2>1 DEF Attach, NotifierInv
  <1>10. CASE SendBuffered
    <2>1. NotifierInv'
      BY <1>0, <1>10, NotifierStep DEF SendBuffered
    <2> QED
      BY <1>10, <2>1 DEF SendBuffered, NotifierInv
  <1>11. CASE Detach
    <2>1. NotifierInv'
      BY <1>0, <1>11, NotifierStep DEF Detach
    <2> QED
      BY <1>11, <2>1 DEF Detach, NotifierInv
  <1>12. CASE Restart
    <2>1. NotifierInv'
      BY <1>0, <1>12, NotifierStep DEF Restart
    <2>2. PICK d \in 0..TTL : age' = Aged(d)
      BY <1>12 DEF Restart
    <2>3. age' \in [Notes -> 0..TTL]
      BY <2>2, AgedTyped
    <2> QED
      BY <1>12, <2>1, <2>3 DEF Restart, NotifierInv
  <1>13. CASE UNCHANGED allVars
    BY <1>13 DEF allVars, vars, notifierVars, sendVars, NotifierTypeOK
  <1> QED
    BY <1>1, <1>2, <1>3, <1>4, <1>5, <1>6, <1>7, <1>8, <1>9, <1>10, <1>11,
       <1>12, <1>13 DEF Next, allVars

-----------------------------------------------------------------------------
(* Every step of a running flush keeps the old rows in its messages, and time
   passes only between two flushes. *)
LEMMA StepOldInv ==
  ASSUME FlushInv, OldInv, [Next]_allVars
  PROVE  OldInv'
  <1> faults' = faults
    BY DEF Next, allVars
  <1> USE QueueAssumption DEF FlushInv, OldInv, TypeOK, queueVars
  <1>1. ASSUME NEW n \in Notes, Enqueue(n)
        PROVE  OldInv'
    <2>1. n \notin made
      BY <1>1 DEF Enqueue, Newer
    <2>2. age[n] = 0
      BY <2>1
    <2> QED
      BY <1>1, <2>2 DEF Enqueue
  <1>2. ASSUME NEW n \in Notes, EnqueueUrgent(n)
        PROVE  OldInv'
    BY <1>2 DEF EnqueueUrgent
  <1>3. CASE Reserve
    <2>1. \A n \in pending : age[n] <= Window \/ {n} \in Batches
      BY OldBatched DEF Fresh
    <2> QED
      BY <1>3, <2>1 DEF Reserve
  <1>4. CASE Send
    <2>1. PICK b \in todo : todo' = todo \ {b} /\ batch' = b
      BY <1>4 DEF Send
    <2>2. batch = {}
      BY <1>4 DEF Send
    <2> QED
      BY <1>4, <2>1, <2>2 DEF Send
  <1>5. CASE Mark
    BY <1>5 DEF Mark
  <1>6. CASE FlushFails
    BY <1>6 DEF FlushFails
  <1>7. CASE Clean
    BY <1>7 DEF Clean
  <1>8. CASE Sleep
    <2>1. 1 \in 0..TTL
      OBVIOUS
    <2>2. \A n \in Notes \ made : age'[n] = age[n]
      BY <1>8, <2>1, AgedTyped DEF Sleep, Rows
    <2> QED
      BY <1>8, <2>2 DEF Sleep
  <1>9. CASE Attach \/ SendBuffered \/ Detach
    BY <1>9 DEF Attach, SendBuffered, Detach
  <1>10. CASE Restart
    <2>1. PICK d \in 0..TTL : age' = Aged(d)
      BY <1>10 DEF Restart
    <2>2. \A n \in Notes \ made : age'[n] = age[n]
      BY <2>1, AgedTyped DEF Rows
    <2> QED
      BY <1>10, <2>2 DEF Restart
  <1>11. CASE UNCHANGED allVars
    BY <1>11 DEF allVars, vars
  <1> QED
    BY <1>1, <1>2, <1>3, <1>4, <1>5, <1>6, <1>7, <1>8, <1>9, <1>10, <1>11
    DEF Next, allVars

THEOREM TypeCorrect == Spec => []TypeOK
  <1>1. FlushInv /\ [Next]_allVars => FlushInv'
    BY StepFlushInv
  <1>2. FlushInv => TypeOK
    BY DEF FlushInv
  <1> QED
    BY <1>1, <1>2, InitFlushInv, PTL DEF Spec

(* Whatever fails and however long the process is down: short of a flush that
   failed in the database, the cleanup deletes nothing that was not sent. *)
THEOREM UnsentStays == Spec => UnsentKept
  <1> DEFINE Inv == FlushInv /\ OldInv
             Kept == pc # "failed" => pending \ pending' \subseteq flushed'
  <1>1. Inv /\ [Next]_allVars => Inv'
    BY StepFlushInv, StepOldInv
  <1>2. ASSUME Inv, [Next]_allVars
        PROVE  [Kept]_vars
    <2> SUFFICES ASSUME pc # "failed"
                 PROVE  pending \ pending' \subseteq flushed'
      OBVIOUS
    <2>1. ASSUME NEW n \in Notes, Enqueue(n) \/ EnqueueUrgent(n)
          PROVE  pending \subseteq pending'
      BY <2>1 DEF Enqueue, EnqueueUrgent
    <2>2. CASE Reserve \/ Send \/ FlushFails \/ Sleep \/ Restart
      BY <2>2 DEF Reserve, Send, FlushFails, Sleep, Restart
    <2>3. CASE Mark
      BY <2>3 DEF Mark
    <2>4. CASE Clean
      <3>1. \A n \in pending : age[n] # TTL
        BY <1>2, <2>4, QueueAssumption DEF Clean, OldInv, FlushInv, TypeOK
      <3> QED
        BY <2>4, <3>1 DEF Clean, Deleted
    <2>5. CASE Attach \/ SendBuffered \/ Detach
      BY <2>5 DEF Attach, SendBuffered, Detach, queueVars
    <2>6. CASE UNCHANGED vars
      BY <2>6 DEF vars, queueVars
    <2> QED
      BY <1>2, <2>1, <2>2, <2>3, <2>4, <2>5, <2>6 DEF Next, allVars
  <1> QED
    BY <1>1, <1>2, InitFlushInv, PTL DEF Spec, UnsentKept

-----------------------------------------------------------------------------
(* Nothing is sent twice, as long as the database works and the process runs:
   the messages in the buffer are disjoint too, and a notification that does
   not exist yet has left no trace. *)
BufferDisjoint == \A i, j \in DOMAIN buffer : i # j => buffer[i] \cap buffer[j] = {}

Untouched == \A n \in Notes \ made : handed[n] = 0 /\ delivered[n] = 0 /\ ~Buffered(n)

OnceInv ==
    /\ NeverTwice
    /\ BufferDisjoint
    /\ Untouched

LEMMA Appended ==
  ASSUME NotifierTypeOK, BufferDisjoint, NEW b \in SUBSET Notes,
         \A n \in b : ~Buffered(n), buffer' = Append(buffer, b)
  PROVE  /\ BufferDisjoint'
         /\ \A n \in Notes : Buffered(n)' <=> Buffered(n) \/ n \in b
  <1> DEFINE k == Len(buffer) + 1
  <1>1. /\ DOMAIN buffer' = DOMAIN buffer \cup {k}
        /\ buffer'[k] = b
        /\ \A i \in DOMAIN buffer : buffer'[i] = buffer[i] /\ i # k
    BY DEF NotifierTypeOK
  <1> HIDE DEF k
  <1>2. \A n \in Notes : Buffered(n)' <=> Buffered(n) \/ n \in b
    BY <1>1 DEF Buffered
  <1>3. \A i \in DOMAIN buffer : buffer[i] \cap b = {}
    BY DEF Buffered
  <1>4. BufferDisjoint'
    BY <1>1, <1>3 DEF BufferDisjoint
  <1> QED
    BY <1>2, <1>4

LEMMA Taken ==
  ASSUME NotifierTypeOK, BufferDisjoint, buffer # <<>>, buffer' = Tail(buffer)
  PROVE  /\ BufferDisjoint'
         /\ \A n \in Notes : Buffered(n)' => Buffered(n)
         /\ \A n \in Head(buffer) : Buffered(n) /\ ~Buffered(n)'
  <1>1. /\ 1 \in DOMAIN buffer
        /\ Head(buffer) = buffer[1]
        /\ \A i \in DOMAIN buffer' : /\ i + 1 \in DOMAIN buffer
                                     /\ i \in Nat \ {0}
                                     /\ buffer'[i] = buffer[i + 1]
    BY DEF NotifierTypeOK
  <1>2. \A n \in Notes : Buffered(n)' => Buffered(n)
    BY <1>1 DEF Buffered
  <1>3. ASSUME NEW n \in Head(buffer)
        PROVE  Buffered(n) /\ ~Buffered(n)'
    <2>1. Buffered(n)
      BY <1>1, <1>3 DEF Buffered
    <2>2. \A i \in DOMAIN buffer' : i + 1 # 1
      BY <1>1
    <2>3. \A i \in DOMAIN buffer' : n \notin buffer[i + 1]
      BY <1>1, <1>3, <2>2 DEF BufferDisjoint
    <2>4. ~Buffered(n)'
      BY <1>1, <2>3 DEF Buffered
    <2> QED
      BY <2>1, <2>4
  <1>4. BufferDisjoint'
    <2> SUFFICES ASSUME NEW i \in DOMAIN buffer', NEW j \in DOMAIN buffer', i # j
                 PROVE  buffer'[i] \cap buffer'[j] = {}
      BY DEF BufferDisjoint
    <2>1. i + 1 # j + 1
      BY <1>1
    <2> QED
      BY <1>1, <2>1 DEF BufferDisjoint
  <1> QED
    BY <1>2, <1>3, <1>4

(* A message of new notifications is given to send_with_retry, or buffered. *)
LEMMA NotifyOnce ==
  ASSUME NotifierTypeOK, BufferDisjoint, NEW b \in SUBSET Notes,
         \A n \in b : handed[n] = 0 /\ ~Buffered(n), notify(b)
  PROVE  /\ BufferDisjoint'
         /\ \A n \in b : /\ handed'[n] <= 1
                         /\ ~(handed'[n] = 1 /\ Buffered(n)')
         /\ \A n \in Notes \ b : /\ handed'[n] = handed[n]
                                 /\ delivered'[n] = delivered[n]
                                 /\ Buffered(n)' <=> Buffered(n)
  <1>1. CASE bot = "attached"
    <2>1. BufferDisjoint' /\ \A n \in Notes : Buffered(n)' <=> Buffered(n)
      BY <1>1 DEF notify, BufferDisjoint, Buffered
    <2>2. /\ \A n \in b : handed'[n] = 1
          /\ \A n \in Notes \ b : handed'[n] = handed[n] /\ delivered'[n] = delivered[n]
      BY <1>1, AttemptTyped DEF notify
    <2> QED
      BY <2>1, <2>2
  <1>2. CASE bot # "attached"
    <2>1. buffer' = Append(buffer, b) /\ handed' = handed /\ delivered' = delivered
      BY <1>2 DEF notify, sendVars
    <2> QED
      BY <2>1, Appended
  <1> QED
    BY <1>1, <1>2

LEMMA SameOnce ==
  ASSUME OnceInv, UNCHANGED <<buffer, handed, delivered>>, made' = made,
         pending' \ batch' \subseteq pending \ batch
  PROVE  OnceInv'
  BY DEF OnceInv, Untouched, NeverTwice, BufferDisjoint, Buffered

(* Every step but a failed flush and a restart leaves nothing to be sent
   again. *)
LEMMA StepOnceInv ==
  ASSUME faults \subseteq {"sendError"}, FlushInv, OnceInv, [Next]_allVars
  PROVE  OnceInv'
  <1> faults' = faults
    BY DEF Next, allVars
  <1>0. NotifierTypeOK /\ BufferDisjoint
    BY DEF FlushInv, TypeOK, OnceInv
  <1>1. ASSUME NEW n \in Notes, Enqueue(n)
        PROVE  OnceInv'
    <2>1. n \notin made
      BY <1>1, QueueAssumption DEF Enqueue, Newer
    <2> QED
      BY <1>1, <2>1 DEF Enqueue, OnceInv, Untouched, NeverTwice, BufferDisjoint, Buffered, notifierVars, sendVars
  <1>2. ASSUME NEW n \in Notes, EnqueueUrgent(n)
        PROVE  OnceInv'
    <2>1. n \notin made /\ {n} \in SUBSET Notes
      BY <1>2, QueueAssumption DEF EnqueueUrgent, Newer
    <2>2. handed[n] = 0 /\ ~Buffered(n) /\ n \notin pending
      BY <2>1 DEF OnceInv, Untouched, FlushInv, TypeOK
    <2>3. /\ BufferDisjoint'
          /\ handed'[n] <= 1 /\ ~(handed'[n] = 1 /\ Buffered(n)')
          /\ \A m \in Notes \ {n} : /\ handed'[m] = handed[m]
                                    /\ delivered'[m] = delivered[m]
                                    /\ Buffered(m)' <=> Buffered(m)
      BY <1>0, <1>2, <2>1, <2>2, NotifyOnce DEF EnqueueUrgent
    <2> QED
      BY <1>2, <2>2, <2>3 DEF EnqueueUrgent, OnceInv, Untouched, NeverTwice
  <1>3. CASE Send
    <2>1. PICK b \in todo : notify(b) /\ batch' = b
      BY <1>3 DEF Send
    <2>2. b \in SUBSET Notes /\ b \subseteq pending /\ batch = {}
      BY <1>3 DEF Send, FlushInv, TypeOK
    <2>3. \A n \in b : handed[n] = 0 /\ ~Buffered(n)
      BY <2>2 DEF OnceInv, Untouched, NeverTwice
    <2>4. /\ BufferDisjoint'
          /\ \A n \in b : handed'[n] <= 1 /\ ~(handed'[n] = 1 /\ Buffered(n)')
          /\ \A n \in Notes \ b : /\ handed'[n] = handed[n]
                                  /\ delivered'[n] = delivered[n]
                                  /\ Buffered(n)' <=> Buffered(n)
      BY <1>0, <2>1, <2>2, <2>3, NotifyOnce
    <2>5. b \subseteq made
      BY <2>2 DEF FlushInv, TypeOK
    <2> QED
      BY <1>3, <2>1, <2>2, <2>4, <2>5 DEF Send, OnceInv, Untouched, NeverTwice
  <1>4. CASE SendBuffered
    <2> DEFINE h == Head(buffer)
    <2>1. buffer # <<>> /\ buffer' = Tail(buffer)
      BY <1>4 DEF SendBuffered, FlushOne, FlushInv
    <2>2. /\ BufferDisjoint'
          /\ \A n \in Notes : Buffered(n)' => Buffered(n)
          /\ \A n \in h : Buffered(n) /\ ~Buffered(n)'
      BY <1>0, <2>1, Taken
    <2>0. h \in SUBSET Notes
      BY <1>0, <2>1 DEF NotifierTypeOK
    <2>3a. Attempt(h) \/ UNCHANGED <<handed, delivered>>
      BY <1>4 DEF SendBuffered, FlushOne, sendVars
    <2> HIDE DEF h
    <2>3. \A n \in Notes : \/ handed'[n] = handed[n] /\ delivered'[n] = delivered[n]
                           \/ n \in h /\ (handed[n] = 0 => handed'[n] = 1)
      BY <1>0, <2>0, <2>3a, AttemptTyped
    <2>4. \A n \in Notes : n \in h => handed[n] = 0
      BY <1>0, <2>2 DEF OnceInv, Untouched, NeverTwice, NotifierTypeOK
    <2>5. \A n \in Notes : n \in h => n \notin pending \ batch
      BY <2>2 DEF OnceInv, Untouched, NeverTwice
    <2>6. made' = made /\ pending' = pending /\ batch' = batch
      BY <1>4 DEF SendBuffered, queueVars
    <2>7. NeverTwice'
      BY <2>2, <2>3, <2>4, <2>5, <2>6 DEF OnceInv, Untouched, NeverTwice
    <2>8. \A n \in Notes \ made : handed'[n] = 0 /\ delivered'[n] = 0 /\ ~Buffered(n)'
      BY <2>2, <2>3, <2>6 DEF OnceInv, Untouched
    <2> QED
      BY <2>2, <2>6, <2>7, <2>8 DEF OnceInv, Untouched
  <1>5. CASE Reserve
    BY <1>5, SameOnce DEF Reserve, notifierVars, sendVars
  <1>6. CASE Mark
    BY <1>6, SameOnce DEF Mark, notifierVars, sendVars
  <1>7. CASE Clean
    BY <1>7, SameOnce DEF Clean, notifierVars, sendVars
  <1>8. CASE Sleep
    BY <1>8, SameOnce DEF Sleep, notifierVars, sendVars
  <1>9. CASE Attach
    BY <1>9, SameOnce DEF Attach, attach, queueVars, sendVars
  <1>10. CASE FlushFails \/ Detach \/ Restart
    BY <1>10 DEF FlushFails, Detach, Restart
  <1>11. CASE UNCHANGED allVars
    BY <1>11, SameOnce DEF allVars, vars, queueVars, notifierVars, sendVars
  <1> QED
    BY <1>1, <1>2, <1>3, <1>4, <1>5, <1>6, <1>7, <1>8, <1>9, <1>10, <1>11
    DEF Next, allVars

(* While neither the database nor the process fails, no notification is given
   to send_with_retry twice, nor given to it and buffered, however many there
   are and however their sends end. *)
THEOREM HandedOverOnce == Spec => [](faults \subseteq {"sendError"} => NeverTwice)
  <1> DEFINE Safe == faults \subseteq {"sendError"}
  <1>1. Init => OnceInv
    BY DEF Init, NotifierInit, OnceInv, Untouched, NeverTwice, BufferDisjoint, Buffered
  <1>2. FlushInv /\ (Safe => OnceInv) /\ [Next]_allVars => FlushInv' /\ (Safe => OnceInv)'
    <2>1. [Next]_allVars => (Safe' <=> Safe)
      BY DEF Next, allVars
    <2> QED
      BY <2>1, StepFlushInv, StepOnceInv
  <1>3. OnceInv => NeverTwice
    BY DEF OnceInv
  <1> QED
    BY <1>1, <1>2, <1>3, InitFlushInv, PTL DEF Spec

-----------------------------------------------------------------------------
(* What the loop has just sent, or marked as sent, has arrived or is buffered,
   unless sends fail or the bot is taken away; a message that is sent without an
   error arrives once; the buffer's task runs only once there is a bot; and no
   flush fails where nothing does. *)
SendsGoOut == faults \subseteq {"dbError"}

HandedOver ==
    /\ "sendError" \notin faults => handed = delivered
    /\ draining => bot # "none"
    /\ faults = {} => pc # "failed"
    /\ SendsGoOut =>
          /\ bot # "detached"
          /\ \A n \in batch \cup flushed : delivered[n] > 0 \/ Buffered(n)

MailInv ==
    /\ FlushInv /\ OldInv
    /\ Untouched
    /\ HandedOver
    /\ faults \subseteq {"sendError"} => OnceInv

(* What is given to send_with_retry arrives, more than once only where sends
   fail, or is lost, only where they do. *)
LEMMA AttemptKinds ==
  ASSUME NotifierTypeOK, NEW b \in SUBSET Notes, Attempt(b)
  PROVE  Mail!Arrived(b) \/ (delivered' = delivered /\ ~SendsGoOut)
  <1>1. PICK k \in Copies : delivered' = Added(delivered, b, k)
    BY DEF Attempt
  <1>2. CASE k = 0
    <2>1. ~SendsGoOut
      BY <1>2 DEF Copies, SendsGoOut
    <2>2. delivered' = delivered
      BY <1>1, <1>2 DEF Added, Upto2, NotifierTypeOK
    <2> QED
      BY <2>1, <2>2
  <1>3. CASE k # 0
    <2>1. k \in IF faults # {} THEN {1, 2} ELSE {1}
      BY <1>3 DEF Copies
    <2> QED
      BY <1>1, <2>1 DEF Added, Upto2, Mail!Arrived, Mail!Upto2
  <1> QED
    BY <1>2, <1>3

(* An asked notification counts as given to send_with_retry or not at all. *)
LEMMA HandedKinds ==
  ASSUME NotifierTypeOK, NEW b \in SUBSET Notes,
         Attempt(b) \/ UNCHANGED sendVars
  PROVE  /\ \A n \in Notes \ b : handed'[n] = handed[n] /\ delivered'[n] = delivered[n]
         /\ "sendError" \notin faults /\ handed = delivered => handed' = delivered'
  BY AttemptTyped DEF sendVars

LEMMA NotifyHanded ==
  ASSUME NotifierTypeOK, NEW b \in SUBSET Notes, notify(b)
  PROVE  Attempt(b) \/ UNCHANGED sendVars
  BY DEF notify

LEMMA FlushOneHanded ==
  ASSUME NotifierInv, FlushOne
  PROVE  /\ Head(buffer) \in SUBSET Notes
         /\ Attempt(Head(buffer)) \/ UNCHANGED sendVars
  BY DEF FlushOne, NotifierInv, NotifierTypeOK

(* A message arrives, is buffered, or is lost. *)
LEMMA NotifyKinds ==
  ASSUME NotifierTypeOK, NEW b \in SUBSET Notes, notify(b)
  PROVE  \/ /\ Mail!Arrived(b)
            /\ \A n \in Notes : Buffered(n)' <=> Buffered(n)
         \/ /\ delivered' = delivered
            /\ \A n \in Notes : Buffered(n)' <=> Buffered(n) \/ n \in b
         \/ /\ delivered' = delivered /\ ~SendsGoOut
            /\ \A n \in Notes : Buffered(n)' <=> Buffered(n)
  <1>1. CASE bot = "attached"
    <2>1. Attempt(b) /\ buffer' = buffer
      BY <1>1 DEF notify
    <2> QED
      BY <2>1, AttemptKinds DEF Buffered
  <1>2. CASE bot # "attached"
    <2> DEFINE k == Len(buffer) + 1
    <2>1. buffer' = Append(buffer, b) /\ delivered' = delivered
      BY <1>2 DEF notify, sendVars
    <2>2. /\ DOMAIN buffer' = DOMAIN buffer \cup {k}
          /\ buffer'[k] = b
          /\ \A i \in DOMAIN buffer : buffer'[i] = buffer[i]
      BY <2>1 DEF NotifierTypeOK
    <2> HIDE DEF k
    <2> QED
      BY <2>1, <2>2 DEF Buffered
  <1> QED
    BY <1>1, <1>2

(* So does the oldest message of the buffer, but for the buffering. *)
LEMMA FlushOneKinds ==
  ASSUME NotifierInv, HandedOver, FlushOne
  PROVE  /\ \A n \in Head(buffer) : n \in Notes /\ Buffered(n)
         /\ \A n \in Notes : Buffered(n)' => Buffered(n)
         /\ \A n \in Notes \ Head(buffer) : Buffered(n) => Buffered(n)'
         /\ Mail!Arrived(Head(buffer)) \/ (delivered' = delivered /\ ~SendsGoOut)
  <1>1. buffer # <<>> /\ buffer' = Tail(buffer)
    BY DEF FlushOne, NotifierInv
  <1>2. /\ 1 \in DOMAIN buffer /\ Head(buffer) = buffer[1] /\ buffer[1] \subseteq Notes
        /\ \A i \in DOMAIN buffer' : i + 1 \in DOMAIN buffer /\ buffer'[i] = buffer[i + 1]
        /\ \A i \in DOMAIN buffer : i # 1 => i - 1 \in DOMAIN buffer' /\ buffer'[i - 1] = buffer[i]
    BY <1>1 DEF NotifierInv, NotifierTypeOK
  <1>3. Mail!Arrived(Head(buffer)) \/ (delivered' = delivered /\ ~SendsGoOut)
    <2>1. CASE bot = "attached"
      BY <1>2, <2>1, AttemptKinds DEF FlushOne, NotifierInv
    <2>2. CASE bot # "attached"
      BY <2>2 DEF FlushOne, HandedOver, NotifierInv, NotifierTypeOK, SendsGoOut, sendVars
    <2> QED
      BY <2>1, <2>2
  <1> QED
    BY <1>2, <1>3 DEF Buffered

(* Posting leaves a trace only of what is posted. *)
LEMMA StepUntouched ==
  ASSUME FlushInv, HandedOver, Untouched, [Next]_allVars
  PROVE  Untouched'
  <1> faults' = faults
    BY DEF Next, allVars
  <1> USE DEF Untouched, FlushInv, TypeOK, Mail!Arrived
  <1>1. ASSUME NEW n \in Notes, Enqueue(n)
        PROVE  Untouched'
    BY <1>1 DEF Enqueue, notifierVars, sendVars, Buffered
  <1>2. ASSUME NEW n \in Notes, EnqueueUrgent(n)
        PROVE  Untouched'
    <2>1. {n} \in SUBSET Notes /\ notify({n}) /\ made' = made \cup {n} /\ NotifierTypeOK
      BY <1>2 DEF EnqueueUrgent
    <2>2. \A m \in Notes \ {n} : handed'[m] = handed[m] /\ delivered'[m] = delivered[m]
      BY <2>1, NotifyHanded, HandedKinds
    <2> QED
      BY <2>1, <2>2, NotifyKinds
  <1>3. CASE Send
    <2>1. PICK b \in todo : notify(b) /\ made' = made
      BY <1>3 DEF Send
    <2>2. b \subseteq made /\ b \in SUBSET Notes /\ NotifierTypeOK
      OBVIOUS
    <2>3. \A m \in Notes \ b : handed'[m] = handed[m] /\ delivered'[m] = delivered[m]
      BY <2>1, <2>2, NotifyHanded, HandedKinds
    <2> QED
      BY <2>1, <2>2, <2>3, NotifyKinds
  <1>4. CASE SendBuffered
    <2>1. FlushOne /\ made' = made /\ NotifierInv
      BY <1>4 DEF SendBuffered, queueVars, NotifierInv
    <2>2. \A n \in Notes \ made : n \notin Head(buffer)
      BY <2>1, FlushOneKinds
    <2>3. \A n \in Notes \ Head(buffer) : handed'[n] = handed[n] /\ delivered'[n] = delivered[n]
      BY <2>1, FlushOneHanded, HandedKinds DEF NotifierInv
    <2> QED
      BY <2>1, <2>2, <2>3, FlushOneKinds
  <1>5. CASE Restart
    BY <1>5 DEF Restart, NotifierRestart, Buffered, sendVars
  <1>6. CASE Reserve \/ Mark \/ FlushFails \/ Clean \/ Sleep
    BY <1>6 DEF Reserve, Mark, FlushFails, Clean, Sleep, notifierVars, sendVars, Buffered
  <1>7. CASE Attach \/ Detach
    BY <1>7 DEF Attach, Detach, attach, cleanup, queueVars, Buffered, sendVars
  <1>8. CASE UNCHANGED allVars
    BY <1>8 DEF allVars, vars, queueVars, notifierVars, sendVars, Buffered
  <1> QED
    BY <1>1, <1>2, <1>3, <1>4, <1>5, <1>6, <1>7, <1>8 DEF Next, allVars

(* Between sending and marking, what was sent does not get lost. *)
LEMMA StepHandedOver ==
  ASSUME FlushInv, HandedOver, [Next]_allVars
  PROVE  HandedOver'
  <1> faults' = faults
    BY DEF Next, allVars
  <1> SendsGoOut' <=> SendsGoOut
    BY DEF SendsGoOut
  <1> USE DEF HandedOver, FlushInv, TypeOK, Mail!Arrived, Mail!Upto2
  <1>0. NotifierTypeOK /\ NotifierInv /\ \A n \in Notes : delivered[n] \in 0..2
    BY DEF NotifierInv, NotifierTypeOK
  <1>1. ASSUME NEW n \in Notes, Enqueue(n)
        PROVE  HandedOver'
    BY <1>1 DEF Enqueue, notifierVars, sendVars, Buffered
  <1>2. ASSUME NEW n \in Notes, EnqueueUrgent(n)
        PROVE  HandedOver'
    <2>1. {n} \in SUBSET Notes /\ notify({n})
      BY <1>2 DEF EnqueueUrgent
    <2>2. UNCHANGED <<batch, flushed, pc, bot, draining>>
      BY <1>2 DEF EnqueueUrgent, notify
    <2>3. \A m \in Notes : delivered[m] > 0 \/ Buffered(m) => delivered'[m] > 0 \/ Buffered(m)'
      BY <1>0, <2>1, NotifyKinds
    <2>4. "sendError" \notin faults => handed' = delivered'
      BY <1>0, <2>1, NotifyHanded, HandedKinds
    <2> QED
      BY <2>2, <2>3, <2>4
  <1>3. CASE Send
    <2>1. PICK b \in todo : notify(b) /\ batch' = b
      BY <1>3 DEF Send
    <2>2. b \in SUBSET Notes /\ pc' = "mark" /\ UNCHANGED <<flushed, bot, draining>>
      BY <1>3, <2>1 DEF Send, notify
    <2>3. SendsGoOut => \A m \in b \cup flushed : delivered'[m] > 0 \/ Buffered(m)'
      BY <1>0, <2>1, <2>2, NotifyKinds
    <2>4. "sendError" \notin faults => handed' = delivered'
      BY <1>0, <2>1, <2>2, NotifyHanded, HandedKinds
    <2> QED
      BY <2>1, <2>2, <2>3, <2>4
  <1>4. CASE SendBuffered
    <2>1. FlushOne /\ UNCHANGED <<batch, flushed, pc, bot>> /\ draining
      BY <1>4 DEF SendBuffered, queueVars, FlushOne
    <2>2. SendsGoOut => \A m \in Notes : delivered[m] > 0 \/ Buffered(m)
                                           => delivered'[m] > 0 \/ Buffered(m)'
      BY <1>0, <2>1, FlushOneKinds
    <2>3. "sendError" \notin faults => handed' = delivered'
      BY <1>0, <2>1, FlushOneHanded, HandedKinds
    <2> QED
      BY <2>1, <2>2, <2>3
  <1>5. CASE Restart
    BY <1>5 DEF Restart, NotifierRestart, SendsGoOut, sendVars
  <1>6. CASE Reserve \/ Mark \/ FlushFails \/ Clean \/ Sleep
    BY <1>6 DEF Reserve, Mark, FlushFails, Clean, Sleep, notifierVars, sendVars, Buffered
  <1>7. CASE Attach \/ Detach
    BY <1>7 DEF Attach, Detach, attach, cleanup, queueVars, Buffered, SendsGoOut, sendVars
  <1>8. CASE UNCHANGED allVars
    BY <1>8 DEF allVars, vars, queueVars, notifierVars, sendVars, Buffered
  <1> QED
    BY <1>1, <1>2, <1>3, <1>4, <1>5, <1>6, <1>7, <1>8 DEF Next, allVars

LEMMA MailInductive == Spec => []MailInv
  <1>1. Init => MailInv
    BY InitFlushInv DEF Init, NotifierInit, MailInv, OnceInv, Untouched, HandedOver,
                        NeverTwice, BufferDisjoint, Buffered
  <1>2. MailInv /\ [Next]_allVars => MailInv'
    <2>1. [Next]_allVars => faults' = faults
      BY DEF Next, allVars
    <2> QED
      BY <2>1, StepFlushInv, StepOldInv, StepUntouched, StepHandedOver, StepOnceInv DEF MailInv
  <1> QED
    BY <1>1, <1>2, PTL DEF Spec

-----------------------------------------------------------------------------
MailStep == [Mail!Next]_<<made, Waiting, delivered, faults # {}>>

LEMMA MailArrives ==
  ASSUME faults' = faults, NEW S \in SUBSET (Waiting \cup Mail!Repeated), Mail!Arrived(S),
         Waiting' = Waiting \ S, made' = made
  PROVE  MailStep
  BY DEF MailStep, Mail!Next, Mail!Arrive

LEMMA MailIsLost ==
  ASSUME faults' = faults, faults # {}, Waiting' \subseteq Waiting, UNCHANGED <<made, delivered>>
  PROVE  MailStep
  BY DEF MailStep, Mail!Next, Mail!Lose

LEMMA MailIsPosted ==
  ASSUME faults' = faults, NEW n \in Notes, Mail!Post(n)
  PROVE  MailStep
  BY DEF MailStep, Mail!Next

LEMMA SameMail ==
  ASSUME faults' = faults, UNCHANGED <<made, pending, delivered, buffer>>
  PROVE  MailStep
  BY DEF MailStep, Waiting, Buffered

LEMMA ArrivedCounts ==
  ASSUME NotifierTypeOK, NEW S \in SUBSET Notes, Mail!Arrived(S)
  PROVE  /\ \A n \in S : delivered'[n] # 0
         /\ \A n \in Notes \ S : delivered'[n] = delivered[n]
  <1>1. PICK k \in {1, 2} :
          delivered' = [n \in Notes |-> IF n \in S THEN Mail!Upto2(delivered[n] + k)
                                                  ELSE delivered[n]]
    BY DEF Mail!Arrived
  <1> QED
    BY <1>1 DEF Mail!Upto2, NotifierTypeOK

LEMMA PostRefines ==
  ASSUME faults' = faults, MailInv, NEW n \in Notes, Enqueue(n) \/ EnqueueUrgent(n)
  PROVE  MailStep
  <1> USE DEF MailInv, FlushInv, TypeOK, Waiting
  <1>1. /\ n \notin made /\ n \notin pending
        /\ delivered[n] = 0 /\ ~Buffered(n)
    BY QueueAssumption DEF Enqueue, EnqueueUrgent, Newer, Untouched
  <1>2. CASE Enqueue(n)
    <2>1. Waiting' = Waiting \cup {n}
      BY <1>1, <1>2 DEF Enqueue, notifierVars, sendVars, Buffered
    <2> QED
      BY <1>1, <1>2, <2>1, MailIsPosted DEF Enqueue, notifierVars, sendVars, Mail!Post
  <1>3. CASE EnqueueUrgent(n)
    <2>1. {n} \in SUBSET Notes /\ notify({n}) /\ made' = made \cup {n} /\ pending' = pending
      BY <1>3 DEF EnqueueUrgent
    <2>2. NotifierTypeOK
      OBVIOUS
    <2>3. CASE /\ Mail!Arrived({n})
               /\ \A m \in Notes : Buffered(m)' <=> Buffered(m)
      <3>1. Waiting' = Waiting
        BY <1>1, <2>1, <2>3 DEF Mail!Arrived, Mail!Upto2
      <3> QED
        BY <1>1, <2>1, <2>3, <3>1, MailIsPosted DEF Mail!Post
    <2>4. CASE /\ delivered' = delivered
               /\ \A m \in Notes : Buffered(m)' <=> Buffered(m) \/ m \in {n}
      <3>1. Waiting' = Waiting \cup {n}
        BY <1>1, <2>1, <2>4
      <3> QED
        BY <1>1, <2>1, <2>4, <3>1, MailIsPosted DEF Mail!Post
    <2>5. CASE /\ delivered' = delivered /\ ~SendsGoOut
               /\ \A m \in Notes : Buffered(m)' <=> Buffered(m)
      <3>1. Waiting' = Waiting
        BY <1>1, <2>1, <2>5
      <3>2. faults # {}
        BY <2>5 DEF SendsGoOut
      <3> QED
        BY <1>1, <2>1, <2>5, <3>1, <3>2, MailIsPosted DEF Mail!Post
    <2> QED
      BY <2>1, <2>2, <2>3, <2>4, <2>5, NotifyKinds
  <1> QED
    BY <1>2, <1>3

LEMMA SendRefines ==
  ASSUME faults' = faults, MailInv, Send
  PROVE  MailStep
  <1> USE DEF MailInv, FlushInv, TypeOK, Waiting
  <1>1. PICK b \in todo : notify(b)
    BY DEF Send
  <1>2. /\ UNCHANGED <<made, pending>> /\ batch = {} /\ NotifierTypeOK
        /\ b \subseteq pending /\ b \subseteq made /\ b \in SUBSET Notes
    BY DEF Send
  <1>3. CASE /\ Mail!Arrived(b)
             /\ \A n \in Notes : Buffered(n)' <=> Buffered(n)
    <2>1. \A n \in b : delivered[n] > 0 => faults # {}
      BY <1>2 DEF HandedOver, OnceInv, NeverTwice
    <2>2. b \subseteq Waiting \cup Mail!Repeated
      BY <1>2, <2>1 DEF Mail!Repeated, NotifierTypeOK
    <2>3. /\ \A n \in b : delivered'[n] # 0
          /\ \A n \in made \ b : delivered'[n] = delivered[n]
      BY <1>2, <1>3, ArrivedCounts
    <2>4. Waiting' = Waiting \ b
      BY <1>2, <1>3, <2>3
    <2> QED
      BY <1>2, <1>3, <2>2, <2>4, MailArrives
  <1>4. CASE /\ delivered' = delivered
             /\ \A n \in Notes : \/ Buffered(n)' <=> Buffered(n) \/ n \in b
                                 \/ Buffered(n)' <=> Buffered(n)
    <2>1. Waiting' = Waiting
      BY <1>2, <1>4
    <2> QED
      BY <1>2, <1>4, <2>1 DEF MailStep
  <1> QED
    BY <1>1, <1>2, <1>3, <1>4, NotifyKinds

LEMMA BufferRefines ==
  ASSUME faults' = faults, MailInv, SendBuffered
  PROVE  MailStep
  <1> USE DEF MailInv, FlushInv, TypeOK, Waiting
  <1>1. FlushOne /\ NotifierInv /\ UNCHANGED <<made, pending>>
    BY DEF SendBuffered, queueVars, NotifierInv
  <1> DEFINE h == Head(buffer)
  <1>2. /\ \A n \in h : n \in Notes /\ Buffered(n)
        /\ \A n \in Notes : Buffered(n)' => Buffered(n)
        /\ \A n \in Notes \ h : Buffered(n) => Buffered(n)'
        /\ Mail!Arrived(h) \/ (delivered' = delivered /\ ~SendsGoOut)
    BY <1>1, FlushOneKinds
  <1> HIDE DEF h
  <1>3. CASE Mail!Arrived(h)
    <2>1. h \subseteq made
      BY <1>2 DEF Untouched
    <2>2. ASSUME NEW n \in h, faults = {}
          PROVE  ~(delivered[n] > 0)
      <3>1. handed[n] = delivered[n] /\ handed[n] <= 1 /\ handed[n] # 1 /\ n \in Notes
        BY <1>2, <2>2 DEF HandedOver, OnceInv, NeverTwice
      <3>2. delivered[n] \in 0..2
        BY <3>1 DEF NotifierTypeOK
      <3> QED
        BY <3>1, <3>2
    <2>3. h \subseteq Waiting \cup Mail!Repeated
      BY <1>2, <2>1, <2>2 DEF Mail!Repeated, NotifierTypeOK
    <2>4. /\ \A n \in h : delivered'[n] # 0
          /\ \A n \in made \ h : delivered'[n] = delivered[n]
      BY <1>2, <1>3, <2>1, ArrivedCounts
    <2>5. Waiting' = Waiting \ h
      BY <1>1, <1>2, <1>3, <2>4
    <2> QED
      BY <1>1, <1>3, <2>3, <2>5, MailArrives
  <1>4. CASE delivered' = delivered /\ ~SendsGoOut
    <2>1. Waiting' \subseteq Waiting
      BY <1>1, <1>2, <1>4
    <2>2. faults # {}
      BY <1>4 DEF SendsGoOut
    <2> QED
      BY <1>1, <1>4, <2>1, <2>2, MailIsLost
  <1> QED
    BY <1>2, <1>3, <1>4

(* Marking and deleting take what has not arrived out of the mailbox only where
   something failed. *)
LEMMA RowsRefine ==
  ASSUME faults' = faults, MailInv, Mark \/ Clean
  PROVE  MailStep
  <1> USE DEF MailInv, FlushInv, TypeOK
  <1>1. UNCHANGED <<made, delivered, buffer>> /\ pending' \subseteq pending
    BY DEF Mark, Clean, notifierVars, sendVars
  <1>2. Waiting' \subseteq Waiting
    BY <1>1 DEF Waiting, Buffered
  <1>3. CASE faults # {}
    BY <1>1, <1>2, <1>3, MailIsLost
  <1>4. CASE faults = {}
    <2>1. \A n \in pending \ pending' : delivered[n] > 0 \/ Buffered(n)
      <3>1. CASE Mark
        BY <1>4, <3>1 DEF Mark, HandedOver, SendsGoOut
      <3>2. CASE Clean
        <4>1. \A n \in pending : age[n] # TTL
          BY <1>4, <3>2, QueueAssumption DEF Clean, HandedOver, OldInv
        <4> QED
          BY <3>2, <4>1 DEF Clean, Deleted
      <3> QED
        BY <3>1, <3>2
    <2>2. Waiting' = Waiting
      BY <1>1, <2>1 DEF Waiting, Buffered
    <2> QED
      BY <1>1, <2>2 DEF MailStep
  <1> QED
    BY <1>3, <1>4

LEMMA NextRefines ==
  ASSUME MailInv, [Next]_allVars
  PROVE  MailStep
  <1> faults' = faults
    BY DEF Next, allVars
  <1>1. ASSUME NEW n \in Notes, Enqueue(n) \/ EnqueueUrgent(n)
        PROVE  MailStep
    BY <1>1, PostRefines
  <1>2. CASE Send
    BY <1>2, SendRefines
  <1>3. CASE SendBuffered
    BY <1>3, BufferRefines
  <1>4. CASE Mark \/ Clean
    BY <1>4, RowsRefine
  <1>5. CASE Restart
    <2>1. faults # {} /\ UNCHANGED <<made, pending, delivered>> /\ buffer' = <<>>
      BY <1>5 DEF Restart, NotifierRestart, sendVars
    <2>2. Waiting' \subseteq Waiting
      BY <2>1 DEF Waiting, Buffered
    <2> QED
      BY <2>1, <2>2, MailIsLost
  <1>6. CASE Reserve \/ FlushFails \/ Sleep
    BY <1>6, SameMail DEF Reserve, FlushFails, Sleep, notifierVars, sendVars
  <1>7. CASE Attach \/ Detach
    BY <1>7, SameMail DEF Attach, Detach, attach, cleanup, queueVars, sendVars
  <1>8. CASE UNCHANGED allVars
    BY <1>8, SameMail DEF allVars, vars, queueVars, notifierVars, sendVars
  <1> QED
    BY <1>1, <1>2, <1>3, <1>4, <1>5, <1>6, <1>7, <1>8 DEF Next, allVars

(* The queue, the notifier and the callers are one mailbox: whatever is posted
   waits until it arrives, once; only where a send, the database or the process
   may fail is it lost or repeated, and then nothing arrives that was not
   posted, or that was lost. *)
THEOREM QueueIsMailbox == Spec => KeepsMail
  <1>1. Init => Mail!Init
    BY DEF Init, NotifierInit, Mail!Init, Waiting
  <1>2. MailInv /\ [Next]_allVars => [Mail!Next]_<<made, Waiting, delivered, faults # {}>>
    BY NextRefines DEF MailStep
  <1> QED
    BY <1>1, <1>2, MailInductive, PTL DEF Spec, KeepsMail, Mail!Spec

(* Where every send goes out and the process lives, what is marked as sent was
   sent, or waits in the notifier's buffer, even if the database fails: only
   the errors that the notifier swallows, and the bot taken from it before it
   has emptied its buffer, break the promise of notification_queue.py:185. *)
THEOREM MarkedWasSent == Spec => [](faults \subseteq {"dbError"} => FlushedWasSent)
  <1>1. MailInv => (faults \subseteq {"dbError"} => FlushedWasSent)
    BY DEF MailInv, HandedOver, SendsGoOut, FlushedWasSent
  <1> QED
    BY <1>1, MailInductive, PTL
=============================================================================
