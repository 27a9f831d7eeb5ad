------------------------- MODULE NotificationQueue -------------------------
(***************************************************************************)
(* core/scheduling/notification_queue.py on top of the Notifier.           *)
(*                                                                         *)
(* Notifications are rows.  One loop reserves the unsent rows, groups the  *)
(* recent ones into messages, sends each message and marks its rows, then  *)
(* sleeps; every so often it deletes what is older than the TTL, sent or   *)
(* not.  Callers enqueue at any time.                                      *)
(*                                                                         *)
(* Time is counted in rounds of the loop (60 seconds): Window stands for 5 *)
(* rounds, CleanupEvery for 60 and TTL for 1440.  A flush is shorter than  *)
(* the time between Window and TTL.                                        *)
(***************************************************************************)
EXTENDS Notifier, FiniteSets

CONSTANTS
    Urgent,         \* CRITICAL notifications and those with a keyboard
    Bucket,         \* topic and priority of the others
    MaxBatch,       \* _max_batch_size
    Window,         \* _window_seconds
    TTL,            \* _ttl_hours
    CleanupEvery

ASSUME QueueAssumption ==
    /\ Notes \subseteq Nat \ {0}
    /\ Urgent \subseteq Notes
    /\ MaxBatch \in Nat \ {0}
    /\ Window \in Nat /\ TTL \in Nat /\ Window < TTL
    /\ CleanupEvery \in Nat \ {0} /\ MaxBuffer \in Nat
    /\ Faults \subseteq {"sendError", "dbError", "restart"}

VARIABLES
    made,       \* notifications created so far; ids grow with time
    pending,    \* rows with no flushed_at
    flushed,    \* rows with one
    age,        \* rounds since created_at, up to the TTL
    pc,         \* where the loop is
    todo,       \* messages of this flush still to be sent
    batch,      \* rows of the message sent last, not marked yet
    rounds      \* _cleanup_counter

queueVars == <<made, pending, flushed, age, pc, todo, batch, rounds>>
vars == <<queueVars, notifierVars>>
allVars == <<vars, faults>>

Rows == pending \cup flushed

Init ==
    /\ NotifierInit
    /\ made = {} /\ pending = {} /\ flushed = {}
    /\ age = [n \in Notes |-> 0]
    /\ pc = "flush" /\ todo = {} /\ batch = {} /\ rounds = 0

Newer(n) == \A m \in made : m < n

-----------------------------------------------------------------------------
(* enqueue: a row, or at once to the notifier. *)
Enqueue(n) ==
    /\ n \notin Urgent /\ Newer(n)
    /\ made' = made \cup {n}
    /\ pending' = pending \cup {n}
    /\ UNCHANGED <<flushed, age, pc, todo, batch, rounds, notifierVars>>

EnqueueUrgent(n) ==
    /\ n \in Urgent /\ Newer(n)
    /\ made' = made \cup {n}
    /\ notify({n})
    /\ UNCHANGED <<pending, flushed, age, pc, todo, batch, rounds>>

Fresh == {n \in pending : age[n] <= Window}

Oldest(S) == {n \in S : Cardinality({m \in S : m < n}) < MaxBatch}

(* Mutant: old rows are grouped and limited like the recent ones. *)
Batches_OneRule ==
    {Oldest({m \in pending : Bucket[m] = Bucket[n]}) : n \in pending}

(* The recent rows of a bucket make one message, up to MaxBatch of them; each
   older row makes one of its own. *)
Batches ==
    {Oldest({m \in Fresh : Bucket[m] = Bucket[n]}) : n \in Fresh}
    \cup {{n} : n \in pending \ Fresh}

(* flush: the rows are reserved and grouped. *)
Reserve ==
    /\ pc = "flush"
    /\ todo' = Batches
    /\ pc' = IF pending = {} THEN "clean" ELSE "send"
    /\ UNCHANGED <<made, pending, flushed, age, batch, rounds, notifierVars>>

(* notify() never raises, so the flush goes on to mark the rows. *)
Send ==
    /\ pc = "send"
    /\ \E b \in todo :
          /\ notify(b)
          /\ todo' = todo \ {b}
          /\ batch' = b
    /\ pc' = "mark"
    /\ UNCHANGED <<made, pending, flushed, age, rounds>>

(* Mutant: the rows of a full batch stay unmarked. *)
Mark_NotFull ==
    /\ pc = "mark"
    /\ IF Cardinality(batch) < MaxBatch
       THEN pending' = pending \ batch /\ flushed' = flushed \cup batch
       ELSE UNCHANGED <<pending, flushed>>
    /\ batch' = {}
    /\ pc' = IF todo = {} THEN "clean" ELSE "send"
    /\ UNCHANGED <<made, age, todo, rounds, notifierVars>>

Mark ==
    /\ pc = "mark"
    /\ pending' = pending \ batch
    /\ flushed' = flushed \cup batch
    /\ batch' = {}
    /\ pc' = IF todo = {} THEN "clean" ELSE "send"
    /\ UNCHANGED <<made, age, todo, rounds, notifierVars>>

(* Mutant: the messages of a failed flush are kept. *)
FlushFails_KeepTodo ==
    /\ "dbError" \in faults
    /\ pc \in {"flush", "mark"}
    /\ batch' = {}
    /\ pc' = "failed"
    /\ UNCHANGED <<made, pending, flushed, age, todo, rounds, notifierVars>>

(* The database raises: flush_loop logs it, what is left waits a round. *)
FlushFails ==
    /\ "dbError" \in faults
    /\ pc \in {"flush", "mark"}
    /\ todo' = {} /\ batch' = {}
    /\ pc' = "failed"
    /\ UNCHANGED <<made, pending, flushed, age, rounds, notifierVars>>

(* The end of a round.  cleanup_expired may fail as well. *)
Deleted == {n \in Rows : age[n] = TTL}

Clean ==
    /\ pc \in {"clean", "failed"}
    /\ rounds' = IF rounds + 1 >= CleanupEvery THEN 0 ELSE rounds + 1
    /\ \/ /\ rounds + 1 >= CleanupEvery
          /\ pending' = pending \ Deleted
          /\ flushed' = flushed \ Deleted
       \/ /\ rounds + 1 < CleanupEvery \/ "dbError" \in faults
          /\ UNCHANGED <<pending, flushed>>
    /\ pc' = "sleep"
    /\ UNCHANGED <<made, age, todo, batch, notifierVars>>

Aged(d) ==
    [n \in Notes |-> IF n \notin Rows THEN age[n]
                     ELSE IF age[n] + d < TTL THEN age[n] + d ELSE TTL]

Sleep ==
    /\ pc = "sleep"
    /\ age' = Aged(1)
    /\ pc' = "flush"
    /\ UNCHANGED <<made, pending, flushed, todo, batch, rounds, notifierVars>>

Attach == attach /\ UNCHANGED queueVars

SendBuffered == FlushOne /\ UNCHANGED queueVars

(* The bot stops polling and main() begins to shut down. *)
Detach ==
    /\ "restart" \in faults
    /\ cleanup
    /\ UNCHANGED queueVars

(* The process ends, by stop() or by a crash, and any time later a new one
   starts the loop. *)
Restart ==
    /\ "restart" \in faults
    /\ NotifierRestart
    /\ \E d \in 0..TTL : age' = Aged(d)
    /\ pc' = "flush" /\ todo' = {} /\ batch' = {} /\ rounds' = 0
    /\ UNCHANGED <<made, pending, flushed>>

Loop == Reserve \/ Send \/ Mark \/ Clean \/ Sleep

Next ==
    /\ \/ \E n \in Notes : Enqueue(n) \/ EnqueueUrgent(n)
       \/ Reserve \/ Send \/ Mark \/ FlushFails \/ Clean \/ Sleep
       \/ Attach \/ SendBuffered \/ Detach
       \/ Restart
    /\ UNCHANGED faults

Spec == Init /\ [][Next]_allVars

(* The event loop runs both tasks on, and main() attaches the bot. *)
FairSpec == Spec /\ WF_vars(Loop) /\ WF_vars(Attach) /\ WF_vars(SendBuffered)

-----------------------------------------------------------------------------
(* A row is unsent or sent, and only unsent rows are on their way. *)
TypeOK ==
    /\ NotifierTypeOK
    /\ made \in SUBSET Notes
    /\ pending \in SUBSET (made \ Urgent)
    /\ flushed \in SUBSET (made \ Urgent)
    /\ pending \cap flushed = {}
    /\ age \in [Notes -> 0..TTL]
    /\ pc \in {"flush", "send", "mark", "clean", "failed", "sleep"}
    /\ todo \in SUBSET SUBSET pending
    /\ batch \in SUBSET pending
    /\ rounds \in 0..(CleanupEvery - 1)

(* The cleanup deletes rows older than the TTL whether they were sent or not.
   Still, short of a flush that failed in the database, nothing unsent is
   deleted, however long the process was down: the flush comes first, and it
   sends old rows without a limit. *)
UnsentKept ==
    [][pc # "failed" => pending \ pending' \subseteq flushed']_vars

(* While the database works and the process runs, no notification is given to
   send_with_retry or buffered twice, whether it went through the queue or
   past it, however its sends end: what arrives twice then is what one call
   sent again after it had lost an answer. *)
NeverTwice ==
    \A n \in Notes :
        /\ handed[n] <= 1
        /\ ~(handed[n] = 1 /\ Buffered(n))
        /\ n \in pending \ batch => handed[n] = 0 /\ ~Buffered(n)

(* If nothing fails, every notification reaches the owner: a full batch does
   not starve the rest of its bucket, and what was buffered before the bot
   came up is sent. *)
EveryNoteArrives == faults = {} => \A n \in Notes : n \in made ~> delivered[n] > 0

(* What has been posted and has not arrived yet, as a row or in the buffer. *)
Waiting == {n \in made : delivered[n] = 0 /\ (n \in pending \/ Buffered(n))}

(* The queue, the notifier and the callers that go past the queue are one
   mailbox, which loses nothing and repeats nothing unless a send, the
   database or the process fails. *)
Mail == INSTANCE Mailbox WITH
    posted <- made, waiting <- Waiting, mayFail <- faults # {}

KeepsMail == Mail!Spec

(* "Mark those sent as flushed" (notification_queue.py:185): what is marked
   has been sent or waits in the notifier's buffer. *)
FlushedWasSent == \A n \in flushed : delivered[n] > 0 \/ Buffered(n)
=============================================================================
