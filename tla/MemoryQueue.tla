---------------------------- MODULE MemoryQueue ----------------------------
(***************************************************************************)
(* core/memory/_queue_core.py and memory_queue.py: jobs that save facts or *)
(* extract them from a text, done in the background by one worker.         *)
(*                                                                         *)
(* A job that finds the queue full waits; when that times out it goes to   *)
(* the dead-letter list, from there to a journal on disk if the list is    *)
(* full, and to an overflow buffer if the disk fails.  The retry loop      *)
(* moves jobs back.  The worker itself enqueues: what it extracts is saved *)
(* by a second job, put into the queue only the worker empties.            *)
(*                                                                         *)
(* No code awaits while it holds _dlq_lock, so what is done under it is    *)
(* one step.  Nothing reads the journal.                                   *)
(***************************************************************************)
EXTENDS Naturals, Sequences, FiniteSets

CONSTANTS
    Saves,          \* jobs that save facts
    Extracts,       \* jobs that extract facts from a text
    SaveOf,         \* the job in which the facts of a text are saved
    NoJob,
    QueueMax,       \* _QUEUE_MAXSIZE
    DlqMax,         \* _DLQ_MAX
    OverflowMax,    \* _DLQ_OVERFLOW_MAX
    QueueFaults     \* which of "jobError", "journalError", "stop" happen

Jobs == Saves \cup Extracts

ASSUME MemoryQueueAssumption ==
    /\ Saves \cap Extracts = {} /\ NoJob \notin Jobs
    /\ SaveOf \in [Extracts -> Saves]
    /\ \A e, f \in Extracts : e # f => SaveOf[e] # SaveOf[f]
    /\ QueueMax \in Nat \ {0} /\ DlqMax \in Nat \ {0} /\ OverflowMax \in Nat \ {0}
    /\ QueueFaults \subseteq {"jobError", "journalError", "stop"}

VARIABLES
    unborn,         \* jobs not created yet
    queue,          \* _queue
    putting,        \* jobs whose enqueue() waits for room
    dlq,            \* _dlq
    journaling,     \* jobs whose enqueue() writes the journal
    overflow,       \* _dlq_overflow_buffer
    aside,          \* jobs_to_journal of the retry loop
    again,          \* re_overflow of the retry loop
    work,           \* the job of the worker, or NoJob
    stopped,        \* which of the two tasks stop_worker() has cancelled
    journal,        \* jobs in the journal
    done,           \* jobs the worker has finished
    lost            \* jobs that failed, were dropped or abandoned

lists == <<queue, dlq, overflow>>
retrying == <<aside, again>>
memoryVars ==
    <<unborn, lists, putting, journaling, retrying, work, stopped, journal, done, lost>>

Elements(s) == {s[i] : i \in DOMAIN s}

MemoryTypeOK ==
    /\ queue \in Seq(Jobs) /\ Len(queue) <= QueueMax
    /\ dlq \in Seq(Jobs) /\ Len(dlq) <= DlqMax
    /\ overflow \in Seq(Jobs) /\ Len(overflow) <= OverflowMax
    /\ aside \in Seq(Jobs) /\ again \in Seq(Jobs)
    /\ unborn \in SUBSET Jobs /\ putting \in SUBSET Jobs /\ journaling \in SUBSET Jobs
    /\ work \in Jobs \cup {NoJob}
    /\ stopped \in SUBSET {"worker", "retry"}
    /\ journal \in SUBSET Jobs /\ done \in SUBSET Jobs /\ lost \in SUBSET Jobs

MemoryInit ==
    /\ unborn = Jobs
    /\ queue = <<>> /\ dlq = <<>> /\ overflow = <<>> /\ aside = <<>> /\ again = <<>>
    /\ putting = {} /\ journaling = {} /\ work = NoJob /\ stopped = {}
    /\ journal = {} /\ done = {} /\ lost = {}

Smaller(i, k) == IF i < k THEN i ELSE k

(* _overflow_buffer_append for several jobs: the oldest entries go. *)
Excess(s) == IF Len(s) > OverflowMax THEN Len(s) - OverflowMax ELSE 0

Overflows(jobs) ==
    LET s == overflow \o jobs
    IN  /\ overflow' = SubSeq(s, Excess(s) + 1, Len(s))
        /\ lost' = lost \cup Elements(SubSeq(s, 1, Excess(s)))

-----------------------------------------------------------------------------
(* enqueue(): room at once, or a wait for it. *)
Enqueue(j) ==
    /\ j \in unborn
    /\ unborn' = unborn \ {j}
    /\ IF Len(queue) < QueueMax
       THEN queue' = Append(queue, j) /\ UNCHANGED putting
       ELSE putting' = putting \cup {j} /\ UNCHANGED queue
    /\ UNCHANGED <<dlq, overflow, journaling, retrying, work, stopped, journal, done, lost>>

Submit(j) == (\A e \in Extracts : SaveOf[e] # j) /\ Enqueue(j)

Put(j) ==
    /\ j \in putting
    /\ Len(queue) < QueueMax
    /\ queue' = Append(queue, j)
    /\ putting' = putting \ {j}
    /\ UNCHANGED <<unborn, dlq, overflow, journaling, retrying, work, stopped, journal, done, lost>>

(* Mutant: only callers outside the worker wait for a limited time. *)
PutTimesOut_NotWorker(j) ==
    /\ j \in putting
    /\ work \in Extracts => SaveOf[work] # j
    /\ putting' = putting \ {j}
    /\ IF Len(dlq) < DlqMax
       THEN dlq' = Append(dlq, j) /\ UNCHANGED journaling
       ELSE journaling' = journaling \cup {j} /\ UNCHANGED dlq
    /\ UNCHANGED <<unborn, queue, overflow, retrying, work, stopped, journal, done, lost>>

PutTimesOut(j) ==
    /\ j \in putting
    /\ putting' = putting \ {j}
    /\ IF Len(dlq) < DlqMax
       THEN dlq' = Append(dlq, j) /\ UNCHANGED journaling
       ELSE journaling' = journaling \cup {j} /\ UNCHANGED dlq
    /\ UNCHANGED <<unborn, queue, overflow, retrying, work, stopped, journal, done, lost>>

(* Mutant: a job that could not be journaled is not kept. *)
JournalAnswers_Forget(j) ==
    /\ j \in journaling
    /\ journaling' = journaling \ {j}
    /\ \/ journal' = journal \cup {j} /\ UNCHANGED <<overflow, lost>>
       \/ "journalError" \in QueueFaults /\ UNCHANGED <<overflow, journal, lost>>
    /\ UNCHANGED <<unborn, queue, dlq, putting, retrying, work, stopped, done>>

JournalAnswers(j) ==
    /\ j \in journaling
    /\ journaling' = journaling \ {j}
    /\ \/ journal' = journal \cup {j} /\ UNCHANGED <<overflow, lost>>
       \/ "journalError" \in QueueFaults /\ Overflows(<<j>>) /\ UNCHANGED journal
    /\ UNCHANGED <<unborn, queue, dlq, putting, retrying, work, stopped, done>>

-----------------------------------------------------------------------------
(* Mutant: the dead-letter list is filled without asking what it holds. *)
Retry_NoLimit ==
    /\ "retry" \notin stopped
    /\ aside = <<>> /\ again = <<>> /\ dlq \o overflow # <<>>
    /\ LET moved == Smaller(Len(dlq), QueueMax - Len(queue))
           rest == SubSeq(dlq, moved + 1, Len(dlq))
           back == Smaller(Len(overflow), DlqMax)
       IN  /\ queue' = queue \o SubSeq(dlq, 1, moved)
           /\ dlq' = rest \o SubSeq(overflow, 1, back)
           /\ aside' = SubSeq(overflow, back + 1, Len(overflow))
    /\ overflow' = <<>>
    /\ UNCHANGED <<unborn, putting, journaling, again, work, stopped, journal, done, lost>>

(* Mutant: the loop looks at the dead letters only. *)
Retry_DlqOnly ==
    /\ "retry" \notin stopped
    /\ aside = <<>> /\ again = <<>> /\ dlq # <<>>
    /\ LET moved == Smaller(Len(dlq), QueueMax - Len(queue))
           rest == SubSeq(dlq, moved + 1, Len(dlq))
           back == Smaller(Len(overflow), DlqMax - Len(rest))
       IN  /\ queue' = queue \o SubSeq(dlq, 1, moved)
           /\ dlq' = rest \o SubSeq(overflow, 1, back)
           /\ aside' = SubSeq(overflow, back + 1, Len(overflow))
    /\ overflow' = <<>>
    /\ UNCHANGED <<unborn, putting, journaling, again, work, stopped, journal, done, lost>>

(* _retry_dlq() under the lock: dead letters into the queue, overflow into the
   dead letters, and the rest of the overflow to be journaled.  The eviction
   from a list longer than DlqMax never happens. *)
Retry ==
    /\ "retry" \notin stopped
    /\ aside = <<>> /\ again = <<>> /\ dlq \o overflow # <<>>
    /\ LET moved == Smaller(Len(dlq), QueueMax - Len(queue))
           rest == SubSeq(dlq, moved + 1, Len(dlq))
           back == Smaller(Len(overflow), DlqMax - Len(rest))
       IN  /\ queue' = queue \o SubSeq(dlq, 1, moved)
           /\ dlq' = rest \o SubSeq(overflow, 1, back)
           /\ aside' = SubSeq(overflow, back + 1, Len(overflow))
    /\ overflow' = <<>>
    /\ UNCHANGED <<unborn, putting, journaling, again, work, stopped, journal, done, lost>>

(* The loop writes the journal, one job at a time and without the lock, ... *)
RetryJournals ==
    /\ "retry" \notin stopped
    /\ aside # <<>>
    /\ aside' = Tail(aside)
    /\ \/ journal' = journal \cup {Head(aside)} /\ UNCHANGED again
       \/ "journalError" \in QueueFaults /\ again' = Append(again, Head(aside)) /\ UNCHANGED journal
    /\ UNCHANGED <<unborn, lists, putting, journaling, work, stopped, done, lost>>

(* ... and takes what the disk refused back into the overflow buffer. *)
RetryReturns ==
    /\ "retry" \notin stopped
    /\ aside = <<>> /\ again # <<>>
    /\ Overflows(again)
    /\ again' = <<>>
    /\ UNCHANGED <<unborn, queue, dlq, putting, journaling, aside, work, stopped, journal, done>>

-----------------------------------------------------------------------------
Get ==
    /\ "worker" \notin stopped
    /\ work = NoJob /\ queue # <<>>
    /\ work' = Head(queue)
    /\ queue' = Tail(queue)
    /\ UNCHANGED <<unborn, dlq, overflow, putting, journaling, retrying, stopped, journal, done, lost>>

(* _handle_extract enqueues what it found, ... *)
EnqueueFound ==
    /\ work \in Extracts
    /\ Enqueue(SaveOf[work])

InEnqueue == work \in Extracts /\ SaveOf[work] \in putting \cup journaling

(* ... and a job is over when that returns.  It is acknowledged even if it
   raised.  A text may have no facts. *)
Finish ==
    /\ work # NoJob /\ ~InEnqueue
    /\ work' = NoJob
    /\ \/ done' = done \cup {work} /\ UNCHANGED lost
       \/ "jobError" \in QueueFaults /\ lost' = lost \cup {work} /\ UNCHANGED done
    /\ UNCHANGED <<unborn, lists, putting, journaling, retrying, stopped, journal>>

-----------------------------------------------------------------------------
(* stop_worker(): first the worker, in the middle of what it does; a thread
   that writes the journal goes on. *)
StopWorker ==
    /\ "stop" \in QueueFaults
    /\ "worker" \notin stopped
    /\ stopped' = stopped \cup {"worker"}
    /\ work' = NoJob
    /\ LET given == IF work = NoJob THEN {} ELSE {work}
           found == IF InEnqueue THEN {SaveOf[work]} ELSE {}
       IN  /\ putting' = putting \ found
           /\ journaling' = journaling \ found
           /\ \/ lost' = lost \cup given \cup found /\ UNCHANGED journal
              \/ /\ found \subseteq journaling
                 /\ lost' = lost \cup given
                 /\ journal' = journal \cup found
    /\ UNCHANGED <<unborn, lists, retrying, done>>

(* Then the retry loop, with the jobs it has taken from the buffer. *)
StopRetry ==
    /\ stopped = {"worker"}
    /\ stopped' = {"worker", "retry"}
    /\ aside' = <<>> /\ again' = <<>>
    /\ \/ lost' = lost \cup Elements(aside) \cup Elements(again) /\ UNCHANGED journal
       \/ /\ aside # <<>>
          /\ lost' = lost \cup Elements(Tail(aside)) \cup Elements(again)
          /\ journal' = journal \cup {Head(aside)}
    /\ UNCHANGED <<unborn, lists, putting, journaling, work, done>>

MemoryNext ==
    \/ \E j \in Jobs : Submit(j) \/ Put(j) \/ PutTimesOut(j) \/ JournalAnswers(j)
    \/ Retry \/ RetryJournals \/ RetryReturns
    \/ Get \/ EnqueueFound \/ Finish
    \/ StopWorker \/ StopRetry

Worker == Get \/ Finish
RetryLoop == Retry \/ RetryJournals \/ RetryReturns
Caller(j) == Put(j) \/ PutTimesOut(j) \/ JournalAnswers(j)

MemorySpec == MemoryInit /\ [][MemoryNext]_memoryVars

(* The worker's jobs end, the disk answers, the loop wakes up every 30 seconds
   and a waiting put is over after its timeout. *)
MemoryFairness ==
    /\ WF_memoryVars(Worker) /\ WF_memoryVars(RetryLoop)
    /\ \A j \in Jobs : WF_memoryVars(Caller(j))

-----------------------------------------------------------------------------
Distinct(s) == \A i, k \in DOMAIN s : i # k => s[i] # s[k]

(* A job passes through a queue, three lists, two places of the retry loop and
   a disk, moved by tasks that hold no lock in between.  Still it is at one
   place: neither done twice, nor journaled and done, nor gone unnoticed. *)
Places ==
    <<unborn, Elements(queue), putting, Elements(dlq), journaling, Elements(overflow),
      Elements(aside), Elements(again), {work} \ {NoJob}, journal, done, lost>>

JobsConserved ==
    /\ UNION Elements(Places) = Jobs
    /\ \A i, k \in DOMAIN Places : i # k => Places[i] \cap Places[k] = {}
    /\ Distinct(queue) /\ Distinct(dlq) /\ Distinct(overflow) /\ Distinct(aside \o again)

(* The worker puts jobs into the queue it alone empties.  It does not wait for
   ever, whatever is full and whatever fails. *)
WorkerGoesOn == []<>(work = NoJob)

(* Every job is done in the end, written down or given up, however full the
   lists have been: no list holds a job that nothing takes out of it. *)
JobsSettle == <>[](stopped # {} \/ unborn \cup done \cup journal \cup lost = Jobs)
=============================================================================
