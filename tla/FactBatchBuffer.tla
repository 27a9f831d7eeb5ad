-------------------------- MODULE FactBatchBuffer --------------------------
(***************************************************************************)
(* core/memory/auto_save_batch.py: messages wait in a buffer until one     *)
(* request to a language model extracts the facts of all of them.          *)
(*                                                                         *)
(* A full buffer is flushed at once, by a task kept in _flush_task.  An    *)
(* incomplete one is flushed when nothing was added for a while, by a      *)
(* timer kept in _flush_task, which starts the flush as a second task that *)
(* is kept nowhere.  What is added while _is_flushing is set waits for the *)
(* end of the flush.  The lock is never held across an await, so what is   *)
(* done under it is one step.                                              *)
(*                                                                         *)
(* A flush is known by its batch: batches are disjoint and not empty.      *)
(***************************************************************************)
EXTENDS Naturals, FiniteSets

CONSTANTS
    Texts,          \* messages, each added once
    BatchSize,      \* _batch_size
    BatchFaults     \* which of "modelError", "shutdown" happen

ASSUME BatchAssumption ==
    /\ BatchSize \in Nat \ {0}
    /\ BatchFaults \subseteq {"modelError", "shutdown"}

VARIABLES
    buffer,         \* _buffer
    isFlushing,     \* _is_flushing
    task,           \* the flush in _flush_task; {} stands for a timer or None
    armed,          \* whether the timer in _flush_task is running
    flights,        \* the flushes that have not ended
    doomed,         \* those of them that are cancelled
    closing,        \* how far main() has shut the buffer down
    own,            \* the batch of flush_now
    outcome         \* what became of each message

flags == <<isFlushing, task, armed>>
batchVars == <<buffer, flags, flights, doomed, closing, own, outcome>>

BatchTypeOK ==
    /\ buffer \in SUBSET Texts
    /\ isFlushing \in BOOLEAN /\ armed \in BOOLEAN
    /\ task \in SUBSET Texts
    /\ flights \in SUBSET SUBSET Texts
    /\ doomed \in SUBSET flights
    /\ closing \in {"no", "waiting", "flushing", "flushed", "closed"}
    /\ own \in SUBSET Texts
    /\ outcome \in [Texts -> {"new", "held", "saved", "failed", "cancelled"}]

BatchInit ==
    /\ buffer = {} /\ isFlushing = FALSE /\ task = {} /\ armed = FALSE
    /\ flights = {} /\ doomed = {} /\ closing = "no" /\ own = {}
    /\ outcome = [m \in Texts |-> "new"]

(* _flush_task is there and not done. *)
TaskLives == armed \/ task \in flights

CancelTask == doomed' = doomed \cup ({task} \cap flights)

Ended(b, what) == outcome' = [m \in Texts |-> IF m \in b THEN what ELSE outcome[m]]

-----------------------------------------------------------------------------
(* add(): the message waits for the flush to end, ... *)
AddDuringFlush(grown) ==
    /\ isFlushing
    /\ Cardinality(grown) >= BatchSize => TaskLives
    /\ buffer' = grown
    /\ UNCHANGED <<flags, flights, doomed>>

(* ... or fills the buffer, ... *)
AddAndFlush(grown) ==
    /\ Cardinality(grown) >= BatchSize
    /\ ~(isFlushing /\ TaskLives)
    /\ CancelTask
    /\ buffer' = {}
    /\ flights' = flights \cup {grown}
    /\ isFlushing' = TRUE /\ task' = grown /\ armed' = FALSE

(* ... or starts the timer again. *)
AddAndWait(grown) ==
    /\ Cardinality(grown) < BatchSize
    /\ ~isFlushing
    /\ CancelTask
    /\ buffer' = grown
    /\ task' = {} /\ armed' = TRUE
    /\ UNCHANGED <<isFlushing, flights>>

Add(m) ==
    /\ outcome[m] = "new" /\ closing # "closed"
    /\ outcome' = [outcome EXCEPT ![m] = "held"]
    /\ LET grown == buffer \cup {m}
       IN  AddDuringFlush(grown) \/ AddAndFlush(grown) \/ AddAndWait(grown)
    /\ UNCHANGED <<closing, own>>

(* Mutant: the buffer keeps what the flush has taken. *)
TimeoutFlush_KeepBuffer ==
    /\ armed
    /\ armed' = FALSE
    /\ flights' = flights \cup ({buffer} \ {{}})
    /\ isFlushing' = (isFlushing \/ buffer # {})
    /\ UNCHANGED <<buffer, task, doomed, closing, own, outcome>>

(* _timeout_flush after its sleep. *)
TimeoutFlush ==
    /\ armed
    /\ armed' = FALSE
    /\ flights' = flights \cup ({buffer} \ {{}})
    /\ isFlushing' = (isFlushing \/ buffer # {})
    /\ buffer' = {}
    /\ UNCHANGED <<task, doomed, closing, own, outcome>>

(* Mutant: nothing is done for the messages that came during the flush. *)
Finally_NoTimer(b) ==
    /\ flights' = flights \ {b}
    /\ doomed' = doomed \ {b}
    /\ isFlushing' = FALSE
    /\ UNCHANGED <<task, armed>>

(* The end of _flush_batch, however it ends.  The task that runs it is not
   done yet. *)
Finally(b) ==
    /\ flights' = flights \ {b}
    /\ doomed' = doomed \ {b}
    /\ isFlushing' = FALSE
    /\ IF buffer # {} /\ ~TaskLives
       THEN task' = {} /\ armed' = TRUE
       ELSE UNCHANGED <<task, armed>>

(* The model answers and the facts are stored, or all the attempts fail. *)
FlushEnds(b) ==
    /\ b \in flights \ doomed
    /\ \/ Ended(b, "saved")
       \/ "modelError" \in BatchFaults /\ Ended(b, "failed")
    /\ Finally(b)
    /\ closing' = IF b = own THEN "flushed" ELSE closing
    /\ own' = own \ b
    /\ UNCHANGED buffer

(* A cancelled task that never ran does not reach the try block. *)
FlushCancelled(b) ==
    /\ b \in doomed
    /\ Ended(b, "cancelled")
    /\ \/ Finally(b)
       \/ /\ flights' = flights \ {b} /\ doomed' = doomed \ {b}
          /\ UNCHANGED flags
    /\ UNCHANGED <<buffer, closing, own>>

-----------------------------------------------------------------------------
(* flush_now(), called by main(): it takes what is buffered and cancels the
   task it finds, ... *)
FlushNow ==
    /\ "shutdown" \in BatchFaults
    /\ closing = "no"
    /\ IF buffer = {}
       THEN /\ isFlushing' = FALSE /\ closing' = "flushed"
            /\ UNCHANGED <<buffer, task, armed, doomed, own>>
       ELSE /\ isFlushing' = TRUE /\ closing' = "waiting"
            /\ own' = buffer /\ buffer' = {}
            /\ CancelTask
            /\ task' = {} /\ armed' = FALSE
    /\ UNCHANGED <<flights, outcome>>

(* ... waits a while for that task and flushes in its place. *)
FlushOwn ==
    /\ closing = "waiting"
    /\ closing' = "flushing"
    /\ flights' = flights \cup {own}
    /\ UNCHANGED <<buffer, flags, doomed, own, outcome>>

(* main() gives up after five seconds.  While flush_now waits for the task it
   swallows the cancellation and goes on. *)
FlushNowTimesOut ==
    /\ closing = "flushing"
    /\ closing' = "flushed" /\ own' = {}
    /\ Ended(own, "cancelled")
    /\ Finally(own)
    /\ UNCHANGED buffer

(* stop_ff_tasks() cancels every flush and the timer; the process ends. *)
StopTasks ==
    /\ closing = "flushed"
    /\ closing' = "closed"
    /\ doomed' = flights /\ armed' = FALSE
    /\ UNCHANGED <<buffer, isFlushing, task, flights, own, outcome>>

BatchNext ==
    \/ \E m \in Texts : Add(m)
    \/ TimeoutFlush
    \/ \E b \in flights : FlushEnds(b) \/ FlushCancelled(b)
    \/ FlushNow \/ FlushOwn \/ FlushNowTimesOut \/ StopTasks

BatchSpec == BatchInit /\ [][BatchNext]_batchVars

-----------------------------------------------------------------------------
(* add() and the timers hand the buffer over in different places, and a flush
   may start while another runs.  Still a message is extracted from only once:
   it is buffered, or in exactly one batch, or done with. *)
InOneBatch ==
    /\ \A b \in flights : b # {} /\ b \cap buffer = {}
    /\ \A b, c \in flights : b # c => b \cap c = {}
    /\ \A m \in Texts :
          outcome[m] = "held" <=> \/ m \in buffer \cup own
                                  \/ \E b \in flights : m \in b

(* Until shutdown, nobody waits for something that will not come.  add() leaves
   a message to the running flush when _is_flushing is set, so the flag does not
   outlive the flushes; and what is buffered has a timer or a flush that will
   look after it, except after a flush of a full buffer (see NothingStranded). *)
Attended ==
    closing = "no" =>
        /\ isFlushing => flights # {}
        /\ buffer # {} => armed \/ flights # {} \/ task # {}

(* "M1: if messages were added during the flush, start a timer for them
   (before, the buffer hung until the next add)" (auto_save_batch.py:480). *)
NothingStranded == buffer # {} /\ closing = "no" => armed \/ flights # {}
=============================================================================
