------------------------------ MODULE Notifier ------------------------------
(***************************************************************************)
(* core/infra/notifier.py: messages to the owner through the control bot.  *)
(*                                                                         *)
(* The process starts without a bot and buffers what it is asked to send.  *)
(* attach() hands it the bot and starts a task that sends the buffer;      *)
(* cleanup() takes the bot away again when the process shuts down.  A      *)
(* failed send is logged and forgotten, and the caller never learns of it. *)
(* Each message goes through send_with_retry, which sends again after an   *)
(* error, also when only the answer to a message that arrived was lost.    *)
(*                                                                         *)
(* A message is the set of the notifications it tells of.                  *)
(***************************************************************************)
EXTENDS Naturals, Sequences

CONSTANTS
    Notes,          \* notifications
    Faults,         \* which of "sendError", "dbError", "restart" happen
    MaxBuffer       \* bound on the buffer, which the code does not limit

VARIABLES
    bot,        \* _bot: not attached yet, attached, or detached for good
    buffer,     \* _buffer
    draining,   \* whether _flush_task is running
    handed,     \* how often each notification was given to send_with_retry
    delivered,  \* how often it has reached the owner
    faults      \* those of Faults that happen in this behaviour

sendVars == <<handed, delivered>>
notifierVars == <<bot, buffer, draining, sendVars>>

NotifierTypeOK ==
    /\ bot \in {"none", "attached", "detached"}
    /\ buffer \in Seq(SUBSET Notes)
    /\ draining \in BOOLEAN
    /\ handed \in [Notes -> 0..2]
    /\ delivered \in [Notes -> 0..2]
    /\ faults \in SUBSET Faults

NotifierInit ==
    /\ bot = "none"
    /\ buffer = <<>>
    /\ draining = FALSE
    /\ handed = [n \in Notes |-> 0]
    /\ delivered = [n \in Notes |-> 0]
    /\ faults \in SUBSET Faults

(* The model tells apart never, once and more often. *)
Upto2(k) == IF k < 2 THEN k ELSE 2

Added(count, b, k) == [n \in Notes |-> IF n \in b THEN Upto2(count[n] + k) ELSE count[n]]

(* send_with_retry tries up to three times and swallows nothing, but its
   callers swallow the last exception.  A network error does not tell whether
   the message arrived, so where sends fail it may have arrived any number of
   times by then. *)
Copies == IF "sendError" \in faults THEN 0..2 ELSE {1}

Attempt(b) ==
    /\ handed' = Added(handed, b, 1)
    /\ \E k \in Copies : delivered' = Added(delivered, b, k)

notify(b) ==
    /\ IF bot = "attached"
       THEN Attempt(b) /\ UNCHANGED buffer
       ELSE Len(buffer) < MaxBuffer /\ buffer' = Append(buffer, b) /\ UNCHANGED sendVars
    /\ UNCHANGED <<bot, draining>>

(* Mutant: attaching the bot does not start the task. *)
attach_NoFlush ==
    /\ bot = "none"
    /\ bot' = "attached"
    /\ UNCHANGED <<buffer, draining, sendVars>>

attach ==
    /\ bot = "none"
    /\ bot' = "attached"
    /\ draining' = (buffer # <<>>)
    /\ UNCHANGED <<buffer, sendVars>>

(* _flush_buffer takes and sends the oldest message. *)
FlushOne ==
    /\ draining
    /\ buffer' = Tail(buffer)
    /\ draining' = (Tail(buffer) # <<>>)
    /\ IF bot = "attached" THEN Attempt(Head(buffer)) ELSE UNCHANGED sendVars
    /\ UNCHANGED bot

cleanup ==
    /\ bot = "attached"
    /\ bot' = "detached"
    /\ UNCHANGED <<buffer, draining, sendVars>>

(* A new process. *)
NotifierRestart ==
    /\ bot' = "none"
    /\ buffer' = <<>>
    /\ draining' = FALSE
    /\ UNCHANGED sendVars

Buffered(n) == \E i \in DOMAIN buffer : n \in buffer[i]
=============================================================================
