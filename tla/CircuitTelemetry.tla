-------------------------- MODULE CircuitTelemetry --------------------------
(***************************************************************************)
(* core/observability/circuit_telemetry.py fed by ToolCircuitBreaker over  *)
(* the event bus of core/events/event_bus.py.                              *)
(*                                                                         *)
(* A breaker method appends its CIRCUIT_STATE event after it has released  *)
(* the lock and before it next suspends; emit() runs the handler as a task *)
(* of its own and awaits it.  Tasks of one event loop start in the order   *)
(* they were made, so the events that are on their way form a queue, and   *)
(* an emitter has at most one of them.  _push_full_state is the exception: *)
(* it copies every circuit first and then emits the copies one by one.     *)
(*                                                                         *)
(* The model follows one process from the moment main.py has restored the  *)
(* circuits, subscribed the telemetry and pushed the first report; nothing *)
(* is called before that.                                                  *)
(***************************************************************************)
EXTENDS ToolCircuitBreaker, Sequences

CONSTANTS Operator, Refresher   \* emitters other than the call slots

ASSUME EmitterAssumption ==
    Operator \notin Calls /\ Refresher \notin Calls /\ Operator # Refresher

VARIABLES
    bus,        \* handler tasks not yet run, oldest first
    toPush,     \* copies _push_full_state has still to emit
    cache       \* circuit_telemetry._current_states, a missing entry as CLOSED

telemetryVars == <<vars, bus, toPush, cache>>

(* What an event and the cache say of a circuit. *)
Report(s) ==
    [state |-> IF s.state = "ABSENT" THEN "CLOSED" ELSE s.state, failures |-> s.failures]

Event(by, t, s) == [by |-> by, tool |-> t, says |-> Report(s)]

Awaiting(by) == \E i \in DOMAIN bus : bus[i].by = by

Emit(by, t, s) == bus' = Append(bus, Event(by, t, s))

(* A cancelled emitter takes its handler task with it. *)
Without(i) == [j \in 1..(Len(bus) - 1) |-> IF j < i THEN bus[j] ELSE bus[j + 1]]

Unsend(by) ==
    IF Awaiting(by) THEN \E i \in DOMAIN bus : bus[i].by = by /\ bus' = Without(i)
                    ELSE UNCHANGED bus

Tracked == {t \in Tools : states[t].state # "ABSENT"}

(* What a snapshot can leave in a new process, an orphaned probe included.
   The file is not read again, so its contents do not matter here. *)
Restorable ==
    {s \in Circuit : /\ Consistent(s)
                     /\ s.probe => s.state = "HALF_OPEN"
                     /\ s.state = "HALF_OPEN" => Expired(s)}

TelemetryInit ==
    /\ states \in [Tools -> Restorable]
    /\ snapshot = [t \in Tools |-> Absent]
    /\ running = [c \in Calls |-> NoTool]
    /\ probing = {}
    /\ faults = Faults
    /\ bus = <<>>
    /\ toPush = {}
    /\ cache = [t \in Tools |-> Report(states[t])]

-----------------------------------------------------------------------------
TBegin(c, t) ==
    /\ ~Awaiting(c)
    /\ Begin(c, t)
    /\ IF states[t].state = "OPEN" THEN Emit(c, t, states'[t]) ELSE UNCHANGED bus
    /\ UNCHANGED <<toPush, cache>>

TSucceed(c) ==
    /\ ~Awaiting(c)
    /\ Succeed(c)
    /\ LET t == running[c] IN
       IF IsProbe(states[t]) THEN Emit(c, t, states'[t]) ELSE UNCHANGED bus
    /\ UNCHANGED <<toPush, cache>>

(* Mutant: the event is made before the failure is counted. *)
TFail_OldCount(c) ==
    /\ ~Awaiting(c)
    /\ Fail(c)
    /\ LET t == running[c] IN
       Emit(c, t, [states'[t] EXCEPT !.failures = states[t].failures])
    /\ UNCHANGED <<toPush, cache>>

TFail(c) ==
    /\ ~Awaiting(c)
    /\ Fail(c)
    /\ Emit(c, running[c], states'[running[c]])
    /\ UNCHANGED <<toPush, cache>>

(* The cancellation reaches the call in its handler, or in an emit. *)
TCancel(c) ==
    /\ \/ Cancel(c)
       \/ "cancel" \in faults /\ running[c] = NoTool /\ Awaiting(c) /\ UNCHANGED vars
    /\ Unsend(c)
    /\ UNCHANGED <<toPush, cache>>

TReset(t) ==
    /\ ~Awaiting(Operator)
    /\ Reset(t)
    /\ Emit(Operator, t, Absent)
    /\ UNCHANGED <<toPush, cache>>

(* Mutant: the loop cleans up but no longer refreshes the telemetry. *)
TRefresh_CleanOnly ==
    /\ toPush = {} /\ ~Awaiting(Refresher)
    /\ states' = Cleaned
    /\ UNCHANGED <<running, probing, snapshot, bus, toPush, cache>>

(* The cleanup loop: cleanup_stale, then _push_full_state copies what is left
   and emits the first copy, all before it suspends. *)
TRefresh ==
    /\ toPush = {} /\ ~Awaiting(Refresher)
    /\ states' = Cleaned
    /\ LET copies == {Event(Refresher, t, states'[t]) :
                        t \in {u \in Tools : states'[u].state # "ABSENT"}}
       IN IF copies = {}
          THEN UNCHANGED <<bus, toPush>>
          ELSE \E e \in copies : bus' = Append(bus, e) /\ toPush' = copies \ {e}
    /\ UNCHANGED <<running, probing, snapshot, cache>>

TPushNext ==
    /\ ~Awaiting(Refresher)
    /\ \E e \in toPush : bus' = Append(bus, e) /\ toPush' = toPush \ {e}
    /\ UNCHANGED <<vars, cache>>

(* _on_state_push, the oldest handler task. *)
Deliver ==
    /\ bus # <<>>
    /\ cache' = [cache EXCEPT ![Head(bus).tool] = Head(bus).says]
    /\ bus' = Tail(bus)
    /\ UNCHANGED <<vars, toPush>>

TTick == Tick /\ UNCHANGED <<bus, toPush, cache>>

TelemetryNext ==
    /\ \/ \E c \in Calls, t \in Tools : TBegin(c, t)
       \/ \E c \in Calls : TSucceed(c) \/ TFail(c) \/ TCancel(c)
       \/ \E t \in Tools : TReset(t)
       \/ TRefresh
       \/ TPushNext
       \/ Deliver
       \/ TTick
    /\ UNCHANGED faults

(* The event loop runs its tasks and the cleanup loop comes round again. *)
TelemetrySpec ==
    /\ TelemetryInit
    /\ [][TelemetryNext]_<<telemetryVars, faults>>
    /\ WF_telemetryVars(Deliver)
    /\ WF_telemetryVars(TPushNext)
    /\ WF_telemetryVars(TRefresh)

-----------------------------------------------------------------------------
Reports == [state : {"CLOSED", "OPEN", "HALF_OPEN"}, failures : 0..FAILURE_THRESHOLD]

Events == [by : Calls \cup {Operator, Refresher}, tool : Tools, says : Reports]

(* An emitter waits for its event, so it has at most one on the bus, and a
   refresh has at most one copy of a circuit left. *)
TelemetryTypeOK ==
    /\ TypeOK
    /\ bus \in Seq(Events)
    /\ toPush \in SUBSET Events
    /\ cache \in [Tools -> Reports]
    /\ \A i, j \in DOMAIN bus : bus[i].by = bus[j].by => i = j
    /\ \A e \in toPush : e.by = Refresher
    /\ \A e, f \in toPush : e.tool = f.tool => e = f

(* Late, lost or overwritten, what the report says of a circuit was true of it
   at one moment: it is shown as tripped exactly with a full count. *)
ReportsSound ==
    /\ \A t \in Tools : Consistent(cache[t])
    /\ \A i \in DOMAIN bus : Consistent(bus[i].says)
    /\ \A e \in toPush : Consistent(e.says)

(* When the circuits stop changing, the periodic refresh brings the report of
   every circuit that has an entry into line with it, whatever events
   cancellations lost and stale copies overwrote. *)
Settled == <>[][\A t \in Tools : Report(states'[t]) = Report(states[t])]_telemetryVars

TrackedReportConverges ==
    Settled => <>[](\A t \in Tracked : cache[t] = Report(states[t]))
=============================================================================
