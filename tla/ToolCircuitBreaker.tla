------------------------- MODULE ToolCircuitBreaker -------------------------
(***************************************************************************)
(* The per-tool circuit breaker of core/actions/circuit_breaker.py, driven *)
(* by the tool calls of core/actions/tool_middleware.py, with the periodic *)
(* snapshot and the restart of core/state/snapshot_engine.py.              *)
(*                                                                         *)
(* Every classmethod of the breaker runs its critical section under one    *)
(* asyncio.Lock and never awaits inside it, so each is one atomic step.  A *)
(* tool call is two steps: `check` before the handler and `record_*` after *)
(* it.  Between them any other call, reset, cleanup or snapshot may run.   *)
(*                                                                         *)
(* Time.  The code stores opened_at and compares `now - opened_at` with    *)
(* the cooldown; the model stores that difference, saturated at COOLDOWN.  *)
(* A negative difference (a stamp of an earlier boot) counts as expired in *)
(* the code, so it is COOLDOWN here.                                       *)
(***************************************************************************)
EXTENDS Naturals

CONSTANTS
    Tools,              \* tool names
    Calls,              \* slots for concurrently running tool calls
    NoTool,             \* the tool of a slot that runs nothing
    FAILURE_THRESHOLD,
    COOLDOWN,           \* COOLDOWN_SECONDS, in clock ticks
    Faults              \* which of "cancel", "restart" the environment can do

ASSUME BreakerAssumption ==
    /\ NoTool \notin Tools
    /\ FAILURE_THRESHOLD \in Nat \ {0}
    /\ COOLDOWN \in Nat \ {0}
    /\ Faults \subseteq {"cancel", "restart"}

VARIABLES
    states,     \* cls._states: the circuit of each tool
    running,    \* the tool each call slot is executing
    probing,    \* the calls that check() admitted as probes
    snapshot,   \* circuit_breakers in data/snapshot.json
    faults      \* those of Faults that happen in this behaviour

vars == <<states, running, probing, snapshot>>
breakerVars == <<vars, faults>>

(* A tool with no entry in cls._states. *)
Absent == [state |-> "ABSENT", failures |-> 0, openedAgo |-> 0, probe |-> FALSE]

CBState == [state     : {"CLOSED", "OPEN", "HALF_OPEN"},
            failures  : 0..FAILURE_THRESHOLD,
            openedAgo : 0..COOLDOWN,
            probe     : BOOLEAN]

Circuit == CBState \cup {Absent}

-----------------------------------------------------------------------------
(* What each method of the breaker does to one circuit. *)

Expired(s) == s.openedAgo = COOLDOWN

(* Mutant: an OPEN circuit never lets a probe through. *)
Admits_NoProbe(s) == s.state \in {"ABSENT", "CLOSED"}

Admits(s) ==
    \/ s.state \in {"ABSENT", "CLOSED"}
    \/ s.state = "HALF_OPEN" /\ ~s.probe
    \/ s.state = "OPEN" /\ Expired(s)

IsProbe(s) == s.state \in {"OPEN", "HALF_OPEN"}

(* Mutant: the transition to HALF_OPEN forgets to mark the probe flight. *)
AfterCheck_NoFlag(s) == IF IsProbe(s) THEN [s EXCEPT !.state = "HALF_OPEN"] ELSE s

AfterCheck(s) ==
    IF IsProbe(s) THEN [s EXCEPT !.state = "HALF_OPEN", !.probe = TRUE] ELSE s

(* Mutant: a successful probe resets the counter but not the state. *)
AfterSuccess_KeepState(s) == [s EXCEPT !.failures = 0, !.probe = FALSE]

AfterSuccess(s) ==
    IF s.state = "ABSENT"
    THEN s
    ELSE [s EXCEPT !.failures = 0, !.state = "CLOSED", !.probe = FALSE]

(* The counter is compared with the threshold only, so it stops there. *)
OneMore(n) == IF n < FAILURE_THRESHOLD THEN n + 1 ELSE n

(* Mutant: the counter is compared before it is incremented. *)
Trips_Late(s) ==
    \/ s.state = "HALF_OPEN"
    \/ s.failures = FAILURE_THRESHOLD /\ s.state # "OPEN"

Trips(s) ==
    \/ s.state = "HALF_OPEN"
    \/ OneMore(s.failures) = FAILURE_THRESHOLD /\ s.state # "OPEN"

(* Mutant: a first failure counts without creating the tool's entry. *)
AfterFailure_NoEntry(s) ==
    IF Trips(s)
    THEN [state |-> "OPEN", failures |-> OneMore(s.failures),
          openedAgo |-> 0, probe |-> FALSE]
    ELSE [s EXCEPT !.failures = OneMore(@), !.probe = FALSE]

AfterFailure(s) ==
    IF Trips(s)
    THEN [state |-> "OPEN", failures |-> OneMore(s.failures),
          openedAgo |-> 0, probe |-> FALSE]
    ELSE [s EXCEPT !.state = IF @ = "ABSENT" THEN "CLOSED" ELSE @,
                   !.failures = OneMore(@),
                   !.probe = FALSE]

Stale(s) == s.state = "CLOSED" /\ s.failures = 0

(* _restore_circuit_breakers: `ago` is the difference the new process sees. *)
Restored(s, ago) ==
    IF s.state # "OPEN"
    THEN s
    ELSE [s EXCEPT !.openedAgo = ago,
                   !.state = IF ago = COOLDOWN THEN "HALF_OPEN" ELSE "OPEN"]

-----------------------------------------------------------------------------
Init ==
    /\ states = [t \in Tools |-> Absent]
    /\ running = [c \in Calls |-> NoTool]
    /\ probing = {}
    /\ snapshot = [t \in Tools |-> Absent]
    /\ faults \in SUBSET Faults

(* The pre-hook admits call c of tool t.  A blocked call changes nothing. *)
Begin(c, t) ==
    /\ running[c] = NoTool
    /\ Admits(states[t])
    /\ states' = [states EXCEPT ![t] = AfterCheck(@)]
    /\ running' = [running EXCEPT ![c] = t]
    /\ probing' = IF IsProbe(states[t]) THEN probing \cup {c} ELSE probing
    /\ UNCHANGED snapshot

Leave(c) ==
    /\ running' = [running EXCEPT ![c] = NoTool]
    /\ probing' = probing \ {c}

(* The handler of call c returns a result and the post-hook records it. *)
Succeed(c) ==
    /\ running[c] # NoTool
    /\ states' = [states EXCEPT ![running[c]] = AfterSuccess(@)]
    /\ Leave(c)
    /\ UNCHANGED snapshot

(* The handler of call c raises, or returns a dict with an "error" key. *)
Fail(c) ==
    /\ running[c] # NoTool
    /\ states' = [states EXCEPT ![running[c]] = AfterFailure(@)]
    /\ Leave(c)
    /\ UNCHANGED snapshot

(* Call c is cancelled (an agent's timeout): CancelledError is no Exception,
   it leaves wrap() before the post-hooks and nothing is recorded. *)
Cancel(c) ==
    /\ "cancel" \in faults
    /\ running[c] # NoTool
    /\ Leave(c)
    /\ UNCHANGED <<states, snapshot>>

(* mcp_self_circuits(action="reset", tool_name=t). *)
Reset(t) ==
    /\ states[t].state # "ABSENT"
    /\ states' = [states EXCEPT ![t] = Absent]
    /\ UNCHANGED <<running, probing, snapshot>>

(* cleanup_stale, called by the cleanup loop of main.py every five minutes. *)
Cleaned == [t \in Tools |-> IF Stale(states[t]) THEN Absent ELSE states[t]]

CleanupStale ==
    /\ \E t \in Tools : Stale(states[t])
    /\ states' = Cleaned
    /\ UNCHANGED <<running, probing, snapshot>>

(* One tick of time.monotonic(), for the circuits whose stamp is read. *)
Tick ==
    /\ \E t \in Tools : states[t].state = "OPEN" /\ ~Expired(states[t])
    /\ states' = [t \in Tools |->
                    IF states[t].state = "OPEN" /\ ~Expired(states[t])
                    THEN [states[t] EXCEPT !.openedAgo = @ + 1]
                    ELSE states[t]]
    /\ UNCHANGED <<running, probing, snapshot>>

(* save_to_disk, every five minutes and at shutdown.  The file is read only
   by a new process, so when the writer thread finishes cannot be observed. *)
SaveSnapshot ==
    /\ "restart" \in faults
    /\ snapshot' = states
    /\ UNCHANGED <<states, running, probing>>

(* The process dies and a new one starts: the calls are gone, the circuits
   come from the snapshot, or from nothing when the file is missing, broken
   or older than an hour. *)
Restart ==
    /\ "restart" \in faults
    /\ \/ \E ago \in [Tools -> 0..COOLDOWN] :
             states' = [t \in Tools |-> Restored(snapshot[t], ago[t])]
       \/ states' = [t \in Tools |-> Absent]
    /\ running' = [c \in Calls |-> NoTool]
    /\ probing' = {}
    /\ UNCHANGED snapshot

Next ==
    /\ \/ \E c \in Calls, t \in Tools : Begin(c, t)
       \/ \E c \in Calls : Succeed(c) \/ Fail(c) \/ Cancel(c)
       \/ \E t \in Tools : Reset(t)
       \/ CleanupStale
       \/ Tick
       \/ SaveSnapshot
       \/ Restart
    /\ UNCHANGED faults

(* Handlers end, time passes and the assistant keeps calling its tools. *)
Fairness ==
    /\ WF_vars(Tick)
    /\ \A c \in Calls : WF_vars(Succeed(c) \/ Fail(c))
    /\ \A t \in Tools : SF_vars(\E c \in Calls : Begin(c, t))

Spec == Init /\ [][Next]_breakerVars
FairSpec == Spec /\ Fairness

-----------------------------------------------------------------------------
(* Every circuit, call and saved circuit has the shape the code gives it. *)
TypeOK ==
    /\ states \in [Tools -> Circuit]
    /\ running \in [Calls -> Tools \cup {NoTool}]
    /\ probing \in SUBSET Calls
    /\ snapshot \in [Tools -> Circuit]
    /\ faults \in SUBSET Faults

Consistent(s) == IsProbe(s) <=> s.failures = FAILURE_THRESHOLD

(* A circuit is tripped exactly when it counts a full threshold of failures:
   no interleaving of late results, resets, cleanups and restarts leaves a
   CLOSED circuit that should have tripped, or an OPEN one that may not. *)
TrippedIffThreshold == \A t \in Tools : Consistent(states[t])

(* While calls are neither cancelled nor cut off by a restart, a HALF_OPEN
   circuit is waiting for a probe that is really in flight, so somebody will
   move it on; a late result of an older call does not take the probe away. *)
HalfOpenHasProbe ==
    faults = {} =>
        \A t \in Tools :
            states[t].state = "HALF_OPEN" =>
                /\ states[t].probe
                /\ \E c \in probing : running[c] = t

(* "If the probe succeeds -> back to CLOSED", "If the probe fails -> back to
   OPEN" (circuit_breaker.py:8): a circuit does not stay HALF_OPEN. *)
ProbeResolves ==
    \A t \in Tools :
        states[t].state = "HALF_OPEN" ~> states[t].state # "HALF_OPEN"

(* A HALF_OPEN circuit does not stay so while no probe is cancelled and the
   process lives: its probe succeeds and closes it, or fails and reopens it. *)
HalfOpenResolves == faults = {} => ProbeResolves

(* Once a tool stops failing, its circuit ends up letting calls through and
   stays that way, whatever it went through before. *)
Recovers ==
    faults = {} /\ (<>[][\A c \in Calls : ~Fail(c)]_vars)
        => \A t \in Tools : <>[](states[t].state \in {"ABSENT", "CLOSED"})
=============================================================================
