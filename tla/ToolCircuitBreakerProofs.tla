---------------------- MODULE ToolCircuitBreakerProofs ----------------------
(***************************************************************************)
(* Theorems about ToolCircuitBreaker, for any tools, calls, threshold and  *)
(* cooldown, with or without cancellations and restarts, and about what    *)
(* CircuitTelemetry reports of it.                                         *)
(***************************************************************************)
EXTENDS CircuitTelemetry, SequenceTheorems, TLAPS

(* The inductive invariant: the circuits in memory and those in the snapshot
   are consistent.  The snapshot has to be in it, because a restart turns it
   into the circuits of the next process. *)
Sound(s) == s \in Circuit /\ Consistent(s)

IInv ==
    /\ states \in [Tools -> Circuit]
    /\ snapshot \in [Tools -> Circuit]
    /\ running \in [Calls -> Tools \cup {NoTool}]
    /\ probing \in SUBSET Calls
    /\ \A t \in Tools : Consistent(states[t]) /\ Consistent(snapshot[t])

-----------------------------------------------------------------------------
(* What the breaker's methods do to a circuit keeps it sound. *)

LEMMA AbsentSound == Sound(Absent)
  BY BreakerAssumption DEF Sound, Absent, Circuit, CBState, Consistent, IsProbe

LEMMA CheckSound ==
  ASSUME NEW s, Sound(s)
  PROVE  Sound(AfterCheck(s))
  <1>1. CASE IsProbe(s)
    <2>1. s \in CBState
      BY <1>1 DEF Sound, Circuit, Absent, IsProbe
    <2>2. AfterCheck(s) = [s EXCEPT !.state = "HALF_OPEN", !.probe = TRUE]
      BY <1>1 DEF AfterCheck
    <2>3. AfterCheck(s) \in CBState
      BY <2>1, <2>2 DEF CBState
    <2>4. Consistent(AfterCheck(s))
      BY <1>1, <2>1, <2>2 DEF Sound, CBState, Consistent, IsProbe
    <2> QED
      BY <2>3, <2>4 DEF Sound, Circuit
  <1>2. CASE ~IsProbe(s)
    BY <1>2 DEF AfterCheck
  <1> QED
    BY <1>1, <1>2

LEMMA SuccessSound ==
  ASSUME NEW s, Sound(s)
  PROVE  Sound(AfterSuccess(s))
  <1>1. CASE s.state = "ABSENT"
    BY <1>1 DEF AfterSuccess
  <1>2. CASE s.state # "ABSENT"
    <2>1. s \in CBState
      BY <1>2 DEF Sound, Circuit, Absent
    <2>2. AfterSuccess(s) = [s EXCEPT !.failures = 0, !.state = "CLOSED", !.probe = FALSE]
      BY <1>2 DEF AfterSuccess
    <2>3. AfterSuccess(s) \in CBState
      <3>1. 0 \in 0..FAILURE_THRESHOLD
        BY BreakerAssumption
      <3> QED
        BY <2>1, <2>2, <3>1 DEF CBState
    <2>4. Consistent(AfterSuccess(s))
      BY <2>1, <2>2, BreakerAssumption DEF CBState, Consistent, IsProbe
    <2> QED
      BY <2>3, <2>4 DEF Sound, Circuit
  <1> QED
    BY <1>1, <1>2

LEMMA OneMoreInRange ==
  ASSUME NEW n \in 0..FAILURE_THRESHOLD
  PROVE  OneMore(n) \in 0..FAILURE_THRESHOLD
  BY BreakerAssumption DEF OneMore

LEMMA FailureSound ==
  ASSUME NEW s, Sound(s)
  PROVE  Sound(AfterFailure(s))
  <1>1. s.failures \in 0..FAILURE_THRESHOLD
    BY BreakerAssumption DEF Sound, Circuit, CBState, Absent
  <1>2. CASE Trips(s)
    <2>1. OneMore(s.failures) = FAILURE_THRESHOLD
      BY <1>1, <1>2, BreakerAssumption DEF Trips, Sound, Consistent, IsProbe, OneMore
    <2> QED
      BY <1>2, <2>1, BreakerAssumption
      DEF Sound, Circuit, CBState, Consistent, IsProbe, AfterFailure
  <1>3. CASE ~Trips(s)
    <2>1. s.state \in {"ABSENT", "CLOSED", "OPEN"}
      BY <1>3 DEF Trips, Sound, Circuit, CBState, Absent
    <2>2. CASE s.state = "OPEN"
      <3>1. OneMore(s.failures) = s.failures
        BY <1>1, <2>2, BreakerAssumption DEF OneMore, Sound, Consistent, IsProbe
      <3>2. s \in CBState
        BY <2>2 DEF Sound, Circuit, Absent
      <3>3. AfterFailure(s) = [s EXCEPT !.state = "OPEN",
                                        !.failures = s.failures,
                                        !.probe = FALSE]
        BY <1>3, <2>2, <3>1, <3>2 DEF AfterFailure, CBState
      <3> QED
        BY <2>2, <3>2, <3>3 DEF Sound, Circuit, CBState, Consistent, IsProbe
    <2>3. CASE s.state # "OPEN"
      <3>1. OneMore(s.failures) # FAILURE_THRESHOLD
        BY <1>3, <2>3 DEF Trips
      <3>2. OneMore(s.failures) \in 0..FAILURE_THRESHOLD
        BY <1>1, OneMoreInRange
      <3>3. AfterFailure(s) = [s EXCEPT !.state = IF @ = "ABSENT" THEN "CLOSED" ELSE @,
                                        !.failures = OneMore(@),
                                        !.probe = FALSE]
        BY <1>3 DEF AfterFailure
      <3>4. s.openedAgo \in 0..COOLDOWN
        BY BreakerAssumption DEF Sound, Circuit, CBState, Absent
      <3>5. AfterFailure(s) = [state |-> "CLOSED", failures |-> OneMore(s.failures),
                               openedAgo |-> s.openedAgo, probe |-> FALSE]
        BY <2>1, <2>3, <3>3 DEF Sound, Circuit, CBState, Absent
      <3>6. AfterFailure(s) \in CBState
        BY <3>2, <3>4, <3>5 DEF CBState
      <3> QED
        BY <3>1, <3>5, <3>6 DEF Sound, Circuit, Consistent, IsProbe
    <2> QED
      BY <2>2, <2>3
  <1> QED
    BY <1>2, <1>3

LEMMA RestoredSound ==
  ASSUME NEW s, Sound(s), NEW ago \in 0..COOLDOWN
  PROVE  Sound(Restored(s, ago))
  <1>1. CASE s.state # "OPEN"
    BY <1>1 DEF Restored
  <1>2. CASE s.state = "OPEN"
    <2>1. s \in CBState
      BY <1>2 DEF Sound, Circuit, Absent
    <2>2. Restored(s, ago) =
            [s EXCEPT !.openedAgo = ago,
                      !.state = IF ago = COOLDOWN THEN "HALF_OPEN" ELSE "OPEN"]
      BY <1>2 DEF Restored
    <2> QED
      BY <1>2, <2>1, <2>2 DEF Sound, Circuit, CBState, Consistent, IsProbe
  <1> QED
    BY <1>1, <1>2

LEMMA TickSound ==
  ASSUME NEW s, Sound(s), s.state = "OPEN", ~Expired(s)
  PROVE  Sound([s EXCEPT !.openedAgo = @ + 1])
  <1>1. s \in CBState
    BY DEF Sound, Circuit, Absent
  <1>2. s.openedAgo + 1 \in 0..COOLDOWN
    BY <1>1, BreakerAssumption DEF CBState, Expired
  <1> QED
    BY <1>1, <1>2 DEF Sound, Circuit, CBState, Consistent, IsProbe

-----------------------------------------------------------------------------
(* The invariant holds initially and every action preserves it. *)

LEMMA InitIInv == Init => IInv
  BY AbsentSound DEF Init, IInv, Sound

LEMMA NextIInv == IInv /\ [Next]_breakerVars => IInv'
  <1> SUFFICES ASSUME IInv, [Next]_breakerVars
               PROVE  IInv'
    OBVIOUS
  <1>0. \A t \in Tools : Sound(states[t]) /\ Sound(snapshot[t])
    BY DEF IInv, Sound
  <1>1. ASSUME NEW c \in Calls, NEW t \in Tools, Begin(c, t)
        PROVE  IInv'
    <2>1. Sound(AfterCheck(states[t]))
      BY <1>0, CheckSound
    <2> QED
      BY <1>1, <2>1 DEF IInv, Begin, Sound
  <1>2. ASSUME NEW c \in Calls, Succeed(c)
        PROVE  IInv'
    <2>1. running[c] \in Tools
      BY <1>2 DEF IInv, Succeed
    <2>2. Sound(AfterSuccess(states[running[c]]))
      BY <1>0, <2>1, SuccessSound
    <2> QED
      BY <1>2, <2>1, <2>2 DEF IInv, Succeed, Leave, Sound
  <1>3. ASSUME NEW c \in Calls, Fail(c)
        PROVE  IInv'
    <2>1. running[c] \in Tools
      BY <1>3 DEF IInv, Fail
    <2>2. Sound(AfterFailure(states[running[c]]))
      BY <1>0, <2>1, FailureSound
    <2> QED
      BY <1>3, <2>1, <2>2 DEF IInv, Fail, Leave, Sound
  <1>4. ASSUME NEW c \in Calls, Cancel(c)
        PROVE  IInv'
    BY <1>4 DEF IInv, Cancel, Leave
  <1>5. ASSUME NEW t \in Tools, Reset(t)
        PROVE  IInv'
    BY <1>5, AbsentSound DEF IInv, Reset, Sound
  <1>6. CASE CleanupStale
    BY <1>6, AbsentSound DEF IInv, CleanupStale, Cleaned, Sound
  <1>7. CASE Tick
    <2>1. \A t \in Tools : Sound(states'[t])
      <3> TAKE t \in Tools
      <3>1. CASE states[t].state = "OPEN" /\ ~Expired(states[t])
        BY <1>0, <1>7, <3>1, TickSound DEF Tick
      <3>2. CASE ~(states[t].state = "OPEN" /\ ~Expired(states[t]))
        BY <1>0, <1>7, <3>2 DEF Tick
      <3> QED
        BY <3>1, <3>2
    <2> QED
      BY <1>7, <2>1 DEF IInv, Tick, Sound
  <1>8. CASE SaveSnapshot
    BY <1>8 DEF IInv, SaveSnapshot
  <1>9. CASE Restart
    <2>1. states' \in [Tools -> Circuit] /\ \A t \in Tools : Consistent(states'[t])
      <3>1. ASSUME NEW ago \in [Tools -> 0..COOLDOWN],
                   states' = [t \in Tools |-> Restored(snapshot[t], ago[t])]
            PROVE  \A t \in Tools : Sound(states'[t])
        BY <1>0, <3>1, RestoredSound
      <3>2. CASE states' = [t \in Tools |-> Absent]
        BY <3>2, AbsentSound DEF Sound
      <3> QED
        BY <1>9, <3>1, <3>2 DEF Restart, Sound
    <2> QED
      BY <1>9, <2>1 DEF IInv, Restart
  <1>10. CASE UNCHANGED breakerVars
    BY <1>10 DEF IInv, breakerVars, vars
  <1> QED
    BY <1>1, <1>2, <1>3, <1>4, <1>5, <1>6, <1>7, <1>8, <1>9, <1>10 DEF Next

(* Type correctness: whatever results, cancellations, resets, cleanups and
   restarts a tool sees, its circuit stays one the code can hold. *)
THEOREM TypeCorrect == Spec => []TypeOK
  <1> DEFINE FaultsOK == faults \in SUBSET Faults
  <1>1. IInv /\ FaultsOK => TypeOK
    BY DEF IInv, TypeOK
  <1>2. Init => FaultsOK
    BY DEF Init
  <1>3. FaultsOK /\ [Next]_breakerVars => FaultsOK'
    BY DEF Next, breakerVars
  <1> HIDE DEF FaultsOK
  <1> QED
    BY InitIInv, NextIInv, <1>1, <1>2, <1>3, PTL DEF Spec

(* A circuit is OPEN or HALF_OPEN exactly when it counts FAILURE_THRESHOLD
   failures, across late results, resets, cleanups and restarts. *)
THEOREM TrippedAtThreshold == Spec => []TrippedIffThreshold
  <1>1. IInv => TrippedIffThreshold
    BY DEF IInv, TrippedIffThreshold
  <1> QED
    BY InitIInv, NextIInv, <1>1, PTL DEF Spec

-----------------------------------------------------------------------------
(* HalfOpenHasProbe is inductive once types are known. *)

LEMMA NextHasProbe == IInv /\ HalfOpenHasProbe /\ [Next]_breakerVars => HalfOpenHasProbe'
  <1> SUFFICES ASSUME IInv, HalfOpenHasProbe, [Next]_breakerVars, faults = {},
                      NEW t \in Tools, states'[t].state = "HALF_OPEN"
               PROVE  states'[t].probe /\ \E c \in probing' : running'[c] = t
    BY DEF HalfOpenHasProbe, Next, breakerVars
  <1>a. states[t] \in Circuit
    BY DEF IInv
  <1>b. states[t].state = "HALF_OPEN"
           => states[t].probe /\ \E d \in probing : running[d] = t
    BY DEF HalfOpenHasProbe
  <1>1. ASSUME NEW c \in Calls, NEW u \in Tools, Begin(c, u)
        PROVE  states'[t].probe /\ \E d \in probing' : running'[d] = t
    <2>1. CASE u # t
      <3>1. states'[t] = states[t]
        BY <1>1, <2>1 DEF Begin, IInv
      <3>2. PICK d \in probing : running[d] = t
        BY <1>b, <3>1
      <3>3. d # c /\ d \in probing' /\ d \in Calls
        BY <1>1, <3>2, BreakerAssumption DEF Begin, IInv
      <3> QED
        BY <1>1, <1>b, <3>1, <3>2, <3>3 DEF Begin, IInv
    <2>2. CASE u = t
      <3>1. states'[t] = AfterCheck(states[t])
        BY <1>1, <2>2 DEF Begin, IInv
      <3>2. IsProbe(states[t])
        BY <3>1 DEF AfterCheck, IsProbe
      <3>3. states'[t].probe
        BY <1>a, <3>1, <3>2 DEF AfterCheck, Circuit, CBState, Absent
      <3> QED
        BY <1>1, <2>2, <3>2, <3>3 DEF Begin, IInv
    <2> QED
      BY <2>1, <2>2
  <1>2. ASSUME NEW c \in Calls, Succeed(c) \/ Fail(c)
        PROVE  states'[t].probe /\ \E d \in probing' : running'[d] = t
    <2>1. running[c] # t
      <3>1. ASSUME running[c] = t, Succeed(c)
            PROVE  FALSE
        <4>1. states'[t] = AfterSuccess(states[t])
          BY <3>1 DEF Succeed, IInv
        <4> QED
          BY <1>a, <4>1 DEF AfterSuccess, Circuit, CBState, Absent
      <3>2. ASSUME running[c] = t, Fail(c)
            PROVE  FALSE
        <4>1. states'[t] = AfterFailure(states[t])
          BY <3>2 DEF Fail, IInv
        <4> QED
          BY <1>a, <4>1 DEF AfterFailure, Trips, Circuit, CBState, Absent
      <3> QED
        BY <1>2, <3>1, <3>2
    <2>2. states'[t] = states[t]
      BY <1>2, <2>1 DEF Succeed, Fail, IInv
    <2>3. PICK d \in probing : running[d] = t
      BY <1>b, <2>2
    <2>4. d # c /\ d \in probing' /\ running'[d] = t
      BY <1>2, <2>1, <2>3 DEF Succeed, Fail, Leave, IInv
    <2> QED
      BY <1>b, <2>2, <2>4
  <1>3. ASSUME NEW c \in Calls, Cancel(c)
        PROVE  FALSE
    BY <1>3 DEF Cancel
  <1>4. ASSUME NEW u \in Tools, Reset(u)
        PROVE  states'[t] = states[t] /\ UNCHANGED <<running, probing>>
    BY <1>4 DEF Reset, IInv, Absent
  <1>5. CASE CleanupStale
    BY <1>5, <1>b DEF CleanupStale, Cleaned, IInv, Absent
  <1>6. CASE Tick
    <2>1. states'[t] = states[t]
      BY <1>6, <1>a DEF Tick, IInv, Circuit, CBState, Absent
    <2> QED
      BY <1>6, <1>b, <2>1 DEF Tick
  <1>7. ~SaveSnapshot /\ ~Restart
    BY DEF SaveSnapshot, Restart
  <1>8. CASE UNCHANGED breakerVars
    BY <1>8, <1>b DEF breakerVars, vars
  <1> QED
    BY <1>b, <1>1, <1>2, <1>3, <1>4, <1>5, <1>6, <1>7, <1>8 DEF Next

(* Without cancellations and restarts a HALF_OPEN circuit always has its probe
   in flight: no interleaving of late results, resets and cleanups leaves it
   blocked with nobody to unblock it. *)
THEOREM HalfOpenIsProbed == Spec => []HalfOpenHasProbe
  <1>1. Init => HalfOpenHasProbe
    BY DEF Init, HalfOpenHasProbe, Absent
  <1> QED
    BY InitIInv, NextIInv, NextHasProbe, <1>1, PTL DEF Spec

-----------------------------------------------------------------------------
(* A process begins with circuits of the kind the telemetry assumes: a probe
   flag only on a HALF_OPEN circuit, whose cooldown has passed.  The snapshot
   has to keep that too, for the restart that reads it. *)

RestorableInv ==
    /\ states \in [Tools -> Restorable]
    /\ snapshot \in [Tools -> Restorable]

LEMMA NextRestorable == IInv /\ RestorableInv /\ [Next]_breakerVars => RestorableInv'
  <1> SUFFICES ASSUME IInv, RestorableInv, [Next]_breakerVars
               PROVE  RestorableInv'
    OBVIOUS
  <1> DEFINE Fit(s) == /\ s.probe => s.state = "HALF_OPEN"
                       /\ s.state = "HALF_OPEN" => Expired(s)
  <1>0. IInv'
    BY NextIInv
  <1>a. \A t \in Tools : /\ states[t] \in Circuit /\ Fit(states[t])
                        /\ snapshot[t] \in Circuit /\ Fit(snapshot[t])
    BY DEF RestorableInv, Restorable
  <1>b. SUFFICES \A t \in Tools : Fit(states'[t]) /\ Fit(snapshot'[t])
    BY <1>0 DEF RestorableInv, Restorable, IInv
  <1>c. Fit(Absent)
    BY DEF Absent
  <1>d. ASSUME NEW s \in Circuit, Fit(s), Admits(s)
        PROVE  Fit(AfterCheck(s))
    <2>1. CASE IsProbe(s)
      <3>1. s \in CBState
        BY <2>1 DEF Circuit, Absent, IsProbe
      <3>2. Expired(s)
        BY <1>d, <2>1 DEF Admits, IsProbe
      <3> QED
        BY <2>1, <3>1, <3>2 DEF AfterCheck, CBState, Expired
    <2>2. CASE ~IsProbe(s)
      BY <1>d, <2>2 DEF AfterCheck
    <2> QED
      BY <2>1, <2>2
  <1>e. ASSUME NEW s \in Circuit, Fit(s)
        PROVE  Fit(AfterSuccess(s)) /\ Fit(AfterFailure(s))
    <2>1. Fit(AfterSuccess(s))
      BY <1>e DEF AfterSuccess, Circuit, CBState, Absent
    <2>2. Fit(AfterFailure(s))
      BY DEF AfterFailure, Trips, Circuit, CBState, Absent
    <2> QED
      BY <2>1, <2>2
  <1>f. ASSUME NEW s \in Circuit, Fit(s), NEW ago \in 0..COOLDOWN
        PROVE  Fit(Restored(s, ago))
    BY <1>f DEF Restored, Expired, Circuit, CBState, Absent
  <1> HIDE DEF Fit
  <1>1. ASSUME NEW c \in Calls, NEW u \in Tools, Begin(c, u)
        PROVE  \A t \in Tools : Fit(states'[t]) /\ Fit(snapshot'[t])
    BY <1>1, <1>a, <1>d DEF IInv, Begin
  <1>2. ASSUME NEW c \in Calls, Succeed(c) \/ Fail(c)
        PROVE  \A t \in Tools : Fit(states'[t]) /\ Fit(snapshot'[t])
    BY <1>2, <1>a, <1>e DEF IInv, Succeed, Fail
  <1>3. ASSUME NEW u \in Tools, Reset(u)
        PROVE  \A t \in Tools : Fit(states'[t]) /\ Fit(snapshot'[t])
    BY <1>3, <1>a, <1>c DEF IInv, Reset
  <1>4. CASE CleanupStale
    BY <1>4, <1>a, <1>c DEF CleanupStale, Cleaned
  <1>5. CASE Tick
    <2>1. ASSUME NEW s \in Circuit, Fit(s), s.state = "OPEN"
          PROVE  Fit([s EXCEPT !.openedAgo = @ + 1])
      BY <2>1 DEF Fit, Circuit, CBState, Absent
    <2> QED
      BY <1>5, <1>a, <2>1 DEF Tick
  <1>6. CASE Restart
    BY <1>6, <1>a, <1>c, <1>f DEF Restart
  <1>7. ASSUME UNCHANGED states, snapshot' \in {snapshot, states}
        PROVE  \A t \in Tools : Fit(states'[t]) /\ Fit(snapshot'[t])
    BY <1>7, <1>a
  <1> QED
    BY <1>1, <1>2, <1>3, <1>4, <1>5, <1>6, <1>7
    DEF Next, Cancel, SaveSnapshot, breakerVars, vars

(* Whatever calls, faults and earlier restarts there were, a new process holds
   circuits that TelemetryInit begins with: where the telemetry's model starts
   leaves out nothing the breaker's can reach. *)
THEOREM RestartLeavesRestorable == Spec => [](states \in [Tools -> Restorable])
  <1>1. Init => RestorableInv
    BY AbsentSound, BreakerAssumption
    DEF Init, RestorableInv, Restorable, Sound, Absent
  <1>2. RestorableInv => states \in [Tools -> Restorable]
    BY DEF RestorableInv
  <1> QED
    BY InitIInv, NextIInv, NextRestorable, <1>1, <1>2, PTL DEF Spec

-----------------------------------------------------------------------------
(* The telemetry watches the breaker and changes nothing of it. *)

LEMMA TelemetrySteps ==
  IInv /\ [TelemetryNext]_<<telemetryVars, faults>> => [Next]_breakerVars
  <1> SUFFICES ASSUME IInv, TelemetryNext
               PROVE  [Next]_breakerVars
    BY DEF telemetryVars, breakerVars
  <1>1. CASE TRefresh
    <2>1. CASE \E t \in Tools : Stale(states[t])
      <3>1. CleanupStale
        BY <1>1, <2>1 DEF TRefresh, CleanupStale
      <3> QED
        BY <3>1 DEF TelemetryNext, Next
    <2>2. CASE ~\E t \in Tools : Stale(states[t])
      <3>1. Cleaned = states
        BY <2>2 DEF Cleaned, IInv
      <3> QED
        BY <1>1, <3>1 DEF TRefresh, TelemetryNext, breakerVars, vars
    <2> QED
      BY <2>1, <2>2
  <1>2. CASE TPushNext \/ Deliver
    BY <1>2 DEF TPushNext, Deliver, TelemetryNext, breakerVars
  <1>3. ASSUME NEW c \in Calls, TCancel(c)
        PROVE  [Next]_breakerVars
    BY <1>3 DEF TCancel, TelemetryNext, Next, breakerVars
  <1> QED
    BY <1>1, <1>2, <1>3
    DEF TelemetryNext, TBegin, TSucceed, TFail, TReset, TTick, Next

LEMMA TelemetryInitIInv == TelemetryInit => IInv /\ TypeOK
  <1> SUFFICES ASSUME TelemetryInit
               PROVE  IInv /\ TypeOK
    OBVIOUS
  <1>1. \A t \in Tools : states[t] \in Circuit /\ Consistent(states[t])
    BY DEF TelemetryInit, Restorable
  <1>2. states \in [Tools -> Circuit]
    BY DEF TelemetryInit, Restorable
  <1> QED
    BY <1>1, <1>2, AbsentSound DEF TelemetryInit, IInv, TypeOK, Sound

(* A circuit seen through the telemetry is tripped exactly with a full count:
   the threshold invariant survives every restart the telemetry begins after,
   and every cancellation that takes an event away. *)
THEOREM TelemetryTripped == TelemetrySpec => []TrippedIffThreshold
  <1>1. IInv => TrippedIffThreshold
    BY DEF IInv, TrippedIffThreshold
  <1> QED
    BY TelemetryInitIInv, NextIInv, TelemetrySteps, <1>1, PTL DEF TelemetrySpec

-----------------------------------------------------------------------------
(* What is on the bus, still to be pushed, and in the cache. *)

(* An event that says what some circuit was, full count and trip together. *)
Truthful == {e \in Events : Consistent(e.says)}

BusInv ==
    /\ bus \in Seq(Truthful)
    /\ \A i, j \in DOMAIN bus : bus[i].by = bus[j].by => i = j

PushInv ==
    /\ toPush \in SUBSET Truthful
    /\ \A e \in toPush : e.by = Refresher
    /\ \A e, f \in toPush : e.tool = f.tool => e = f

CacheInv ==
    /\ cache \in [Tools -> Reports]
    /\ \A t \in Tools : Consistent(cache[t])

TelemetryInv == BusInv /\ PushInv /\ CacheInv

LEMMA ReportOfSound ==
  ASSUME NEW s, Sound(s)
  PROVE  Report(s) \in Reports /\ Consistent(Report(s))
  <1>1. s.failures \in 0..FAILURE_THRESHOLD
    BY BreakerAssumption DEF Sound, Circuit, CBState, Absent
  <1>2. s.state \in {"ABSENT", "CLOSED", "OPEN", "HALF_OPEN"}
    BY DEF Sound, Circuit, CBState, Absent
  <1> QED
    BY <1>1, <1>2 DEF Report, Reports, Sound, Consistent, IsProbe

LEMMA EventOfSound ==
  ASSUME NEW s, Sound(s), NEW t \in Tools, NEW by \in Calls \cup {Operator, Refresher}
  PROVE  /\ Event(by, t, s) \in Truthful
         /\ Event(by, t, s).by = by /\ Event(by, t, s).tool = t
  BY ReportOfSound DEF Event, Events, Truthful

(* An emitter that waits for nothing may put an event on the bus. *)
LEMMA AppendKeeps ==
  ASSUME BusInv, NEW e \in Truthful, ~Awaiting(e.by), bus' = Append(bus, e)
  PROVE  BusInv'
  <1>1. bus' \in Seq(Truthful)
    BY DEF BusInv
  <1>2. \A i \in DOMAIN bus' :
           IF i \in DOMAIN bus THEN bus'[i] = bus[i] ELSE i = Len(bus) + 1 /\ bus'[i] = e
    BY DEF BusInv
  <1>3. \A i \in DOMAIN bus : bus[i].by # e.by
    BY DEF Awaiting
  <1> QED
    BY <1>1, <1>2, <1>3 DEF BusInv

(* Taking one event off the bus, the oldest or a cancelled one, leaves the
   others as they were. *)
LEMMA WithoutKeeps ==
  ASSUME BusInv, NEW i \in DOMAIN bus, bus' = Without(i)
  PROVE  BusInv'
  <1>1. Len(bus) \in Nat \ {0} /\ DOMAIN bus = 1..Len(bus) /\ i \in 1..Len(bus)
    BY DEF BusInv
  <1>2. DOMAIN bus' = 1..(Len(bus) - 1)
    BY DEF Without
  <1> DEFINE From(j) == IF j < i THEN j ELSE j + 1
  <1>3. \A j \in DOMAIN bus' : From(j) \in DOMAIN bus /\ bus'[j] = bus[From(j)]
    BY <1>1, <1>2 DEF Without
  <1>4. \A j \in DOMAIN bus' : bus'[j] \in Truthful
    BY <1>3 DEF BusInv
  <1>5. bus' \in Seq(Truthful)
    <2>1. bus' \in [1..(Len(bus) - 1) -> Truthful] /\ Len(bus) - 1 \in Nat
      BY <1>1, <1>2, <1>4 DEF Without
    <2> QED
      BY <2>1, SeqDef
  <1>6. \A j, k \in DOMAIN bus' : From(j) = From(k) => j = k
    BY <1>1, <1>2
  <1> QED
    BY <1>3, <1>5, <1>6 DEF BusInv

LEMMA TailKeeps ==
  ASSUME BusInv, bus # <<>>, bus' = Tail(bus)
  PROVE  BusInv' /\ Head(bus) \in Truthful
  <1>1. Len(bus) \in Nat \ {0} /\ DOMAIN bus = 1..Len(bus)
    BY DEF BusInv
  <1>2. bus' \in Seq(Truthful) /\ Len(bus') = Len(bus) - 1
    BY <1>1 DEF BusInv
  <1>3. \A j \in DOMAIN bus' : j + 1 \in DOMAIN bus /\ bus'[j] = bus[j + 1]
    BY <1>1, <1>2 DEF BusInv
  <1>4. Head(bus) \in Truthful
    BY DEF BusInv
  <1>5. \A j, k \in DOMAIN bus' : bus'[j].by = bus'[k].by => j = k
    <2> TAKE j, k \in DOMAIN bus'
    <2> HAVE bus'[j].by = bus'[k].by
    <2>1. j + 1 = k + 1
      BY <1>3 DEF BusInv
    <2>2. j \in Nat /\ k \in Nat
      BY <1>2
    <2> QED
      BY <2>1, <2>2
  <1> QED
    BY <1>2, <1>4, <1>5 DEF BusInv

LEMMA UnsendKeeps ==
  ASSUME BusInv, NEW by, Unsend(by)
  PROVE  BusInv'
  <1>1. CASE Awaiting(by)
    BY <1>1, WithoutKeeps DEF Unsend
  <1>2. CASE ~Awaiting(by)
    BY <1>2 DEF Unsend, BusInv
  <1> QED
    BY <1>1, <1>2

-----------------------------------------------------------------------------
LEMMA TelemetryInitInv == TelemetryInit => TelemetryInv
  <1> SUFFICES ASSUME TelemetryInit
               PROVE  TelemetryInv
    OBVIOUS
  <1>1. \A t \in Tools : Sound(states[t])
    BY DEF TelemetryInit, Restorable, Sound
  <1>2. CacheInv
    BY <1>1, ReportOfSound DEF TelemetryInit, CacheInv
  <1>3. BusInv /\ PushInv
    BY DEF TelemetryInit, BusInv, PushInv
  <1> QED
    BY <1>2, <1>3 DEF TelemetryInv

LEMMA NextTelemetryInv ==
  IInv /\ TelemetryInv /\ [TelemetryNext]_<<telemetryVars, faults>> => TelemetryInv'
  <1> SUFFICES ASSUME IInv, TelemetryInv, [TelemetryNext]_<<telemetryVars, faults>>
               PROVE  TelemetryInv'
    OBVIOUS
  <1> USE DEF TelemetryInv
  <1>0. /\ \A t \in Tools : Sound(states[t])
        /\ \A t \in Tools : Sound(states'[t])
        /\ running \in [Calls -> Tools \cup {NoTool}]
    BY NextIInv, TelemetrySteps DEF IInv, Sound
  <1>a. ASSUME UNCHANGED toPush
        PROVE  PushInv'
    BY <1>a DEF PushInv
  <1>b. ASSUME UNCHANGED cache
        PROVE  CacheInv'
    BY <1>b DEF CacheInv
  <1>c. ASSUME UNCHANGED bus
        PROVE  BusInv'
    BY <1>c DEF BusInv
  <1>d. ASSUME NEW by \in Calls \cup {Operator, Refresher}, NEW t \in Tools,
               NEW s, Sound(s), Emit(by, t, s), ~Awaiting(by)
        PROVE  BusInv'
    BY <1>d, EventOfSound, AppendKeeps DEF Emit
  <1>1. ASSUME NEW c \in Calls, NEW t \in Tools, TBegin(c, t)
        PROVE  TelemetryInv'
    BY <1>1, <1>0, <1>a, <1>b, <1>c, <1>d DEF TBegin
  <1>2. ASSUME NEW c \in Calls, TSucceed(c)
        PROVE  TelemetryInv'
    <2>1. running[c] \in Tools
      BY <1>2, <1>0 DEF TSucceed, Succeed
    <2> QED
      BY <1>2, <2>1, <1>0, <1>a, <1>b, <1>c, <1>d DEF TSucceed
  <1>3. ASSUME NEW c \in Calls, TFail(c)
        PROVE  TelemetryInv'
    <2>1. running[c] \in Tools
      BY <1>3, <1>0 DEF TFail, Fail
    <2> QED
      BY <1>3, <2>1, <1>0, <1>a, <1>b, <1>d DEF TFail
  <1>4. ASSUME NEW c \in Calls, TCancel(c)
        PROVE  TelemetryInv'
    BY <1>4, <1>a, <1>b, UnsendKeeps DEF TCancel
  <1>5. ASSUME NEW t \in Tools, TReset(t)
        PROVE  TelemetryInv'
    BY <1>5, <1>a, <1>b, <1>d, AbsentSound DEF TReset
  <1>6. CASE TRefresh
    <2> DEFINE Left == {t \in Tools : states'[t].state # "ABSENT"}
               copies == {Event(Refresher, t, states'[t]) : t \in Left}
    <2>1. copies \in SUBSET Truthful /\ \A e \in copies : e.by = Refresher
      BY <1>0, EventOfSound
    <2>2. \A e, f \in copies : e.tool = f.tool => e = f
      BY <1>0, EventOfSound
    <2>3. CASE copies = {}
      BY <1>6, <2>3, <1>a, <1>b, <1>c DEF TRefresh
    <2>4. CASE copies # {}
      <3>1. PICK e \in copies : bus' = Append(bus, e) /\ toPush' = copies \ {e}
        BY <1>6, <2>4 DEF TRefresh
      <3>2. BusInv'
        BY <1>6, <2>1, <3>1, AppendKeeps DEF TRefresh
      <3>3. PushInv'
        BY <2>1, <2>2, <3>1 DEF PushInv
      <3> QED
        BY <1>6, <3>2, <3>3, <1>b DEF TRefresh
    <2> QED
      BY <2>3, <2>4
  <1>7. CASE TPushNext
    <2>1. PICK e \in toPush : bus' = Append(bus, e) /\ toPush' = toPush \ {e}
      BY <1>7 DEF TPushNext
    <2>2. BusInv'
      BY <1>7, <2>1, AppendKeeps DEF TPushNext, PushInv
    <2>3. PushInv'
      BY <2>1 DEF PushInv
    <2> QED
      BY <1>7, <2>2, <2>3, <1>b DEF TPushNext
  <1>8. CASE Deliver
    <2>1. BusInv' /\ Head(bus) \in Truthful
      BY <1>8, TailKeeps DEF Deliver
    <2>2. CacheInv'
      BY <1>8, <2>1 DEF Deliver, CacheInv, Truthful, Events
    <2> QED
      BY <1>8, <2>1, <2>2, <1>a DEF Deliver
  <1>9. CASE TTick
    BY <1>9, <1>a, <1>b, <1>c DEF TTick
  <1>10. CASE UNCHANGED <<telemetryVars, faults>>
    BY <1>10, <1>a, <1>b, <1>c DEF telemetryVars
  <1> QED
    BY <1>1, <1>2, <1>3, <1>4, <1>5, <1>6, <1>7, <1>8, <1>9, <1>10 DEF TelemetryNext

LEMMA TelemetryAlways == TelemetrySpec => [](IInv /\ TelemetryInv)
  BY TelemetryInitIInv, TelemetryInitInv, NextIInv, NextTelemetryInv, TelemetrySteps, PTL
  DEF TelemetrySpec

(* Type correctness of the telemetry: whoever emits waits for his event, so no
   emitter ever has two of them on the bus, and a refresh has at most one copy
   of a circuit left to push. *)
THEOREM TelemetryTyped == TelemetrySpec => []TelemetryTypeOK
  <1> DEFINE FaultsOK == faults \in SUBSET Faults
  <1>1. IInv /\ TelemetryInv /\ FaultsOK => TelemetryTypeOK
    <2> SUFFICES ASSUME IInv, TelemetryInv, FaultsOK
                 PROVE  TelemetryTypeOK
      OBVIOUS
    <2>1. bus \in Seq(Events) /\ toPush \in SUBSET Events
      BY DEF TelemetryInv, BusInv, PushInv, Truthful
    <2> QED
      BY <2>1 DEF IInv, TypeOK, TelemetryInv, BusInv, PushInv, CacheInv, TelemetryTypeOK
  <1>2. TelemetryInit => FaultsOK
    BY DEF TelemetryInit
  <1>3. FaultsOK /\ [TelemetryNext]_<<telemetryVars, faults>> => FaultsOK'
    BY DEF TelemetryNext
  <1> HIDE DEF FaultsOK
  <1> QED
    BY TelemetryAlways, <1>1, <1>2, <1>3, PTL DEF TelemetrySpec

(* The report may be late and may have missed events, but it shows a circuit
   as tripped exactly when it shows a full count of failures. *)
THEOREM ReportsAreSound == TelemetrySpec => []ReportsSound
  <1>1. TelemetryInv => ReportsSound
    BY DEF TelemetryInv, BusInv, PushInv, CacheInv, Truthful, ReportsSound
  <1> QED
    BY TelemetryAlways, <1>1, PTL
=============================================================================
