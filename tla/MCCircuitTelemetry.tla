------------------------- MODULE MCCircuitTelemetry -------------------------
(***************************************************************************)
(* The breaker by itself and under its telemetry: subject says which.      *)
(*                                                                         *)
(* "calls": several concurrent calls of one tool, from the start of a      *)
(* process; the telemetry hears of every change at once.  "reports": one   *)
(* call at a time and two tools, from anything that a restart leaves.      *)
(***************************************************************************)
EXTENDS CircuitTelemetry

CONSTANTS t1, c1    \* elements of Tools and Calls

VARIABLE subject

OneTool ==
    /\ \A t \in Tools \ {t1} : states'[t] = Absent
    /\ bus' = bus /\ toPush' = toPush
    /\ cache' = [t \in Tools |-> Report(states'[t])]

OneCall == \A c \in Calls \ {c1} : running'[c] = NoTool

MCInit ==
    \/ /\ subject = "calls" /\ Init
       /\ bus = <<>> /\ toPush = {}
       /\ cache = [t \in Tools |-> Report(Absent)]
    \/ subject = "reports" /\ TelemetryInit

MCNext ==
    /\ UNCHANGED subject
    /\ \/ subject = "calls" /\ Next /\ OneTool
       \/ subject = "reports" /\ TelemetryNext /\ OneCall

(* Those of FairSpec and of TelemetrySpec. *)
MCFairness ==
    /\ WF_vars(subject = "calls" /\ Tick)
    /\ \A c \in Calls : WF_vars(subject = "calls" /\ (Succeed(c) \/ Fail(c)))
    /\ SF_vars(subject = "calls" /\ \E c \in Calls : Begin(c, t1))
    /\ WF_telemetryVars(subject = "reports" /\ Deliver)
    /\ WF_telemetryVars(subject = "reports" /\ TPushNext)
    /\ WF_telemetryVars(subject = "reports" /\ TRefresh)

MCSpec ==
    /\ MCInit
    /\ [][MCNext]_<<subject, telemetryVars, faults>>
    /\ MCFairness
=============================================================================
