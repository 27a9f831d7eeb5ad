------------------------------ MODULE Mailbox ------------------------------
(***************************************************************************)
(* What the notification queue promises its callers: what is posted waits  *)
(* until it reaches the owner, and reaches him once.  Where sends, the     *)
(* database or the process fail, it may be lost instead, or reach him      *)
(* more often; but what is lost does not come back, and nothing arrives    *)
(* that was not posted.                                                    *)
(***************************************************************************)
EXTENDS Naturals

CONSTANT Notes

VARIABLES
    posted,
    waiting,
    delivered,      \* how often each has arrived: never, once or more often
    mayFail         \* whether sends, the database or the process may fail

Init ==
    /\ posted = {} /\ waiting = {} /\ delivered = [n \in Notes |-> 0]
    /\ mayFail \in BOOLEAN

Upto2(k) == IF k < 2 THEN k ELSE 2

(* What fails to be acknowledged is sent again. *)
Arrived(S) ==
    \E k \in IF mayFail THEN {1, 2} ELSE {1} :
        delivered' = [n \in Notes |-> IF n \in S THEN Upto2(delivered[n] + k) ELSE delivered[n]]

Post(n) ==
    /\ n \notin posted
    /\ posted' = posted \cup {n}
    /\ \/ waiting' = waiting \cup {n} /\ UNCHANGED delivered
       \/ UNCHANGED waiting /\ Arrived({n})
       \/ mayFail /\ UNCHANGED <<waiting, delivered>>

Repeated == IF mayFail THEN {n \in posted : delivered[n] > 0} ELSE {}

Arrive(S) ==
    /\ Arrived(S)
    /\ waiting' = waiting \ S
    /\ UNCHANGED posted

Lose ==
    /\ mayFail
    /\ waiting' \subseteq waiting
    /\ UNCHANGED <<posted, delivered>>

Next ==
    /\ \/ \E n \in Notes : Post(n)
       \/ \E S \in SUBSET (waiting \cup Repeated) : Arrive(S)
       \/ Lose
    /\ UNCHANGED mayFail

Spec == Init /\ [][Next]_<<posted, waiting, delivered, mayFail>>
=============================================================================
