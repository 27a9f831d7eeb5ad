------------------------------ MODULE Approval ------------------------------
(***************************************************************************)
(* What a confirmation promises its user, whatever stores it: an action    *)
(* that was asked about is open to one answer.  It is claimed for running  *)
(* at most once, never after it was withdrawn (cancelled or expired), and  *)
(* runs at most once for its claim.                                        *)
(***************************************************************************)
CONSTANT Actions

VARIABLES
    asked,      \* actions the user has been asked about
    open,       \* asked, not answered and not expired
    claimed,    \* confirmed, about to run
    ran         \* run

Init == asked = {} /\ open = {} /\ claimed = {} /\ ran = {}

(* Any step may drop open actions that have expired. *)
Ask(a) ==
    /\ a \notin asked
    /\ asked' = asked \cup {a}
    /\ a \in open' /\ open' \subseteq open \cup {a}
    /\ UNCHANGED <<claimed, ran>>

Claim(a) ==
    /\ a \in open
    /\ open' \subseteq open \ {a}
    /\ claimed' = claimed \cup {a}
    /\ UNCHANGED <<asked, ran>>

Run(a) ==
    /\ a \in claimed /\ a \notin ran
    /\ claimed' = claimed \ {a}
    /\ ran' = ran \cup {a}
    /\ UNCHANGED <<asked, open>>

(* Cancelled, expired, or lost with the process. *)
Withdraw ==
    /\ open' \subseteq open
    /\ claimed' \subseteq claimed
    /\ UNCHANGED <<asked, ran>>

Next ==
    \/ \E a \in Actions : Ask(a) \/ Claim(a) \/ Run(a)
    \/ Withdraw

Spec == Init /\ [][Next]_<<asked, open, claimed, ran>>
=============================================================================
