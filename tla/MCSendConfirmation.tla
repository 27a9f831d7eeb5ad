------------------------- MODULE MCSendConfirmation -------------------------
(* Model-checking instances of SendConfirmation. *)
EXTENDS SendConfirmation, TLC

CONSTANTS a1, l1

Edits == {"edit"}
Failures == {"timeout", "restart", "sendError"}

(* Either the owner edits, or things fail; then one action, sent once, is
   enough.  Locks are interchangeable, so the first one may be fixed. *)
MCInit == Init /\ faults \in {Edits, Failures} /\ table[Owner] = l1

MCNext ==
    /\ Next
    /\ faults = Failures => asked' \subseteq {a1} /\ delivered'[a1] <= 1

MCSpec == MCInit /\ [][MCNext]_sendVars /\ Fairness
=============================================================================
