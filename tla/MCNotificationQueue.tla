------------------------ MODULE MCNotificationQueue ------------------------
(* Model-checking instances of NotificationQueue: everything may fail, or
   nothing does. *)
EXTENDS NotificationQueue

CONSTANT Few        \* those notifications that there are where something fails

MCBucket == [n \in Notes |-> IF n <= 3 THEN "news" ELSE "digest"]

MCInit == Init /\ faults \in {{}, Faults}

MCNext ==
    /\ Next
    /\ faults # {} => made' \subseteq Few /\ Len(buffer') <= 2

MCSpec ==
    /\ MCInit /\ [][MCNext]_allVars
    /\ WF_vars(Loop) /\ WF_vars(Attach) /\ WF_vars(SendBuffered)
=============================================================================
