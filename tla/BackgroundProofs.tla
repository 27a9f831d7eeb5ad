-------------------------- MODULE BackgroundProofs --------------------------
(***************************************************************************)
(* What is proved of each background component holds where they are put    *)
(* side by side: MCBackground implements all seven.                        *)
(***************************************************************************)
EXTENDS MCBackground, MemoryProofs, SchedulingProofs, KeysProofs

(* A step of the subject is a step of one component and of no other; bounds and
   a chosen first state only leave behaviours out. *)
LEMMA ComponentSteps ==
  [MCNext]_<<subject, others>> =>
      /\ [BatchNext]_batchVars /\ [MemoryNext]_memoryVars
      /\ [TimersNext]_timerVars /\ [CronNext]_cronVars
      /\ [RotationNext]_rotationVars /\ [TasksNext]_taskVars /\ [KeysNext]_keyVars
  <1>1. CASE UNCHANGED <<subject, others>>
    BY <1>1 DEF others
  <1>2. CASE MCNext
    BY <1>2 DEF MCNext
  <1> QED
    BY <1>1, <1>2

(* Each of the seven components behaves as its own specification allows. *)
THEOREM ComponentsSideBySide ==
  MCSpec => /\ BatchSpec /\ MemorySpec /\ TimersSpec /\ CronSpec
            /\ RotationSpec /\ TasksSpec /\ KeysSpec
  <1>1. MCInit => /\ BatchInit /\ MemoryInit /\ TimersInit /\ CronInit
                  /\ RotationInit /\ TasksInit /\ KeysInit
    BY DEF MCInit
  <1> QED
    BY <1>1, ComponentSteps, PTL
       DEF MCSpec, BatchSpec, MemorySpec, TimersSpec, CronSpec, RotationSpec, TasksSpec, KeysSpec

(* Type correctness of all of them, with the limits of their lists, counters
   and caches. *)
THEOREM BackgroundTyped == MCSpec => []BackgroundTypeOK
  <1>1. BatchTypeOK /\ MemoryTypeOK /\ TimersTypeOK /\ CronTypeOK
        /\ RotationTypeOK /\ TasksTypeOK /\ KeysTypeOK => BackgroundTypeOK
    BY DEF BackgroundTypeOK
  <1> QED
    BY <1>1, ComponentsSideBySide, BatchTyped, QueueTyped, TimersTyped, CronTyped,
       RotationTyped, TasksTyped, KeysTyped, PTL
=============================================================================
