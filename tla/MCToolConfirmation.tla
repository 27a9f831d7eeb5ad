------------------------ MODULE MCToolConfirmation ------------------------
(* Model-checking instances of ToolConfirmation. *)
EXTENDS ToolConfirmation, TLC

CONSTANTS alice, bob, row, other, digits, p1, p2, p3

(* bob owns `other`, an ordinary memory entry; the rest are alice's.  `digits`
   is a memory entry whose random key happens to consist of digits. *)
MCOwner == [a \in Actions |-> IF a = other THEN bob ELSE alice]
MCByAlice == [p \in Presses |-> alice]
MCByBoth == [p \in Presses |-> IF p = p3 THEN bob ELSE alice]

SymmetryAlice == Permutations(Presses) \cup Permutations(Locks)
SymmetryBoth == Permutations({p1, p2}) \cup Permutations(Locks)
=============================================================================
