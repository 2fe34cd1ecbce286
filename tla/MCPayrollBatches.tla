-------------------------- MODULE MCPayrollBatches --------------------------
(***************************************************************************)
(* One member of staff in a department slot and in the company-wide one.   *)
(***************************************************************************)
EXTENDS PayrollBatches, TLC

CONSTANTS s1, s2, dept, all, m1, a1

MCCovers == [x \in Slots |-> Staff]
MCOwner == [a \in Items |-> m1]
SessionsAlike == Permutations(Sessions)
=============================================================================
