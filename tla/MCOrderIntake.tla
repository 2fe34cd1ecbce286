--------------------------- MODULE MCOrderIntake ---------------------------
(***************************************************************************)
(* Small instances of OrderIntake for TLC.                                 *)
(***************************************************************************)
EXTENDS OrderIntake

CONSTANTS p1, p2, k1, c1, c2, d1, d2

TwoPayloads == {p1, p2}
SecondIsBad == {p2}
OnePost == {k1}
OneSlot == {c1}
TwoSlots == {c1, c2}
OneDrain == {d1}
TwoDrains == {d1, d2}
AllModes == {"OFF", "FLAG", "BLOCK"}
Default == {"OFF"}
AnyCallback == BOOLEAN
==============================================================================
