---------------------------- MODULE MCFifoBatches ----------------------------
(***************************************************************************)
(* Small instances of FifoBatches for TLC.                                 *)
(***************************************************************************)
EXTENDS FifoBatches, TLC

CONSTANTS NGN, GHS, s1, s2

TwoSessions == {s1, s2}
TwoCurrencies == {NGN, GHS}

\* One batch in each of two countries; what is taken in later costs more.
Batch(c, cost, n) == [cur |-> c, cost |-> cost, received |-> n, remaining |-> n]
OneLotEach == <<Batch(NGN, 1, 1), Batch(GHS, 3, 1)>>
LaterCost == {4}

\* The second batch was taken in between two milliseconds, the others on one.
SecondCut == <<1, 1, 3>>

SessionSymmetry == Permutations(Sessions)
==============================================================================
