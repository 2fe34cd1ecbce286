------------------------------ MODULE StockPool ------------------------------
(***************************************************************************)
(* What the cost batches of a product promise, whichever batch a unit      *)
(* comes from and whichever transactions interleave: units enter by an     *)
(* intake only, each unit that leaves is away, and only units that are     *)
(* away come back.                                                         *)
(***************************************************************************)
EXTENDS Integers

VARIABLES
    received,   \* units ever taken in
    remaining,  \* units not consumed
    away        \* units shipped and not back in a batch

Init == received >= 0 /\ remaining = received /\ away = 0

TakeIn == /\ received <= received'
          /\ remaining' - remaining = received' - received
          /\ UNCHANGED away

Ship == /\ away <= away' /\ 0 <= remaining'
        /\ away' - away = remaining - remaining'
        /\ UNCHANGED received

GiveBack == /\ 0 <= away' /\ away' <= away
            /\ remaining' - remaining = away - away'
            /\ UNCHANGED received

Next == TakeIn \/ Ship \/ GiveBack

Spec == Init /\ [][Next]_<<received, remaining, away>>
==============================================================================
