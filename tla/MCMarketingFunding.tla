-------------------------- MODULE MCMarketingFunding --------------------------
(***************************************************************************)
(* Small instances of MarketingFunding for TLC.                            *)
(***************************************************************************)
EXTENDS MarketingFunding, TLC

CONSTANTS hom, mb, q1, p1, s1, s2

HeadAndBuyer == {hom, mb}
OneRequest == {q1}
OnePeer == {p1}
TwoSessions == {s1, s2}
SessionsAlike == Permutations(TwoSessions)

\* Finance funds the head of marketing, who funds the media buyer.
Downwards == {<<Company, hom>>, <<hom, mb>>}

\* The media buyer asks for money; the head of marketing also offers some.
Buyer == {mb}
Offered == {<<hom, mb>>}

\* Finance has funded the head of marketing with two units.
FundedHead ==
    <<[from |-> Company, to |-> hom, amount |-> 2, status |-> "COMPLETED", source |-> Direct]>>
==============================================================================
