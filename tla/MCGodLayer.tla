------------------------------ MODULE MCGodLayer ------------------------------
(* Instances of GodLayer small enough for TLC.                                 *)
EXTENDS GodLayer, TLC

CONSTANTS b1, b2, b3, s1, s2, c1

\* b1 scores nothing (its run, or the scoring of it, failed); b2 and b3 do well.
\* b1 and b2 share a soul and contend for its category; b3 has none, or one
\* without a category.
MCScoreOf    == [b \in Bots |-> IF b = b1 THEN 0 ELSE 70]
MCSoulOf     == [b \in Bots |-> IF b = b3 THEN NoSoul ELSE s1]
MCTwoSouls   == [b \in Bots |-> IF b = b3 THEN s2 ELSE s1]
MCCategoryOf == [s \in Souls |-> IF s = s2 THEN Unknown ELSE c1]

Judged(t, conf, da) ==
    [type |-> t, confidence |-> conf, isSoulDriven |-> TRUE, unresolvedDA |-> da]

Promotion  == Judged("Promote", 900, FALSE)
Retirement == Judged("Retire", 450, FALSE)

Disputed   == Judged("Promote", 900, TRUE)

JustPromotion           == {Promotion}
PromotionOrDisputed     == {Promotion, Disputed}
JustRetirement          == {Retirement}
PromotionOrRetirement   == {Promotion, Retirement}
===============================================================================
