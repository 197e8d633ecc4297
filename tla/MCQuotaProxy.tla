---------------------------- MODULE MCQuotaProxy ----------------------------
EXTENDS QuotaProxy, TLC

CONSTANTS r1, r2, k1

\* Two accounts, and a reading over the line; Unknown is one under it.
MCLabels2   == {1, 2}
MCPercents  == {95}
MCOwns      == {NoLabel, 1}
MCNoOwn     == {NoLabel}

SlotSymmetry == Permutations(Slots)
=============================================================================
