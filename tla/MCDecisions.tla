---------------------------- MODULE MCDecisions ----------------------------
EXTENDS Decisions

\* Three accounts, and percents on both sides of either line: 85 and 90.
MCLabels   == {1, 2, 3}
MCPercents == {20, 85, 86, 89, 90, 100}
=============================================================================
