---------------------------- MODULE MCScrollViews ----------------------------
EXTENDS ScrollViews, TLC

CONSTANTS d1, d2

MCOrder == <<d1, d2>>
=============================================================================
