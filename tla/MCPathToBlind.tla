---------------------------- MODULE MCPathToBlind ----------------------------
EXTENDS PathToBlind, TLC

CONSTANTS n1, n2, n3, n4, n5, none

MCNodes == {n1, n2, n3, n4, n5}
=============================================================================
