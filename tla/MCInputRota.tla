---------------------------- MODULE MCInputRota -----------------------------
EXTENDS InputRota
MCBodies == 1 .. 5
MCLength == <<2, 2, 7, 1, 2>>
=============================================================================
