----------------------------- MODULE MCHALeader -----------------------------
EXTENDS HALeader
=============================================================================
