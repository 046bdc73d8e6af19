---------------------------- MODULE MCUsageMeter ----------------------------
EXTENDS UsageMeter
=============================================================================
