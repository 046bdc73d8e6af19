-------------------------- MODULE MCFinalmaskDirty ---------------------------
EXTENDS FinalmaskDirty
==============================================================================
