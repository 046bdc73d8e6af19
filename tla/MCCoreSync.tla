----------------------------- MODULE MCCoreSync -----------------------------
EXTENDS CoreSync
==============================================================================
