----------------------------- MODULE MCPageWalk -----------------------------
EXTENDS PageWalk, TLC

CONSTANTS null, gone
=============================================================================
