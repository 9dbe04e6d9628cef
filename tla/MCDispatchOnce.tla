---------------------------- MODULE MCDispatchOnce ----------------------------
\* DispatchOnce for TLC: three threads, so that two wait while the third runs the block.
EXTENDS DispatchOnce, TLC
=============================================================================
