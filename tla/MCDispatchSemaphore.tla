------------------------ MODULE MCDispatchSemaphore ------------------------
(***************************************************************************)
(* DispatchSemaphore for TLC: three threads, so that a bounded waiter, a   *)
(* signaller and a newcomer meet; creation values on both sides of zero.   *)
(***************************************************************************)
EXTENDS DispatchSemaphore, TLC

MCCreateValues == -1..1
============================================================================
