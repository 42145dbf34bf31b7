---------------------------- MODULE MCCaptureLock ----------------------------
(***************************************************************************)
(* Model checking of CaptureLock: CaptureLock.cfg and                      *)
(* CaptureLockContainer.cfg give the constants their values.               *)
(***************************************************************************)
EXTENDS CaptureLock
=============================================================================
