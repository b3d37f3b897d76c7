------------------------------ MODULE MCSession -----------------------------
(***************************************************************************)
(* Constant values of the session runs: two devices on the piconet, and    *)
(* receive loops that give up after two or three frames instead of 12 and  *)
(* 16, so that giving up and the late reply that follows both happen.      *)
(***************************************************************************)
EXTENDS Session
=============================================================================
