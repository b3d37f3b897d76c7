------------------------------ MODULE MCRfcomm ------------------------------
(***************************************************************************)
(* Both timeouts are scaled from 15 s to a few units and kept equal, as    *)
(* the default configuration has them.  Seven parts are two frames and a   *)
(* beginning, or a dribble that passes the deadline.                       *)
(***************************************************************************)
EXTENDS Rfcomm
=============================================================================
