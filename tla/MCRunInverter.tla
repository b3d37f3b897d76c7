---------------------------- MODULE MCRunInverter ---------------------------
(***************************************************************************)
(* Constant values of the run_inverter runs.  Durations are scaled so that *)
(* they keep the order they have in the code: retries and the first        *)
(* backoff are short, the transient maximum above them, the yield grace    *)
(* longer than several retries, the sleep backoff longest.                 *)
(***************************************************************************)
EXTENDS RunInverter

\* Two inverters behind one repeater, as in the MIS configuration.
TwoDevices == <<"zolder", "garage">>
NoDevices == <<>>

\* Every slot is its own serial.
OwnSerial == [t \in TargetTopics |-> t]

Ladder == <<2, 5, 7>>
=============================================================================
