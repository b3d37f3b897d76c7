--------------------------- MODULE MCAvailability ---------------------------
(***************************************************************************)
(* A channel of two requests instead of 64 fills up during an outage; two  *)
(* outages let one lose the word that would have made up for the other.    *)
(***************************************************************************)
EXTENDS Availability

\* A single device, and two behind a repeater.
BothModes == {<<>>, <<"zolder", "garage">>}
MisMode == {<<"zolder", "garage">>}
=============================================================================
