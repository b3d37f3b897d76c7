---------------------------- MODULE MCDataPlane -----------------------------
(***************************************************************************)
(* Two tasks that share a slot, so that they race for one file; a repeater *)
(* that names itself after one of its devices beside a legacy entry.       *)
(***************************************************************************)
EXTENDS DataPlane

MCSlotOf == [t \in Tasks |-> "zolder"]
MCInverters == <<[slot |-> "zolder", devices |-> {"zolder", "garage"}],
                 [slot |-> "schuur", devices |-> {}]>>
MCPower == {-1, 2}
=============================================================================
