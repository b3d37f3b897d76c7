----------------------------- MODULE DataPlane -----------------------------
(***************************************************************************)
(* The three stores of the daemon that outlive a poll: the CSV archive,    *)
(* the file with the app serial and the gauges the PVOutput uploader       *)
(* reads.  They share no state: archiving, minting and uploading neither   *)
(* call nor wait for one another.  So a behaviour of this module is one of *)
(* one of them, the part chosen in Init, and the properties of each are    *)
(* those of its own module.                                                *)
(***************************************************************************)
EXTENDS Integers, Sequences, FiniteSets, AppSerial

CONSTANTS
    Tasks, SlotOf, MaxDay, MaxRows, MaxFaults,
    Inverters, Systems, Power, Energy, Spot, MaxReadings, MaxCrashes

VARIABLES
    part,
    csv_up, day, made, files, lock, append_pc, row, is_new, count, acked,
    spoiled, faults,
    pv_up, gauges, disabled, started, posting, accepted, last, readings, crashes

csvVars == <<csv_up, day, made, files, lock, append_pc, row, is_new, count,
             acked, spoiled, faults>>
pvVars == <<pv_up, gauges, disabled, started, posting, accepted, last, readings,
            crashes>>
planeVars == <<part, csvVars, vars, pvVars>>

Csv == INSTANCE CsvSink WITH up <- csv_up, pc <- append_pc
Pv == INSTANCE PvUploader WITH up <- pv_up

\* A day counts from 0.  A reading is a number, energy an unsigned one; and one
\* entry polls a device (config.rs does not enforce it): the gauges of a
\* second would be read by nobody.
ASSUME PlaneAssumption ==
    /\ MaxDay \in Nat
    /\ Energy \subseteq Nat /\ Power \subseteq Int /\ Spot \subseteq Int
    /\ \A e, o \in Pv!Entries : Pv!Served(e) \cap Pv!Served(o) # {} => e = o

PlaneInit ==
    /\ part \in {"csv", "serial", "pv"}
    /\ Csv!Init /\ Init /\ Pv!Init

Only(p) ==
    /\ part = p /\ part' = part
    /\ p = "csv" \/ UNCHANGED csvVars
    /\ p = "serial" \/ UNCHANGED vars
    /\ p = "pv" \/ UNCHANGED pvVars

PlaneNext ==
    \/ Csv!Next /\ Only("csv")
    \/ Next /\ Only("serial")
    \/ Pv!Next /\ Only("pv")

\* The fairness of the parts, which is justified in their modules.
Fairness ==
    /\ \A t \in Tasks :
         /\ WF_planeVars(Csv!Step(t) /\ Only("csv"))
         /\ SF_planeVars(Csv!Acquire(t) /\ Only("csv"))
    /\ \A s \in Systems :
         /\ WF_planeVars(Pv!FirstTick(s) /\ Only("pv"))
         /\ WF_planeVars(Pv!Collect(s) /\ Only("pv"))
         /\ WF_planeVars((Pv!PostOk(s) \/ Pv!PostFails(s)) /\ Only("pv"))
         /\ SF_planeVars(Pv!PostOk(s) /\ Only("pv"))

PlaneSpec == PlaneInit /\ [][PlaneNext]_planeVars /\ Fairness
-----------------------------------------------------------------------------
\* CsvSink: the header is the first line of a file and occurs nowhere else.
HeaderFirst == Csv!HeaderFirst

\* CsvSink: an acknowledged row is in the file of its slot and day, once, in
\* order.
AcknowledgedKept == Csv!AcknowledgedKept

\* CsvSink: an append that starts returns.
AppendReturns == Csv!AppendReturns

\* PvUploader: a system is told what its own device last reported, and 0 of an
\* energy or power not reported yet.
UploadTrue == Pv!UploadTrue

\* PvUploader: what a producing device last reported arrives, given a client.
UploadFlows == Pv!UploadFlows
=============================================================================
