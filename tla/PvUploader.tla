----------------------------- MODULE PvUploader -----------------------------
(***************************************************************************)
(* The PVOutput uploader: one task per configured system, which reads the  *)
(* gauges of the metrics registry that the poll loops set and posts them.  *)
(* Poll loop and uploader agree on nothing but the labels of a gauge: the  *)
(* entry that owns the Bluetooth link and the device.  Gauges start at 0,  *)
(* live as long as the process and are reset by nothing.                   *)
(***************************************************************************)
EXTENDS Integers, Sequences

CONSTANTS
    Inverters,   \* cfg.inverters: [slot, devices], in order
    Systems,     \* the slots of cfg.pvoutput.systems
    Power,       \* readings of ac_power_watts, negative at night
    Energy,      \* readings of energy_today_wh
    Spot,        \* readings of ac_voltage_l1 and inverter_temperature_c
    MaxReadings, \* bound: readings of one process
    MaxCrashes   \* bound: ends of the process

VARIABLES
    up,          \* the process runs
    gauges,      \* label -> field -> value
    disabled,    \* systems whose task gave up, having no HTTP client
    started,     \* systems whose first tick has passed
    posting,     \* system -> the status of the request under way, or <<>>
    accepted,    \* external: system -> what PVOutput was last given, or <<>>
    last,        \* history: device -> field -> {last report to this process}, or {}
    readings,    \* readings of this process so far
    crashes      \* ends of the process so far

vars == <<up, gauges, disabled, started, posting, accepted, last, readings, crashes>>

Entries == 1..Len(Inverters)
Fields == {"power", "energy", "voltage", "temp"}
ValuesOf(field) == CASE field = "power"  -> Power
                     [] field = "energy" -> Energy
                     [] OTHER            -> Spot

\* The targets of an entry's poll loop.
Served(e) ==
    IF Inverters[e].devices = {} THEN {Inverters[e].slot} ELSE Inverters[e].devices
Devices == UNION {Served(e) : e \in Entries}

Names == {Inverters[e].slot : e \in Entries} \cup Devices \cup Systems

BugPerEntry(slot, device) == <<slot, slot>>

\* DeviceLabels
Label(slot, device) == <<slot, device>>

BugOwnSlot(system) == system

\* The first entry that lists the device, or is it in legacy mode; a system
\* nobody serves gets a label nobody sets.
owner_slot(system) ==
    LET matching == {e \in Entries :
            \/ system \in Inverters[e].devices
            \/ Inverters[e].slot = system /\ Inverters[e].devices = {}}
    IN  IF matching = {} THEN system
        ELSE Inverters[CHOOSE e \in matching : \A o \in matching : e <= o].slot

Unread == [f \in Fields |-> 0]
Unreported == [f \in Fields |-> {}]
NoGauges == [l \in Names \X Names |-> Unread]

Init ==
    /\ up = TRUE
    /\ gauges = NoGauges
    /\ disabled = {}
    /\ started = {}
    /\ posting = [s \in Systems |-> <<>>]
    /\ accepted = [s \in Systems |-> <<>>]
    /\ last = [d \in Names |-> Unreported]
    /\ readings = 0
    /\ crashes = 0

\* A poll loop sets one gauge of one of its targets.
SetGauge(e, d, f, v) ==
    /\ up /\ readings < MaxReadings
    /\ gauges' = [gauges EXCEPT ![Label(Inverters[e].slot, d)][f] = v]
    /\ last' = [last EXCEPT ![d][f] = {v}]
    /\ readings' = readings + 1
    /\ UNCHANGED <<up, disabled, started, posting, accepted, crashes>>

\* The HTTP client cannot be built: the task returns, for as long as the
\* process lives.
BuildFails(s) ==
    /\ up /\ s \notin disabled \cup started
    /\ disabled' = disabled \cup {s}
    /\ UNCHANGED <<up, gauges, started, posting, accepted, last, readings, crashes>>

\* The client is there, and the tick that fires at once.
FirstTick(s) ==
    /\ up /\ s \notin disabled \cup started
    /\ started' = started \cup {s}
    /\ UNCHANGED <<up, gauges, disabled, posting, accepted, last, readings, crashes>>

AtLeast0(v) == IF v < 0 THEN 0 ELSE v     \* `as u32' of a float
IfPositive(v) == IF v > 0 THEN {v} ELSE {}

Skips(g) == AtLeast0(g.power) = 0 /\ AtLeast0(g.energy) = 0

\* Status, and its body: optional fields are left out.
Status(g) == [v1 |-> AtLeast0(g.energy), v2 |-> AtLeast0(g.power),
              v5 |-> IfPositive(g.temp), v6 |-> IfPositive(g.voltage)]

\* A later tick: collect_status and, when it finds something, the request.
\* The gauges are read one after the other without an await.
Collect(s) ==
    LET g == gauges[Label(owner_slot(s), s)]
    IN  /\ up /\ s \in started /\ posting[s] = <<>>
        /\ ~Skips(g)
        /\ posting' = [posting EXCEPT ![s] = Status(g)]
        /\ UNCHANGED <<up, gauges, disabled, started, accepted, last, readings, crashes>>

PostOk(s) ==
    /\ up /\ posting[s] # <<>>
    /\ accepted' = [accepted EXCEPT ![s] = posting[s]]
    /\ posting' = [posting EXCEPT ![s] = <<>>]
    /\ UNCHANGED <<up, gauges, disabled, started, last, readings, crashes>>

\* Refused or failed: logged, and the status dropped.
PostFails(s) ==
    /\ up /\ posting[s] # <<>>
    /\ posting' = [posting EXCEPT ![s] = <<>>]
    /\ UNCHANGED <<up, gauges, disabled, started, accepted, last, readings, crashes>>

\* The process ends; PVOutput keeps what it has.
Crash ==
    /\ up /\ crashes < MaxCrashes
    /\ up' = FALSE
    /\ crashes' = crashes + 1
    /\ UNCHANGED <<gauges, disabled, started, posting, accepted, last, readings>>

Restart ==
    /\ ~up
    /\ up' = TRUE
    /\ gauges' = NoGauges
    /\ disabled' = {}
    /\ started' = {}
    /\ posting' = [s \in Systems |-> <<>>]
    /\ last' = [d \in Names |-> Unreported]
    /\ readings' = 0
    /\ UNCHANGED <<accepted, crashes>>

Next ==
    \/ \E e \in Entries : \E d \in Served(e), f \in Fields :
         \E v \in ValuesOf(f) : SetGauge(e, d, f, v)
    \/ \E s \in Systems : BuildFails(s) \/ FirstTick(s) \/ Collect(s)
                          \/ PostOk(s) \/ PostFails(s)
    \/ Crash \/ Restart

(***************************************************************************)
(* The ticker fires, a request ends within its 15 s, and PVOutput is not   *)
(* unreachable for ever.                                                   *)
(***************************************************************************)
Fairness ==
    \A s \in Systems : /\ WF_vars(FirstTick(s)) /\ WF_vars(Collect(s))
                       /\ WF_vars(PostOk(s) \/ PostFails(s)) /\ SF_vars(PostOk(s))

Spec == Init /\ [][Next]_vars /\ Fairness
-----------------------------------------------------------------------------
OrZero(report) == IF report = {} THEN {0} ELSE report
NotNegative(v) == IF v > 0 THEN v ELSE 0

\* A status is made of the last reports of a device to this process.  The
\* optional fields are there when the device reported them, as more than 0.
\* Energy and power are always there, as 0 when the device has not reported
\* them to this process: a gauge cannot tell, although pvoutput.rs (lines 58 and
\* 93-94) has a missing reading left out.
MadeOf(status, d) ==
    /\ status.v1 \in OrZero(last[d].energy)
    /\ status.v2 \in {NotNegative(v) : v \in OrZero(last[d].power)}
    /\ status.v5 = {t \in last[d].temp : t > 0}
    /\ status.v6 = {u \in last[d].voltage : u > 0}

\* collect_status posts to a system what that very device last reported to
\* this process, each field of it, whichever entry polls the device; nothing
\* of a neighbour behind the same repeater, nothing from before a restart, and
\* of energy and power a 0 where there is no report.
UploadTrue ==
    [][\A s \in Systems :
          posting'[s] \notin {<<>>, posting[s]} => MadeOf(posting'[s], s)]_vars

Producing(d) == up /\ \E v \in last[d].power \cup last[d].energy : v > 0

\* What a producing device last reported reaches its system at PVOutput, once
\* its reports stay as they are, which MaxReadings brings about: whichever
\* entry polls it, and however many requests fail in between; unless the
\* process could not build the system's HTTP client.
UploadFlows ==
    \A s \in Systems :
        Producing(s) ~> \/ accepted[s] # <<>> /\ MadeOf(accepted[s], s)
                        \/ ~Producing(s) \/ s \in disabled
=============================================================================
