--------------------------- MODULE SessionContract --------------------------
(***************************************************************************)
(* What a session promises its caller, run_inverter: it is logged on at    *)
(* most once, a call is made only while it is logged on, every call comes  *)
(* back with one outcome, and an answer is data of the device and the kind *)
(* asked for.  Frames, packet ids, retries and timeouts are out of sight.  *)
(***************************************************************************)
CONSTANTS
    Devices,  \* the devices that can be addressed
    Kinds     \* what can be asked of one

VARIABLES
    mode,  \* new, logging_on, ready, asking or over
    call,  \* the device and the kind the latest call asks for
    got    \* outcome of the latest call: pending, fatal, miss or ok
           \* with the set of data it brought

cvars == <<mode, call, got>>

Calls == Devices \X Kinds

Outcome(what, data) == [what |-> what, data |-> data]

Pending == Outcome("pending", {})
Failures == {Outcome("fatal", {}), Outcome("miss", {})}

Init ==
    /\ mode = "new"
    /\ call = <<>>
    /\ got = Pending

LogOn ==
    /\ mode = "new"
    /\ mode' = "logging_on"
    /\ UNCHANGED <<call, got>>

LoggedOn ==
    /\ mode = "logging_on"
    /\ mode' = "ready"
    /\ UNCHANGED <<call, got>>

\* A failed logon is fatal: no call will be accepted.
LogOnFailed ==
    /\ mode \in {"new", "logging_on"}
    /\ mode' = "over"
    /\ got' = Outcome("fatal", {})
    /\ UNCHANGED call

Ask ==
    /\ mode = "ready"
    /\ mode' = "asking"
    /\ call' \in Calls
    /\ got' = Pending

\* Data of the device and the kind asked for, and of nothing else.
Answer ==
    /\ mode = "asking"
    /\ mode' = "ready"
    /\ got' = Outcome("ok", {call})
    /\ UNCHANGED call

Fail ==
    /\ mode = "asking"
    /\ mode' = "ready"
    /\ got' \in Failures
    /\ UNCHANGED call

\* A call that cannot be put on the wire: the link is gone, or the session
\* is not logged on.  A session asked before its logon is not logged on later.
Refuse ==
    /\ mode \in {"new", "ready", "over"}
    /\ mode' = IF mode = "ready" THEN "ready" ELSE "over"
    /\ call' \in Calls
    /\ got' = Outcome("fatal", {})

Close ==
    /\ mode \in {"new", "ready", "over"}
    /\ mode' = "over"
    /\ UNCHANGED <<call, got>>

Next == LogOn \/ LoggedOn \/ LogOnFailed \/ Ask \/ Answer \/ Fail \/ Refuse \/ Close

Spec == Init /\ [][Next]_cvars
=============================================================================
