----------------------------- MODULE RunInverter ----------------------------
(***************************************************************************)
(* run_inverter of the daemon: one task per configured BT entry point.  It *)
(* connects, logs on, announces its targets to Home Assistant and polls    *)
(* them until the session breaks or is yielded, then starts over.          *)
(*                                                                         *)
(* The session below it appears by its outcomes: a connect, a handshake or *)
(* a query succeeds or fails in one of the ways the session module allows. *)
(* Sleeps, the ticker and the two kinds of deadlines are kept as remaining *)
(* time: the code's `Instant::now() < d' is `remaining > 0'.  Tick lets    *)
(* one unit pass at any await point.  Durations are constants; the code's  *)
(* values are given beside them.                                           *)
(***************************************************************************)
EXTENDS Integers, Sequences, FiniteSets

CONSTANTS
    Slot,                  \* inv_cfg.slot, the BT entry point
    Devices,               \* slots of inv_cfg.devices; <<>> is single-device mode
    Serial,                \* the serial each target is addressed by
    NumQueries,            \* length of per_tick_queries (12)
    MIN_BACKOFF,           \* 2 s
    MAX_TRANSIENT_BACKOFF, \* 60 s
    SLEEP_BACKOFF,         \* 600 s
    POST_YIELD_GRACE,      \* 180 s
    POST_YIELD_RETRY,      \* 15 s
    HANDSHAKE_RETRY,       \* the 5 s pause after a failed handshake
    YieldEvery,            \* inv_cfg.yield_every, 0 = never
    YieldDuration,         \* inv_cfg.yield_duration (60 s by default)
    PollInterval,          \* inv_cfg.poll_interval (5 s by default)
    SLEEP_STREAK,          \* host-down failures that mean "asleep" (3)
    COOLDOWN_THRESHOLD,    \* 3
    COOLDOWN_LADDER,       \* <<60, 300, 900, 1800>> s
    Catalog,               \* the sensor keys publish_value accepts
    MayShutDown            \* whether Ctrl-C is part of the environment

Targets == IF Devices = <<>> THEN <<Slot>> ELSE Devices
TargetIdx == 1..Len(Targets)
Topics == {Slot} \cup {Devices[i] : i \in 1..Len(Devices)}
TargetTopics == {Targets[i] : i \in TargetIdx}
Serials == {Serial[t] : t \in TargetTopics}

\* Two devices with one serial would share their failure counters; the
\* configuration is taken to name every device once.
ASSUME ConfigAssumption ==
    /\ Devices \in Seq(STRING)
    /\ Slot \in STRING
    /\ DOMAIN Serial = TargetTopics
    /\ \A s, t \in TargetTopics : Serial[s] = Serial[t] => s = t
    /\ \A i, j \in 1..Len(Devices) : Devices[i] = Devices[j] => i = j
    /\ NumQueries \in Nat \ {0}
    /\ YieldEvery \in Nat
    /\ MayShutDown \in BOOLEAN

\* How the code's durations compare with one another.
ASSUME DurationAssumption ==
    /\ MIN_BACKOFF \in Nat /\ MAX_TRANSIENT_BACKOFF \in Nat /\ SLEEP_BACKOFF \in Nat
    /\ POST_YIELD_GRACE \in Nat /\ POST_YIELD_RETRY \in Nat /\ HANDSHAKE_RETRY \in Nat
    /\ YieldDuration \in Nat /\ PollInterval \in Nat
    /\ 0 < MIN_BACKOFF
    /\ MIN_BACKOFF <= MAX_TRANSIENT_BACKOFF
    /\ MAX_TRANSIENT_BACKOFF < SLEEP_BACKOFF
    /\ POST_YIELD_RETRY <= MAX_TRANSIENT_BACKOFF
    /\ HANDSHAKE_RETRY <= MAX_TRANSIENT_BACKOFF
    /\ 0 < POST_YIELD_GRACE
    /\ SLEEP_STREAK \in Nat \ {0}
    /\ COOLDOWN_THRESHOLD \in Nat \ {0}
    /\ COOLDOWN_LADDER \in Seq(Nat) /\ Len(COOLDOWN_LADDER) > 0

VARIABLES
    pc,                  \* where the task is
    timer,               \* remaining time of the sleep or tick it waits for
    backoff,
    host_down_streak,    \* saturates at StreakCap
    published_offline,
    post_yield_deadline, \* remaining time, or None
    announced,           \* slots in announced_identities
    avail,               \* last availability published per topic (retained)
    sess,                \* Session::state
    link,                \* the RFCOMM socket: none, up, or broken
    inv_session,         \* external: the inverter holds a session of ours
    poll_count,          \* modulo YieldEvery
    idx,                 \* target the sweep is at
    query,               \* query of that target's sweep
    failures,            \* target_consecutive_failures; saturates at FailCap
    skip_until,          \* target_skip_until: remaining time, or None
    swept                \* history: targets queried to the end this cycle

connVars == <<backoff, host_down_streak, published_offline, post_yield_deadline>>
mqttVars == <<announced, avail>>
sessVars == <<sess, link, inv_session>>
isoVars  == <<failures, skip_until>>
loopVars == <<poll_count, idx, query, swept>>
vars == <<pc, timer, connVars, mqttVars, sessVars, isoVars, loopVars>>

None == -1

\* Bound on the streak: the code tests it for = and >= SLEEP_STREAK only.
StreakCap == SLEEP_STREAK + 1

\* Bound on the failure count: past the last rung the cooldown stays the same.
FailCap == COOLDOWN_THRESHOLD + Len(COOLDOWN_LADDER)

MinOf(a, b) == IF a < b THEN a ELSE b

Init ==
    /\ pc = "connect"
    /\ timer = 0
    /\ backoff = MIN_BACKOFF
    /\ host_down_streak = 0
    /\ published_offline = FALSE
    /\ post_yield_deadline = None
    /\ announced = {Devices[i] : i \in 1..Len(Devices)}
    /\ avail = [t \in Topics |-> "unset"]
    /\ sess = "Disconnected"
    /\ link = "none"
    /\ inv_session = FALSE
    /\ poll_count = 0
    /\ idx = 1
    /\ query = 1
    /\ failures = [s \in Serials |-> 0]
    /\ skip_until = [s \in Serials |-> None]
    /\ swept = {}

-----------------------------------------------------------------------------
\* Connecting.

Connected ==
    /\ pc = "connect" /\ timer = 0
    /\ host_down_streak' = 0
    /\ post_yield_deadline' = None
    /\ backoff' = MIN_BACKOFF
    /\ sess' = "Handshaking"
    /\ link' = "up"
    /\ pc' = "handshake"
    /\ UNCHANGED <<timer, published_offline, mqttVars, inv_session, isoVars, loopVars>>

\* The availability topics a sleeping inverter flips.
BugParentTopicOnly == {Slot}
OfflineTopics == IF announced = {} THEN {Slot} ELSE announced

InGrace == post_yield_deadline # None /\ post_yield_deadline > 0

\* Whether a connect failure counts as a sign of sleep.
BugCountInGrace(hostDown) == hostDown
Counts(hostDown) == hostDown /\ ~InGrace

\* Whether the streak's new value flips the topics.
Flips(streak) == streak = SLEEP_STREAK /\ ~published_offline

BugUncapped(b) == 2 * b
Doubled(b) == MinOf(2 * b, MAX_TRANSIENT_BACKOFF)

\* The connect failed; hostDown tells EHOSTDOWN from every other error.  The
\* backoff is doubled after the sleep in the code, which nothing can observe.
ConnectFailed(hostDown) ==
    /\ pc = "connect" /\ timer = 0
    /\ LET streak == IF Counts(hostDown) THEN MinOf(host_down_streak + 1, StreakCap)
                                         ELSE host_down_streak
           flip   == Counts(hostDown) /\ Flips(streak)
       IN  /\ host_down_streak' = streak
           /\ avail' = [t \in Topics |-> IF flip /\ t \in OfflineTopics
                                          THEN "offline" ELSE avail[t]]
           /\ published_offline' = (published_offline \/ flip)
           /\ timer' = IF InGrace /\ hostDown THEN POST_YIELD_RETRY
                       ELSE IF streak >= SLEEP_STREAK THEN SLEEP_BACKOFF
                       ELSE backoff
           /\ backoff' = IF ~InGrace /\ streak < SLEEP_STREAK
                         THEN Doubled(backoff)
                         ELSE backoff
    /\ post_yield_deadline' = IF InGrace THEN post_yield_deadline ELSE None
    /\ UNCHANGED <<pc, announced, sessVars, isoVars, loopVars>>

-----------------------------------------------------------------------------
\* Logging on.

\* Session::close, without a logoff.
Close ==
    /\ sess' = "Disconnected"
    /\ link' = "none"

HandshakeFailed ==
    /\ pc = "handshake"
    /\ Close
    /\ timer' = HANDSHAKE_RETRY
    /\ backoff' = Doubled(backoff)
    /\ pc' = "connect"
    \* the handshake may have got as far as its own logoff, or as the logon
    /\ inv_session' \in BOOLEAN
    /\ UNCHANGED <<host_down_streak, published_offline, post_yield_deadline,
                   mqttVars, isoVars, loopVars>>

\* The topics set online after every logon.
BugOnlineOnce == IF announced = {} THEN TargetTopics ELSE {}
OnlineTopics == TargetTopics

\* Logged on: every target is announced and set online.
LoggedOn ==
    /\ pc = "handshake" /\ link = "up"
    /\ sess' = "LoggedIn"
    /\ inv_session' = TRUE
    /\ avail' = [t \in Topics |-> IF t \in OnlineTopics THEN "online" ELSE avail[t]]
    /\ announced' = IF announced = {} THEN TargetTopics ELSE announced
    /\ published_offline' = FALSE
    /\ pc' = "oneshots"
    /\ UNCHANGED <<timer, backoff, host_down_streak, post_yield_deadline, link,
                   isoVars, loopVars>>

BugKeepCooldowns ==
    /\ pc = "oneshots"
    /\ poll_count' = 0
    /\ failures' = [s \in Serials |-> 0]
    /\ timer' = 0
    /\ pc' = "tick"
    /\ UNCHANGED <<connVars, mqttVars, sessVars, skip_until, idx, query, swept>>

\* Event-log and identity queries, whose errors are ignored, and the state
\* the poll loop starts with.  The first tick is immediate.
OneShots ==
    /\ pc = "oneshots"
    /\ poll_count' = 0
    /\ failures' = [s \in Serials |-> 0]
    /\ skip_until' = [s \in Serials |-> None]
    /\ timer' = 0
    /\ pc' = "tick"
    /\ UNCHANGED <<connVars, mqttVars, sessVars, idx, query, swept>>

-----------------------------------------------------------------------------
\* Polling.

BugNoLogoff == Close /\ UNCHANGED inv_session

BugFailedLogoffKeepsSocket ==
    /\ inv_session' = (inv_session /\ ~(sess = "LoggedIn" /\ link = "up"))
    /\ sess' = "Disconnected"
    /\ link' = IF link = "broken" THEN "broken" ELSE "none"

\* Session::graceful_close: a logoff while logged in, lost on a broken link,
\* then close.
GracefulClose ==
    /\ inv_session' = (inv_session /\ ~(sess = "LoggedIn" /\ link = "up"))
    /\ Close

Yields == YieldEvery > 0 /\ (poll_count + 1) % YieldEvery = 0

PollCountNext == IF YieldEvery = 0 THEN 0 ELSE (poll_count + 1) % YieldEvery

\* A tick that yields the link to another integration.
TickYield ==
    /\ pc = "tick" /\ timer = 0 /\ Yields
    /\ poll_count' = PollCountNext
    /\ GracefulClose
    /\ timer' = YieldDuration
    /\ pc' = "yielding"
    /\ UNCHANGED <<connVars, mqttVars, isoVars, idx, query, swept>>

\* The yield is over.  The close after the poll loop finds nothing to close.
YieldOver ==
    /\ pc = "yielding" /\ timer = 0
    /\ post_yield_deadline' = POST_YIELD_GRACE
    /\ GracefulClose
    /\ pc' = "connect"
    /\ UNCHANGED <<timer, backoff, host_down_streak, published_offline, mqttVars,
                   isoVars, loopVars>>

TickPoll ==
    /\ pc = "tick" /\ timer = 0 /\ ~Yields
    /\ poll_count' = PollCountNext
    /\ idx' = 1
    /\ swept' = {}
    /\ pc' = "target"
    /\ UNCHANGED <<timer, connVars, mqttVars, sessVars, isoVars, query>>

TheSerial == Serial[Targets[idx]]

BugGateRearms ==
    /\ pc = "target" /\ idx \in TargetIdx
    /\ skip_until[TheSerial] > 0
    /\ skip_until' = [skip_until EXCEPT ![TheSerial] = COOLDOWN_LADDER[1]]
    /\ idx' = idx + 1
    /\ UNCHANGED <<pc, timer, connVars, mqttVars, sessVars, failures, poll_count,
                   query, swept>>

\* The cooldown gate in front of a target's queries.
SkipTarget ==
    /\ pc = "target" /\ idx \in TargetIdx
    /\ skip_until[TheSerial] > 0
    /\ idx' = idx + 1
    /\ UNCHANGED <<pc, timer, connVars, mqttVars, sessVars, isoVars, poll_count,
                   query, swept>>

StartTarget ==
    /\ pc = "target" /\ idx \in TargetIdx
    /\ skip_until[TheSerial] <= 0
    /\ skip_until' = [skip_until EXCEPT ![TheSerial] = None]
    /\ query' = 1
    /\ pc' = "query"
    /\ UNCHANGED <<timer, connVars, mqttVars, sessVars, failures, poll_count, idx,
                   swept>>

BugFailureEndsSweep(key) ==
    /\ pc' = "target" /\ idx' = Len(Targets) + 1 /\ UNCHANGED sess

\* publish_value on a key the catalog lacks panics and unwinds the task; the
\* transport has no Drop, so its socket stays open.
Account(key) ==
    IF key \in Catalog
    THEN pc' = "target" /\ idx' = idx + 1 /\ UNCHANGED sess
    ELSE pc' = "panicked" /\ sess' = "Disconnected" /\ UNCHANGED idx

QueryOk ==
    /\ pc = "query" /\ link = "up" /\ query < NumQueries
    /\ query' = query + 1
    /\ UNCHANGED <<pc, timer, connVars, mqttVars, sessVars, isoVars, poll_count,
                   idx, swept>>

\* The last query of the sweep succeeded.
TargetOk ==
    /\ pc = "query" /\ link = "up" /\ query = NumQueries
    /\ failures' = [failures EXCEPT ![TheSerial] = 0]
    /\ swept' = swept \cup {idx}
    /\ Account("consecutive_failures")
    /\ UNCHANGED <<timer, connVars, mqttVars, link, inv_session, skip_until,
                   poll_count, query>>

Cooldown(n) ==
    IF n - COOLDOWN_THRESHOLD + 1 <= Len(COOLDOWN_LADDER)
    THEN COOLDOWN_LADDER[n - COOLDOWN_THRESHOLD + 1]
    ELSE COOLDOWN_LADDER[Len(COOLDOWN_LADDER)]

\* A query failed without breaking the session: the rest of this target's
\* sweep is dropped and its failure counted.
TargetFailed ==
    /\ pc = "query" /\ link = "up"
    /\ LET n == MinOf(failures[TheSerial] + 1, FailCap)
       IN  /\ failures' = [failures EXCEPT ![TheSerial] = n]
           /\ skip_until' =
                IF n >= COOLDOWN_THRESHOLD /\ "consecutive_failures" \in Catalog
                THEN [skip_until EXCEPT ![TheSerial] = Cooldown(n)]
                ELSE skip_until
    /\ swept' = swept \cup {idx}
    /\ Account("consecutive_failures")
    /\ UNCHANGED <<timer, connVars, mqttVars, link, inv_session, poll_count, query>>

\* A session-fatal query error ends the cycle and the session.
QueryFatal ==
    /\ pc = "query"
    /\ GracefulClose
    /\ pc' = "connect"
    /\ UNCHANGED <<timer, connVars, mqttVars, isoVars, loopVars>>

\* All targets done.  The ticker fires at its interval, or at once when the
\* sweep overran it.
CycleDone ==
    /\ pc = "target" /\ idx \notin TargetIdx
    /\ timer' \in 0..PollInterval
    /\ pc' = "tick"
    /\ UNCHANGED <<connVars, mqttVars, sessVars, isoVars, loopVars>>

-----------------------------------------------------------------------------
\* The environment.

Running == pc \notin {"panicked", "aborted"}

\* The link drops under the session.
LinkBreaks ==
    /\ Running /\ link = "up"
    /\ link' = "broken"
    /\ UNCHANGED <<pc, timer, connVars, mqttVars, sess, inv_session, isoVars, loopVars>>

Elapse(r) == IF r > 0 THEN r - 1 ELSE r

Tick ==
    /\ Running
    /\ \/ timer > 0
       \/ post_yield_deadline > 0
       \/ \E s \in Serials : skip_until[s] > 0
    /\ timer' = Elapse(timer)
    /\ post_yield_deadline' = Elapse(post_yield_deadline)
    /\ skip_until' = [s \in Serials |-> Elapse(skip_until[s])]
    /\ UNCHANGED <<pc, backoff, host_down_streak, published_offline, mqttVars,
                   sessVars, failures, loopVars>>

\* Ctrl-C: main aborts the task at its next await and the process exits.
Shutdown ==
    /\ MayShutDown /\ Running
    /\ pc' = "aborted"
    /\ Close
    /\ UNCHANGED <<timer, connVars, mqttVars, inv_session, isoVars, loopVars>>

Task ==
    \/ Connected \/ (\E h \in BOOLEAN : ConnectFailed(h))
    \/ HandshakeFailed \/ LoggedOn \/ OneShots
    \/ TickYield \/ YieldOver \/ TickPoll
    \/ SkipTarget \/ StartTarget
    \/ QueryOk \/ TargetOk \/ TargetFailed \/ QueryFatal \/ CycleDone

Next == Task \/ LinkBreaks \/ Tick \/ Shutdown

Spec == Init /\ [][Next]_vars

\* The task is scheduled and time passes.  That connects and handshakes do
\* not fail forever is the inverter's part: it wakes up in the morning.
Fairness ==
    /\ WF_vars(Task)
    /\ WF_vars(Tick)
    /\ SF_vars(Connected)
    /\ SF_vars(LoggedOn)

FairSpec == Spec /\ Fairness

-----------------------------------------------------------------------------
Remaining(d) == {None} \cup 0..d

\* The variables hold values of their types, and the waits stay within the
\* bounds the constants of run_inverter set: however connect failures,
\* handshake failures and successes follow one another, backoff stays in
\* MIN_BACKOFF..MAX_TRANSIENT_BACKOFF.
TypeOK ==
    /\ pc \in {"connect", "handshake", "oneshots", "tick", "yielding", "target",
               "query", "panicked", "aborted"}
    /\ timer \in Nat
    /\ backoff \in MIN_BACKOFF..MAX_TRANSIENT_BACKOFF
    /\ host_down_streak \in 0..StreakCap
    /\ published_offline \in BOOLEAN
    /\ post_yield_deadline \in Remaining(POST_YIELD_GRACE)
    /\ announced \in SUBSET Topics
    /\ avail \in [Topics -> {"unset", "online", "offline"}]
    /\ sess \in {"Disconnected", "Handshaking", "LoggedIn"}
    /\ link \in {"none", "up", "broken"}
    /\ inv_session \in BOOLEAN
    /\ poll_count \in Nat
    /\ idx \in 1..(Len(Targets) + 1)
    /\ query \in 1..NumQueries
    /\ failures \in [Serials -> 0..FailCap]
    /\ skip_until \in [Serials -> Int]
    /\ swept \subseteq TargetIdx

AllTargets(a) == \A t \in TargetTopics : avail[t] = a

\* The flag published_offline and the retained topics agree, and a streak
\* that makes the daemon wait as for a sleeping inverter has been announced:
\* Home Assistant never shows an inverter as available that is not even being
\* tried for SLEEP_BACKOFF.  The flag survives a connect whose handshake then
\* fails, so the next streak must not count on publishing again.
SleepIsAnnounced ==
    /\ published_offline => AllTargets("offline")
    /\ host_down_streak >= SLEEP_STREAK => published_offline
    /\ pc = "connect" /\ timer > MAX_TRANSIENT_BACKOFF => AllTargets("offline")

\* A logged-in session and the retained topics agree on every target: a stale
\* offline published during the night does not outlive the next logon, and
\* nothing the session does takes an online back.  That covers a target that
\* has been silent for so long that it is in its cooldown, too: its failures
\* are counted and it is skipped, but no code takes it offline on its own, as
\* docs/adr/0005 (lines 91-95) decides it should be.
LoggedInIsOnline == sess = "LoggedIn" => AllTargets("online")

\* In the window after a yield, host-down errors are the radio coming back:
\* they are not counted and flip nothing, and the wait stays short.
GraceKeepsOnline ==
    post_yield_deadline # None =>
        /\ host_down_streak = 0
        /\ AllTargets("online")
        /\ timer <= MAX_TRANSIENT_BACKOFF

\* Every way out of a session closes its socket before the next connect,
\* whether the link was broken, yielded, or refused the logon; and while a
\* session lives it is the one that owns the socket.
OneSocket == Running => (link = "none" <=> sess = "Disconnected")

\* A target is skipped only after COOLDOWN_THRESHOLD failures in a row in
\* this session, for no longer than the rung its failures have reached; a
\* target being queried is in no cooldown.
CooldownEarned ==
    pc \in {"tick", "target", "query"} =>
        /\ \A s \in Serials : skip_until[s] # None =>
              /\ failures[s] >= COOLDOWN_THRESHOLD
              /\ skip_until[s] <= Cooldown(failures[s])
        /\ pc = "query" => skip_until[TheSerial] = None

\* Failure isolation: whatever happened to the targets before it, when the
\* sweep moves on every one of them has been queried in this cycle or is in
\* a cooldown.
EveryTargetServed ==
    pc = "target" =>
        \A i \in 1..(idx - 1) : i \in swept \/ skip_until[Serial[Targets[i]]] # None

\* No session is given up while the link is up without a logoff reaching the
\* inverter, which would otherwise refuse the next logon; except where the
\* task ends in the middle of it, by Ctrl-C or by the panic of publish_value.
LogoffOnTeardown ==
    [][sess = "LoggedIn" /\ sess' # "LoggedIn" /\ link = "up"
          /\ pc' \notin {"aborted", "panicked"} => ~inv_session']_vars

\* A cooldown is armed by a query of that very target that failed, never by
\* the gate that skips it or by its neighbour: a silent target is probed once
\* per rung, and whatever else happens its cooldown only runs down.
CooldownRunsDown ==
    [][\A s \in Serials : skip_until'[s] > skip_until[s] =>
          pc = "query" /\ s = TheSerial /\ skip_until[s] = None]_vars

\* Publishing a poll result does not end the task.
TaskSurvives == pc # "panicked"

\* A broken link is noticed and its socket closed, though nothing but a
\* query can notice it and targets in cooldown are not queried.
BrokenLinkDropped == link = "broken" ~> link = "none"

\* After a night the targets come back online, unless the daemon is stopped.
Recovery == published_offline ~> AllTargets("online") \/ ~Running
=============================================================================
