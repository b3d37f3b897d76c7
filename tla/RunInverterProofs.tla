------------------------- MODULE RunInverterProofs --------------------------
(***************************************************************************)
(* Theorems about run_inverter, for every configuration and all durations  *)
(* that compare as the code's do: its types and the bounds of its waits,   *)
(* one socket at a time, what Home Assistant is shown about an inverter    *)
(* that sleeps, is logged on, or is coming back from a yield, and that     *)
(* the targets of one session do not suffer from each other's failures.    *)
(***************************************************************************)
EXTENDS RunInverter, SequenceTheorems, TLAPS

\* The code's places inside a logged-on session.
InSession == {"oneshots", "tick", "target", "query"}

-----------------------------------------------------------------------------
\* Types.

TypeInv == TypeOK /\ (pc = "query" => idx \in TargetIdx)

\* A one-element sequence.
LEMMA Singleton ==
    ASSUME NEW S, NEW x \in S
    PROVE  <<x>> \in Seq(S)
  OBVIOUS

\* A list of targets is a nonempty sequence of topics.
LEMMA TargetFacts ==
    /\ Targets \in Seq(STRING)
    /\ Len(Targets) \in Nat
    /\ \A i \in TargetIdx : Targets[i] \in TargetTopics
    /\ TargetTopics \subseteq Topics
    /\ \A i \in TargetIdx : Serial[Targets[i]] \in Serials
<1>1. Targets \in Seq(STRING) /\ Len(Targets) \in Nat
  <2>1. <<Slot>> \in Seq(STRING)
    BY ConfigAssumption, Singleton, Zenon
  <2>2. Targets \in Seq(STRING)
    BY <2>1, ConfigAssumption, Zenon DEF Targets
  <2> QED
    BY <2>2, LenProperties
<1>2. \A i \in TargetIdx : Targets[i] \in TargetTopics
  BY DEF TargetTopics
<1>3. TargetTopics \subseteq Topics
  <2>1. CASE Devices = <<>>
    <3>1. Targets = <<Slot>> /\ TargetIdx = 1..1
      BY <2>1 DEF Targets, TargetIdx
    <3>2. TargetTopics = {Slot}
      BY <3>1 DEF TargetTopics
    <3> QED
      BY <3>2 DEF Topics
  <2>2. CASE Devices # <<>>
    BY <2>2 DEF TargetTopics, Topics, Targets, TargetIdx
  <2> QED
    BY <2>1, <2>2
<1>4. \A i \in TargetIdx : Serial[Targets[i]] \in Serials
  BY <1>2 DEF Serials
<1> QED
  BY <1>1, <1>2, <1>3, <1>4

\* The capped arithmetic stays within its bounds.
LEMMA Arithmetic ==
    /\ StreakCap \in Nat /\ FailCap \in Nat
    /\ \A n \in 0..StreakCap : MinOf(n + 1, StreakCap) \in 0..StreakCap
    /\ \A n \in 0..FailCap : MinOf(n + 1, FailCap) \in 0..FailCap
    /\ \A b \in MIN_BACKOFF..MAX_TRANSIENT_BACKOFF :
          Doubled(b) \in MIN_BACKOFF..MAX_TRANSIENT_BACKOFF
  BY DurationAssumption DEF StreakCap, FailCap, MinOf, Doubled

\* A cooldown is one of the ladder's durations.
LEMMA CooldownType ==
    ASSUME NEW n \in 0..FailCap, n >= COOLDOWN_THRESHOLD
    PROVE  Cooldown(n) \in Nat
<1>1. /\ COOLDOWN_LADDER \in Seq(Nat) /\ Len(COOLDOWN_LADDER) \in Nat
      /\ Len(COOLDOWN_LADDER) > 0 /\ COOLDOWN_THRESHOLD \in Nat /\ n \in Int
  BY DurationAssumption DEF FailCap
<1>2. \A i \in 1..Len(COOLDOWN_LADDER) : COOLDOWN_LADDER[i] \in Nat
  BY <1>1
<1> QED
  BY <1>1, <1>2 DEF Cooldown

\* A task that starts has its types right.
LEMMA InitTypeInv == Init => TypeInv
<1> SUFFICES ASSUME Init PROVE TypeInv
  OBVIOUS
<1>1. announced \in SUBSET Topics
  BY DEF Init, Topics
<1>2. Len(Targets) \in Nat /\ StreakCap \in Nat /\ FailCap \in Nat
  BY TargetFacts, Arithmetic
<1>3. /\ failures \in [Serials -> 0..FailCap]
      /\ skip_until \in [Serials -> Int]
      /\ avail \in [Topics -> {"unset", "online", "offline"}]
  BY <1>2 DEF Init, None
<1>4. /\ idx \in 1..(Len(Targets) + 1) /\ query \in 1..NumQueries
      /\ host_down_streak \in 0..StreakCap
      /\ backoff \in MIN_BACKOFF..MAX_TRANSIENT_BACKOFF
  BY <1>2, ConfigAssumption, DurationAssumption DEF Init
<1> QED
  BY <1>1, <1>3, <1>4 DEF Init, TypeInv, TypeOK, Remaining, None

\* Connecting and logging on keep the types.
LEMMA ConnectTypeInv ==
    ASSUME TypeInv,
           Connected \/ (\E h \in BOOLEAN : ConnectFailed(h)) \/ HandshakeFailed
           \/ LoggedOn \/ OneShots
    PROVE  TypeInv'
<1>1. CASE Connected
  BY <1>1, DurationAssumption, Arithmetic
     DEF Connected, TypeInv, TypeOK, Remaining, None, mqttVars, isoVars, loopVars
<1>2. ASSUME NEW h \in BOOLEAN, ConnectFailed(h) PROVE TypeInv'
  <2>1. PICK streak \in 0..StreakCap :
          streak = IF Counts(h) THEN MinOf(host_down_streak + 1, StreakCap)
                                ELSE host_down_streak
    BY Arithmetic DEF TypeInv, TypeOK
  <2>2. /\ host_down_streak' = streak
        /\ timer' \in {POST_YIELD_RETRY, SLEEP_BACKOFF, backoff}
        /\ backoff' \in {backoff, Doubled(backoff)}
        /\ published_offline' \in {published_offline,
                                   published_offline \/ (Counts(h) /\ Flips(streak))}
        /\ post_yield_deadline' \in {post_yield_deadline, None}
    BY <1>2, <2>1 DEF ConnectFailed
  <2>3. avail' \in [Topics -> {"unset", "online", "offline"}]
    BY <1>2 DEF ConnectFailed, TypeInv, TypeOK
  <2>4. published_offline' \in BOOLEAN
    BY <1>2, Zenon DEF ConnectFailed, TypeInv, TypeOK
  <2>5. UNCHANGED <<pc, announced, sess, link, inv_session, failures, skip_until,
                    poll_count, idx, query, swept>>
    BY <1>2 DEF ConnectFailed, sessVars, isoVars, loopVars
  <2>6. timer' \in Nat /\ backoff' \in MIN_BACKOFF..MAX_TRANSIENT_BACKOFF
    <3>1. backoff \in MIN_BACKOFF..MAX_TRANSIENT_BACKOFF
      BY DEF TypeInv, TypeOK
    <3>2. backoff \in Nat /\ POST_YIELD_RETRY \in Nat /\ SLEEP_BACKOFF \in Nat
      BY <3>1, DurationAssumption
    <3>3. timer' \in Nat
      BY <2>2, <3>2, Zenon
    <3>4. backoff' \in MIN_BACKOFF..MAX_TRANSIENT_BACKOFF
      BY <2>2, <3>1, Arithmetic, Zenon
    <3> QED
      BY <3>3, <3>4
  <2> QED
    BY <2>2, <2>3, <2>4, <2>5, <2>6 DEF TypeInv, TypeOK, Remaining
<1>3. CASE HandshakeFailed
  BY <1>3, DurationAssumption, Arithmetic
     DEF HandshakeFailed, Close, TypeInv, TypeOK, mqttVars, isoVars, loopVars
<1>4. CASE LoggedOn
  BY <1>4, TargetFacts
     DEF LoggedOn, OnlineTopics, TypeInv, TypeOK, isoVars, loopVars
<1>5. CASE OneShots
  BY <1>5, Arithmetic
     DEF OneShots, TypeInv, TypeOK, connVars, mqttVars, sessVars, None
<1> QED
  BY <1>1, <1>2, <1>3, <1>4, <1>5

\* Polling keeps the types.
LEMMA PollTypeInv ==
    ASSUME TypeInv,
           TickYield \/ YieldOver \/ TickPoll \/ SkipTarget \/ StartTarget \/ QueryOk
           \/ TargetOk \/ TargetFailed \/ QueryFatal \/ CycleDone
    PROVE  TypeInv'
<1>1. /\ Len(Targets) \in Nat /\ NumQueries \in Nat \ {0}
      /\ idx \in 1..(Len(Targets) + 1) /\ query \in 1..NumQueries /\ poll_count \in Nat
  BY TargetFacts, ConfigAssumption DEF TypeInv, TypeOK
<1>2. PollCountNext \in Nat
  <2>1. CASE YieldEvery = 0
    BY <2>1 DEF PollCountNext
  <2>2. CASE YieldEvery # 0
    <3>1. YieldEvery \in Nat /\ YieldEvery > 0 /\ poll_count + 1 \in Nat
      BY <1>1, <2>2, ConfigAssumption
    <3>2. (poll_count + 1) % YieldEvery \in 0..(YieldEvery - 1)
      BY <3>1
    <3> QED
      BY <2>2, <3>1, <3>2 DEF PollCountNext
  <2> QED
    BY <2>1, <2>2
<1>3. CASE TickYield
  BY <1>2, <1>3, DurationAssumption
     DEF TickYield, GracefulClose, Close, TypeInv, TypeOK, connVars, mqttVars, isoVars
<1>4. CASE YieldOver
  BY <1>4, DurationAssumption
     DEF YieldOver, GracefulClose, Close, TypeInv, TypeOK, Remaining, mqttVars, isoVars,
         loopVars
<1>5. CASE TickPoll
  BY <1>1, <1>2, <1>5
     DEF TickPoll, TypeInv, TypeOK, connVars, mqttVars, sessVars, isoVars
<1>6. CASE SkipTarget
  <2>1. idx' \in 1..(Len(Targets) + 1)
    BY <1>1, <1>6 DEF SkipTarget, TargetIdx
  <2> QED
    BY <1>6, <2>1
       DEF SkipTarget, TypeInv, TypeOK, connVars, mqttVars, sessVars, isoVars
<1>7. CASE StartTarget
  <2>1. query' \in 1..NumQueries
    BY <1>1, <1>7 DEF StartTarget
  <2>2. None \in Int
    BY DEF None
  <2>3. skip_until' \in [Serials -> Int]
    BY <1>7, <2>2 DEF StartTarget, TypeInv, TypeOK
  <2>4. idx' \in TargetIdx
    BY <1>7 DEF StartTarget
  <2> QED
    BY <1>7, <2>1, <2>3, <2>4
       DEF StartTarget, TypeInv, TypeOK, connVars, mqttVars, sessVars
<1>8. CASE QueryOk
  <2>1. query' \in 1..NumQueries
    BY <1>1, <1>8 DEF QueryOk
  <2> QED
    BY <1>8, <2>1
       DEF QueryOk, TypeInv, TypeOK, connVars, mqttVars, sessVars, isoVars
<1>9. ASSUME pc = "query", Account("consecutive_failures"),
             swept' = swept \cup {idx},
             failures' \in [Serials -> 0..FailCap], skip_until' \in [Serials -> Int],
             UNCHANGED <<timer, connVars, mqttVars, link, inv_session, poll_count, query>>
      PROVE  TypeInv'
  <2>1. idx \in TargetIdx /\ idx + 1 \in 1..(Len(Targets) + 1)
    BY <1>1, <1>9 DEF TypeInv, TargetIdx
  <2>2. /\ pc' \in {"target", "panicked"}
        /\ idx' \in {idx, idx + 1}
        /\ sess' \in {sess, "Disconnected"}
    BY <1>9 DEF Account
  <2> QED
    BY <1>1, <1>9, <2>1, <2>2 DEF TypeInv, TypeOK, connVars, mqttVars
<1>10. ASSUME pc = "query" PROVE failures[TheSerial] \in 0..FailCap
  BY <1>10, TargetFacts DEF TypeInv, TypeOK, TheSerial
<1>11. CASE TargetOk
  <2>0. 0 \in 0..FailCap
    BY Arithmetic
  <2>1. failures' \in [Serials -> 0..FailCap]
    BY <1>11, <2>0 DEF TargetOk, TypeInv, TypeOK
  <2>2. skip_until' \in [Serials -> Int]
    BY <1>11 DEF TargetOk, TypeInv, TypeOK
  <2> QED
    BY <1>9, <1>11, <2>1, <2>2 DEF TargetOk
<1>12. CASE TargetFailed
  <2>1. PICK n \in 0..FailCap : n = MinOf(failures[TheSerial] + 1, FailCap)
    BY <1>10, <1>12, Arithmetic DEF TargetFailed
  <2>2. failures' = [failures EXCEPT ![TheSerial] = n]
    BY <1>12, <2>1 DEF TargetFailed
  <2>3. failures' \in [Serials -> 0..FailCap]
    BY <2>1, <2>2 DEF TypeInv, TypeOK
  <2>4. \/ skip_until' = skip_until
        \/ n >= COOLDOWN_THRESHOLD /\ skip_until' = [skip_until EXCEPT ![TheSerial] = Cooldown(n)]
    BY <1>12, <2>1 DEF TargetFailed
  <2>5. skip_until' \in [Serials -> Int]
    <3>1. CASE skip_until' = skip_until
      BY <3>1 DEF TypeInv, TypeOK
    <3>2. CASE n >= COOLDOWN_THRESHOLD
               /\ skip_until' = [skip_until EXCEPT ![TheSerial] = Cooldown(n)]
      <4>1. Cooldown(n) \in Int
        BY <2>1, <3>2, CooldownType
      <4> QED
        BY <3>2, <4>1 DEF TypeInv, TypeOK
    <3> QED
      BY <2>4, <3>1, <3>2
  <2> QED
    BY <1>9, <1>12, <2>3, <2>5 DEF TargetFailed
<1>13. CASE QueryFatal
  BY <1>13 DEF QueryFatal, GracefulClose, Close, TypeInv, TypeOK, connVars, mqttVars,
               isoVars, loopVars
<1>14. CASE CycleDone
  BY <1>14, DurationAssumption
     DEF CycleDone, TypeInv, TypeOK, connVars, mqttVars, sessVars, isoVars, loopVars
<1> QED
  BY <1>3, <1>4, <1>5, <1>6, <1>7, <1>8, <1>11, <1>12, <1>13, <1>14

\* The environment keeps the types.
LEMMA EnvironmentTypeInv ==
    ASSUME TypeInv, LinkBreaks \/ Tick \/ Shutdown
    PROVE  TypeInv'
<1>1. CASE LinkBreaks
  BY <1>1 DEF LinkBreaks, TypeInv, TypeOK, connVars, mqttVars, isoVars, loopVars
<1>2. CASE Tick
  <2>1. timer' \in Nat /\ skip_until' \in [Serials -> Int]
    BY <1>2 DEF Tick, Elapse, TypeInv, TypeOK
  <2>2. post_yield_deadline' \in Remaining(POST_YIELD_GRACE)
    BY <1>2, DurationAssumption DEF Tick, Elapse, TypeInv, TypeOK, Remaining, None
  <2> QED
    BY <1>2, <2>1, <2>2 DEF Tick, TypeInv, TypeOK, mqttVars, sessVars, loopVars
<1>3. CASE Shutdown
  BY <1>3 DEF Shutdown, Close, TypeInv, TypeOK, connVars, mqttVars, isoVars, loopVars
<1> QED
  BY <1>1, <1>2, <1>3

\* Every step keeps the types.
LEMMA NextTypeInv == TypeInv /\ [Next]_vars => TypeInv'
<1> SUFFICES ASSUME TypeInv, [Next]_vars PROVE TypeInv'
  OBVIOUS
<1>1. CASE Task
  BY <1>1, ConnectTypeInv, PollTypeInv DEF Task
<1>2. CASE LinkBreaks \/ Tick \/ Shutdown
  BY <1>2, EnvironmentTypeInv
<1>3. CASE UNCHANGED vars
  BY <1>3 DEF vars, connVars, mqttVars, sessVars, isoVars, loopVars, TypeInv, TypeOK
<1> QED
  BY <1>1, <1>2, <1>3 DEF Next

\* The variables keep their types and the waits their bounds, for every
\* configuration: backoff never leaves MIN_BACKOFF..MAX_TRANSIENT_BACKOFF.
THEOREM RunInverterTypes == Spec => []TypeOK
<1>1. TypeInv => TypeOK
  BY DEF TypeInv
<1> QED
  BY <1>1, InitTypeInv, NextTypeInv, PTL DEF Spec

-----------------------------------------------------------------------------
\* The inductive invariant behind the safety properties: where the task is
\* decides what it owns and what it has published.

\* A sleep always flips exactly the targets.
AnnouncedInv ==
    announced = TargetTopics \/ (announced = {} /\ TargetTopics = {Slot})

SocketInv ==
    /\ pc \in {"connect", "yielding", "aborted"} => sess = "Disconnected" /\ link = "none"
    /\ pc = "handshake" => sess = "Handshaking" /\ link # "none"
    /\ pc \in InSession => sess = "LoggedIn" /\ link # "none"
    /\ pc = "panicked" => sess = "Disconnected"

\* Only a sleep and the ticker run a timer.
TimerInv == pc \notin {"connect", "tick", "yielding", "aborted"} => timer = 0

AvailInv ==
    /\ published_offline => AllTargets("offline")
    /\ host_down_streak >= SLEEP_STREAK => published_offline
    /\ pc = "connect" /\ timer > MAX_TRANSIENT_BACKOFF => published_offline
    /\ pc \in InSession \cup {"yielding"} => AllTargets("online") /\ ~published_offline
    /\ pc \notin {"connect", "aborted"} => host_down_streak = 0

GraceInv ==
    post_yield_deadline # None =>
        /\ pc \in {"connect", "aborted"}
        /\ host_down_streak = 0
        /\ AllTargets("online")
        /\ ~published_offline
        /\ timer <= MAX_TRANSIENT_BACKOFF

IInv == TypeInv /\ AnnouncedInv /\ SocketInv /\ TimerInv /\ AvailInv /\ GraceInv

\* Steps that publish nothing keep what has been published.
LEMMA AvailUnchanged ==
    ASSUME UNCHANGED avail
    PROVE  /\ AllTargets("offline")' <=> AllTargets("offline")
           /\ AllTargets("online")' <=> AllTargets("online")
  BY DEF AllTargets

\* In either mode the topics a sleep flips are the targets'.
LEMMA FlippedTopics == AnnouncedInv /\ TargetTopics # {} => OfflineTopics = TargetTopics
  BY DEF AnnouncedInv, OfflineTopics

\* There is at least one target.
LEMMA SomeTarget == TargetTopics # {}
<1>1. CASE Devices = <<>>
  BY <1>1 DEF TargetTopics, Targets, TargetIdx
<1>2. CASE Devices # <<>>
  <2>1. Len(Devices) \in Nat \ {0}
    BY <1>2, ConfigAssumption, LenProperties, EmptySeq
  <2>2. 1 \in TargetIdx
    BY <1>2, <2>1 DEF TargetIdx, Targets
  <2> QED
    BY <2>2 DEF TargetTopics
<1> QED
  BY <1>1, <1>2

\* A task that starts satisfies the invariant.
LEMMA InitIInv == Init => IInv
<1> SUFFICES ASSUME Init PROVE IInv
  OBVIOUS
<1>1. AnnouncedInv
  <2>1. CASE Devices = <<>>
    <3>1. Len(Devices) = 0 /\ Targets = <<Slot>> /\ Len(Targets) = 1 /\ Targets[1] = Slot
      BY <2>1 DEF Targets
    <3>2. announced = {} /\ TargetTopics = {Slot}
      BY <3>1 DEF Init, TargetTopics, TargetIdx
    <3> QED
      BY <3>2 DEF AnnouncedInv
  <2>2. CASE Devices # <<>>
    BY <2>2 DEF Init, AnnouncedInv, TargetTopics, Targets, TargetIdx
  <2> QED
    BY <2>1, <2>2
<1>2. SocketInv /\ TimerInv /\ GraceInv
  BY DEF Init, SocketInv, TimerInv, GraceInv, InSession
<1>3. AvailInv
  BY DurationAssumption DEF Init, AvailInv, InSession
<1> QED
  BY <1>1, <1>2, <1>3, InitTypeInv DEF IInv

\* A failed connect keeps the invariant: the flip reaches every target, and
\* none happens in the grace window.
LEMMA ConnectFailedIInv ==
    ASSUME IInv, NEW h \in BOOLEAN, ConnectFailed(h)
    PROVE  AnnouncedInv' /\ SocketInv' /\ TimerInv' /\ AvailInv' /\ GraceInv'
<1>1. PICK streak \in 0..StreakCap :
          streak = IF Counts(h) THEN MinOf(host_down_streak + 1, StreakCap)
                                ELSE host_down_streak
  BY Arithmetic DEF IInv, TypeInv, TypeOK
<1>2. PICK flip \in BOOLEAN : flip = (Counts(h) /\ Flips(streak))
  OBVIOUS
<1>3. /\ pc = "connect" /\ pc' = "connect"
      /\ host_down_streak' = streak
      /\ published_offline' = (published_offline \/ flip)
      /\ avail' = [t \in Topics |-> IF flip /\ t \in OfflineTopics
                                    THEN "offline" ELSE avail[t]]
      /\ timer' = IF InGrace /\ h THEN POST_YIELD_RETRY
                  ELSE IF streak >= SLEEP_STREAK THEN SLEEP_BACKOFF ELSE backoff
      /\ post_yield_deadline' = IF InGrace THEN post_yield_deadline ELSE None
      /\ UNCHANGED <<announced, sess, link>>
  BY <1>1, <1>2 DEF ConnectFailed, sessVars
<1>4. backoff \in Nat /\ backoff <= MAX_TRANSIENT_BACKOFF
  BY DurationAssumption DEF IInv, TypeInv, TypeOK
<1>5. AnnouncedInv' /\ SocketInv' /\ TimerInv'
  BY <1>3 DEF IInv, AnnouncedInv, SocketInv, TimerInv, InSession
<1>6. CASE flip
  <2>1. Counts(h) /\ Flips(streak) /\ ~InGrace
    BY <1>2, <1>6 DEF Counts
  <2>2. AllTargets("offline")'
    BY <1>3, <1>6, FlippedTopics, SomeTarget, TargetFacts DEF IInv, AllTargets
  <2>3. published_offline' /\ post_yield_deadline' = None
    BY <1>3, <1>6, <2>1
  <2> QED
    BY <1>3, <1>5, <2>2, <2>3 DEF AvailInv, GraceInv, InSession
<1>7. CASE ~flip
  <2>1. avail' = avail /\ published_offline' = published_offline
    <3>1. avail \in [Topics -> {"unset", "online", "offline"}]
          /\ published_offline \in BOOLEAN
      BY DEF IInv, TypeInv, TypeOK
    <3> QED
      BY <1>3, <1>7, <3>1
  <2>2. streak >= SLEEP_STREAK => published_offline
    <3>1. CASE Counts(h)
      <4>1. ~Flips(streak)
        BY <1>2, <1>7, <3>1
      <4>2. streak # SLEEP_STREAK \/ published_offline
        BY <4>1 DEF Flips
      <4>3. streak = host_down_streak + 1 \/ host_down_streak >= SLEEP_STREAK
        BY <1>1, <3>1, DurationAssumption DEF MinOf, StreakCap, IInv, TypeInv, TypeOK
      <4>4. streak > SLEEP_STREAK => host_down_streak >= SLEEP_STREAK
        BY <1>1, <4>3, DurationAssumption DEF IInv, TypeInv, TypeOK, StreakCap
      <4>5. streak >= SLEEP_STREAK => streak = SLEEP_STREAK \/ streak > SLEEP_STREAK
        BY <1>1, DurationAssumption DEF StreakCap
      <4> QED
        BY <4>2, <4>4, <4>5, Zenon DEF IInv, AvailInv
    <3>2. CASE ~Counts(h)
      BY <1>1, <3>2 DEF IInv, AvailInv
    <3> QED
      BY <3>1, <3>2
  <2>3. timer' > MAX_TRANSIENT_BACKOFF => published_offline
    BY <1>3, <1>4, <2>2, DurationAssumption
  <2>4. AvailInv'
    BY <1>3, <2>1, <2>2, <2>3, AvailUnchanged DEF IInv, AvailInv, InSession
  <2>5. GraceInv'
    <3>1. CASE ~InGrace
      BY <1>3, <3>1 DEF GraceInv
    <3>2. CASE InGrace
      <4>1. /\ post_yield_deadline # None /\ ~Counts(h)
            /\ host_down_streak = 0 /\ AllTargets("online") /\ ~published_offline
        BY <3>2 DEF InGrace, Counts, IInv, GraceInv
      <4>2. streak = 0 /\ streak < SLEEP_STREAK
        BY <1>1, <4>1, DurationAssumption
      <4>3. timer' \in {POST_YIELD_RETRY, backoff}
        BY <1>3, <3>2, <4>2, DurationAssumption
      <4>4. timer' <= MAX_TRANSIENT_BACKOFF
        BY <1>4, <4>3, DurationAssumption
      <4> QED
        BY <1>3, <2>1, <4>1, <4>2, <4>4, AvailUnchanged DEF GraceInv
    <3> QED
      BY <3>1, <3>2
  <2> QED
    BY <1>5, <2>4, <2>5
<1> QED
  BY <1>2, <1>6, <1>7

\* A step that publishes nothing and leaves the connect state alone keeps
\* the invariant's facts about what is published.
LEMMA QuietStep ==
    ASSUME IInv, UNCHANGED mqttVars
    PROVE  /\ AnnouncedInv'
           /\ AllTargets("offline")' <=> AllTargets("offline")
           /\ AllTargets("online")' <=> AllTargets("online")
  BY AvailUnchanged DEF IInv, AnnouncedInv, mqttVars

\* Connecting and logging on keep the invariant: a logon sets every target
\* online, whatever the night has left.
LEMMA LogonIInv ==
    ASSUME IInv, Connected \/ HandshakeFailed \/ LoggedOn \/ OneShots
    PROVE  AnnouncedInv' /\ SocketInv' /\ TimerInv' /\ AvailInv' /\ GraceInv'
<1>1. CASE Connected
  <2>1. SocketInv' /\ TimerInv' /\ GraceInv'
    BY <1>1 DEF Connected, SocketInv, TimerInv, GraceInv, InSession
  <2>2. AvailInv'
    BY <1>1, QuietStep, DurationAssumption DEF Connected, IInv, AvailInv, InSession
  <2> QED
    BY <1>1, <2>1, <2>2, QuietStep DEF Connected
<1>2. CASE HandshakeFailed
  <2>1. SocketInv' /\ TimerInv'
    BY <1>2 DEF HandshakeFailed, Close, SocketInv, TimerInv, InSession
  <2>2. GraceInv'
    BY <1>2 DEF HandshakeFailed, IInv, GraceInv
  <2>3. ~(timer' > MAX_TRANSIENT_BACKOFF)
    BY <1>2, DurationAssumption DEF HandshakeFailed
  <2>4. AvailInv'
    BY <1>2, <2>3, QuietStep DEF HandshakeFailed, IInv, AvailInv, InSession
  <2> QED
    BY <1>2, <2>1, <2>2, <2>4, QuietStep DEF HandshakeFailed
<1>3. CASE LoggedOn
  <2>1. SocketInv' /\ TimerInv'
    BY <1>3 DEF LoggedOn, IInv, SocketInv, TimerInv, InSession
  <2>2. GraceInv'
    BY <1>3 DEF LoggedOn, IInv, GraceInv
  <2>3. AllTargets("online")'
    BY <1>3, TargetFacts DEF LoggedOn, OnlineTopics, AllTargets
  <2>4. AvailInv'
    <3>1. /\ pc' = "oneshots" /\ published_offline' = FALSE
          /\ host_down_streak' = 0
      BY <1>3 DEF LoggedOn, IInv, AvailInv
    <3>2. ~(host_down_streak' >= SLEEP_STREAK)
      BY <3>1, DurationAssumption
    <3> QED
      BY <2>3, <3>1, <3>2 DEF AvailInv, InSession
  <2>5. AnnouncedInv'
    BY <1>3 DEF LoggedOn, IInv, AnnouncedInv
  <2> QED
    BY <2>1, <2>2, <2>4, <2>5
<1>4. CASE OneShots
  <2>1. SocketInv' /\ TimerInv'
    BY <1>4 DEF OneShots, sessVars, IInv, SocketInv, TimerInv, InSession
  <2>2. GraceInv'
    BY <1>4 DEF OneShots, connVars, IInv, GraceInv
  <2>3. AvailInv'
    BY <1>4, QuietStep DEF OneShots, connVars, IInv, AvailInv, InSession
  <2> QED
    BY <1>4, <2>1, <2>2, <2>3, QuietStep DEF OneShots
<1> QED
  BY <1>1, <1>2, <1>3, <1>4

\* Yielding, and leaving a session for a broken link, keep the invariant.
LEMMA LeaveIInv ==
    ASSUME IInv, TickYield \/ YieldOver \/ QueryFatal
    PROVE  AnnouncedInv' /\ SocketInv' /\ TimerInv' /\ AvailInv' /\ GraceInv'
<1>1. CASE TickYield
  <2>1. SocketInv' /\ TimerInv'
    BY <1>1 DEF TickYield, GracefulClose, Close, SocketInv, TimerInv, InSession
  <2>2. GraceInv'
    BY <1>1 DEF TickYield, connVars, IInv, GraceInv
  <2>3. AvailInv'
    BY <1>1, QuietStep DEF TickYield, connVars, IInv, AvailInv, InSession
  <2> QED
    BY <1>1, <2>1, <2>2, <2>3, QuietStep DEF TickYield
<1>2. CASE YieldOver
  <2>1. SocketInv' /\ TimerInv'
    BY <1>2 DEF YieldOver, GracefulClose, Close, SocketInv, TimerInv, InSession
  <2>2. /\ pc = "yielding" /\ pc' = "connect" /\ timer = 0 /\ timer' = timer
        /\ UNCHANGED <<host_down_streak, published_offline>> /\ UNCHANGED mqttVars
    BY <1>2 DEF YieldOver
  <2>3. ~(timer' > MAX_TRANSIENT_BACKOFF) /\ timer' <= MAX_TRANSIENT_BACKOFF
    BY <2>2, DurationAssumption
  <2>4. AllTargets("online")' /\ ~published_offline' /\ host_down_streak' = 0
    BY <2>2, QuietStep DEF IInv, AvailInv
  <2>5. GraceInv'
    BY <2>2, <2>3, <2>4 DEF GraceInv
  <2>6. AvailInv'
    BY <2>2, <2>3, <2>4, DurationAssumption DEF AvailInv, InSession
  <2> QED
    BY <2>1, <2>2, <2>5, <2>6, QuietStep
<1>3. CASE QueryFatal
  <2>1. SocketInv' /\ TimerInv'
    BY <1>3 DEF QueryFatal, GracefulClose, Close, SocketInv, TimerInv, InSession
  <2>2. GraceInv'
    BY <1>3 DEF QueryFatal, connVars, IInv, GraceInv
  <2>3. ~(timer' > MAX_TRANSIENT_BACKOFF)
    BY <1>3, DurationAssumption DEF QueryFatal, IInv, TimerInv
  <2>4. AvailInv'
    BY <1>3, <2>3, QuietStep DEF QueryFatal, connVars, IInv, AvailInv, InSession
  <2> QED
    BY <1>3, <2>1, <2>2, <2>4, QuietStep DEF QueryFatal
<1> QED
  BY <1>1, <1>2, <1>3

\* The sweep keeps the invariant: it stays inside the session or, on a key
\* the catalog lacks, ends the task.
LEMMA SweepIInv ==
    ASSUME IInv,
           TickPoll \/ SkipTarget \/ StartTarget \/ QueryOk \/ TargetOk
           \/ TargetFailed \/ CycleDone
    PROVE  AnnouncedInv' /\ SocketInv' /\ TimerInv' /\ AvailInv' /\ GraceInv'
<1>1. UNCHANGED connVars /\ UNCHANGED mqttVars /\ UNCHANGED link
  BY DEF TickPoll, SkipTarget, StartTarget, QueryOk, TargetOk, TargetFailed,
         CycleDone, sessVars
<1>2. pc \in {"tick", "target", "query"}
  BY DEF TickPoll, SkipTarget, StartTarget, QueryOk, TargetOk, TargetFailed, CycleDone
<1>3. \/ pc' \in {"tick", "target", "query"} /\ sess' = sess
      \/ pc' = "panicked" /\ sess' = "Disconnected"
  BY <1>2 DEF TickPoll, SkipTarget, StartTarget, QueryOk, TargetOk, TargetFailed,
              CycleDone, Account, sessVars
<1>4. timer' = 0 \/ pc' = "tick"
  <2>1. CASE CycleDone
    BY <2>1 DEF CycleDone
  <2>2. CASE TickPoll \/ SkipTarget \/ StartTarget \/ QueryOk \/ TargetOk \/ TargetFailed
    BY <2>2 DEF TickPoll, SkipTarget, StartTarget, QueryOk, TargetOk, TargetFailed,
                IInv, TimerInv
  <2> QED
    BY <2>1, <2>2
<1>5. SocketInv' /\ TimerInv'
  BY <1>1, <1>2, <1>3, <1>4 DEF IInv, SocketInv, TimerInv, InSession
<1>6. GraceInv'
  BY <1>1, <1>2 DEF connVars, IInv, GraceInv
<1>7. AvailInv'
  BY <1>1, <1>2, <1>3, QuietStep DEF connVars, IInv, AvailInv, InSession
<1> QED
  BY <1>1, <1>5, <1>6, <1>7, QuietStep

\* The environment keeps the invariant.
LEMMA EnvironmentIInv ==
    ASSUME IInv, LinkBreaks \/ Tick \/ Shutdown
    PROVE  AnnouncedInv' /\ SocketInv' /\ TimerInv' /\ AvailInv' /\ GraceInv'
<1>1. CASE LinkBreaks
  <2>1. SocketInv' /\ TimerInv'
    BY <1>1 DEF LinkBreaks, IInv, SocketInv, TimerInv, InSession
  <2>2. GraceInv' /\ AvailInv'
    BY <1>1, QuietStep DEF LinkBreaks, connVars, IInv, GraceInv, AvailInv, InSession
  <2> QED
    BY <1>1, <2>1, <2>2, QuietStep DEF LinkBreaks
<1>2. CASE Tick
  <2>1. timer \in Nat /\ timer' \in Nat /\ timer' <= timer
    BY <1>2 DEF Tick, Elapse, IInv, TypeInv, TypeOK
  <2>2. post_yield_deadline' # None => post_yield_deadline # None
    BY <1>2 DEF Tick, Elapse, None
  <2>3. /\ UNCHANGED <<pc, host_down_streak, published_offline, sess, link>>
        /\ UNCHANGED mqttVars
    BY <1>2 DEF Tick, sessVars
  <2>4. SocketInv' /\ TimerInv'
    BY <2>1, <2>3 DEF IInv, SocketInv, TimerInv, InSession
  <2>5. timer' > MAX_TRANSIENT_BACKOFF => timer > MAX_TRANSIENT_BACKOFF
    BY <2>1, DurationAssumption
  <2>6. timer <= MAX_TRANSIENT_BACKOFF => timer' <= MAX_TRANSIENT_BACKOFF
    BY <2>1, DurationAssumption
  <2>7. GraceInv' /\ AvailInv'
    BY <2>2, <2>3, <2>5, <2>6, QuietStep DEF IInv, GraceInv, AvailInv, InSession
  <2> QED
    BY <2>3, <2>4, <2>7, QuietStep
<1>3. CASE Shutdown
  <2>1. SocketInv' /\ TimerInv'
    BY <1>3 DEF Shutdown, Close, SocketInv, TimerInv, InSession
  <2>2. GraceInv' /\ AvailInv'
    BY <1>3, QuietStep DEF Shutdown, connVars, IInv, GraceInv, AvailInv, InSession
  <2> QED
    BY <1>3, <2>1, <2>2, QuietStep DEF Shutdown
<1> QED
  BY <1>1, <1>2, <1>3

\* Every step keeps the invariant.
LEMMA NextIInv == IInv /\ [Next]_vars => IInv'
<1> SUFFICES ASSUME IInv, [Next]_vars PROVE IInv'
  OBVIOUS
<1>1. TypeInv'
  BY NextTypeInv DEF IInv
<1>2. CASE Task
  <2>1. AnnouncedInv' /\ SocketInv' /\ TimerInv' /\ AvailInv' /\ GraceInv'
    BY <1>2, ConnectFailedIInv, LogonIInv, LeaveIInv, SweepIInv DEF Task
  <2> QED
    BY <1>1, <2>1 DEF IInv
<1>3. CASE LinkBreaks \/ Tick \/ Shutdown
  BY <1>1, <1>3, EnvironmentIInv DEF IInv
<1>4. CASE UNCHANGED vars
  <2>1. /\ UNCHANGED <<pc, timer, sess, link, published_offline, host_down_streak,
                       post_yield_deadline>>
        /\ UNCHANGED mqttVars
    BY <1>4 DEF vars, connVars, sessVars
  <2>2. SocketInv' /\ TimerInv' /\ GraceInv' /\ AvailInv'
    BY <2>1, QuietStep DEF IInv, SocketInv, TimerInv, GraceInv, AvailInv, InSession
  <2> QED
    BY <1>1, <2>1, <2>2, QuietStep DEF IInv
<1> QED
  BY <1>2, <1>3, <1>4 DEF Next

\* The invariant holds in every reachable state.
THEOREM RunInverterInvariant == Spec => []IInv
  BY InitIInv, NextIInv, PTL DEF Spec

\* Home Assistant never shows an inverter as available while the daemon
\* waits for it as for a sleeping one, whatever mix of connect failures,
\* failed handshakes and yields came before.
THEOREM SleepAnnounced == Spec => []SleepIsAnnounced
<1>1. IInv => SleepIsAnnounced
  BY DEF IInv, AvailInv, SleepIsAnnounced
<1> QED
  BY <1>1, RunInverterInvariant, PTL

\* A logged-in session is shown online on every target.
THEOREM LogonShownOnline == Spec => []LoggedInIsOnline
<1>1. IInv => LoggedInIsOnline
  BY DEF IInv, TypeInv, TypeOK, SocketInv, AvailInv, LoggedInIsOnline, InSession
<1> QED
  BY <1>1, RunInverterInvariant, PTL

\* Nothing flips a target and no long wait starts in the grace window after
\* a yield.
THEOREM GraceHolds == Spec => []GraceKeepsOnline
<1>1. IInv => GraceKeepsOnline
  BY DEF IInv, GraceInv, GraceKeepsOnline
<1> QED
  BY <1>1, RunInverterInvariant, PTL

\* No connect starts while a socket of an earlier session is open.
THEOREM SingleSocket == Spec => []OneSocket
<1>1. IInv => OneSocket
  BY DEF IInv, TypeInv, TypeOK, SocketInv, OneSocket, Running, InSession
<1> QED
  BY <1>1, RunInverterInvariant, PTL

-----------------------------------------------------------------------------
\* Failure isolation.

\* Remaining times do not run below None, the targets behind the sweep have
\* been served also while the next one is queried, and cooldowns are earned.
IsolationInv ==
    /\ \A s \in Serials : skip_until[s] >= None
    /\ pc \in {"target", "query"} =>
         \A i \in 1..(idx - 1) : i \in swept \/ skip_until[Serial[Targets[i]]] # None
    /\ CooldownEarned

\* No two targets share a serial.
LEMMA OwnSerials ==
    ASSUME NEW i \in TargetIdx, NEW j \in TargetIdx,
           Serial[Targets[i]] = Serial[Targets[j]]
    PROVE  i = j
<1>1. Targets[i] = Targets[j]
  BY TargetFacts, ConfigAssumption
<1>2. CASE Devices = <<>>
  BY <1>2 DEF TargetIdx, Targets
<1>3. CASE Devices # <<>>
  BY <1>1, <1>3, ConfigAssumption DEF TargetIdx, Targets
<1> QED
  BY <1>2, <1>3

LEMMA SweepFacts ==
    ASSUME TypeInv
    PROVE  /\ Len(Targets) \in Nat /\ idx \in 1..(Len(Targets) + 1)
           /\ \A i \in 1..(idx - 1) : i \in TargetIdx
           /\ \A i \in TargetIdx : Serial[Targets[i]] \in Serials
           /\ skip_until \in [Serials -> Int] /\ failures \in [Serials -> 0..FailCap]
           /\ FailCap \in Nat
           /\ pc = "query" => idx \in TargetIdx /\ TheSerial \in Serials
BY TargetFacts, Arithmetic DEF TypeInv, TypeOK, TargetIdx, TheSerial

\* A step of the sweep leaves the other targets' cooldowns alone.
LEMMA OthersKept ==
    ASSUME TypeInv, IsolationInv, idx \in TargetIdx, pc \in {"target", "query"},
           NEW v, skip_until' = [skip_until EXCEPT ![TheSerial] = v] \/ UNCHANGED skip_until,
           swept \subseteq swept'
    PROVE  \A i \in 1..(idx - 1) :
              i \in swept' \/ skip_until'[Serial[Targets[i]]] # None
<1> SUFFICES ASSUME NEW i \in 1..(idx - 1)
             PROVE  i \in swept' \/ skip_until'[Serial[Targets[i]]] # None
  OBVIOUS
<1>1. i \in TargetIdx /\ i # idx /\ Serial[Targets[i]] \in Serials
  BY SweepFacts DEF TargetIdx
<1>2. Serial[Targets[i]] # TheSerial
  BY <1>1, OwnSerials DEF TheSerial
<1>3. skip_until'[Serial[Targets[i]]] = skip_until[Serial[Targets[i]]]
  BY <1>1, <1>2, SweepFacts
<1> QED
  BY <1>3 DEF IsolationInv

LEMMA InitIsolation == Init => IsolationInv
BY DEF Init, IsolationInv, CooldownEarned, None

\* Outside the sweep the cooldowns are only kept or cleared.
LEMMA OutsideIsolation ==
    ASSUME TypeInv, IsolationInv,
           \/ Connected \/ (\E h \in BOOLEAN : ConnectFailed(h)) \/ HandshakeFailed
           \/ LoggedOn \/ OneShots \/ TickYield \/ YieldOver \/ QueryFatal \/ Shutdown
    PROVE  IsolationInv'
<1>1. CASE OneShots
  <2>1. skip_until' = [s \in Serials |-> None] /\ pc' = "tick"
    BY <1>1 DEF OneShots
  <2> QED
    BY <2>1 DEF IsolationInv, CooldownEarned, None
<1>2. CASE ~OneShots
  <2>1. UNCHANGED skip_until
    BY <1>2 DEF Connected, ConnectFailed, HandshakeFailed, LoggedOn, TickYield, YieldOver,
                QueryFatal, Shutdown, isoVars
  <2>2. pc' \notin {"tick", "target", "query"}
    BY <1>2 DEF Connected, ConnectFailed, HandshakeFailed, LoggedOn, TickYield, YieldOver,
                QueryFatal, Shutdown
  <2> QED
    BY <2>1, <2>2 DEF IsolationInv, CooldownEarned
<1> QED
  BY <1>1, <1>2

LEMMA SweepIsolation ==
    ASSUME TypeInv, IsolationInv,
           TickPoll \/ SkipTarget \/ StartTarget \/ QueryOk \/ CycleDone
    PROVE  IsolationInv'
<1>1. CASE TickPoll
  <2>1. /\ UNCHANGED <<skip_until, failures>> /\ pc = "tick"
        /\ pc' = "target" /\ idx' = 1
    BY <1>1 DEF TickPoll, isoVars
  <2> QED
    BY <2>1 DEF IsolationInv, CooldownEarned
<1>2. CASE SkipTarget
  <2>1. /\ UNCHANGED <<skip_until, failures, swept>> /\ pc = "target" /\ pc' = "target"
        /\ idx' = idx + 1 /\ idx \in TargetIdx
        /\ skip_until[Serial[Targets[idx]]] > 0
    BY <1>2 DEF SkipTarget, isoVars, TheSerial
  <2>2. \A i \in 1..idx : i \in swept \/ skip_until[Serial[Targets[i]]] # None
    <3> SUFFICES ASSUME NEW i \in 1..idx
                 PROVE  i \in swept \/ skip_until[Serial[Targets[i]]] # None
      OBVIOUS
    <3>1. CASE i = idx
      BY <2>1, <3>1 DEF None
    <3>2. CASE i # idx
      BY <2>1, <3>2, SweepFacts DEF IsolationInv
    <3> QED
      BY <3>1, <3>2
  <2>3. (idx + 1) - 1 = idx
    BY SweepFacts
  <2> QED
    BY <2>1, <2>2, <2>3 DEF IsolationInv, CooldownEarned
<1>3. CASE StartTarget
  <2>1. /\ skip_until' = [skip_until EXCEPT ![TheSerial] = None]
        /\ UNCHANGED <<failures, swept, idx>> /\ pc = "target" /\ pc' = "query"
        /\ idx \in TargetIdx
    BY <1>3 DEF StartTarget
  <2>2. TheSerial \in Serials /\ TheSerial' = TheSerial
    BY <2>1, SweepFacts DEF TheSerial
  <2>3. \A s \in Serials : skip_until'[s] = IF s = TheSerial THEN None ELSE skip_until[s]
    BY <2>1, SweepFacts
  <2>4. \A i \in 1..(idx - 1) : i \in swept' \/ skip_until'[Serial[Targets[i]]] # None
    BY <2>1, OthersKept
  <2>5. \A s \in Serials : skip_until'[s] >= None
    BY <2>3 DEF IsolationInv, None
  <2>6. CooldownEarned'
    BY <2>1, <2>2, <2>3 DEF IsolationInv, CooldownEarned
  <2> QED
    BY <2>1, <2>4, <2>5, <2>6 DEF IsolationInv
<1>4. CASE QueryOk
  <2>1. /\ UNCHANGED <<skip_until, failures, swept, idx, pc>>
    BY <1>4 DEF QueryOk, isoVars
  <2> QED
    BY <2>1 DEF IsolationInv, CooldownEarned, TheSerial
<1>5. CASE CycleDone
  <2>1. UNCHANGED <<skip_until, failures>> /\ pc = "target" /\ pc' = "tick"
    BY <1>5 DEF CycleDone, isoVars
  <2> QED
    BY <2>1 DEF IsolationInv, CooldownEarned
<1> QED
  BY <1>1, <1>2, <1>3, <1>4, <1>5

\* A target's sweep ends: it has been served, and a cooldown it is given is
\* the rung its failures have reached.
LEMMA ServedIsolation ==
    ASSUME TypeInv, IsolationInv, TargetOk \/ TargetFailed
    PROVE  IsolationInv'
<1>1. /\ pc = "query" /\ idx \in TargetIdx /\ TheSerial \in Serials
      /\ swept' = swept \cup {idx}
      /\ skip_until[TheSerial] = None
  BY SweepFacts DEF TargetOk, TargetFailed, IsolationInv, CooldownEarned
<1>2. \/ pc' = "target" /\ idx' = idx + 1
      \/ pc' = "panicked"
  BY DEF TargetOk, TargetFailed, Account
<1>3. PICK n \in 0..FailCap :
          /\ failures' = [failures EXCEPT ![TheSerial] = n]
          /\ \/ UNCHANGED skip_until
             \/ /\ n >= COOLDOWN_THRESHOLD
                /\ skip_until' = [skip_until EXCEPT ![TheSerial] = Cooldown(n)]
  <2>1. failures[TheSerial] \in 0..FailCap
    BY <1>1, SweepFacts
  <2>2. MinOf(failures[TheSerial] + 1, FailCap) \in 0..FailCap /\ 0 \in 0..FailCap
    BY <2>1, Arithmetic
  <2>3. CASE TargetOk
    BY <2>2, <2>3 DEF TargetOk
  <2>4. CASE TargetFailed
    BY <2>2, <2>4 DEF TargetFailed
  <2> QED
    BY <2>3, <2>4
<1>4. \A s \in Serials : s # TheSerial =>
          failures'[s] = failures[s] /\ skip_until'[s] = skip_until[s]
  BY <1>3, SweepFacts
<1>5. /\ failures'[TheSerial] = n
      /\ skip_until'[TheSerial] # None =>
            n >= COOLDOWN_THRESHOLD /\ skip_until'[TheSerial] = Cooldown(n)
  BY <1>1, <1>3, SweepFacts
<1>6. n >= COOLDOWN_THRESHOLD => Cooldown(n) \in Nat
  BY CooldownType
<1>7. \A s \in Serials : skip_until'[s] >= None
  <2>1. skip_until'[TheSerial] >= None
    BY <1>5, <1>6 DEF None
  <2> QED
    BY <1>4, <2>1 DEF IsolationInv
<1>8. \A s \in Serials : skip_until'[s] # None =>
          failures'[s] >= COOLDOWN_THRESHOLD /\ skip_until'[s] <= Cooldown(failures'[s])
  <2>1. skip_until'[TheSerial] # None => skip_until'[TheSerial] <= Cooldown(n)
    BY <1>5, <1>6
  <2> QED
    BY <1>1, <1>4, <1>5, <2>1 DEF IsolationInv, CooldownEarned
<1>9. \A i \in 1..idx : i \in swept' \/ skip_until'[Serial[Targets[i]]] # None
  <2>1. \A i \in 1..(idx - 1) : i \in swept' \/ skip_until'[Serial[Targets[i]]] # None
    BY <1>1, <1>3, OthersKept
  <2> QED
    BY <1>1, <2>1, SweepFacts
<1>10. (idx + 1) - 1 = idx
  BY SweepFacts
<1> QED
  BY <1>2, <1>7, <1>8, <1>9, <1>10 DEF IsolationInv, CooldownEarned

\* Time runs a cooldown down to 0, never to None: it is the gate that ends it.
LEMMA EnvironmentIsolation ==
    ASSUME TypeInv, IsolationInv, LinkBreaks \/ Tick \/ UNCHANGED vars
    PROVE  IsolationInv'
<1>1. UNCHANGED <<pc, idx, swept, failures>>
  BY DEF LinkBreaks, Tick, vars, isoVars, loopVars
<1>2. \A s \in Serials : skip_until'[s] \in {skip_until[s], Elapse(skip_until[s])}
  BY DEF LinkBreaks, Tick, vars, isoVars
<1>3. \A s \in Serials : skip_until[s] \in Int
  BY SweepFacts
<1>4. \A s \in Serials : /\ skip_until'[s] >= None /\ skip_until'[s] <= skip_until[s]
                         /\ skip_until'[s] = None <=> skip_until[s] = None
  BY <1>2, <1>3 DEF Elapse, None, IsolationInv
<1>5. pc \in {"target", "query"} =>
         \A i \in 1..(idx - 1) : i \in swept \/ skip_until'[Serial[Targets[i]]] # None
  BY <1>4, SweepFacts DEF IsolationInv
<1>6. CooldownEarned'
  <2> SUFFICES ASSUME pc \in {"tick", "target", "query"} PROVE CooldownEarned'
    BY <1>1 DEF CooldownEarned
  <2>1. ASSUME NEW s \in Serials, skip_until'[s] # None
        PROVE  failures[s] >= COOLDOWN_THRESHOLD /\ skip_until'[s] <= Cooldown(failures[s])
    <3>1. /\ failures[s] >= COOLDOWN_THRESHOLD /\ skip_until[s] <= Cooldown(failures[s])
      BY <1>4, <2>1 DEF IsolationInv, CooldownEarned
    <3>2. Cooldown(failures[s]) \in Nat
      BY <3>1, SweepFacts, CooldownType
    <3>3. skip_until'[s] \in Int
      BY <1>2, <1>3 DEF Elapse
    <3> QED
      BY <1>3, <1>4, <3>1, <3>2, <3>3
  <2>2. pc = "query" => skip_until'[TheSerial] = None
    BY <1>4, SweepFacts DEF IsolationInv, CooldownEarned
  <2> QED
    BY <1>1, <2>1, <2>2 DEF CooldownEarned, TheSerial
<1> QED
  BY <1>1, <1>4, <1>5, <1>6 DEF IsolationInv

LEMMA NextIsolation == TypeInv /\ IsolationInv /\ [Next]_vars => IsolationInv'
BY OutsideIsolation, SweepIsolation, ServedIsolation, EnvironmentIsolation DEF Next, Task

LEMMA IsolationHolds == Spec => [](TypeInv /\ IsolationInv)
BY InitTypeInv, NextTypeInv, InitIsolation, NextIsolation, PTL DEF Spec

\* A target is skipped only for failures of its own, and no longer than the
\* ladder allows, however failures, successes and reconnects alternate.
THEOREM CooldownsEarned == Spec => []CooldownEarned
<1>1. IsolationInv => CooldownEarned
  BY DEF IsolationInv
<1> QED
  BY <1>1, IsolationHolds, PTL

\* A failing target keeps no other target from its turn.
THEOREM TargetsServed == Spec => []EveryTargetServed
<1>1. IsolationInv => EveryTargetServed
  BY DEF IsolationInv, EveryTargetServed
<1> QED
  BY <1>1, IsolationHolds, PTL

\* Only a failed query of the target itself starts a cooldown: the gate that
\* skips it, its neighbours and reconnects never prolong one.
THEOREM CooldownsRunDown == Spec => CooldownRunsDown
<1>1. TypeInv /\ IsolationInv /\ [Next]_vars =>
        [\A s \in Serials : skip_until'[s] > skip_until[s] =>
            pc = "query" /\ s = TheSerial /\ skip_until[s] = None]_vars
  <2> SUFFICES ASSUME TypeInv, IsolationInv, [Next]_vars,
                      NEW s \in Serials, skip_until'[s] > skip_until[s]
               PROVE  pc = "query" /\ s = TheSerial /\ skip_until[s] = None
    OBVIOUS
  <2>1. skip_until[s] \in Int /\ skip_until[s] >= None
    BY SweepFacts DEF IsolationInv
  <2>2. skip_until'[s] # skip_until[s] /\ skip_until'[s] # None
    BY <2>1 DEF None
  <2>3. skip_until'[s] # Elapse(skip_until[s])
    BY <2>1 DEF Elapse
  <2>4. TargetFailed
    <3>1. ~OneShots
      BY <2>2 DEF OneShots
    <3>2. ~StartTarget
      BY <2>2, SweepFacts DEF StartTarget
    <3>3. ~Tick
      BY <2>3 DEF Tick
    <3> QED
      BY <2>2, <3>1, <3>2, <3>3
         DEF Next, Task, vars, Connected, ConnectFailed, HandshakeFailed, LoggedOn,
             TickYield, YieldOver, TickPoll, SkipTarget, QueryOk, TargetOk, QueryFatal,
             CycleDone, LinkBreaks, Shutdown, isoVars
  <2>5. pc = "query" /\ skip_until[TheSerial] = None
    BY <2>4 DEF TargetFailed, IsolationInv, CooldownEarned
  <2>6. s = TheSerial
    BY <2>2, <2>4, SweepFacts DEF TargetFailed
  <2> QED
    BY <2>5, <2>6
<1> QED
  BY <1>1, IsolationHolds, PTL DEF Spec, CooldownRunsDown

-----------------------------------------------------------------------------
\* Leaving a session.

\* However a session ends while its link is up, its logoff reaches the
\* inverter, unless the task ends with it.
THEOREM LogoffSent == Spec => LogoffOnTeardown
<1>1. IInv /\ [Next]_vars =>
        [sess = "LoggedIn" /\ sess' # "LoggedIn" /\ link = "up"
           /\ pc' \notin {"aborted", "panicked"} => ~inv_session']_vars
  <2> SUFFICES ASSUME IInv, [Next]_vars, sess = "LoggedIn", sess' # "LoggedIn",
                      link = "up", pc' \notin {"aborted", "panicked"}
               PROVE  ~inv_session'
    OBVIOUS
  <2>1. pc \notin {"connect", "handshake"}
    BY DEF IInv, SocketInv
  <2>2. TickYield \/ YieldOver \/ QueryFatal
    BY <2>1 DEF Next, Task, vars, Connected, ConnectFailed, HandshakeFailed, LoggedOn,
             OneShots, TickPoll, SkipTarget, StartTarget, QueryOk, TargetOk, TargetFailed,
             Account, CycleDone, LinkBreaks, Tick, Shutdown, sessVars
  <2> QED
    BY <2>2 DEF TickYield, YieldOver, QueryFatal, GracefulClose
<1> QED
  BY <1>1, RunInverterInvariant, PTL DEF Spec, LogoffOnTeardown
=============================================================================
