---------------------------- MODULE Availability ----------------------------
(***************************************************************************)
(* What Home Assistant sees of the daemon: the availability topics at the  *)
(* MQTT broker, fed by the publisher through the request queue of the MQTT *)
(* client (rumqttc, external), across broker outages, a crash and Ctrl-C.  *)
(* The inverter task is reduced to its publications: online on every       *)
(* logon, offline when it decides the inverter sleeps, values in between.  *)
(***************************************************************************)
EXTENDS Integers, Sequences

CONSTANTS
    Slot,        \* inv_cfg.slot
    Configs,     \* values of inv_cfg.devices; <<>> is single-device mode
    QueueCap,    \* requests the client's channel holds (64)
    MaxOutages   \* bound on the broker connections lost

ASSUME AvailabilityAssumption ==
    /\ Configs \subseteq Seq(STRING)
    /\ QueueCap \in Nat \ {0}
    /\ MaxOutages \in Nat

VARIABLES
    devices,   \* the slots of inv_cfg.devices, fixed at the start
    blip,      \* history: a connection was lost since the last logon
    daemon,    \* running or dead
    session,   \* up or asleep, as the inverter task last published it
    todo,      \* publications the task still has to hand to the client
    queue,     \* requests in the client's channel
    conn,      \* external: the broker connection: up, lost unnoticed, down
    will,      \* external: the broker owes the last-will publication
    outages,   \* connections lost so far
    dropped,   \* history: topics whose newest word the client threw away
    retained   \* external: retained availability per topic

task == <<daemon, session, todo>>
broker == <<conn, will, outages, dropped, retained>>
vars == <<devices, blip, task, queue, broker>>

\* The devices of the poll loop, in configuration order.
targets == IF devices = <<>> THEN <<Slot>> ELSE devices

Targets == {targets[i] : i \in 1..Len(targets)}
Topics == {Slot} \cup Targets

\* The topic main registers the last will on, whatever the devices are.
BugNoLwt == {}
LwtTopics == {Slot}

Message(topic, payload) == [topic |-> topic, payload |-> payload]

\* One publication of payload for every target.
ToAll(payload) == [i \in 1..Len(targets) |-> Message(targets[i], payload)]

Init ==
    /\ devices \in Configs
    /\ blip = FALSE
    /\ daemon = "running"
    /\ session = "asleep"
    /\ todo = <<>>
    /\ queue = <<>>
    /\ conn = "down"
    /\ will = FALSE
    /\ outages = 0
    /\ dropped = {}
    /\ retained = [t \in Topics |-> "unset"]

-----------------------------------------------------------------------------
\* The inverter task.

Idle == daemon = "running" /\ todo = <<>>

\* A logon: every target online.
Online ==
    /\ Idle
    /\ session' = "up"
    /\ blip' = FALSE
    /\ todo' = ToAll("online")
    /\ UNCHANGED <<devices, daemon, queue, broker>>

\* The inverter seems asleep: every target offline.
Offline ==
    /\ Idle /\ session = "up"
    /\ session' = "asleep"
    /\ todo' = ToAll("offline")
    /\ UNCHANGED <<devices, blip, daemon, queue, broker>>

\* A poll publishes the values of a query, one or several.
Poll ==
    /\ Idle /\ session = "up"
    /\ \E n \in 1..2 : todo' = [i \in 1..n |-> Message(Slot, "value")]
    /\ UNCHANGED <<devices, blip, daemon, session, queue, broker>>

BugDropWhenFull ==
    /\ daemon = "running" /\ todo # <<>>
    /\ queue' = IF Len(queue) < QueueCap THEN Append(queue, Head(todo)) ELSE queue
    /\ todo' = Tail(todo)
    /\ UNCHANGED <<devices, blip, daemon, session, broker>>

\* publish().await hands a request to the client; it waits for room.
publish ==
    /\ daemon = "running" /\ todo # <<>>
    /\ Len(queue) < QueueCap
    /\ queue' = Append(queue, Head(todo))
    /\ todo' = Tail(todo)
    /\ UNCHANGED <<devices, blip, daemon, session, broker>>

-----------------------------------------------------------------------------
\* The MQTT client's event loop, the broker, the end of the process.

Retain(r, m) == IF m.payload = "value" THEN r ELSE [r EXCEPT ![m.topic] = m.payload]

\* The topics a message says online or offline about.
Word(m) == IF m.payload = "value" THEN {} ELSE {m.topic}

\* The event loop takes the next request to the broker.
Deliver ==
    /\ daemon = "running" /\ conn = "up" /\ queue # <<>>
    /\ retained' = Retain(retained, Head(queue))
    /\ dropped' = dropped \ Word(Head(queue))
    /\ queue' = Tail(queue)
    /\ UNCHANGED <<devices, blip, task, conn, will, outages>>

\* The connection is lost without a DISCONNECT: the broker owes the will.
ConnectionLost ==
    /\ conn = "up" /\ daemon = "running" /\ outages < MaxOutages
    /\ conn' = "lost"
    /\ will' = TRUE
    /\ outages' = outages + 1
    /\ blip' = TRUE
    /\ UNCHANGED <<devices, task, queue, dropped, retained>>

\* Until the client notices it writes requests nobody reads.
Swallowed ==
    /\ daemon = "running" /\ conn = "lost" /\ queue # <<>>
    /\ dropped' = dropped \cup Word(Head(queue))
    /\ queue' = Tail(queue)
    /\ UNCHANGED <<devices, blip, task, conn, will, outages, retained>>

\* The client notices: what is unacknowledged and what is in the channel
\* becomes pending, and since the session is a clean one the next connection
\* begins by forgetting the pending.  Requests made from here on stay in the
\* channel.
Notice ==
    /\ daemon = "running" /\ conn = "lost"
    /\ conn' = "down"
    /\ dropped' = dropped \cup UNION {Word(queue[i]) : i \in 1..Len(queue)}
    /\ queue' = <<>>
    /\ UNCHANGED <<devices, blip, task, will, outages, retained>>

\* The broker notices, at the latest after the keep-alive, and publishes it.
WillPublished ==
    /\ will
    /\ will' = FALSE
    /\ retained' = [t \in Topics |-> IF t \in LwtTopics THEN "offline" ELSE retained[t]]
    /\ UNCHANGED <<devices, blip, task, queue, conn, outages, dropped>>

BugEventLoopEnds == FALSE /\ UNCHANGED vars

\* The event loop retries until the broker answers; a takeover by the same
\* client id makes the broker publish the old will first.
Reconnect ==
    /\ daemon = "running" /\ conn = "down" /\ ~will
    /\ conn' = "up"
    /\ UNCHANGED <<devices, blip, task, queue, will, outages, dropped, retained>>

\* A crash, or Ctrl-C, which aborts the tasks and returns from main: the
\* queue is lost and no DISCONNECT is sent.
ProcessEnds ==
    /\ daemon = "running"
    /\ daemon' = "dead"
    /\ todo' = <<>>
    /\ queue' = <<>>
    /\ conn' = "down"
    /\ will' = (will \/ conn = "up")
    /\ UNCHANGED <<devices, blip, session, outages, dropped, retained>>

Next == Online \/ Offline \/ Poll \/ publish \/ Deliver \/ ConnectionLost
        \/ Swallowed \/ Notice \/ WillPublished \/ Reconnect \/ ProcessEnds

Spec == Init /\ [][Next]_vars

\* The task and the client's event loop are scheduled; client and broker
\* keep their keep-alive promises and the broker comes back after an outage.
FairSpec ==
    /\ Spec
    /\ WF_vars(publish) /\ WF_vars(Deliver)
    /\ WF_vars(Notice) /\ WF_vars(WillPublished) /\ WF_vars(Reconnect)

-----------------------------------------------------------------------------

\* Nothing is on its way to the broker.
Quiet == daemon = "running" /\ conn = "up" /\ ~will /\ todo = <<>> /\ queue = <<>>

\* Once nothing is under way any more, Home Assistant shows of every target
\* what the task decided last, whatever outages and full channels came before:
\* online while the session is up, not online once the inverter sleeps, so no
\* online overtakes the offline after it.  Two exceptions, and no others.  A
\* word that was in the client's hands when it noticed an outage is gone, and
\* nothing repeats it before the next decision.  A target on the will's own
\* topic stays offline from an outage to the next logon, since a reconnect
\* publishes nothing, although publish_online is documented to be called
\* "right after connect" too.
SessionIsShown ==
    Quiet => \A t \in Targets \ dropped :
        IF session = "up" THEN retained[t] = "online" \/ (blip /\ t = Slot)
        ELSE retained[t] # "online"

\* When the process is gone the entities become unavailable: no target is
\* left online forever.
DeathIsShown == daemon = "dead" ~> (\A t \in Targets : retained[t] # "online")

\* When the process is gone, however and with whatever still queued, a target
\* that is its own entry point is not left online forever.
WillIsShown == daemon = "dead" ~> (\A t \in Targets \cap {Slot} : retained[t] # "online")

\* A task that waits in publish goes on once the broker is back.
PublishResumes == todo # <<>> ~> todo = <<>>
=============================================================================
