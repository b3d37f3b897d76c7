------------------------- MODULE AvailabilityProofs --------------------------
(***************************************************************************)
(* Home Assistant comes to show what the inverter task decided last, for   *)
(* any configuration, channel size and number of outages.  SessionIsShown  *)
(* speaks of a moment when nothing is under way; what leads up to it is    *)
(* where the newest word on each target is: still with the task, in the    *)
(* channel with nothing about the target after it, at the broker, or among *)
(* those the client dropped in an outage.                                  *)
(***************************************************************************)
EXTENDS Availability, SequenceTheorems, TLAPS

Messages == [topic : Topics, payload : {"online", "offline", "value"}]

\* What the task decided last.
Verdict == IF session = "up" THEN "online" ELSE "offline"

\* A message that says whether target t is available.
About(m, t) == m.topic = t /\ m.payload # "value"

ShownTypes ==
    /\ devices \in Seq(STRING)
    /\ session \in {"up", "asleep"}
    /\ todo \in Seq(Messages)
    /\ queue \in Seq(Messages)
    /\ DOMAIN retained = Topics

\* The broker shows the verdict, or the will has spoken, or will speak, since
\* the last logon.
AtBroker(t) ==
    /\ IF session = "up" THEN retained[t] = "online" \/ (blip /\ t = Slot)
                         ELSE retained[t] # "online"
    /\ will /\ t = Slot /\ session = "up" => blip

WithTask(t) == \E i \in 1..Len(todo) : About(todo[i], t)

InChannel(t) ==
    \E i \in 1..Len(queue) :
        /\ About(queue[i], t) /\ queue[i].payload = Verdict
        /\ \A j \in 1..Len(queue) : j > i => ~About(queue[j], t)

NewestWord(t) ==
    \/ WithTask(t)
    \/ InChannel(t)
    \/ (t \in dropped \/ AtBroker(t)) /\ \A j \in 1..Len(queue) : ~About(queue[j], t)

ShownInv ==
    daemon = "running" =>
        /\ ShownTypes
        /\ will => conn # "up"
        /\ \A i \in 1..Len(todo) : todo[i].payload \in {Verdict, "value"}
        /\ \A t \in Targets : NewestWord(t)

-----------------------------------------------------------------------------
(* Messages and channels. *)

LEMMA TargetFacts ==
    ASSUME devices \in Seq(STRING)
    PROVE  /\ Len(targets) \in Nat
           /\ \A i \in 1..Len(targets) : targets[i] \in Targets
           /\ Targets \subseteq Topics /\ Slot \in Topics
<1>1. Len(targets) \in Nat
  <2>1. CASE devices = <<>>
    BY <2>1 DEF targets
  <2>2. CASE devices # <<>>
    BY <2>2 DEF targets
  <2> QED
    BY <2>1, <2>2
<1> QED
  BY <1>1 DEF Targets, Topics

\* A publication for every target is a list of messages, one about each.
LEMMA ToAllFacts ==
    ASSUME devices \in Seq(STRING), NEW p \in {"online", "offline"}
    PROVE  /\ ToAll(p) \in Seq(Messages)
           /\ \A i \in 1..Len(ToAll(p)) : ToAll(p)[i].payload = p
           /\ \A t \in Targets : \E i \in 1..Len(ToAll(p)) : About(ToAll(p)[i], t)
<1>1. ToAll(p) = [i \in 1..Len(targets) |-> Message(targets[i], p)]
  BY DEF ToAll
<1>2. \A i \in 1..Len(targets) : Message(targets[i], p) \in Messages
  BY TargetFacts DEF Message, Messages
<1>3. ToAll(p) \in Seq(Messages) /\ Len(ToAll(p)) = Len(targets)
  BY <1>1, <1>2, TargetFacts
<1>4. \A i \in 1..Len(targets) : ToAll(p)[i] = Message(targets[i], p)
  BY <1>1
<1>5. \A i \in 1..Len(targets) : ToAll(p)[i].payload = p /\ ToAll(p)[i].topic = targets[i]
  <2>1. \A x : Message(x, p).payload = p /\ Message(x, p).topic = x
    BY DEF Message
  <2> QED
    BY <1>4, <2>1
<1>6. ASSUME NEW t \in Targets
      PROVE  \E i \in 1..Len(ToAll(p)) : About(ToAll(p)[i], t)
  BY <1>3, <1>5 DEF Targets, About
<1> QED
  BY <1>3, <1>5, <1>6

\* The first element of a nonempty list, and the rest of it.
LEMMA HeadTail ==
    ASSUME NEW S, NEW s \in Seq(S), s # <<>>
    PROVE  /\ Head(s) = s[1] /\ s[1] \in S /\ Len(s) \in Nat /\ Len(s) >= 1
           /\ Tail(s) \in Seq(S) /\ Len(Tail(s)) = Len(s) - 1
           /\ \A i \in 1..(Len(s) - 1) : Tail(s)[i] = s[i + 1]
<1>1. Len(s) \in Nat /\ Len(s) >= 1
  BY EmptySeq, LenProperties
<1> QED
  BY <1>1, HeadTailProperties

LEMMA ShownInit == Init => ShownInv
<1> SUFFICES ASSUME Init PROVE ShownInv
  OBVIOUS
<1>1. ShownTypes
  BY AvailabilityAssumption DEF Init, ShownTypes
<1>2. \A t \in Targets : NewestWord(t)
  <2> SUFFICES ASSUME NEW t \in Targets PROVE NewestWord(t)
    OBVIOUS
  <2>1. retained[t] = "unset"
    BY <1>1, TargetFacts DEF Init, ShownTypes
  <2> QED
    BY <2>1 DEF Init, NewestWord, AtBroker
<1> QED
  BY <1>1, <1>2 DEF Init, ShownInv

-----------------------------------------------------------------------------
(* Steps. *)

\* Without a step of the session's the verdict and the topics stay.
LEMMA SameWorld ==
    ASSUME UNCHANGED <<devices, session>>
    PROVE  /\ Verdict' = Verdict /\ Targets' = Targets /\ Topics' = Topics
           /\ Messages' = Messages
BY DEF Verdict, Targets, Topics, targets, Messages

\* The task decides, or polls: the channel and the broker do not notice.
LEMMA TaskShown ==
    ASSUME ShownInv, daemon = "running", Online \/ Offline \/ Poll
    PROVE  ShownInv'
<1>1. ShownTypes /\ (will => conn # "up") /\ todo = <<>> /\ devices \in Seq(STRING)
  BY DEF ShownInv, ShownTypes, Online, Offline, Poll, Idle
<1>2. UNCHANGED <<devices, daemon, queue, conn, will, outages, dropped, retained>>
  BY DEF Online, Offline, Poll, broker
<1>3. Targets' = Targets /\ Topics' = Topics /\ Messages' = Messages
  BY <1>2 DEF Targets, Topics, targets, Messages
<1>4. CASE \E p \in {"online", "offline"} :
             /\ todo' = ToAll(p)
             /\ session' = IF p = "online" THEN "up" ELSE "asleep"
  <2>1. PICK p \in {"online", "offline"} :
             /\ todo' = ToAll(p)
             /\ session' = IF p = "online" THEN "up" ELSE "asleep"
    BY <1>4
  <2>2. Verdict' = p /\ session' \in {"up", "asleep"}
    BY <2>1 DEF Verdict
  <2>3. /\ todo' \in Seq(Messages)
        /\ \A i \in 1..Len(todo') : todo'[i].payload = p
        /\ \A t \in Targets : \E i \in 1..Len(todo') : About(todo'[i], t)
    BY <1>1, <2>1, ToAllFacts
  <2>4. \A t \in Targets : NewestWord(t)'
    BY <2>3 DEF NewestWord, WithTask, About
  <2>5. ShownTypes'
    BY <1>1, <1>2, <1>3, <2>2, <2>3 DEF ShownTypes
  <2> QED
    BY <1>1, <1>2, <1>3, <2>2, <2>3, <2>4, <2>5 DEF ShownInv
<1>5. CASE Poll
  <2>1. PICK n \in 1..2 : todo' = [i \in 1..n |-> Message(Slot, "value")]
    BY <1>5 DEF Poll
  <2>2. Message(Slot, "value") \in Messages /\ Message(Slot, "value").payload = "value"
    BY <1>1, TargetFacts DEF Message, Messages
  <2>3. /\ todo' \in Seq(Messages) /\ Len(todo') = n
        /\ \A i \in 1..n : todo'[i].payload = "value"
    BY <2>1, <2>2
  <2>4. UNCHANGED <<session, blip>>
    BY <1>5 DEF Poll
  <2>5. Verdict' = Verdict
    BY <2>4 DEF Verdict
  <2>6. ASSUME NEW t \in Targets PROVE NewestWord(t)'
    <3>1. NewestWord(t) /\ ~WithTask(t)
      BY <1>1 DEF ShownInv, WithTask
    <3>2. CASE InChannel(t)
      BY <1>2, <2>5, <3>2 DEF NewestWord, InChannel, About
    <3>3. CASE (t \in dropped \/ AtBroker(t)) /\ \A j \in 1..Len(queue) : ~About(queue[j], t)
      BY <1>2, <2>4, <3>3 DEF NewestWord, AtBroker, About
    <3> QED
      BY <3>1, <3>2, <3>3 DEF NewestWord
  <2>7. ShownTypes'
    BY <1>1, <1>2, <1>3, <2>3, <2>4 DEF ShownTypes
  <2> QED
    BY <1>1, <1>2, <1>3, <2>3, <2>6, <2>7 DEF ShownInv
<1> QED
  BY <1>4, <1>5 DEF Online, Offline

\* A message that enters the channel is the newest there.
LEMMA PublishShown ==
    ASSUME ShownInv, publish
    PROVE  ShownInv'
<1>1. /\ daemon = "running" /\ todo # <<>>
      /\ queue' = Append(queue, Head(todo)) /\ todo' = Tail(todo)
      /\ UNCHANGED <<devices, blip, daemon, session, conn, will, outages, dropped, retained>>
  BY DEF publish, broker
<1>2. /\ ShownTypes /\ (will => conn # "up")
      /\ todo \in Seq(Messages) /\ queue \in Seq(Messages)
  BY <1>1 DEF ShownInv, ShownTypes
<1>3. Verdict' = Verdict /\ Targets' = Targets /\ Topics' = Topics /\ Messages' = Messages
  BY <1>1, SameWorld
<1>4. /\ Head(todo) = todo[1] /\ todo[1] \in Messages
      /\ Len(todo) \in Nat /\ Len(todo) >= 1
      /\ todo' \in Seq(Messages) /\ Len(todo') = Len(todo) - 1
      /\ \A i \in 1..Len(todo') : todo'[i] = todo[i + 1]
  BY <1>1, <1>2, HeadTail
<1>5. /\ queue' \in Seq(Messages) /\ Len(queue) \in Nat /\ Len(queue') = Len(queue) + 1
      /\ \A i \in 1..Len(queue) : queue'[i] = queue[i]
      /\ queue'[Len(queue) + 1] = todo[1]
  BY <1>1, <1>2, <1>4, AppendProperties, LenProperties
<1>6. \A i \in 1..Len(todo) : todo[i].payload \in {Verdict, "value"}
  BY <1>1 DEF ShownInv
<1>7. \A i \in 1..Len(todo') : todo'[i].payload \in {Verdict, "value"}
  BY <1>4, <1>6
<1>8. ASSUME NEW t \in Targets PROVE NewestWord(t)'
  <2>1. CASE About(todo[1], t)
    <3>1. todo[1].payload = Verdict
      BY <1>4, <1>6, <2>1 DEF About
    <3>2. InChannel(t)'
      BY <1>3, <1>5, <2>1, <3>1 DEF InChannel
    <3> QED
      BY <3>2 DEF NewestWord
  <2>2. CASE ~About(todo[1], t)
    <3>1. NewestWord(t)
      BY <1>1 DEF ShownInv
    <3>2. CASE WithTask(t)
      <4>1. PICK i \in 1..Len(todo) : About(todo[i], t)
        BY <3>2 DEF WithTask
      <4>2. i - 1 \in 1..Len(todo') /\ todo'[i - 1] = todo[i]
        BY <1>4, <2>2, <4>1
      <4> QED
        BY <4>1, <4>2 DEF NewestWord, WithTask
    <3>3. CASE InChannel(t)
      <4>1. PICK i \in 1..Len(queue) :
              /\ About(queue[i], t) /\ queue[i].payload = Verdict
              /\ \A j \in 1..Len(queue) : j > i => ~About(queue[j], t)
        BY <3>3 DEF InChannel
      <4>2. /\ i \in 1..Len(queue') /\ About(queue'[i], t) /\ queue'[i].payload = Verdict
            /\ \A j \in 1..Len(queue') : j > i => ~About(queue'[j], t)
        BY <1>5, <2>2, <4>1
      <4> QED
        BY <1>3, <4>2 DEF NewestWord, InChannel
    <3>4. CASE (t \in dropped \/ AtBroker(t)) /\ \A j \in 1..Len(queue) : ~About(queue[j], t)
      <4>1. \A j \in 1..Len(queue') : ~About(queue'[j], t)
        BY <1>5, <2>2, <3>4
      <4> QED
        BY <1>1, <3>4, <4>1 DEF NewestWord, AtBroker
    <3> QED
      BY <3>1, <3>2, <3>3, <3>4 DEF NewestWord
  <2> QED
    BY <2>1, <2>2
<1>9. ShownTypes'
  BY <1>1, <1>2, <1>3, <1>4, <1>5 DEF ShownTypes
<1> QED
  BY <1>1, <1>2, <1>3, <1>7, <1>8, <1>9 DEF ShownInv

\* A message that leaves the channel is retained; when it was the newest word
\* on its target, the broker has it now.
LEMMA DeliverShown ==
    ASSUME ShownInv, Deliver
    PROVE  ShownInv'
<1>1. /\ daemon = "running" /\ conn = "up" /\ queue # <<>>
      /\ retained' = Retain(retained, Head(queue)) /\ queue' = Tail(queue)
      /\ dropped' = dropped \ Word(Head(queue))
      /\ UNCHANGED <<devices, blip, daemon, session, todo, conn, will, outages>>
  BY DEF Deliver, task
<1>2. /\ ShownTypes /\ ~will /\ queue \in Seq(Messages) /\ DOMAIN retained = Topics
      /\ \A i \in 1..Len(todo) : todo[i].payload \in {Verdict, "value"}
  BY <1>1 DEF ShownInv, ShownTypes
<1>3. Verdict' = Verdict /\ Targets' = Targets /\ Topics' = Topics /\ Messages' = Messages
  BY <1>1, SameWorld
<1>4. /\ Head(queue) = queue[1] /\ queue[1] \in Messages
      /\ Len(queue) \in Nat /\ Len(queue) >= 1
      /\ queue' \in Seq(Messages) /\ Len(queue') = Len(queue) - 1
      /\ \A i \in 1..Len(queue') : queue'[i] = queue[i + 1]
  BY <1>1, <1>2, HeadTail
<1>5. DOMAIN retained' = Topics
  BY <1>1, <1>2 DEF Retain
<1>6. ASSUME NEW t \in Targets
      PROVE  retained'[t] = IF About(queue[1], t) THEN queue[1].payload ELSE retained[t]
  <2>1. t \in Topics
    BY <1>2, TargetFacts DEF ShownTypes
  <2> QED
    BY <1>1, <1>2, <1>4, <2>1 DEF Retain, About
<1>7. ASSUME NEW t \in Targets PROVE NewestWord(t)'
  <2>1. NewestWord(t)
    BY <1>1 DEF ShownInv
  <2>2. CASE WithTask(t)
    BY <1>1, <2>2 DEF NewestWord, WithTask
  <2>3. CASE InChannel(t)
    <3>1. PICK i \in 1..Len(queue) :
            /\ About(queue[i], t) /\ queue[i].payload = Verdict
            /\ \A j \in 1..Len(queue) : j > i => ~About(queue[j], t)
      BY <2>3 DEF InChannel
    <3>2. CASE i = 1
      <4>1. retained'[t] = Verdict
        BY <1>6, <3>1, <3>2
      <4>2. \A j \in 1..Len(queue') : ~About(queue'[j], t)
        BY <1>4, <3>1, <3>2
      <4>3. AtBroker(t)'
        BY <1>1, <1>2, <4>1 DEF AtBroker, Verdict
      <4> QED
        BY <4>2, <4>3 DEF NewestWord
    <3>3. CASE i # 1
      <4>1. /\ i - 1 \in 1..Len(queue')
            /\ About(queue'[i - 1], t) /\ queue'[i - 1].payload = Verdict
            /\ \A j \in 1..Len(queue') : j > i - 1 => ~About(queue'[j], t)
        BY <1>4, <3>1, <3>3
      <4> QED
        BY <1>3, <4>1 DEF NewestWord, InChannel
    <3> QED
      BY <3>2, <3>3
  <2>4. CASE (t \in dropped \/ AtBroker(t)) /\ \A j \in 1..Len(queue) : ~About(queue[j], t)
    <3>1. retained'[t] = retained[t]
      BY <1>4, <1>6, <2>4
    <3>2. \A j \in 1..Len(queue') : ~About(queue'[j], t)
      BY <1>4, <2>4
    <3>3. t \in dropped => t \in dropped'
      BY <1>1, <1>4, <2>4 DEF Word, About
    <3> QED
      BY <1>1, <2>4, <3>1, <3>2, <3>3 DEF NewestWord, AtBroker
  <2> QED
    BY <2>1, <2>2, <2>3, <2>4 DEF NewestWord
<1>8. ShownTypes'
  BY <1>1, <1>2, <1>3, <1>4, <1>5 DEF ShownTypes
<1> QED
  BY <1>1, <1>2, <1>3, <1>7, <1>8 DEF ShownInv

\* A message written to a lost connection is dropped; when it was the newest
\* word on its target, that is on record.
LEMMA SwallowedShown ==
    ASSUME ShownInv, Swallowed
    PROVE  ShownInv'
<1>1. /\ daemon = "running" /\ conn = "lost" /\ queue # <<>>
      /\ queue' = Tail(queue) /\ dropped' = dropped \cup Word(Head(queue))
      /\ UNCHANGED <<devices, blip, daemon, session, todo, conn, will, outages, retained>>
  BY DEF Swallowed, task
<1>2. /\ ShownTypes /\ queue \in Seq(Messages)
      /\ \A i \in 1..Len(todo) : todo[i].payload \in {Verdict, "value"}
  BY <1>1 DEF ShownInv, ShownTypes
<1>3. Verdict' = Verdict /\ Targets' = Targets /\ Topics' = Topics /\ Messages' = Messages
  BY <1>1, SameWorld
<1>4. /\ Head(queue) = queue[1] /\ queue[1] \in Messages
      /\ Len(queue) \in Nat /\ Len(queue) >= 1
      /\ queue' \in Seq(Messages) /\ Len(queue') = Len(queue) - 1
      /\ \A i \in 1..Len(queue') : queue'[i] = queue[i + 1]
  BY <1>1, <1>2, HeadTail
<1>5. ASSUME NEW t \in Targets PROVE NewestWord(t)'
  <2>1. NewestWord(t)
    BY <1>1 DEF ShownInv
  <2>2. CASE WithTask(t)
    BY <1>1, <2>2 DEF NewestWord, WithTask
  <2>3. CASE InChannel(t)
    <3>1. PICK i \in 1..Len(queue) :
            /\ About(queue[i], t) /\ queue[i].payload = Verdict
            /\ \A j \in 1..Len(queue) : j > i => ~About(queue[j], t)
      BY <2>3 DEF InChannel
    <3>2. CASE i = 1
      <4>1. t \in dropped'
        BY <1>1, <1>4, <3>1, <3>2 DEF Word, About
      <4>2. \A j \in 1..Len(queue') : ~About(queue'[j], t)
        BY <1>4, <3>1, <3>2
      <4> QED
        BY <4>1, <4>2 DEF NewestWord
    <3>3. CASE i # 1
      <4>1. /\ i - 1 \in 1..Len(queue')
            /\ About(queue'[i - 1], t) /\ queue'[i - 1].payload = Verdict
            /\ \A j \in 1..Len(queue') : j > i - 1 => ~About(queue'[j], t)
        BY <1>4, <3>1, <3>3
      <4> QED
        BY <1>3, <4>1 DEF NewestWord, InChannel
    <3> QED
      BY <3>2, <3>3
  <2>4. CASE (t \in dropped \/ AtBroker(t)) /\ \A j \in 1..Len(queue) : ~About(queue[j], t)
    <3>1. \A j \in 1..Len(queue') : ~About(queue'[j], t)
      BY <1>4, <2>4
    <3> QED
      BY <1>1, <2>4, <3>1 DEF NewestWord, AtBroker
  <2> QED
    BY <2>1, <2>2, <2>3, <2>4 DEF NewestWord
<1>6. ShownTypes'
  BY <1>1, <1>2, <1>3, <1>4 DEF ShownTypes
<1> QED
  BY <1>1, <1>2, <1>3, <1>5, <1>6 DEF ShownInv

\* The client notices the outage: every word in its channel goes on record.
LEMMA NoticeShown ==
    ASSUME ShownInv, Notice
    PROVE  ShownInv'
<1>1. /\ daemon = "running" /\ conn = "lost" /\ conn' = "down" /\ queue' = <<>>
      /\ dropped' = dropped \cup UNION {Word(queue[i]) : i \in 1..Len(queue)}
      /\ UNCHANGED <<devices, blip, daemon, session, todo, will, outages, retained>>
  BY DEF Notice, task
<1>2. /\ ShownTypes
      /\ \A i \in 1..Len(todo) : todo[i].payload \in {Verdict, "value"}
  BY <1>1 DEF ShownInv
<1>3. Verdict' = Verdict /\ Targets' = Targets /\ Topics' = Topics /\ Messages' = Messages
  BY <1>1, SameWorld
<1>4. queue' \in Seq(Messages) /\ Len(queue') = 0
  BY <1>1
<1>5. ASSUME NEW t \in Targets PROVE NewestWord(t)'
  <2>1. NewestWord(t)
    BY <1>1 DEF ShownInv
  <2>2. CASE WithTask(t)
    BY <1>1, <2>2 DEF NewestWord, WithTask
  <2>3. CASE InChannel(t)
    <3>1. PICK i \in 1..Len(queue) : About(queue[i], t)
      BY <2>3 DEF InChannel
    <3>2. t \in Word(queue[i])
      BY <3>1 DEF Word, About
    <3> QED
      BY <1>1, <1>4, <3>2 DEF NewestWord
  <2>4. CASE t \in dropped \/ AtBroker(t)
    BY <1>1, <1>4, <2>4 DEF NewestWord, AtBroker
  <2> QED
    BY <2>1, <2>2, <2>3, <2>4 DEF NewestWord
<1>6. ShownTypes'
  BY <1>1, <1>2, <1>3, <1>4 DEF ShownTypes
<1> QED
  BY <1>1, <1>2, <1>3, <1>4, <1>5, <1>6 DEF ShownInv

\* An outage: what the will takes back at the broker, blip excuses.  The
\* connection is not up before the will has been published.
LEMMA OutageShown ==
    ASSUME ShownInv, daemon = "running",
           ConnectionLost \/ WillPublished \/ Reconnect \/ UNCHANGED vars
    PROVE  ShownInv'
<1>1. /\ UNCHANGED <<devices, daemon, session, todo, queue, dropped>>
      /\ UNCHANGED <<blip, will, conn>> \/ ConnectionLost \/ WillPublished \/ Reconnect
  BY DEF ConnectionLost, WillPublished, Reconnect, vars, task, broker
<1>2. /\ ShownTypes /\ (will => conn # "up")
      /\ \A i \in 1..Len(todo) : todo[i].payload \in {Verdict, "value"}
      /\ \A t \in Targets : NewestWord(t) /\ t \in Topics
  BY TargetFacts DEF ShownInv, ShownTypes
<1>3. Verdict' = Verdict /\ Targets' = Targets /\ Topics' = Topics /\ Messages' = Messages
  BY <1>1, SameWorld
<1>4. will' => conn' # "up"
  BY <1>2 DEF ConnectionLost, WillPublished, Reconnect, vars, broker
<1>5. DOMAIN retained' = Topics
  BY <1>2 DEF ShownTypes, ConnectionLost, WillPublished, Reconnect, vars, broker
<1>6. ASSUME NEW t \in Targets, AtBroker(t) PROVE AtBroker(t)'
  <2>1. CASE WillPublished
    <3>1. /\ will /\ ~will' /\ UNCHANGED <<blip, session>>
          /\ retained'[t] = IF t = Slot THEN "offline" ELSE retained[t]
      BY <1>2, <2>1 DEF WillPublished, LwtTopics, task
    <3> QED
      BY <1>6, <3>1 DEF AtBroker
  <2>2. CASE ConnectionLost
    BY <1>6, <2>2 DEF ConnectionLost, AtBroker, task
  <2>3. CASE Reconnect \/ UNCHANGED vars
    BY <1>6, <2>3 DEF Reconnect, vars, broker, AtBroker, task
  <2> QED
    BY <2>1, <2>2, <2>3
<1>7. ASSUME NEW t \in Targets PROVE NewestWord(t)'
  BY <1>1, <1>2, <1>3, <1>6 DEF NewestWord, WithTask, InChannel
<1>8. ShownTypes'
  BY <1>1, <1>2, <1>3, <1>5 DEF ShownTypes
<1> QED
  BY <1>1, <1>2, <1>3, <1>4, <1>7, <1>8 DEF ShownInv

LEMMA ShownNext == ShownInv /\ [Next]_vars => ShownInv'
<1> SUFFICES ASSUME ShownInv, [Next]_vars PROVE ShownInv'
  OBVIOUS
<1>1. CASE daemon = "running" /\ ~ProcessEnds
  BY <1>1, TaskShown, PublishShown, DeliverShown, SwallowedShown, NoticeShown, OutageShown
     DEF Next
<1>2. CASE daemon # "running" \/ ProcessEnds
  <2>1. daemon' # "running"
    BY <1>2 DEF Next, Online, Offline, Poll, Idle, publish, Deliver, ConnectionLost,
                Swallowed, Notice, WillPublished, Reconnect, ProcessEnds, vars, task
  <2> QED
    BY <2>1 DEF ShownInv
<1> QED
  BY <1>1, <1>2

\* Once nothing is under way, Home Assistant shows of every target what the
\* task decided last, whatever outages and full channels came before, for any
\* number of devices; save for a word that was in the client's hands when it
\* noticed an outage, until the next decision, and for the will's own topic,
\* between an outage and the next logon.
THEOREM VerdictShown == Spec => []SessionIsShown
<1>1. ShownInv => SessionIsShown
  BY DEF ShownInv, SessionIsShown, Quiet, NewestWord, WithTask, InChannel, AtBroker
<1>2. Spec => []ShownInv
  BY ShownInit, ShownNext, PTL DEF Spec
<1> QED
  BY <1>1, <1>2, PTL
=============================================================================
