-------------------------- MODULE DataPlaneProofs ---------------------------
(***************************************************************************)
(* What the three stores keep, for any tasks, slots, bounds, serials and   *)
(* configuration.                                                          *)
(*                                                                         *)
(* The archive.  HeaderFirst says nothing of an append that is under way,  *)
(* AcknowledgedKept nothing of a row on its way, so neither is inductive.  *)
(* HeaderInv adds what an append has found out about its file (Judged),    *)
(* which stays true because the lock has one holder (OneHolder); RowInv    *)
(* adds that a row about to be acknowledged is the last item of its file   *)
(* (RowLast) and that one still to be written is in no file (RowPlaced).   *)
(*                                                                         *)
(* The uploader.  GaugeInv: the gauge owner_slot leads to holds what the   *)
(* device last reported, or 0 as long as it has reported nothing.          *)
(*                                                                         *)
(* The app serial.  A logon long before the crash decides who the holder   *)
(* is; what carries NeverLockedOut is the file: the holder of a session is *)
(* on file or was mislaid, the serial in use too, and while a serial is    *)
(* minted there is none on file but a mislaid one (SerialInv).             *)
(***************************************************************************)
EXTENDS DataPlane, SequenceTheorems, TLAPS

-----------------------------------------------------------------------------
(* The archive: types and the lock. *)

Rows == [kind : {"row"}, task : Tasks, n : Nat, day : 0..MaxDay]
Items == Rows \cup {Csv!Header, Csv!Torn}

\* Before a task's row is written, and while it holds the lock.
Unwritten == {"lock", "exists", "open", "header", "line"}
Holding == {"exists", "open", "header", "line", "flush"}

CsvTypes ==
    /\ day \in 0..MaxDay
    /\ files \in [Csv!Paths -> Seq(Items)]
    /\ append_pc \in [Tasks -> {"idle", "lock"} \cup Holding]
    /\ row \in [Tasks -> Rows]
    /\ is_new \in [Tasks -> BOOLEAN]
    /\ count \in [Tasks -> Nat]
    /\ acked \in Seq(Rows)

\* The tasks between taking and dropping the guard are the holders of the
\* lock, and there is one at most.
OneHolder ==
    /\ \A t \in Tasks : append_pc[t] \in Holding <=> t \in lock
    /\ \A t, u \in Tasks : t \in lock /\ u \in lock => t = u

LEMMA RowFacts ==
    ASSUME CsvTypes, NEW t \in Tasks
    PROVE  /\ Csv!filename_for(t) \in Csv!Paths
           /\ row[t] \in Rows /\ row[t].kind = "row" /\ row[t] \in Items
           /\ row[t] # Csv!Header /\ row[t] # Csv!Torn
           /\ Csv!Header \in Items /\ Csv!Torn \in Items
           /\ Csv!Header # Csv!Torn
           /\ Csv!Header.kind = "header" /\ Csv!Torn.kind = "torn"
<1>1. row[t] \in Rows
  BY DEF CsvTypes
<1>2. row[t].kind = "row" /\ row[t].day \in 0..MaxDay
  BY <1>1 DEF Rows
<1>3. Csv!Header.kind = "header" /\ Csv!Torn.kind = "torn"
  BY DEF Csv!Header, Csv!Torn
<1>4. Csv!filename_for(t) \in Csv!Paths
  BY <1>2 DEF Csv!filename_for, Csv!Paths
<1> QED
  BY <1>1, <1>2, <1>3, <1>4 DEF Items

LEMMA FileFacts ==
    ASSUME CsvTypes, NEW p \in Csv!Paths
    PROVE  /\ files[p] \in Seq(Items) /\ Len(files[p]) \in Nat
           /\ DOMAIN files[p] = 1..Len(files[p])
           /\ \A i \in 1..Len(files[p]) : files[p][i] \in Items
<1>1. files[p] \in Seq(Items)
  BY DEF CsvTypes
<1> QED
  BY <1>1, LenProperties

\* A write adds its item at the end of the task's file, and nothing elsewhere.
LEMMA WriteFacts ==
    ASSUME CsvTypes, NEW t \in Tasks, NEW x \in Items, Csv!Write(t, x)
    PROVE  LET p == Csv!filename_for(t)
           IN  /\ files' \in [Csv!Paths -> Seq(Items)]
               /\ \A q \in Csv!Paths : q # p => files'[q] = files[q]
               /\ Len(files'[p]) = Len(files[p]) + 1
               /\ \A i \in 1..Len(files[p]) : files'[p][i] = files[p][i]
               /\ files'[p][Len(files[p]) + 1] = x
<1> DEFINE p == Csv!filename_for(t)
<1>1. p \in Csv!Paths /\ files[p] \in Seq(Items)
  BY RowFacts, FileFacts
<1>2. files' = [files EXCEPT ![p] = Append(files[p], x)]
  BY <1>1 DEF Csv!Write, CsvTypes
<1> HIDE DEF p
<1>3. files'[p] = Append(files[p], x) /\ \A q \in Csv!Paths : q # p => files'[q] = files[q]
  BY <1>1, <1>2 DEF CsvTypes
<1>4. /\ Append(files[p], x) \in Seq(Items)
      /\ Len(Append(files[p], x)) = Len(files[p]) + 1
      /\ \A i \in 1..Len(files[p]) : Append(files[p], x)[i] = files[p][i]
      /\ Append(files[p], x)[Len(files[p]) + 1] = x
  BY <1>1, AppendProperties
<1>5. files' \in [Csv!Paths -> Seq(Items)]
  BY <1>2, <1>4 DEF CsvTypes
<1> QED
  BY <1>3, <1>4, <1>5 DEF p

LEMMA CsvInitTypes == Csv!Init => CsvTypes /\ OneHolder
<1> SUFFICES ASSUME Csv!Init PROVE CsvTypes /\ OneHolder
  OBVIOUS
<1>1. 0 \in 0..MaxDay
  BY PlaneAssumption
<1>2. row \in [Tasks -> Rows]
  <2>1. \A t \in Tasks : Csv!Row(t, 0, 0) \in Rows
    BY <1>1 DEF Csv!Row, Rows
  <2> QED
    BY <2>1 DEF Csv!Init
<1>3. files \in [Csv!Paths -> Seq(Items)] /\ acked \in Seq(Rows)
  BY DEF Csv!Init
<1> QED
  BY <1>1, <1>2, <1>3 DEF Csv!Init, CsvTypes, OneHolder, Holding

\* The steps of one task, and the others.
TaskStep(t) ==
    \/ Csv!Record(t) \/ Csv!Acquire(t) \/ Csv!TryExists(t) \/ Csv!TryExistsFails(t)
    \/ Csv!Open(t) \/ Csv!WriteHeader(t) \/ Csv!WriteLine(t) \/ Csv!Flush(t)
    \/ Csv!Fails(t)

LEMMA CsvSteps ==
    ASSUME Csv!Next
    PROVE  (\E t \in Tasks : TaskStep(t)) \/ Csv!Crash \/ Csv!Restart \/ Csv!Midnight
BY DEF Csv!Next, Csv!Step, TaskStep

\* What a step does to the place of its task, and to nothing else's.
LEMMA Places ==
    ASSUME CsvTypes, NEW t \in Tasks, TaskStep(t)
    PROVE  /\ append_pc' \in [Tasks -> {"idle", "lock"} \cup Holding]
           /\ \A u \in Tasks : u # t => append_pc'[u] = append_pc[u]
           /\ Csv!Record(t) => append_pc[t] = "idle" /\ append_pc'[t] = "lock"
           /\ ~Csv!Record(t) => row' = row /\ count' = count /\ append_pc[t] # "idle"
           /\ Csv!Acquire(t) => append_pc[t] = "lock" /\ append_pc'[t] = "exists"
           /\ Csv!TryExists(t) \/ Csv!TryExistsFails(t) =>
                 append_pc[t] = "exists" /\ append_pc'[t] = "open"
           /\ Csv!Open(t) =>
                 /\ append_pc[t] = "open"
                 /\ append_pc'[t] = IF is_new[t] THEN "header" ELSE "line"
           /\ Csv!WriteHeader(t) => append_pc[t] = "header" /\ append_pc'[t] = "line"
           /\ Csv!WriteLine(t) => append_pc[t] = "line" /\ append_pc'[t] = "flush"
           /\ Csv!Flush(t) => append_pc[t] = "flush" /\ append_pc'[t] = "idle"
           /\ Csv!Fails(t) =>
                 append_pc[t] \in {"exists", "open", "header", "line"} /\ append_pc'[t] = "idle"
<1>1. PICK label \in {"idle", "lock"} \cup Holding : Csv!Goto(t, label)
  BY DEF TaskStep, Holding, Csv!Record, Csv!Acquire, Csv!TryExists, Csv!TryExistsFails,
         Csv!Open, Csv!WriteHeader, Csv!WriteLine, Csv!Flush, Csv!Fails
<1>2. /\ append_pc' \in [Tasks -> {"idle", "lock"} \cup Holding]
      /\ \A u \in Tasks : u # t => append_pc'[u] = append_pc[u]
  BY <1>1 DEF Csv!Goto, CsvTypes
<1>3. \A l : Csv!Goto(t, l) => append_pc'[t] = l
  BY DEF Csv!Goto, CsvTypes
<1>4. ~Csv!Record(t) => row' = row /\ count' = count /\ append_pc[t] # "idle"
  BY DEF TaskStep, Csv!Acquire, Csv!TryExists, Csv!TryExistsFails,
         Csv!Open, Csv!WriteHeader, Csv!WriteLine, Csv!Flush, Csv!Fails
<1> QED
  BY <1>2, <1>3, <1>4
     DEF Csv!Record, Csv!Acquire, Csv!TryExists, Csv!TryExistsFails,
         Csv!Open, Csv!WriteHeader, Csv!WriteLine, Csv!Flush, Csv!Fails

LEMMA CsvNextTypes ==
    ASSUME CsvTypes, Csv!Next
    PROVE  CsvTypes'
<1>1. ASSUME NEW t \in Tasks, TaskStep(t) PROVE CsvTypes'
  <2>1. append_pc' \in [Tasks -> {"idle", "lock"} \cup Holding]
    BY <1>1, Places
  <2>2. day' \in 0..MaxDay
    BY <1>1 DEF CsvTypes, TaskStep, Csv!Record, Csv!Acquire, Csv!TryExists,
       Csv!TryExistsFails, Csv!Open, Csv!WriteHeader, Csv!WriteLine, Csv!Flush, Csv!Fails
  <2>3. files' \in [Csv!Paths -> Seq(Items)]
    <3>1. CASE files' = files
      BY <3>1 DEF CsvTypes
    <3>2. CASE \E x \in Items : Csv!Write(t, x)
      BY <3>2, WriteFacts
    <3> QED
      BY <1>1, <3>1, <3>2, RowFacts
         DEF TaskStep, Csv!Record, Csv!Acquire, Csv!TryExists,
             Csv!TryExistsFails, Csv!Open, Csv!WriteHeader, Csv!WriteLine, Csv!Flush, Csv!Fails
  <2>4. row' \in [Tasks -> Rows] /\ count' \in [Tasks -> Nat]
    <3>1. CASE Csv!Record(t)
      <4>1. count[t] + 1 \in Nat /\ day \in 0..MaxDay
        BY DEF CsvTypes
      <4>2. Csv!Row(t, count[t] + 1, day) \in Rows
        BY <4>1 DEF Csv!Row, Rows
      <4> QED
        BY <3>1, <4>1, <4>2 DEF Csv!Record, CsvTypes
    <3>2. CASE ~Csv!Record(t)
      BY <1>1, <3>2, Places DEF CsvTypes
    <3> QED
      BY <3>1, <3>2
  <2>5. is_new' \in [Tasks -> BOOLEAN]
    BY <1>1 DEF CsvTypes, TaskStep, Csv!Record, Csv!Acquire, Csv!TryExists,
       Csv!TryExistsFails, Csv!Open, Csv!WriteHeader, Csv!WriteLine, Csv!Flush, Csv!Fails
  <2>6. acked' \in Seq(Rows)
    <3>1. CASE Csv!Flush(t)
      BY <3>1, RowFacts, AppendProperties DEF Csv!Flush, CsvTypes
    <3>2. CASE ~Csv!Flush(t)
      BY <1>1, <3>2 DEF CsvTypes, TaskStep, Csv!Record, Csv!Acquire, Csv!TryExists,
         Csv!TryExistsFails, Csv!Open, Csv!WriteHeader, Csv!WriteLine, Csv!Fails
    <3> QED
      BY <3>1, <3>2
  <2> QED
    BY <2>1, <2>2, <2>3, <2>4, <2>5, <2>6 DEF CsvTypes
<1>2. CASE Csv!Crash
  BY <1>2 DEF Csv!Crash, CsvTypes
<1>3. CASE Csv!Restart
  BY <1>3 DEF Csv!Restart, CsvTypes
<1>4. CASE Csv!Midnight
  BY <1>4, PlaneAssumption DEF Csv!Midnight, CsvTypes
<1> QED
  BY <1>1, <1>2, <1>3, <1>4, CsvSteps

LEMMA CsvNextHolder ==
    ASSUME CsvTypes, OneHolder, Csv!Next
    PROVE  OneHolder'
<1>1. ASSUME NEW t \in Tasks, TaskStep(t) PROVE OneHolder'
  <2>1. \A u \in Tasks : u # t => append_pc'[u] = append_pc[u]
    BY <1>1, Places
  <2>2. CASE Csv!Acquire(t)
    <3>1. lock = {} /\ lock' = {t} /\ append_pc'[t] \in Holding
      BY <1>1, <2>2, Places DEF Csv!Acquire, Holding
    <3> QED
      BY <2>1, <3>1 DEF OneHolder
  <2>3. CASE Csv!Flush(t) \/ Csv!Fails(t)
    <3>1. lock' = lock \ {t} /\ append_pc'[t] \notin Holding
      BY <1>1, <2>3, Places DEF Csv!Flush, Csv!Fails, Holding
    <3> QED
      BY <2>1, <3>1 DEF OneHolder
  <2>4. CASE ~(Csv!Acquire(t) \/ Csv!Flush(t) \/ Csv!Fails(t))
    <3>1. lock' = lock
      BY <1>1, <2>4 DEF TaskStep, Csv!Record, Csv!TryExists,
         Csv!TryExistsFails, Csv!Open, Csv!WriteHeader, Csv!WriteLine
    <3>2. append_pc'[t] \in Holding <=> append_pc[t] \in Holding
      BY <1>1, <2>4, Places DEF TaskStep, Holding
    <3> QED
      BY <2>1, <3>1, <3>2 DEF OneHolder
  <2> QED
    BY <2>2, <2>3, <2>4
<1>2. CASE Csv!Crash
  BY <1>2 DEF Csv!Crash, OneHolder, Holding
<1>3. CASE Csv!Restart \/ Csv!Midnight
  BY <1>3 DEF Csv!Restart, Csv!Midnight, OneHolder
<1> QED
  BY <1>1, <1>2, <1>3, CsvSteps

-----------------------------------------------------------------------------
(* The header. *)

Headed(p) ==
    /\ Len(files[p]) >= 1
    /\ \A i \in 1..Len(files[p]) : files[p][i] = Csv!Header <=> i = 1

\* What an append has found out about its file still holds.
Judged(t) ==
    LET p == Csv!filename_for(t)
    IN  p \notin spoiled =>
            /\ append_pc[t] = "open" => (is_new[t] <=> p \notin made)
            /\ append_pc[t] = "header" => p \in made /\ files[p] = <<>>
            /\ append_pc[t] \in {"line", "flush"} => p \in made

\* Some task is about to write the header of p.
Owed(p) == \E t \in Tasks : append_pc[t] = "header" /\ Csv!filename_for(t) = p

HeaderInv ==
    /\ \A t \in Tasks : Judged(t)
    /\ \A p \in Csv!Paths \ spoiled :
          /\ p \notin made => files[p] = <<>>
          /\ p \in made => Owed(p) \/ Headed(p)

\* While a task holds the lock nobody else's append is under way, so nobody
\* else owes a header.
LEMMA Alone ==
    ASSUME OneHolder, HeaderInv, NEW t \in Tasks, append_pc[t] \in Holding
    PROVE  /\ \A u \in Tasks : u # t => append_pc[u] \notin Holding
           /\ \A q \in Csv!Paths \ spoiled :
                 q \in made /\ (append_pc[t] # "header" \/ q # Csv!filename_for(t))
                    => Headed(q)
<1>1. \A u \in Tasks : u # t => append_pc[u] \notin Holding
  BY DEF OneHolder
<1>2. \A u \in Tasks : append_pc[u] = "header" => u = t
  BY <1>1 DEF Holding
<1> QED
  BY <1>1, <1>2 DEF HeaderInv, Owed

\* A row, or a torn one, leaves a headed file headed.
LEMMA HeadedGrows ==
    ASSUME CsvTypes, NEW t \in Tasks, NEW x \in Items, x # Csv!Header, Csv!Write(t, x),
           Headed(Csv!filename_for(t)), row' = row
    PROVE  Headed(Csv!filename_for(t))'
<1> DEFINE p == Csv!filename_for(t)
<1>1. p \in Csv!Paths /\ Len(files[p]) \in Nat
  BY RowFacts, FileFacts
<1>2. /\ Len(files'[p]) = Len(files[p]) + 1
      /\ \A i \in 1..Len(files[p]) : files'[p][i] = files[p][i]
      /\ files'[p][Len(files[p]) + 1] = x
  BY WriteFacts
<1>3. Len(files[p]) >= 1 /\ \A i \in 1..Len(files[p]) : files[p][i] = Csv!Header <=> i = 1
  BY DEF Headed
<1> HIDE DEF p
<1>4. /\ Len(files'[p]) >= 1
      /\ \A i \in 1..Len(files'[p]) : files'[p][i] = Csv!Header <=> i = 1
  BY <1>1, <1>2, <1>3
<1>5. Csv!Header' = Csv!Header /\ p' = p
  BY DEF Csv!Header, p, Csv!filename_for
<1>6. Headed(p)'
  BY <1>4, <1>5 DEF Headed
<1> QED
  BY <1>6 DEF p

\* A step of the holder of the lock that leaves the invariant's facts about
\* its own file right keeps the invariant.
LEMMA HolderStep ==
    ASSUME CsvTypes, OneHolder, HeaderInv, NEW t \in Tasks, append_pc[t] \in Holding,
           row' = row, \A u \in Tasks : u # t => append_pc'[u] = append_pc[u],
           \A q \in Csv!Paths : q # Csv!filename_for(t) => files'[q] = files[q],
           spoiled \subseteq spoiled',
           made' \subseteq made \cup {Csv!filename_for(t)}, made \subseteq made',
           Judged(t)',
           LET p == Csv!filename_for(t)
           IN  p \notin spoiled' => /\ p \notin made' => files'[p] = <<>>
                                    /\ p \in made' => Owed(p)' \/ Headed(p)'
    PROVE  HeaderInv'
<1> DEFINE p == Csv!filename_for(t)
<1>1. \A u \in Tasks : Csv!filename_for(u)' = Csv!filename_for(u)
  BY DEF Csv!filename_for
<1>2. ASSUME NEW u \in Tasks PROVE Judged(u)'
  <2>1. CASE u = t
    BY <2>1
  <2>2. CASE u # t
    <3>1. append_pc'[u] \notin Holding
      BY <2>2, Alone
    <3> QED
      BY <3>1 DEF Judged, Holding
  <2> QED
    BY <2>1, <2>2
<1>3. ASSUME NEW q \in Csv!Paths, q \notin spoiled', q # p
      PROVE  /\ q \notin made' => files'[q] = <<>>
             /\ q \in made' => Headed(q)'
  <2>1. q \notin spoiled /\ (q \in made <=> q \in made') /\ files'[q] = files[q]
    BY <1>3
  <2>2. q \in made => Headed(q)
    BY <1>3, <2>1, Alone
  <2>3. Csv!Header' = Csv!Header
    BY DEF Csv!Header
  <2> QED
    BY <2>1, <2>2, <2>3 DEF Headed, HeaderInv
<1>4. ASSUME NEW q, q = p PROVE (Owed(p)' => Owed(q)') /\ (Headed(p)' => Headed(q)')
  BY <1>1, <1>4 DEF Owed, Headed
<1>5. Csv!Paths' = Csv!Paths
  BY DEF Csv!Paths
<1>6. ASSUME NEW q \in Csv!Paths, q \notin spoiled'
      PROVE  /\ q \notin made' => files'[q] = <<>>
             /\ q \in made' => Owed(q)' \/ Headed(q)'
  <2>1. CASE q = p
    BY <1>4, <1>6, <2>1
  <2>2. CASE q # p
    BY <1>3, <1>6, <2>2
  <2> QED
    BY <2>1, <2>2
<1> QED
  BY <1>2, <1>5, <1>6 DEF HeaderInv

LEMMA CsvInitHeader == Csv!Init => HeaderInv
<1> SUFFICES ASSUME Csv!Init PROVE HeaderInv
  OBVIOUS
<1>1. \A t \in Tasks : append_pc[t] = "idle"
  BY DEF Csv!Init
<1> QED
  BY <1>1 DEF Csv!Init, HeaderInv, Judged

LEMMA TaskHeader ==
    ASSUME CsvTypes, OneHolder, HeaderInv, NEW t \in Tasks, TaskStep(t)
    PROVE  HeaderInv'
<1> DEFINE p == Csv!filename_for(t)
<1>1. p \in Csv!Paths /\ Len(files[p]) \in Nat /\ files[p] \in Seq(Items)
  BY RowFacts, FileFacts
<1>2. \A u \in Tasks : u # t => append_pc'[u] = append_pc[u]
  BY Places
<1>3. ~Csv!Record(t) => row' = row /\ p' = p
  BY Places DEF Csv!filename_for
<1>4. Csv!Header' = Csv!Header /\ Csv!Paths' = Csv!Paths
  BY DEF Csv!Header, Csv!Paths
<1>5. CASE Csv!Record(t) \/ Csv!Acquire(t)
  <2>1. /\ UNCHANGED <<files, made, spoiled, is_new>>
        /\ {append_pc[t], append_pc'[t]} \subseteq {"idle", "lock", "exists"}
    BY <1>5, Places DEF Csv!Record, Csv!Acquire
  <2>2. \A u \in Tasks : u # t => row'[u] = row[u]
    BY <1>5 DEF Csv!Record, Csv!Acquire, CsvTypes
  <2>3. \A u \in Tasks : u # t => Csv!filename_for(u)' = Csv!filename_for(u)
    BY <2>2 DEF Csv!filename_for
  <2>4. ASSUME NEW u \in Tasks PROVE Judged(u)'
    <3>1. CASE u = t
      BY <2>1, <3>1 DEF Judged
    <3>2. CASE u # t
      BY <1>2, <2>1, <2>3, <3>2 DEF HeaderInv, Judged
    <3> QED
      BY <3>1, <3>2
  <2>5. ASSUME NEW q PROVE Owed(q) => Owed(q)'
    BY <1>2, <2>1, <2>3 DEF Owed
  <2>6. ASSUME NEW q PROVE Headed(q) => Headed(q)'
    BY <1>4, <2>1 DEF Headed
  <2> QED
    BY <1>4, <2>1, <2>4, <2>5, <2>6 DEF HeaderInv
<1>6. CASE Csv!TryExists(t)
  <2>1. /\ append_pc[t] = "exists" /\ append_pc'[t] = "open" /\ row' = row /\ p' = p
        /\ UNCHANGED <<files, made, spoiled>> /\ (is_new'[t] <=> p \notin made)
    BY <1>6, Places DEF Csv!TryExists, CsvTypes, Csv!filename_for
  <2>2. Judged(t)'
    BY <2>1 DEF Judged
  <2>3. append_pc[t] \in Holding
    BY <2>1 DEF Holding
  <2>4. p \notin spoiled' => /\ p \notin made' => files'[p] = <<>>
                             /\ p \in made' => Headed(p)'
    <3>1. p \notin spoiled /\ p \in made => Headed(p)
      BY <1>1, <2>1, <2>3, Alone
    <3>2. Headed(p) => Headed(p)'
      BY <1>4, <2>1 DEF Headed
    <3> QED
      BY <1>1, <2>1, <3>1, <3>2 DEF HeaderInv
  <2> QED
    BY <1>2, <2>1, <2>2, <2>3, <2>4, HolderStep
<1>7. CASE Csv!TryExistsFails(t)
  <2>1. /\ append_pc[t] = "exists" /\ row' = row /\ p' = p
        /\ UNCHANGED <<files, made>> /\ spoiled' = spoiled \cup {p}
    BY <1>7, Places DEF Csv!TryExistsFails, Csv!filename_for
  <2>2. Judged(t)' /\ append_pc[t] \in Holding
    BY <2>1 DEF Judged, Holding
  <2> QED
    BY <1>2, <2>1, <2>2, HolderStep
<1>8. CASE Csv!Open(t)
  <2>1. /\ append_pc[t] = "open" /\ row' = row /\ p' = p
        /\ append_pc'[t] = IF is_new[t] THEN "header" ELSE "line"
        /\ UNCHANGED <<files, spoiled, is_new>> /\ made' = made \cup {p}
    BY <1>8, Places DEF Csv!Open, Csv!filename_for
  <2>2. append_pc[t] \in Holding
    BY <2>1 DEF Holding
  <2>3. p \notin spoiled => /\ is_new[t] <=> p \notin made
                            /\ p \notin made => files[p] = <<>>
                            /\ p \in made => Headed(p)
    <3>1. p \notin spoiled => (is_new[t] <=> p \notin made)
      BY <2>1 DEF HeaderInv, Judged
    <3>2. p \notin spoiled /\ p \in made => Headed(p)
      BY <1>1, <2>1, <2>2, Alone
    <3> QED
      BY <1>1, <3>1, <3>2 DEF HeaderInv
  <2>4. Judged(t)'
    BY <2>1, <2>3 DEF Judged
  <2>5. p \notin spoiled' => Owed(p)' \/ Headed(p)'
    <3>1. is_new[t] => Owed(p)'
      BY <2>1 DEF Owed
    <3>2. Headed(p) => Headed(p)'
      BY <1>4, <2>1 DEF Headed
    <3> QED
      BY <2>1, <2>3, <3>1, <3>2
  <2> QED
    BY <1>2, <2>1, <2>2, <2>4, <2>5, HolderStep
<1>9. CASE Csv!WriteHeader(t)
  <2>1. /\ append_pc[t] = "header" /\ append_pc'[t] = "line" /\ row' = row /\ p' = p
        /\ UNCHANGED <<made, spoiled, is_new>> /\ Csv!Write(t, Csv!Header)
    BY <1>9, Places DEF Csv!WriteHeader, Csv!filename_for
  <2>2. append_pc[t] \in Holding
    BY <2>1 DEF Holding
  <2>3. p \notin spoiled => p \in made /\ files[p] = <<>>
    BY <2>1 DEF HeaderInv, Judged
  <2>4. /\ \A q \in Csv!Paths : q # p => files'[q] = files[q]
        /\ Len(files'[p]) = Len(files[p]) + 1
        /\ files'[p][Len(files[p]) + 1] = Csv!Header
    BY <2>1, WriteFacts, RowFacts
  <2>5. Judged(t)'
    BY <2>1, <2>3 DEF Judged
  <2>6. p \notin spoiled => Headed(p)'
    <3>1. ASSUME p \notin spoiled PROVE Len(files[p]) = 0
      BY <2>3, <3>1
    <3>2. ASSUME p \notin spoiled
          PROVE  Len(files'[p]) = 1 /\ files'[p][1] = Csv!Header
      BY <2>4, <3>1, <3>2
    <3>3. ASSUME p \notin spoiled
          PROVE  /\ Len(files'[p]) >= 1
                 /\ \A i \in 1..Len(files'[p]) : files'[p][i] = Csv!Header <=> i = 1
      BY <3>2, <3>3
    <3> QED
      BY <1>4, <2>1, <3>3 DEF Headed
  <2> HIDE DEF p
  <2> QED
    BY <1>2, <2>1, <2>2, <2>3, <2>4, <2>5, <2>6, HolderStep DEF p
<1>10. CASE \/ Csv!WriteLine(t)
            \/ Csv!Fails(t) /\ append_pc[t] = "line" /\ Csv!Write(t, Csv!Torn)
  <2>1. /\ append_pc[t] = "line" /\ append_pc'[t] \in {"flush", "idle"}
        /\ row' = row /\ p' = p
        /\ UNCHANGED <<made, is_new>> /\ spoiled' = spoiled
    BY <1>10, Places DEF Csv!WriteLine, Csv!Fails, Csv!filename_for, Csv!Unheaded
  <2>2. append_pc[t] \in Holding
    BY <2>1 DEF Holding
  <2>3. PICK x \in Items : x # Csv!Header /\ Csv!Write(t, x)
    BY <1>10, RowFacts DEF Csv!WriteLine
  <2>4. \A q \in Csv!Paths : q # p => files'[q] = files[q]
    BY <2>3, WriteFacts
  <2>5. p \notin spoiled => p \in made /\ Headed(p)
    <3>1. p \notin spoiled => p \in made
      BY <2>1 DEF HeaderInv, Judged
    <3> QED
      BY <1>1, <2>1, <2>2, <3>1, Alone
  <2>6. Judged(t)'
    BY <2>1, <2>5 DEF Judged
  <2>7. p \notin spoiled => Headed(p)'
    <3>1. ASSUME Headed(Csv!filename_for(t)) PROVE Headed(Csv!filename_for(t))'
      BY <2>1, <2>3, <3>1, HeadedGrows
    <3> QED
      BY <2>5, <3>1
  <2> QED
    BY <1>2, <2>1, <2>2, <2>4, <2>5, <2>6, <2>7, HolderStep
<1>11. CASE Csv!Flush(t)
  <2>1. /\ append_pc[t] = "flush" /\ append_pc'[t] = "idle" /\ row' = row /\ p' = p
        /\ UNCHANGED <<files, made, spoiled>>
    BY <1>11, Places DEF Csv!Flush, Csv!filename_for
  <2>2. append_pc[t] \in Holding /\ Judged(t)'
    BY <2>1 DEF Holding, Judged
  <2>3. p \notin spoiled => p \in made /\ Headed(p)'
    <3>1. p \notin spoiled => p \in made
      BY <2>1 DEF HeaderInv, Judged
    <3>2. p \notin spoiled => Headed(p)
      BY <1>1, <2>1, <2>2, <3>1, Alone
    <3>3. Headed(p) => Headed(p)'
      BY <1>4, <2>1 DEF Headed
    <3> QED
      BY <3>1, <3>2, <3>3
  <2> QED
    BY <1>2, <2>1, <2>2, <2>3, HolderStep
<1>12. CASE Csv!Fails(t) /\ append_pc[t] = "header"
  <2>1. /\ append_pc'[t] = "idle" /\ row' = row /\ p' = p
        /\ made' = made /\ spoiled' = spoiled \cup {p}
    BY <1>12, Places DEF Csv!Fails, Csv!filename_for, Csv!Unheaded
  <2>2. append_pc[t] \in Holding /\ Judged(t)'
    BY <1>12, <2>1 DEF Holding, Judged
  <2>3. \A q \in Csv!Paths : q # p => files'[q] = files[q]
    BY <1>12, WriteFacts, RowFacts DEF Csv!Fails
  <2> QED
    BY <1>2, <2>1, <2>2, <2>3, HolderStep
<1>13. CASE Csv!Fails(t) /\ append_pc[t] # "header" /\ files' = files
  <2>1. /\ append_pc'[t] = "idle" /\ append_pc[t] \in Holding /\ row' = row /\ p' = p
        /\ made' = made /\ spoiled' = spoiled
    BY <1>13, Places DEF Csv!Fails, Csv!filename_for, Csv!Unheaded, Holding
  <2>2. Judged(t)'
    BY <2>1 DEF Judged
  <2>3. p \notin spoiled => /\ p \notin made => files[p] = <<>>
                            /\ p \in made => Headed(p)'
    <3>1. p \notin spoiled /\ p \in made => Headed(p)
      BY <1>1, <1>13, <2>1, Alone
    <3>2. Headed(p) => Headed(p)'
      BY <1>4, <1>13, <2>1 DEF Headed
    <3> QED
      BY <1>1, <3>1, <3>2 DEF HeaderInv
  <2> QED
    BY <1>2, <1>13, <2>1, <2>2, <2>3, HolderStep
<1>14. Csv!Fails(t) => \/ append_pc[t] = "header"
                       \/ append_pc[t] # "header" /\ files' = files
                       \/ append_pc[t] = "line" /\ Csv!Write(t, Csv!Torn)
  BY DEF Csv!Fails
<1> QED
  BY <1>5, <1>6, <1>7, <1>8, <1>9, <1>10, <1>11, <1>12, <1>13, <1>14 DEF TaskStep

LEMMA CsvNextHeader ==
    ASSUME CsvTypes, OneHolder, HeaderInv, Csv!Next
    PROVE  HeaderInv'
<1>1. Csv!Header' = Csv!Header /\ Csv!Paths' = Csv!Paths
  BY DEF Csv!Header, Csv!Paths
<1>2. CASE Csv!Crash
  <2>1. /\ UNCHANGED <<made, files, row, is_new>>
        /\ \A t \in Tasks : append_pc'[t] = "idle"
        /\ spoiled' = spoiled \cup UNION {Csv!Unheaded(t) : t \in Tasks}
    BY <1>2 DEF Csv!Crash
  <2>2. \A t \in Tasks : Judged(t)'
    BY <2>1 DEF Judged
  <2>3. ASSUME NEW q \in Csv!Paths, q \notin spoiled' PROVE q \notin spoiled /\ ~Owed(q)
    <3>1. \A t \in Tasks : append_pc[t] = "header" => Csv!filename_for(t) \in Csv!Unheaded(t)
      BY DEF Csv!Unheaded
    <3> QED
      BY <2>1, <2>3, <3>1 DEF Owed
  <2>4. ASSUME NEW q PROVE Headed(q) => Headed(q)'
    BY <1>1, <2>1 DEF Headed
  <2> QED
    BY <1>1, <2>1, <2>2, <2>3, <2>4 DEF HeaderInv
<1>3. CASE Csv!Restart \/ Csv!Midnight
  <2>1. UNCHANGED <<made, files, row, is_new, append_pc, spoiled>>
    BY <1>3 DEF Csv!Restart, Csv!Midnight
  <2>2. ASSUME NEW q PROVE (Headed(q) => Headed(q)') /\ (Owed(q) => Owed(q)')
    BY <1>1, <2>1 DEF Headed, Owed, Csv!filename_for
  <2>3. ASSUME NEW t \in Tasks PROVE Judged(t)'
    BY <2>1 DEF HeaderInv, Judged, Csv!filename_for
  <2> QED
    BY <1>1, <2>1, <2>2, <2>3 DEF HeaderInv
<1> QED
  BY <1>2, <1>3, TaskHeader, CsvSteps

-----------------------------------------------------------------------------
(* The rows. *)

InFile(r) == \E p \in Csv!Paths : \E i \in 1..Len(files[p]) : files[p][i] = r

IsAcked(r) == \E a \in 1..Len(acked) : acked[a] = r

\* A row on its way is the task's latest.
RowLatest ==
    \A t \in Tasks : row[t].task = t /\ (append_pc[t] # "idle" => row[t].n = count[t])

\* A row in a file belongs there, stands there once, and is not still to be
\* written.
RowPlaced ==
    \A p \in Csv!Paths : \A i \in 1..Len(files[p]) :
        LET x == files[p][i]
        IN  x.kind = "row" =>
              /\ x.n <= count[x.task]
              /\ x.n = count[x.task] => append_pc[x.task] \notin Unwritten
              /\ <<SlotOf[x.task], x.day>> = p
              /\ \A j \in 1..Len(files[p]) : files[p][j] = x => i = j

\* A row that is about to be acknowledged is the last item of its file.
RowLast ==
    \A t \in Tasks : append_pc[t] = "flush" =>
        LET f == files[Csv!filename_for(t)]
        IN  Len(f) >= 1 /\ f[Len(f)] = row[t] /\ ~IsAcked(row[t])

RowKept == \A a \in 1..Len(acked) : InFile(acked[a])

RowOrdered ==
    \A p \in Csv!Paths : \A i, j \in 1..Len(files[p]) : \A a, b \in 1..Len(acked) :
        files[p][i] = acked[a] /\ files[p][j] = acked[b] => (i < j <=> a < b)

RowInv == RowLatest /\ RowPlaced /\ RowLast /\ RowKept /\ RowOrdered

LEMMA CsvInitRow == Csv!Init => RowInv
<1> SUFFICES ASSUME Csv!Init PROVE RowInv
  OBVIOUS
<1>1. /\ \A p \in Csv!Paths : files[p] = <<>> /\ Len(files[p]) = 0
      /\ acked = <<>> /\ Len(acked) = 0
      /\ \A t \in Tasks : append_pc[t] = "idle" /\ row[t].task = t
  BY DEF Csv!Init, Csv!Row
<1> QED
  BY <1>1 DEF RowInv, RowLatest, RowPlaced, RowLast, RowKept, RowOrdered

\* A row that is not yet written is in no file, and nobody was told it was.
LEMMA RowNew ==
    ASSUME CsvTypes, RowInv, NEW t \in Tasks, append_pc[t] \in Unwritten
    PROVE  ~InFile(row[t]) /\ ~IsAcked(row[t])
<1>1. row[t].kind = "row" /\ row[t].task = t /\ row[t].n = count[t]
  BY RowFacts DEF RowInv, RowLatest, Unwritten
<1>2. ~InFile(row[t])
  BY <1>1 DEF InFile, RowInv, RowPlaced
<1> QED
  BY <1>2 DEF IsAcked, RowInv, RowKept

LEMMA AckedFacts ==
    ASSUME CsvTypes
    PROVE  Len(acked) \in Nat /\ \A a \in 1..Len(acked) : acked[a] \in Rows /\ acked[a].kind = "row"
<1>1. acked \in Seq(Rows)
  BY DEF CsvTypes
<1>2. Len(acked) \in Nat /\ \A a \in 1..Len(acked) : acked[a] \in Rows
  BY <1>1, LenProperties
<1> QED
  BY <1>2 DEF Rows

\* A step that writes nothing and takes up no new row.
LEMMA RowIdle ==
    ASSUME RowInv, UNCHANGED <<files, acked, row, count>>,
           \A u \in Tasks :
              /\ append_pc'[u] \in Unwritten => append_pc[u] \in Unwritten
              /\ append_pc'[u] = "flush" => append_pc[u] = "flush"
              /\ append_pc'[u] # "idle" => append_pc[u] # "idle",
           CsvTypes
    PROVE  RowInv'
<1>1. Csv!Paths' = Csv!Paths /\ \A t : Csv!filename_for(t)' = Csv!filename_for(t)
  BY DEF Csv!Paths, Csv!filename_for
<1>2. RowLatest' /\ RowKept' /\ RowOrdered'
  BY <1>1 DEF RowInv, RowLatest, RowKept, RowOrdered, InFile
<1>3. RowLast'
  BY <1>1 DEF RowInv, RowLast, IsAcked
<1>4. RowPlaced'
  <2> SUFFICES ASSUME NEW p \in Csv!Paths, NEW i \in 1..Len(files[p]),
                      files[p][i].kind = "row"
               PROVE  files[p][i].n = count[files[p][i].task]
                         => append_pc'[files[p][i].task] \notin Unwritten
    BY <1>1 DEF RowInv, RowPlaced
  <2>1. files[p][i] \in Rows
    BY FileFacts, RowFacts DEF Items, Csv!Header, Csv!Torn
  <2> QED
    BY <2>1 DEF RowInv, RowPlaced, Rows
<1> QED
  BY <1>2, <1>3, <1>4 DEF RowInv

\* A write of the holder of the lock: its row as it goes on to the flush, or
\* something that is no row.
LEMMA RowWrite ==
    ASSUME CsvTypes, OneHolder, RowInv, NEW t \in Tasks, NEW x \in Items, Csv!Write(t, x),
           append_pc[t] \in {"header", "line"}, UNCHANGED <<acked, row, count>>,
           \A u \in Tasks : u # t => append_pc'[u] = append_pc[u],
           \/ x = row[t] /\ append_pc'[t] = "flush"
           \/ x.kind # "row" /\ append_pc'[t] \in {"line", "idle"}
    PROVE  RowInv'
<1> DEFINE p == Csv!filename_for(t)
           n == Len(files[p])
<1>1. p \in Csv!Paths /\ n \in Nat
  BY RowFacts, FileFacts
<1>2. /\ \A q \in Csv!Paths : q # p => files'[q] = files[q]
      /\ Len(files'[p]) = n + 1
      /\ \A i \in 1..n : files'[p][i] = files[p][i]
      /\ files'[p][n + 1] = x
  BY WriteFacts
<1>3. Csv!Paths' = Csv!Paths /\ \A u : Csv!filename_for(u)' = Csv!filename_for(u)
  BY DEF Csv!Paths, Csv!filename_for
<1>4. append_pc[t] \in Unwritten /\ append_pc[t] \in Holding
  BY DEF Unwritten, Holding
<1>5. ~InFile(row[t]) /\ ~IsAcked(row[t])
  BY <1>4, RowNew
<1>6. /\ row[t].kind = "row" /\ row[t].task = t /\ row[t].n = count[t]
      /\ <<SlotOf[t], row[t].day>> = p
  BY RowFacts DEF RowInv, RowLatest, Csv!filename_for
<1>7. \A u \in Tasks : u # t => append_pc[u] # "flush"
  BY <1>4 DEF OneHolder, Holding
<1>8. \A a \in 1..Len(acked) : acked[a] # x
  BY <1>5, AckedFacts DEF IsAcked
<1>9. \A q \in Csv!Paths : \A i \in 1..Len(files[q]) :
          files[q][i].kind = "row" => files[q][i] \in Rows /\ files[q][i].task \in Tasks
  <2>1. Csv!Header.kind # "row" /\ Csv!Torn.kind # "row"
    BY DEF Csv!Header, Csv!Torn
  <2> QED
    BY <2>1, FileFacts DEF Items, Rows
<1>10. RowLatest'
  BY DEF RowInv, RowLatest
<1>11. RowLast'
  <2>1. ASSUME NEW u \in Tasks, append_pc'[u] = "flush" PROVE u = t /\ x = row[t]
    BY <1>7, <2>1
  <2> HIDE DEF p, n
  <2>2. x = row[t] => /\ Len(files'[p]) >= 1 /\ files'[p][Len(files'[p])] = row[t]
    BY <1>1, <1>2
  <2>3. ~IsAcked(row[t])'
    BY <1>5 DEF IsAcked
  <2> QED
    BY <1>3, <2>1, <2>2, <2>3 DEF RowLast, p
<1>12. ASSUME NEW q \in Csv!Paths
       PROVE  /\ Len(files[q]) \in Nat /\ Len(files'[q]) \in Nat
              /\ Len(files[q]) <= Len(files'[q])
              /\ \A i \in 1..Len(files[q]) : files'[q][i] = files[q][i]
              /\ \A i \in 1..Len(files'[q]) :
                    i \in 1..Len(files[q]) \/ (q = p /\ i = n + 1 /\ files'[q][i] = x)
  <2>1. Len(files[q]) \in Nat
    BY FileFacts
  <2> HIDE DEF p
  <2> QED
    BY <1>1, <1>2, <2>1
<1>13. RowKept'
  <2>1. ASSUME NEW r, InFile(r) PROVE InFile(r)'
    BY <1>3, <1>12, <2>1 DEF InFile
  <2> QED
    BY <2>1 DEF RowInv, RowKept
<1>14. RowOrdered'
  <2> SUFFICES ASSUME NEW q \in Csv!Paths, NEW i \in 1..Len(files'[q]), NEW j \in 1..Len(files'[q]),
                      NEW a \in 1..Len(acked), NEW b \in 1..Len(acked),
                      files'[q][i] = acked[a], files'[q][j] = acked[b]
               PROVE  i < j <=> a < b
    BY <1>3 DEF RowOrdered
  <2>1. i \in 1..Len(files[q]) /\ j \in 1..Len(files[q])
    BY <1>8, <1>12
  <2> QED
    BY <1>12, <2>1 DEF RowInv, RowOrdered
<1>15. RowPlaced'
  <2> SUFFICES ASSUME NEW q \in Csv!Paths, NEW i \in 1..Len(files'[q]), files'[q][i].kind = "row"
               PROVE  /\ files'[q][i].n <= count[files'[q][i].task]
                      /\ files'[q][i].n = count[files'[q][i].task]
                            => append_pc'[files'[q][i].task] \notin Unwritten
                      /\ <<SlotOf[files'[q][i].task], files'[q][i].day>> = q
                      /\ \A j \in 1..Len(files'[q]) : files'[q][j] = files'[q][i] => i = j
    BY <1>3 DEF RowPlaced
  <2> HIDE DEF p, n
  <2>1. CASE i \in 1..Len(files[q])
    <3>1. files'[q][i] = files[q][i] /\ files[q][i].task \in Tasks
      BY <1>9, <1>12, <2>1
    <3>2. x # files[q][i]
      BY <1>5, <2>1, <3>1 DEF InFile
    <3>3. append_pc'[files[q][i].task] \in Unwritten => append_pc[files[q][i].task] \in Unwritten
      BY <1>4, <3>1
    <3> QED
      BY <1>12, <2>1, <3>1, <3>2, <3>3 DEF RowInv, RowPlaced
  <2>2. CASE i \notin 1..Len(files[q])
    <3>1. q = p /\ i = n + 1 /\ files'[q][i] = x
      BY <1>12, <2>2
    <3>2. x = row[t] /\ append_pc'[t] \notin Unwritten
      BY <3>1 DEF Unwritten
    <3>3. \A j \in 1..Len(files[q]) : files'[q][j] # x
      BY <1>5, <1>12, <3>2 DEF InFile
    <3>4. count[t] \in Nat
      BY DEF CsvTypes
    <3>5. \A j \in 1..Len(files'[q]) : files'[q][j] = files'[q][i] => i = j
      BY <1>12, <3>1, <3>3
    <3> QED
      BY <1>6, <3>1, <3>2, <3>4, <3>5
  <2> QED
    BY <2>1, <2>2
<1> QED
  BY <1>10, <1>11, <1>13, <1>14, <1>15 DEF RowInv

LEMMA RowFlush ==
    ASSUME CsvTypes, OneHolder, RowInv, NEW t \in Tasks, Csv!Flush(t)
    PROVE  RowInv'
<1> DEFINE p == Csv!filename_for(t)
           n == Len(acked)
           r == row[t]
<1>1. /\ p \in Csv!Paths /\ n \in Nat /\ r \in Rows /\ r.kind = "row" /\ r.task = t
      /\ <<SlotOf[t], r.day>> = p
  BY RowFacts, AckedFacts DEF RowInv, RowLatest, Csv!filename_for
<1>2. /\ append_pc[t] = "flush" /\ append_pc'[t] = "idle"
      /\ \A u \in Tasks : u # t => append_pc'[u] = append_pc[u]
      /\ UNCHANGED <<files, row, count>> /\ acked' = Append(acked, r)
  BY Places DEF TaskStep, Csv!Flush
<1>3. /\ Len(acked') = n + 1 /\ acked'[n + 1] = r
      /\ \A a \in 1..n : acked'[a] = acked[a]
  BY <1>1, <1>2, AppendProperties DEF CsvTypes
<1>4. Csv!Paths' = Csv!Paths /\ \A u : Csv!filename_for(u)' = Csv!filename_for(u)
  BY <1>2 DEF Csv!Paths, Csv!filename_for
<1>5. Len(files[p]) >= 1 /\ files[p][Len(files[p])] = r /\ ~IsAcked(r)
  BY <1>2 DEF RowInv, RowLast
<1>6. \A u \in Tasks : append_pc'[u] # "flush"
  <2>1. append_pc[t] \in Holding
    BY <1>2 DEF Holding
  <2> QED
    BY <1>2, <2>1 DEF OneHolder, Holding
<1>7. RowLatest' /\ RowLast'
  BY <1>2, <1>6 DEF RowInv, RowLatest, RowLast
<1>8. RowPlaced'
  <2>1. \A u \in Tasks : append_pc'[u] \in Unwritten => append_pc[u] \in Unwritten
    BY <1>2 DEF Unwritten
  <2>2. \A q \in Csv!Paths : \A i \in 1..Len(files[q]) :
            files[q][i].kind = "row" => files[q][i].task \in Tasks
    <3>1. Csv!Header.kind # "row" /\ Csv!Torn.kind # "row"
      BY DEF Csv!Header, Csv!Torn
    <3> QED
      BY <3>1, FileFacts DEF Items, Rows
  <2> HIDE DEF p, n, r
  <2> QED
    BY <1>2, <1>4, <2>1, <2>2 DEF RowInv, RowPlaced
<1>9. Len(files[p]) \in Nat
  BY <1>1, FileFacts
<1> HIDE DEF p, n, r
<1>10. RowKept'
  <2>1. ASSUME NEW x, InFile(x) PROVE InFile(x)'
    BY <1>2, <1>4, <2>1 DEF InFile
  <2>2. InFile(r)
    BY <1>1, <1>5, <1>9 DEF InFile
  <2>3. ASSUME NEW a \in 1..Len(acked') PROVE InFile(acked'[a])
    BY <1>1, <1>3, <2>2, <2>3 DEF RowInv, RowKept, n
  <2> QED
    BY <2>1, <2>3 DEF RowKept
<1>11. RowOrdered'
  <2> SUFFICES ASSUME NEW q \in Csv!Paths, NEW i \in 1..Len(files[q]), NEW j \in 1..Len(files[q]),
                      NEW a \in 1..n + 1, NEW b \in 1..n + 1,
                      files[q][i] = acked'[a], files[q][j] = acked'[b]
               PROVE  i < j <=> a < b
    BY <1>2, <1>3, <1>4 DEF RowOrdered
  <2>1. ASSUME NEW k \in 1..Len(files[q]), files[q][k] = r
        PROVE  q = p /\ k = Len(files[q])
    <3>1. q = p
      BY <1>1, <2>1 DEF RowInv, RowPlaced
    <3> QED
      BY <1>1, <1>5, <1>9, <2>1, <3>1 DEF RowInv, RowPlaced
  <2>2. Len(files[q]) \in Nat
    BY FileFacts
  <2>3. \A c \in 1..n : acked'[c] = acked[c] /\ acked[c] # r
    BY <1>3, <1>5 DEF IsAcked, n
  <2>4. CASE a \in 1..n /\ b \in 1..n
    BY <2>3, <2>4 DEF RowInv, RowOrdered, n
  <2>5. CASE a = n + 1
    <3>1. i = Len(files[q]) /\ ~(i < j)
      BY <1>3, <2>1, <2>2, <2>5
    <3> QED
      BY <1>1, <2>5, <3>1
  <2>6. CASE a \in 1..n /\ b = n + 1
    <3>1. j = Len(files[q]) /\ i # j
      BY <1>3, <2>1, <2>3, <2>6
    <3> QED
      BY <1>1, <2>2, <2>6, <3>1
  <2> QED
    BY <1>1, <2>4, <2>5, <2>6
<1> QED
  BY <1>7, <1>8, <1>10, <1>11 DEF RowInv

LEMMA RowRecord ==
    ASSUME CsvTypes, RowInv, NEW t \in Tasks, Csv!Record(t)
    PROVE  RowInv'
<1>1. /\ append_pc[t] = "idle" /\ append_pc'[t] = "lock"
      /\ \A u \in Tasks : u # t => append_pc'[u] = append_pc[u]
  BY Places DEF TaskStep
<1>2. /\ UNCHANGED <<files, acked>> /\ count[t] \in Nat
      /\ count'[t] = count[t] + 1 /\ row'[t].task = t /\ row'[t].n = count'[t]
      /\ \A u \in Tasks : u # t => row'[u] = row[u] /\ count'[u] = count[u]
  BY DEF Csv!Record, Csv!Row, CsvTypes
<1>3. /\ Csv!Paths' = Csv!Paths
      /\ \A u \in Tasks : u # t => Csv!filename_for(u)' = Csv!filename_for(u)
  BY <1>2 DEF Csv!Paths, Csv!filename_for
<1>4. RowLatest' /\ RowKept' /\ RowOrdered'
  BY <1>1, <1>2, <1>3 DEF RowInv, RowLatest, RowKept, RowOrdered, InFile
<1>5. RowLast'
  <2> SUFFICES ASSUME NEW u \in Tasks, append_pc'[u] = "flush"
               PROVE  LET f == files[Csv!filename_for(u)]
                      IN  Len(f) >= 1 /\ f[Len(f)] = row[u] /\ ~IsAcked(row[u])
    BY <1>1, <1>2, <1>3 DEF RowLast, IsAcked
  <2> QED
    BY <1>1 DEF RowInv, RowLast
<1>6. RowPlaced'
  <2> SUFFICES ASSUME NEW q \in Csv!Paths, NEW i \in 1..Len(files[q]), files[q][i].kind = "row"
               PROVE  /\ files[q][i].n <= count'[files[q][i].task]
                      /\ files[q][i].n = count'[files[q][i].task]
                            => append_pc'[files[q][i].task] \notin Unwritten
    BY <1>2, <1>3 DEF RowInv, RowPlaced
  <2>1. files[q][i].task \in Tasks /\ files[q][i].n \in Nat
    <3>1. Csv!Header.kind # "row" /\ Csv!Torn.kind # "row"
      BY DEF Csv!Header, Csv!Torn
    <3> QED
      BY <3>1, FileFacts DEF Items, Rows
  <2>2. /\ files[q][i].n <= count[files[q][i].task]
        /\ files[q][i].n = count[files[q][i].task] => append_pc[files[q][i].task] \notin Unwritten
    BY DEF RowInv, RowPlaced
  <2> QED
    BY <1>1, <1>2, <2>1, <2>2
<1> QED
  BY <1>4, <1>5, <1>6 DEF RowInv

LEMMA CsvNextRow ==
    ASSUME CsvTypes, OneHolder, RowInv, Csv!Next
    PROVE  RowInv'
<1>1. ASSUME NEW t \in Tasks, TaskStep(t) PROVE RowInv'
  <2>1. \A u \in Tasks : u # t => append_pc'[u] = append_pc[u]
    BY <1>1, Places
  <2>2. CASE Csv!Record(t) \/ Csv!Flush(t)
    BY <2>2, RowRecord, RowFlush
  <2>3. CASE Csv!Acquire(t) \/ Csv!TryExists(t) \/ Csv!TryExistsFails(t) \/ Csv!Open(t)
    <3>1. /\ UNCHANGED <<files, acked, row, count>>
          /\ append_pc[t] \in Unwritten /\ append_pc'[t] \in Unwritten
      BY <1>1, <2>3, Places
         DEF Csv!Acquire, Csv!TryExists, Csv!TryExistsFails, Csv!Open, Unwritten
    <3>2. append_pc[t] # "idle" /\ append_pc'[t] # "flush"
      BY <3>1 DEF Unwritten
    <3> QED
      BY <2>1, <3>1, <3>2, RowIdle
  <2>4. CASE Csv!Fails(t) /\ files' = files
    <3>1. UNCHANGED <<files, acked, row, count>> /\ append_pc'[t] = "idle"
      BY <1>1, <2>4, Places DEF Csv!Fails
    <3>2. append_pc'[t] \notin Unwritten
      BY <3>1 DEF Unwritten
    <3> QED
      BY <2>1, <3>1, <3>2, RowIdle
  <2>5. CASE Csv!WriteHeader(t)
    <3>1. /\ UNCHANGED <<acked, row, count>> /\ Csv!Write(t, Csv!Header)
          /\ append_pc[t] = "header" /\ append_pc'[t] = "line"
      BY <1>1, <2>5, Places DEF Csv!WriteHeader
    <3> QED
      BY <2>1, <3>1, RowFacts, RowWrite
  <2>6. CASE Csv!WriteLine(t)
    <3>1. /\ UNCHANGED <<acked, row, count>> /\ Csv!Write(t, row[t])
          /\ append_pc[t] = "line" /\ append_pc'[t] = "flush"
      BY <1>1, <2>6, Places DEF Csv!WriteLine
    <3> QED
      BY <2>1, <3>1, RowFacts, RowWrite
  <2>7. CASE Csv!Fails(t) /\ append_pc[t] \in {"header", "line"} /\ Csv!Write(t, Csv!Torn)
    <3>1. UNCHANGED <<acked, row, count>> /\ append_pc'[t] = "idle"
      BY <1>1, <2>7, Places DEF Csv!Fails
    <3> QED
      BY <2>1, <2>7, <3>1, RowFacts, RowWrite
  <2>8. Csv!Fails(t) =>
           files' = files \/ (append_pc[t] \in {"header", "line"} /\ Csv!Write(t, Csv!Torn))
    BY DEF Csv!Fails
  <2> QED
    BY <1>1, <2>2, <2>3, <2>4, <2>5, <2>6, <2>7, <2>8 DEF TaskStep
<1>2. CASE Csv!Crash
  <2>1. UNCHANGED <<files, acked, row, count>> /\ \A t \in Tasks : append_pc'[t] = "idle"
    BY <1>2 DEF Csv!Crash
  <2>2. "idle" \notin Unwritten
    BY DEF Unwritten
  <2> QED
    BY <2>1, <2>2, RowIdle
<1>3. CASE Csv!Restart \/ Csv!Midnight
  <2>1. UNCHANGED <<files, acked, row, count, append_pc>>
    BY <1>3 DEF Csv!Restart, Csv!Midnight
  <2> QED
    BY <2>1, RowIdle
<1> QED
  BY <1>1, <1>2, <1>3, CsvSteps

-----------------------------------------------------------------------------
(* The uploader. *)

Readings == [Pv!Fields -> Int]
Reports == [Pv!Fields -> SUBSET Int]
Statuses == [v1 : Int, v2 : Int, v5 : SUBSET Int, v6 : SUBSET Int]

\* A gauge shows the last report of its field, or the 0 it began with.
Shows(g, l) ==
    /\ g.energy \in Nat
    /\ \A f \in Pv!Fields : IF l[f] = {} THEN g[f] = 0 ELSE l[f] = {g[f]}

\* The gauges that are read for a device are those its poll loop sets.
GaugeInv ==
    /\ gauges \in [Pv!Names \X Pv!Names -> Readings]
    /\ last \in [Pv!Names -> Reports]
    /\ posting \in [Systems -> {<<>>} \cup Statuses]
    /\ \A d \in Pv!Names : Shows(gauges[Pv!Label(Pv!owner_slot(d), d)], last[d])

\* owner_slot finds the entry that polls a device, and there is a label for
\* every name.
LEMMA Owners ==
    /\ \A d \in Pv!Names : Pv!owner_slot(d) \in Pv!Names
    /\ \A e \in Pv!Entries : \A d \in Pv!Served(e) :
          d \in Pv!Names /\ Pv!owner_slot(d) = Inverters[e].slot
<1> DEFINE M(d) == {e \in Pv!Entries :
              \/ d \in Inverters[e].devices
              \/ Inverters[e].slot = d /\ Inverters[e].devices = {}}
<1>1. \A d : \A e \in Pv!Entries : e \in M(d) <=> d \in Pv!Served(e)
  BY DEF Pv!Served
<1>2. \A d : \A e, o \in M(d) : e = o
  BY <1>1, PlaneAssumption
<1>3. \A d : Pv!owner_slot(d) =
         IF M(d) = {} THEN d ELSE Inverters[CHOOSE e \in M(d) : \A o \in M(d) : e <= o].slot
  BY DEF Pv!owner_slot
<1>4. \A d : M(d) \subseteq Pv!Entries /\ Pv!Entries \subseteq Int
  BY DEF Pv!Entries
<1> HIDE DEF M
<1>5. ASSUME NEW d, NEW e \in M(d) PROVE Pv!owner_slot(d) = Inverters[e].slot
  <2>1. \A o \in M(d) : e <= o
    BY <1>2, <1>4
  <2>2. (CHOOSE x \in M(d) : \A o \in M(d) : x <= o) = e
    BY <1>2, <2>1
  <2> QED
    BY <1>3, <2>2
<1>6. \A e \in Pv!Entries : \A d \in Pv!Served(e) :
         d \in Pv!Names /\ Pv!owner_slot(d) = Inverters[e].slot
  BY <1>1, <1>5 DEF Pv!Names, Pv!Devices
<1>7. ASSUME NEW d \in Pv!Names PROVE Pv!owner_slot(d) \in Pv!Names
  <2>1. CASE M(d) = {}
    BY <1>3, <2>1
  <2>2. CASE M(d) # {}
    BY <1>4, <1>5, <2>2 DEF Pv!Names
  <2> QED
    BY <2>1, <2>2
<1> QED
  BY <1>6, <1>7

LEMMA UnreadGauges ==
    /\ Pv!NoGauges \in [Pv!Names \X Pv!Names -> Readings]
    /\ Pv!Unreported \in Reports
    /\ \A d \in Pv!Names :
          Shows(Pv!NoGauges[Pv!Label(Pv!owner_slot(d), d)], Pv!Unreported)
<1>1. Pv!Unread \in Readings /\ Pv!Unreported \in Reports
  BY DEF Pv!Unread, Pv!Unreported, Readings, Reports
<1>2. Shows(Pv!Unread, Pv!Unreported)
  BY DEF Pv!Unread, Pv!Unreported, Pv!Fields, Shows
<1>3. \A d \in Pv!Names : Pv!Label(Pv!owner_slot(d), d) \in Pv!Names \X Pv!Names
  BY Owners DEF Pv!Label
<1>4. Pv!NoGauges = [l \in Pv!Names \X Pv!Names |-> Pv!Unread]
  BY DEF Pv!NoGauges
<1> QED
  BY <1>1, <1>2, <1>3, <1>4

LEMMA PvInitGauge == Pv!Init => GaugeInv
BY UnreadGauges DEF Pv!Init, GaugeInv

\* collect_status reads the gauges as PVOutput is to understand them.
LEMMA StatusReported ==
    ASSUME GaugeInv, NEW d \in Pv!Names
    PROVE  /\ Pv!MadeOf(Pv!Status(gauges[Pv!Label(Pv!owner_slot(d), d)]), d)
           /\ Pv!Status(gauges[Pv!Label(Pv!owner_slot(d), d)]) \in Statuses
<1> DEFINE g == gauges[Pv!Label(Pv!owner_slot(d), d)]
           l == last[d]
<1>1. Pv!Label(Pv!owner_slot(d), d) \in Pv!Names \X Pv!Names
  BY Owners DEF Pv!Label
<1>2. g \in Readings /\ Shows(g, l)
  BY <1>1 DEF GaugeInv
<1> HIDE DEF g, l
<1>3. /\ g.energy \in Nat /\ g.power \in Int /\ g.temp \in Int /\ g.voltage \in Int
      /\ IF l.energy = {} THEN g.energy = 0 ELSE l.energy = {g.energy}
      /\ IF l.power = {} THEN g.power = 0 ELSE l.power = {g.power}
      /\ IF l.temp = {} THEN g.temp = 0 ELSE l.temp = {g.temp}
      /\ IF l.voltage = {} THEN g.voltage = 0 ELSE l.voltage = {g.voltage}
  BY <1>2 DEF Readings, Shows, Pv!Fields
<1>4. /\ Pv!AtLeast0(g.energy) = g.energy
      /\ Pv!AtLeast0(g.power) = Pv!NotNegative(g.power)
      /\ Pv!AtLeast0(g.power) \in Int
  BY <1>3 DEF Pv!AtLeast0, Pv!NotNegative
<1>5. g.energy \in Pv!OrZero(l.energy) /\ g.power \in Pv!OrZero(l.power)
  BY <1>3 DEF Pv!OrZero
<1>6. /\ Pv!IfPositive(g.temp) = {t \in l.temp : t > 0}
      /\ Pv!IfPositive(g.voltage) = {u \in l.voltage : u > 0}
  BY <1>3 DEF Pv!IfPositive
<1>7. /\ Pv!IfPositive(g.temp) \in SUBSET Int
      /\ Pv!IfPositive(g.voltage) \in SUBSET Int
  BY <1>3 DEF Pv!IfPositive
<1>8. /\ Pv!Status(g).v1 = Pv!AtLeast0(g.energy) /\ Pv!Status(g).v2 = Pv!AtLeast0(g.power)
      /\ Pv!Status(g).v5 = Pv!IfPositive(g.temp)
      /\ Pv!Status(g).v6 = Pv!IfPositive(g.voltage)
  BY DEF Pv!Status
<1>9. Pv!Status(g) \in Statuses
  BY <1>3, <1>4, <1>7 DEF Pv!Status, Statuses
<1>10. Pv!MadeOf(Pv!Status(g), d)
  BY <1>4, <1>5, <1>6, <1>8 DEF Pv!MadeOf, l
<1> QED
  BY <1>9, <1>10 DEF g

LEMMA PvNextGauge ==
    ASSUME GaugeInv, Pv!Next
    PROVE  GaugeInv'
<1>1. ASSUME NEW e \in Pv!Entries, NEW d \in Pv!Served(e), NEW f \in Pv!Fields,
             NEW v \in Pv!ValuesOf(f), Pv!SetGauge(e, d, f, v)
      PROVE  GaugeInv'
  <2> DEFINE l == Pv!Label(Inverters[e].slot, d)
  <2>1. d \in Pv!Names /\ Pv!owner_slot(d) = Inverters[e].slot
    BY Owners
  <2>2. l \in Pv!Names \X Pv!Names
    BY <2>1, Owners DEF Pv!Label
  <2>3. v \in Int /\ (f = "energy" => v \in Nat)
    BY PlaneAssumption DEF Pv!ValuesOf, Pv!Fields
  <2>4. /\ gauges' = [gauges EXCEPT ![l] = [gauges[l] EXCEPT ![f] = v]]
        /\ last' = [last EXCEPT ![d] = [last[d] EXCEPT ![f] = {v}]]
        /\ posting' = posting
    BY <1>1 DEF Pv!SetGauge
  <2>5. gauges[l] \in Readings /\ last[d] \in Reports /\ Shows(gauges[l], last[d])
    BY <2>1, <2>2 DEF GaugeInv
  <2> DEFINE g == [gauges[l] EXCEPT ![f] = v]
             r == [last[d] EXCEPT ![f] = {v}]
  <2>6. g \in Readings /\ r \in Reports
    BY <2>3, <2>5 DEF Readings, Reports
  <2>7. /\ g[f] = v /\ r[f] = {v}
        /\ \A h \in Pv!Fields : h # f => g[h] = gauges[l][h] /\ r[h] = last[d][h]
    BY <2>5 DEF Readings, Reports
  <2>8. Shows(g, r)
    <3>1. g.energy \in Nat
      BY <2>3, <2>5, <2>7 DEF Shows, Pv!Fields
    <3> QED
      BY <2>5, <2>7, <3>1 DEF Shows
  <2>9. /\ gauges' = [gauges EXCEPT ![l] = g] /\ last' = [last EXCEPT ![d] = r]
    BY <2>4
  <2>10. \A c \in Pv!Names : c # d => Pv!Label(Pv!owner_slot(c), c) # l
    BY DEF Pv!Label
  <2>11. \A c \in Pv!Names : Pv!Label(Pv!owner_slot(c), c) \in Pv!Names \X Pv!Names
    BY Owners DEF Pv!Label
  <2> HIDE DEF l, g, r
  <2>12. ASSUME NEW c \in Pv!Names
         PROVE  Shows(gauges'[Pv!Label(Pv!owner_slot(c), c)], last'[c])
    <3>1. CASE c = d
      BY <2>1, <2>2, <2>8, <2>9, <3>1 DEF GaugeInv, l
    <3>2. CASE c # d
      BY <2>9, <2>10, <2>11, <3>2 DEF GaugeInv
    <3> QED
      BY <3>1, <3>2
  <2>13. gauges' \in [Pv!Names \X Pv!Names -> Readings] /\ last' \in [Pv!Names -> Reports]
    BY <2>6, <2>9 DEF GaugeInv
  <2> QED
    BY <2>4, <2>12, <2>13 DEF GaugeInv
<1>2. ASSUME NEW s \in Systems, Pv!Collect(s) PROVE GaugeInv'
  <2>1. Pv!Status(gauges[Pv!Label(Pv!owner_slot(s), s)]) \in Statuses
    BY StatusReported DEF Pv!Names
  <2> QED
    BY <1>2, <2>1 DEF Pv!Collect, GaugeInv
<1>3. ASSUME NEW s \in Systems,
             Pv!BuildFails(s) \/ Pv!FirstTick(s) \/ Pv!PostOk(s) \/ Pv!PostFails(s)
      PROVE  GaugeInv'
  BY <1>3 DEF Pv!BuildFails, Pv!FirstTick, Pv!PostOk, Pv!PostFails, GaugeInv
<1>4. CASE Pv!Crash
  BY <1>4 DEF Pv!Crash, GaugeInv
<1>5. CASE Pv!Restart
  BY <1>5, UnreadGauges DEF Pv!Restart, GaugeInv
<1> QED
  BY <1>1, <1>2, <1>3, <1>4, <1>5 DEF Pv!Next

-----------------------------------------------------------------------------
(* The app serial. *)

SerialInv ==
    /\ holder \subseteq file \cup mislaid
    /\ pc \in {"ready", "on"} => file \subseteq mine \cup mislaid
    /\ pc \in {"ready", "on"} => mine \subseteq file \cup mislaid
    /\ pc \in {"minting", "writing"} => file \subseteq mislaid

LEMMA SerialInit == Init => SerialInv
BY DEF Init, SerialInv

LEMMA SerialNext == SerialInv /\ [Next]_vars => SerialInv'
<1> SUFFICES ASSUME SerialInv, [Next]_vars PROVE SerialInv'
  OBVIOUS
<1>1. CASE Start \/ Mint
  BY <1>1 DEF Start, Mint, SerialInv
<1>2. CASE Truncate
  BY <1>2 DEF Truncate, SerialInv
<1>3. CASE Persist
  BY <1>3 DEF Persist, SerialInv
<1>4. CASE PersistFails
  BY <1>4 DEF PersistFails, SerialInv
<1>5. CASE Logon
  BY <1>5 DEF Logon, SerialInv
<1>6. CASE Logoff
  BY <1>6 DEF Logoff, SerialInv
<1>7. CASE Crash
  BY <1>7 DEF Crash, SerialInv
<1>8. CASE Expire
  BY <1>8 DEF Expire, SerialInv
<1>9. CASE UNCHANGED vars
  BY <1>9 DEF vars, SerialInv
<1> QED
  BY <1>1, <1>2, <1>3, <1>4, <1>5, <1>6, <1>7, <1>8, <1>9 DEF Next

-----------------------------------------------------------------------------
(* The plane: a step is one of one part, or leaves it alone. *)

LEMMA PlaneParts ==
    ASSUME [PlaneNext]_planeVars
    PROVE  /\ Csv!Next \/ UNCHANGED csvVars
           /\ [Next]_vars
           /\ Pv!Next \/ UNCHANGED pvVars
<1>1. CASE PlaneNext
  BY <1>1 DEF PlaneNext, Only
<1>2. CASE UNCHANGED planeVars
  BY <1>2 DEF planeVars
<1> QED
  BY <1>1, <1>2

CsvInv == CsvTypes /\ OneHolder /\ HeaderInv /\ RowInv

LEMMA CsvInductive == CsvInv /\ [PlaneNext]_planeVars => CsvInv'
<1> SUFFICES ASSUME CsvInv, [PlaneNext]_planeVars PROVE CsvInv'
  OBVIOUS
<1>1. CASE Csv!Next
  BY <1>1, CsvNextTypes, CsvNextHolder, CsvNextHeader, CsvNextRow DEF CsvInv
<1>2. CASE UNCHANGED csvVars
  <2>1. CsvTypes' /\ OneHolder'
    BY <1>2 DEF csvVars, CsvInv, CsvTypes, OneHolder, Items, Csv!Paths, Csv!Header, Csv!Torn
  <2>2. HeaderInv'
    BY <1>2 DEF csvVars, CsvInv, HeaderInv, Judged, Owed, Headed, Csv!filename_for,
                Csv!Paths, Csv!Header
  <2>3. RowInv'
    BY <1>2, RowIdle DEF csvVars, CsvInv
  <2> QED
    BY <2>1, <2>2, <2>3 DEF CsvInv
<1> QED
  BY <1>1, <1>2, PlaneParts

LEMMA CsvHeaderFirst == CsvInv => HeaderFirst
<1> SUFFICES ASSUME CsvInv, NEW p \in Csv!Paths \ spoiled, NEW i \in DOMAIN files[p]
             PROVE  files[p][i] = Csv!Header <=> i = 1
  BY DEF HeaderFirst, Csv!HeaderFirst
<1>1. i \in 1..Len(files[p])
  BY FileFacts DEF CsvInv
<1>2. CASE Headed(p)
  BY <1>1, <1>2 DEF Headed
<1>3. CASE files[p] = <<>>
  BY <1>1, <1>3
<1>4. Headed(p) \/ files[p] = <<>>
  BY DEF CsvInv, HeaderInv, Owed, Judged
<1> QED
  BY <1>2, <1>3, <1>4

LEMMA CsvAcknowledgedKept == CsvInv => AcknowledgedKept
<1> SUFFICES ASSUME CsvInv PROVE AcknowledgedKept
  OBVIOUS
<1>1. \A p \in Csv!Paths : DOMAIN files[p] = 1..Len(files[p])
  BY FileFacts DEF CsvInv
<1>2. DOMAIN acked = 1..Len(acked)
  BY LenProperties DEF CsvInv, CsvTypes
<1>3. \A a \in DOMAIN acked : \E p \in Csv!Paths : \E i \in DOMAIN files[p] :
         files[p][i] = acked[a]
  BY <1>1, <1>2 DEF CsvInv, RowInv, RowKept, InFile
<1>4. ASSUME NEW p \in Csv!Paths, NEW i \in DOMAIN files[p], NEW j \in DOMAIN files[p],
             NEW a \in DOMAIN acked, NEW b \in DOMAIN acked,
             files[p][i] = acked[a], files[p][j] = acked[b]
      PROVE  i < j <=> a < b
  <2>1. i \in 1..Len(files[p]) /\ j \in 1..Len(files[p])
        /\ a \in 1..Len(acked) /\ b \in 1..Len(acked)
    BY <1>1, <1>2
  <2> QED
    BY <1>4, <2>1 DEF CsvInv, RowInv, RowOrdered
<1>5. ASSUME NEW p \in Csv!Paths, NEW i \in DOMAIN files[p], files[p][i].kind = "row"
      PROVE  <<SlotOf[files[p][i].task], files[p][i].day>> = p
  BY <1>1, <1>5 DEF CsvInv, RowInv, RowPlaced
<1> QED
  BY <1>3, <1>4, <1>5 DEF AcknowledgedKept, Csv!AcknowledgedKept

LEMMA PlaneCsv == PlaneSpec => []CsvInv
<1>1. PlaneInit => CsvInv
  BY CsvInitTypes, CsvInitHeader, CsvInitRow DEF PlaneInit, CsvInv
<1> QED
  BY <1>1, CsvInductive, PTL DEF PlaneSpec

\* CsvSink::append, for any tasks, slots and bounds: the header is the first
\* line of a file and no other, whoever races to create it, unless the append
\* that owed it was cut off or try_exists failed.
THEOREM HeaderLeads == PlaneSpec => []HeaderFirst
BY PlaneCsv, CsvHeaderFirst, PTL

\* A row whose append returned Ok stays in the file of its slot and day, once
\* and in order, whatever fails or crashes afterwards.
THEOREM RowsSurvive == PlaneSpec => []AcknowledgedKept
BY PlaneCsv, CsvAcknowledgedKept, PTL

\* With crashes, failing writes and failing reads of the serial's file at any
\* point, and any number of restarts, the inverter holds a session for nobody,
\* for the serial in use, or for one whose file could not be written, or once
\* could not be read.
THEOREM PlaneNotLockedOut == PlaneSpec => []NeverLockedOut
<1>1. PlaneInit => SerialInv
  BY SerialInit DEF PlaneInit
<1>2. SerialInv /\ [PlaneNext]_planeVars => SerialInv'
  BY SerialNext, PlaneParts
<1>3. SerialInv => NeverLockedOut
  BY DEF SerialInv, NeverLockedOut
<1> QED
  BY <1>1, <1>2, <1>3, PTL DEF PlaneSpec

LEMMA GaugeInductive == GaugeInv /\ [PlaneNext]_planeVars => GaugeInv'
<1> SUFFICES ASSUME GaugeInv, [PlaneNext]_planeVars PROVE GaugeInv'
  OBVIOUS
<1>1. CASE Pv!Next
  BY <1>1, PvNextGauge
<1>2. CASE UNCHANGED pvVars
  BY <1>2 DEF pvVars, GaugeInv
<1> QED
  BY <1>1, <1>2, PlaneParts

\* collect_status tells a system what its own device last reported to this
\* process, and 0 of an energy or a power it has not reported to it, for any
\* configuration in which one entry polls a device.
THEOREM UploadsTrue == PlaneSpec => UploadTrue
<1> DEFINE Told == \A s \in Systems :
               posting'[s] \notin {<<>>, posting[s]} => Pv!MadeOf(posting'[s], s)
<1>1. GaugeInv /\ [PlaneNext]_planeVars => [Told]_(Pv!vars)
  <2> SUFFICES ASSUME GaugeInv, Pv!Next, NEW s \in Systems,
                      posting'[s] \notin {<<>>, posting[s]}
               PROVE  Pv!MadeOf(posting'[s], s)
    BY PlaneParts DEF pvVars, Pv!vars
  <2>1. Pv!Collect(s)
    BY DEF Pv!Next, Pv!SetGauge, Pv!BuildFails, Pv!FirstTick, Pv!Collect, Pv!PostOk, Pv!PostFails,
           Pv!Crash, Pv!Restart, GaugeInv
  <2>2. s \in Pv!Names
    BY DEF Pv!Names
  <2> QED
    BY <2>1, <2>2, StatusReported DEF Pv!Collect, GaugeInv
<1>2. PlaneInit => GaugeInv
  BY PvInitGauge DEF PlaneInit
<1> QED
  BY <1>1, <1>2, GaugeInductive, PTL DEF PlaneSpec, UploadTrue, Pv!UploadTrue
=============================================================================
