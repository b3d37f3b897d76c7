----------------------------- MODULE AppSerial -----------------------------
(***************************************************************************)
(* The app serial of one inverter task: minted once, kept in /data, and    *)
(* the name under which the inverter (external) remembers a session.  The  *)
(* inverter takes a logon of the client it remembers or, when it remembers *)
(* none, of any client.  Nothing tells it that the daemon has died.        *)
(*                                                                         *)
(* fs::write first truncates the file and then writes it; the process may  *)
(* end in between, and either half may fail.  A value that may be missing  *)
(* is a set with at most one element; an absent file and one that has not  *)
(* four bytes are treated alike by the code and are both {}.               *)
(***************************************************************************)
CONSTANT Serials    \* serials mint_new_app_serial may come up with

VARIABLES
    pc,         \* where the task is: down, minting, writing, ready, on
    file,       \* the serial in app_serial_<slot>
    mine,       \* stable_app_serial
    holder,     \* external: the serial the inverter holds a session for
    mislaid     \* history: serials whose write, or the read of which, failed

vars == <<pc, file, mine, holder, mislaid>>

Init ==
    /\ pc = "down"
    /\ file = {}
    /\ mine = {}
    /\ holder = {}
    /\ mislaid = {}

BugMintOnEveryStart ==
    /\ pc = "down"
    /\ pc' = "minting" /\ \E s \in Serials : mine' = {s}
    /\ UNCHANGED <<file, holder, mislaid>>

\* The task starts: a file of four bytes is the serial.
Start ==
    /\ pc = "down"
    /\ file # {} /\ mine' = file /\ pc' = "ready"
    /\ UNCHANGED <<file, holder, mislaid>>

\* It cannot be read, or has not four bytes: a serial is minted from the clock
\* and the slot's name, perhaps the same as before, and is to replace what the
\* file holds, a good serial that could not be read too.
Mint ==
    /\ pc = "down"
    /\ pc' = "minting" /\ \E s \in Serials : mine' = {s}
    /\ mislaid' = mislaid \cup file
    /\ UNCHANGED <<file, holder>>

\* The first half of fs::write.
Truncate ==
    /\ pc = "minting"
    /\ file' = {}
    /\ pc' = "writing"
    /\ UNCHANGED <<mine, holder, mislaid>>

\* The second half: the serial is on file before it is used.
Persist ==
    /\ pc = "writing"
    /\ file' = mine
    /\ pc' = "ready"
    /\ UNCHANGED <<mine, holder, mislaid>>

\* A failed write is logged and the serial used all the same.
PersistFails ==
    /\ pc \in {"minting", "writing"}
    /\ mislaid' = mislaid \cup mine
    /\ pc' = "ready"
    /\ UNCHANGED <<file, mine, holder>>

\* The inverter grants the logon; it refuses others, and the task retries.
Logon ==
    /\ pc = "ready" /\ holder \subseteq mine
    /\ holder' = mine
    /\ pc' = "on"
    /\ UNCHANGED <<file, mine, mislaid>>

\* graceful_close: the logoff arrives, or is lost with the link.
Logoff ==
    /\ pc = "on"
    /\ holder' \in {{}, holder}
    /\ pc' = "ready"
    /\ UNCHANGED <<file, mine, mislaid>>

\* The process is killed, or Ctrl-C aborts the task, at any point.
Crash ==
    /\ pc # "down"
    /\ pc' = "down"
    /\ mine' = {}
    /\ UNCHANGED <<file, holder, mislaid>>

\* The inverter forgets an abandoned session after some fifteen minutes.
Expire ==
    /\ pc # "on" /\ holder # {}
    /\ holder' = {}
    /\ UNCHANGED <<pc, file, mine, mislaid>>

Next == Start \/ Mint \/ Truncate \/ Persist \/ PersistFails \/ Logon \/ Logoff
        \/ Crash \/ Expire

Spec == Init /\ [][Next]_vars
-----------------------------------------------------------------------------
\* The daemon is never locked out by a session it has left behind itself,
\* killed in the middle of the write of its serial or of a session and
\* restarted any number of times: the inverter remembers nobody, or the
\* serial this process uses.  Only a serial whose file could not be written,
\* or once could not be read and was replaced, can stand in its way.
NeverLockedOut ==
    pc \in {"ready", "on"} => holder \subseteq mine \cup mislaid
=============================================================================
