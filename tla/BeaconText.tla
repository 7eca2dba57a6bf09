------------------------------ MODULE BeaconText ------------------------------
(***************************************************************************)
(* What a beacon says when it fires (format_beacon_content and              *)
(* run_beacon_command in src/src/beacon.rs): a fixed text, a file, or what  *)
(* a command writes, which is waited for in steps of 50 milliseconds and    *)
(* killed at its timeout.  All that time the only thread of the program is  *)
(* asleep.  No configuration makes a beacon with a file or a command yet.    *)
(*                                                                          *)
(* A text is its length after trimming, and whether a character lies across *)
(* the place where a long one is cut.  A command may leave a process behind  *)
(* that has its output open and writes to it too, before the shell ends and   *)
(* after.                                                                     *)
(***************************************************************************)
EXTENDS Naturals, Sequences, FiniteSetsExt

CONSTANTS
    Contents,  \* contents of beacons, with what becomes of them
    Vias,      \* via paths, <<>> for none
    MAX_BEACON_OUTPUT_LEN,
    PipeSize,  \* what a pipe holds
    Timeout    \* of a command, in steps

VARIABLES
    firing,  \* the beacon that fires, <<>> before
    at,      \* "idle", "check", "sleep", "read", "done", or "aborted"
    child,   \* the shell: "none", "runs", "exited", "killed", "reaped"
    toWrite, \* what the shell will still write
    toAdd,   \* what a process it left behind would still write
    pipe,    \* what is in the pipe, or was read from it while it is read
    held,    \* a process it left behind has the pipe open
    waited,  \* steps since it was started
    said     \* the line, <<>> if there is none

vars == <<firing, at, child, toWrite, toAdd, pipe, held, waited, said>>

Init ==
    /\ firing = <<>> /\ at = "idle" /\ child = "none" /\ toWrite = 0 /\ toAdd = 0
    /\ pipe = 0 /\ held = FALSE /\ waited = 0 /\ said = <<>>

-----------------------------------------------------------------------------
\* Two characters, or a car.
parse_symbol(s) == IF Len(s) = 2 THEN s ELSE <<"/", ">">>

\* The line begins with MYCALL>APRS and the path, if there is one.
maybe_add_via(text, via) == [path |-> <<"APRS">> \o via, text |-> text]

\* The text is cut in bytes: within a character that is a panic.
Say(text) ==
    IF text.len > MAX_BEACON_OUTPUT_LEN /\ text.wide
    THEN at' = "aborted" /\ UNCHANGED said
    ELSE /\ at' = "done"
         /\ said' = IF text.len = 0 THEN <<>>
                    ELSE maybe_add_via(Min({text.len, MAX_BEACON_OUTPUT_LEN}), firing'.via)

\* A position, or a comment alone.
FireFixed(c, via) ==
    /\ at = "idle" /\ c.kind = "fixed" /\ firing' = [content |-> c, via |-> via]
    /\ at' = "done" /\ said' = maybe_add_via(<<parse_symbol(c.symbol), c.comment>>, via)
    /\ UNCHANGED <<child, toWrite, toAdd, pipe, held, waited>>

FireFile(c, via) ==
    /\ at = "idle" /\ c.kind = "file" /\ firing' = [content |-> c, via |-> via]
    /\ IF c.readable THEN Say(c.text) ELSE at' = "done" /\ UNCHANGED said
    /\ UNCHANGED <<child, toWrite, toAdd, pipe, held, waited>>

\* spawn fails, or starts a shell.
FireCommand(c, via) ==
    /\ at = "idle" /\ c.kind = "command" /\ firing' = [content |-> c, via |-> via]
    /\ \/ at' = "done" /\ UNCHANGED <<child, toWrite, toAdd, held>>
       \/ /\ at' = "check" /\ child' = "runs"
          /\ toWrite' = c.text.len /\ toAdd' = c.left /\ held' = c.leaves
    /\ UNCHANGED <<pipe, waited, said>>

\* Mutant: the shell is killed and not waited for.
TimeOutUnreaped ==
    /\ at = "check" /\ child = "runs" /\ waited > Timeout
    /\ at' = "done" /\ child' = "killed"
    /\ UNCHANGED <<firing, toWrite, toAdd, pipe, held, waited, said>>
\* try_wait, too late: kill and wait.
TimeOut ==
    /\ at = "check" /\ child = "runs" /\ waited > Timeout
    /\ at' = "done" /\ child' = "reaped"
    /\ UNCHANGED <<firing, toWrite, toAdd, pipe, held, waited, said>>

\* try_wait fails: the same, whatever the shell does.
CheckFails ==
    /\ at = "check" /\ child \in {"runs", "exited"}
    /\ at' = "done" /\ child' = "reaped"
    /\ UNCHANGED <<firing, toWrite, toAdd, pipe, held, waited, said>>

Sleep ==
    /\ at = "check" /\ child = "runs" /\ waited <= Timeout
    /\ at' = "sleep" /\ UNCHANGED <<firing, child, toWrite, toAdd, pipe, held, waited, said>>

\* try_wait finds the status, and takes it.
SeeExit ==
    /\ at = "check" /\ child = "exited" /\ child' = "reaped"
    /\ at' = IF firing.content.succeeds THEN "read" ELSE "done"
    /\ UNCHANGED <<firing, toWrite, toAdd, pipe, held, waited, said>>

\* wait_with_output reads what comes until nobody has the pipe open, and goes on
\* with all of it: what the shell wrote and what was added to it.
ReadOutput ==
    /\ at = "read" /\ ~held /\ pipe' = 0
    /\ UNCHANGED <<firing, child, toWrite, toAdd, held, waited>>
    /\ \E wide \in IF firing.content.left = 0 THEN {firing.content.text.wide} ELSE BOOLEAN :
          Say([len |-> pipe, wide |-> wide])

-----------------------------------------------------------------------------
(* The command.                                                             *)

Write ==
    /\ child = "runs" /\ toWrite > 0 /\ pipe < PipeSize
    /\ toWrite' = toWrite - 1 /\ pipe' = pipe + 1
    /\ UNCHANGED <<firing, at, child, toAdd, held, waited, said>>

\* A process left behind writes as well, whether the shell runs or not.  Once
\* the pipe is read there is always room in it.
Add ==
    /\ held /\ toAdd > 0
    /\ at = "read" \/ (at \in {"check", "sleep"} /\ pipe < PipeSize)
    /\ toAdd' = toAdd - 1 /\ pipe' = pipe + 1
    /\ UNCHANGED <<firing, at, child, toWrite, held, waited, said>>

\* One that fails may do so before it has written everything.
Exit ==
    /\ child = "runs" /\ child' = "exited"
    /\ firing.content.ends /\ (firing.content.succeeds => toWrite = 0)
    /\ UNCHANGED <<firing, at, toWrite, toAdd, pipe, held, waited, said>>

\* It ends, whatever it has written.
Release ==
    /\ held /\ held' = FALSE
    /\ UNCHANGED <<firing, at, child, toWrite, toAdd, pipe, waited, said>>

Tick ==
    /\ at = "sleep" \/ (at = "read" /\ held)
    /\ waited <= Timeout + 1
    /\ waited' = waited + 1 /\ at' = IF at = "sleep" THEN "check" ELSE at
    /\ UNCHANGED <<firing, child, toWrite, toAdd, pipe, held, said>>

Next ==
    \/ \E c \in Contents, v \in Vias : FireFixed(c, v) \/ FireFile(c, v) \/ FireCommand(c, v)
    \/ TimeOut \/ CheckFails \/ Sleep \/ SeeExit \/ ReadOutput \/ Write \/ Add \/ Exit \/ Release \/ Tick

-----------------------------------------------------------------------------
\* A command holds the program up for its timeout and one step at most, unless
\* it leaves a process behind that keeps the pipe open: then without end.  No
\* shell outlives the call, as a process or as a zombie.  What is said is all
\* that a successful shell wrote and all that the processes it left behind
\* wrote before they ended, up to the limit, however their writes, the end of
\* the shell and the reading follow one another.  A shell that itself writes
\* more than a pipe holds says nothing, since nobody reads before it ends.
CommandOver ==
    /\ waited > Timeout + 1 => at \in {"read", "done", "aborted"} /\ firing.content.leaves
    /\ at \in {"done", "aborted"} => child \in {"none", "reaped"}
    /\ (child # "none" /\ said # <<>>) =>
          /\ firing.content.succeeds /\ firing.content.ends
          /\ firing.content.text.len <= PipeSize
          /\ said.text = Min({ firing.content.text.len + (firing.content.left - toAdd),
                               MAX_BEACON_OUTPUT_LEN })
=============================================================================
