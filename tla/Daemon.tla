-------------------------------- MODULE Daemon --------------------------------
(***************************************************************************)
(* The life of the program and its PID file (main in src/src/main.rs), for  *)
(* several instances on one machine.  A process is its number, which is not *)
(* used again; a file is what it says: a number, "empty", or "none".         *)
(***************************************************************************)
EXTENDS FiniteSets

CONSTANT Pids

VARIABLES
    life,  \* "new", "opening", "writing", "building", "running", "leaving", "exited", "warned", "failed", "crashed"
    made,  \* pid_file_created
    file,  \* PID_FILE_PATH
    maker  \* history: the process that made the file that is there

vars == <<life, made, file, maker>>

Init ==
    /\ life = [p \in Pids |-> "new"] /\ made = [p \in Pids |-> FALSE]
    /\ file = "none" /\ maker = "none"

Goes(p, from, to) == life[p] = from /\ life' = [life EXCEPT ![p] = to]

\* No configuration file, or one that does not load.
Refuse(p) == Goes(p, "new", "exited") /\ UNCHANGED <<made, file, maker>>

\* -i, -d, -v and -e keep it in the foreground, without a PID file.
Foreground(p) == Goes(p, "new", "building") /\ UNCHANGED <<made, file, maker>>
Background(p) == Goes(p, "new", "opening") /\ UNCHANGED <<made, file, maker>>

-----------------------------------------------------------------------------
(* write_pid_file.                                                          *)

\* create_new: the file is made, unless there is one.  Without it the program
\* goes on all the same.
Create(p) ==
    /\ file = "none" /\ Goes(p, "opening", "writing")
    /\ file' = "empty" /\ maker' = p /\ UNCHANGED made
CreateFails(p) ==
    /\ Goes(p, "opening", "building") /\ UNCHANGED <<made, file, maker>>

Write(p) ==
    /\ Goes(p, "writing", "building")
    /\ file' = p /\ made' = [made EXCEPT ![p] = TRUE] /\ UNCHANGED maker
WriteFails(p) == Goes(p, "writing", "building") /\ UNCHANGED <<made, file, maker>>

-----------------------------------------------------------------------------
Run(p)  == Goes(p, "building", "running") /\ UNCHANGED <<made, file, maker>>
\* The runtime cannot be built: exit, as it is.
RunFails(p) == Goes(p, "building", "failed") /\ UNCHANGED <<made, file, maker>>

\* async_main returns.
Return(p) == Goes(p, "running", "leaving") /\ UNCHANGED <<made, file, maker>>

\* Mutant: it removes the file that is there, whoever made it.
RemoveAny(p) ==
    /\ Goes(p, "leaving", "exited") /\ UNCHANGED made
    /\ file' = "none" /\ maker' = "none"
Remove(p) ==
    /\ Goes(p, "leaving", "exited") /\ UNCHANGED made
    /\ IF made[p] THEN file' = "none" /\ maker' = "none" ELSE UNCHANGED <<file, maker>>

\* remove_file fails, which is only warned of: the program ends in order all the
\* same, and the file stays, with its number in it.
RemoveFails(p) ==
    /\ made[p] /\ Goes(p, "leaving", "warned") /\ UNCHANGED <<made, file, maker>>

\* A signal that is not handled, or a panic.
Crash(p) ==
    /\ life[p] \in {"opening", "writing", "building", "running", "leaving"}
    /\ life' = [life EXCEPT ![p] = "crashed"] /\ UNCHANGED <<made, file, maker>>

Over(p) == life[p] \in {"exited", "warned", "failed", "crashed"}

\* Somebody clears away a file whose maker is gone.
ClearStale ==
    /\ file # "none" /\ Over(maker)
    /\ file' = "none" /\ maker' = "none" /\ UNCHANGED <<life, made>>

Done == (\A p \in Pids : Over(p)) /\ UNCHANGED vars

Next ==
    \/ ClearStale \/ Done
    \/ \E p \in Pids : \/ Refuse(p) \/ Foreground(p) \/ Background(p)
                       \/ Create(p) \/ CreateFails(p) \/ Write(p) \/ WriteFails(p)
                       \/ Run(p) \/ RunFails(p) \/ Return(p)
                       \/ Remove(p) \/ RemoveFails(p) \/ Crash(p)

-----------------------------------------------------------------------------
\* A program that made the PID file keeps it, with its own number in it, as
\* long as it runs, whatever other instances start, fail or end meanwhile.  A
\* file that outlives its maker is that of one that crashed, could not build its
\* runtime, could not write its number, or could not remove the file when it
\* left: the last leaves the number of a process that ended in order, and only
\* warns of it.  One that ended without that warning left no number behind.
PidOwned ==
    /\ \A p \in Pids : made[p] /\ ~Over(p) => file = p /\ maker = p
    /\ file \in Pids => file = maker /\ made[maker]
    /\ (file # "none" /\ life[maker] = "exited") => file = "empty"
=============================================================================
