-------------------------------- MODULE Program --------------------------------
(***************************************************************************)
(* What the program is put together from: the packet router (Router), the   *)
(* interfaces and their registry (Wiring), and the process with its PID     *)
(* file (Daemon).  The tasks that run between start-up and shutdown are      *)
(* composed in Gateway; these three have nothing but a common life, and one *)
(* is followed at a time.                                                   *)
(***************************************************************************)
EXTENDS Router

CONSTANTS InterfaceConfig, mycall, CmdCap, MaxHeard, MaxAsked, Pids

VARIABLES
    part, \* which of the three is followed
    by, phase, next, handles, tasks, cmds, channels, asked, heard,
    life, made, file, maker

Wire == INSTANCE Wiring
Proc == INSTANCE Daemon

ASSUME ProgramAssumption ==
    /\ InterfaceConfig \in Seq(Range(InterfaceConfig))
    /\ \A i \in DOMAIN InterfaceConfig : InterfaceConfig[i].type \in {"serial", "tcp", "ax25", "agwpe", "null"}
    /\ CmdCap \in Nat \ {0} /\ MaxHeard \in Nat /\ MaxAsked \in Nat
    /\ "empty" \notin Pids /\ "none" \notin Pids

wiringVars  == <<by, phase, next, handles, tasks, cmds, channels, asked, heard>>
daemonVars  == <<life, made, file, maker>>
programVars == <<part, vars, wiringVars, daemonVars>>

ProgramInit ==
    /\ part \in {"router", "wiring", "daemon"}
    /\ Init /\ Wire!Init /\ Proc!Init

Routing == part = "router" /\ Next /\ UNCHANGED <<part, wiringVars, daemonVars>>
Wires   == part = "wiring" /\ Wire!Next /\ UNCHANGED <<part, vars, daemonVars>>
Process == part = "daemon" /\ Proc!Next /\ UNCHANGED <<part, vars, wiringVars>>

ProgramNext == Routing \/ Wires \/ Process

ProgramSpec == ProgramInit /\ [][ProgramNext]_programVars

-----------------------------------------------------------------------------
ProgramTypeOK == TypeOK /\ Wire!TypeOK

\* The properties of the registry and of the process, which their modules state.
ShutdownReaches == Wire!ShutdownReaches
RxRecorded      == Wire!RxRecorded
PidOwned        == Proc!PidOwned
=============================================================================
