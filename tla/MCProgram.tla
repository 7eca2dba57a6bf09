------------------------------- MODULE MCProgram -------------------------------
(* Model checking of Program: the igate consumer, and the dashboard's with a *)
(* larger channel; five interface sections, of which one cannot be started   *)
(* and two only by hand; three processes.                                    *)
EXTENDS Program

MCConsumers == {"igate", "dashboard"}
MCBufferSize == [c \in MCConsumers |-> IF c = "igate" THEN 1 ELSE 2]

Section(type, callsign, complete, tx_ok, group) ==
    [type |-> type, callsign |-> callsign, device |-> complete, host |-> complete, port |-> complete,
     tx_ok |-> tx_ok, igate_group |-> group]
MCConfig == << Section("serial", {}, TRUE, TRUE, 1), Section("tcp", {"N0RTH"}, FALSE, TRUE, 1),
               Section("tcp", {}, TRUE, FALSE, 2), Section("ax25", {"S0UTH"}, TRUE, FALSE, 1),
               Section("ax25", {"S0UTH"}, TRUE, TRUE, 2) >>
=============================================================================
