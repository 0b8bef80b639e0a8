------------------------------ MODULE MCSerial ------------------------------
(* Instances of Serial for TLC. *)
EXTENDS Serial

Plain == [full |-> FALSE, block |-> FALSE, rts |-> FALSE, parity |-> "same"]
Mr2Of(mode) == [mode |-> mode, cts |-> FALSE, rts |-> FALSE]

MCMr1s == {[full |-> TRUE, block |-> FALSE, rts |-> TRUE, parity |-> "other"]}
MCMr2s == {Mr2Of("remote")}
MCEnables == {{}, {"enable rx", "disable tx"}}
MCScript == <<2>>
MCStarts == {Programmed(Plain, Mr2Of("normal"), TRUE),
             Programmed(Plain, Mr2Of("local"), TRUE),
             Programmed(Plain, Mr2Of("echo"), FALSE)}
=============================================================================
