------------------------------- MODULE MCBus --------------------------------
(***************************************************************************)
(* Instances of Bus for TLC: which of the processor's writes may occur.    *)
(***************************************************************************)
EXTENDS Bus

Masks(chs, b) == {[to |-> "mask", unit |-> c[1], ch |-> c[2], on |-> b] : c \in chs}
Commands(dvs) == {[to |-> "command", dev |-> p] : p \in dvs}
Requests(chs) == {[to |-> "request", unit |-> c[1], ch |-> c[2], on |-> TRUE] : c \in chs}

\* A disk on unit 1, and on unit 0, through the cascade, a paced device and a
\* block requested by software.
BoardStores == {Ram} \cup Masks({<<1, 3>>}, FALSE)
                 \cup Requests({<<0, 2>>}) \cup Commands({"winchester", "tape"})

\* One disk on unit 1.
DiskStores == {Ram} \cup Masks({<<1, 3>>}, FALSE) \cup Commands({"winchester"})

CountTwo == <<1, 0>>
=============================================================================
