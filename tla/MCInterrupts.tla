--------------------------- MODULE MCInterrupts ----------------------------
\* Interrupts on small boards for TLC.
EXTENDS Interrupts

\* Two devices: a disk on the slave, which promises for its whole line, and the
\* serial chip on the master, which promises for its counter alone.  While the
\* counter is stopped it stands for the ring as well, which promises nothing.
SmallOrder == <<"disk", "serial">>

SmallIrq == [disk |-> Levels, serial |-> 0]

=============================================================================
