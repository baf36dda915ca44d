----------------------------- MODULE MCStopAndWait -----------------------------
(* Files of different blocks over an output file that was there before.  In  *)
(* the long file the sequence numbers wrap around often.                      *)
EXTENDS StopAndWait

CONSTANT old

MCFile == [i \in 1 .. 20 |-> i]
MCShortFile == <<1, 2>>
MCOld == <<old>>

\* Values of the sequence number byte that no packet has, all but the one
\* that ends the transfer, and all.
Strange == {SEQ_SIZE}
AnyButFIN == 0 .. SEQ_SIZE
Any == {FIN} \cup AnyButFIN
===============================================================================
