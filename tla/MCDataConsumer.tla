--------------------------- MODULE MCDataConsumer ---------------------------
(* DataConsumer with a pool of three messages, lengths below, at and above    *)
(* the size of a message buffer.                                             *)
EXTENDS DataConsumer

MCBufferLengths == {1, 2, 3}
=============================================================================
