-------------------------- MODULE MCMessageQueue --------------------------
(* MessageQueue with two producers and two consumers on a ring of three.    *)
EXTENDS MessageQueue

CONSTANTS p1, p2, c1, c2, e1, e2

MCProducers == {p1, p2}
MCConsumers == {c1, c2}
MCEntries == {e1, e2}
=============================================================================
