---------------------------- MODULE MCRingBuffer ----------------------------
(* The ring with two clients and one or two daemon threads.                *)
EXTENDS RingBuffer, TLC

CONSTANTS p1, p2, c1, c2, m1, m2

OneProducer == {p1}
TwoProducers == {p1, p2}
OneConsumer == {c1}
TwoConsumers == {c1, c2}
OneMortal == {p1}
NoMortal == {}
TwoMsgs == {m1, m2}
OneMsg == {m1}

=============================================================================
