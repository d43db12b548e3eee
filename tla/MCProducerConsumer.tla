------------------------- MODULE MCProducerConsumer -------------------------
(* An instance of ProducerConsumer: three workers.                         *)
EXTENDS ProducerConsumer

OneProducer == {0}
TwoConsumers == {5, 6}

\* kill(producer_pid[i]), kill(consumer_pid[i]) for each i.
PCCOrder == [i \in 1 .. 3 |-> IF i = 1 THEN 0 ELSE i + 3]
=============================================================================
