------------------------------ MODULE ByteFifo ------------------------------
(***************************************************************************)
(* What either half of a slow-I/O buffer promises: a first-in first-out    *)
(* queue of bytes with one producer and one consumer, clocked once per     *)
(* step.  In a clock cycle the producer may add one byte and the consumer  *)
(* may be handed the oldest byte that was already there; a reset empties   *)
(* the queue.  No byte is lost, duplicated, invented or reordered.         *)
(***************************************************************************)
EXTENDS Naturals, Sequences

CONSTANTS Byte,      \* the values a byte can take
          Capacity   \* the most bytes held at once

VARIABLES queue,     \* the bytes accepted and not yet handed over
          out        \* <<b>> in the cycle b is handed to the consumer, else <<>>

vars == <<queue, out>>

TypeOK == /\ queue \in Seq(Byte)
          /\ Len(queue) <= Capacity
          /\ out \in {<<>>} \cup {<<b>> : b \in Byte}

Init == queue = <<>> /\ out = <<>>

AtMostOneByte == {<<>>} \cup {<<b>> : b \in Byte}

HandOver == /\ queue # <<>>
            /\ out' = <<Head(queue)>>
            /\ \E in \in AtMostOneByte : queue' = Tail(queue) \o in

Hold == /\ out' = <<>>
        /\ \E in \in AtMostOneByte : queue' = queue \o in

Reset == queue' = <<>> /\ out' = <<>>

Next == (HandOver \/ Hold \/ Reset) /\ Len(queue') <= Capacity

Spec == Init /\ [][Next]_vars
=============================================================================
