------------------------------ MODULE EventQueue ------------------------------
(***************************************************************************)
(* What the event bucket promises to the rest of the reporter: the events   *)
(* it accepts leave it in the order of their acceptance, each exactly once, *)
(* in non-empty batches.                                                    *)
(***************************************************************************)
EXTENDS Integers, Sequences

CONSTANT Event

VARIABLES
  queue,     \* accepted and not yet handed out
  delivered  \* handed out, all batches in a row

queueVars == <<queue, delivered>>

Init == queue = <<>> /\ delivered = <<>>

Accept(e) ==
  /\ queue' = Append(queue, e)
  /\ UNCHANGED delivered

\* A batch is a non-empty prefix of the queue.
Deliver(n) ==
  /\ delivered' = delivered \o SubSeq(queue, 1, n)
  /\ queue' = SubSeq(queue, n + 1, Len(queue))

Next ==
  \/ \E e \in Event : Accept(e)
  \/ \E n \in 1..Len(queue) : Deliver(n)

Spec == Init /\ [][Next]_queueVars
=============================================================================
