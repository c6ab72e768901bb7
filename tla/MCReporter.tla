----------------------------- MODULE MCReporter -----------------------------
(***************************************************************************)
(* Model checking of Reporter: what needs a fold over the batches sent.     *)
(***************************************************************************)
EXTENDS Reporter, SequencesExt

\* The events of the batches handed to InvokeRPC, in their order.
Posted == FlattenSeq(IF Resent THEN AllButLast(posts) ELSE posts)

\* Every event drained from the bucket is handed to InvokeRPC unless the reporter closes.
EventuallyPosted ==
  \A n \in 1..MaxEvents : (Len(drained) >= n) ~> (Len(Posted) >= n \/ closed)
=============================================================================
