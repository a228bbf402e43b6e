----------------------------- MODULE MCInputQueue -----------------------------
(***************************************************************************)
(* The refinement of LossyFifo by InputQueue, and the module of its TLC     *)
(* instances.                                                               *)
(***************************************************************************)
EXTENDS InputQueue

\* The abstract queue is what lies between tail and head, read from the ring
\* itself; a clear empties it with its first store.
AbstractQueue == IF cpc = "clear_tail" THEN << >> ELSE Contents

Fifo == INSTANCE LossyFifo WITH
    Limit <- Capacity - 1, queue <- AbstractQueue, taken <- out

\* The ring implements the bounded lossy queue.
ImplementsFifo == Fifo!FifoSpec

===============================================================================
