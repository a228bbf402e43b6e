------------------------------- MODULE LossyFifo -------------------------------
(***************************************************************************)
(* What an input ring promises to the two threads that share it: a queue of *)
(* limited length that takes a prefix of what it is offered, hands its      *)
(* bytes over in order, each exactly once, and can be emptied.              *)
(***************************************************************************)
EXTENDS Integers, Sequences

CONSTANTS Limit, Byte, MaxPush

VARIABLES queue,    \* accepted and not yet released
          taken     \* copied by the consumer in the pop that is going on

fifo == <<queue, taken>>

FifoInit == queue = << >> /\ taken = << >>

Accept ==
    \E n \in 1 .. MaxPush : \E data \in [1 .. n -> Byte] :
        /\ Len(queue) + n <= Limit
        /\ queue' = queue \o data
        /\ UNCHANGED taken

Take ==
    /\ Len(taken) < Len(queue)
    /\ taken' = Append(taken, queue[Len(taken) + 1])
    /\ UNCHANGED queue

Release ==
    /\ taken # << >>
    /\ queue' = SubSeq(queue, Len(taken) + 1, Len(queue))
    /\ taken' = << >>

Empty ==
    /\ taken = << >>
    /\ queue' = << >>
    /\ UNCHANGED taken

FifoNext == Accept \/ Take \/ Release \/ Empty

FifoSpec == FifoInit /\ [][FifoNext]_fifo

===============================================================================
