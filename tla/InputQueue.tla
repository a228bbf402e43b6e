------------------------------ MODULE InputQueue ------------------------------
(***************************************************************************)
(* KTermInputQueue: the lock-free ring of bytes between the thread that     *)
(* feeds a session (KTerm_PushInput, KTerm_WriteChar) and KTerm_Update,     *)
(* which pops and parses them.  The atomic loads, the copies and the final  *)
(* store of an operation are separate steps, so pushes, pops and clears     *)
(* interleave as they do on two cores.  The copy goes byte by byte.         *)
(*                                                                         *)
(* A byte is a member of the set Byte.  The ghost variable owed holds what  *)
(* the queue has accepted and not yet handed out, in order.                 *)
(***************************************************************************)
EXTENDS Integers, Sequences

CONSTANTS
    Capacity,       \* slots of the ring; one of them always stays free
    Producers,      \* the threads that push; the design is for one of them
    Byte,           \* the values of a byte
    MaxPush,        \* longest data of one push
    MaxPop,         \* size of the buffer KTerm_ProcessEvents pops into
    MaxDropped,     \* bound on dropped_count
    ClearAnyTime    \* may a clear run while a push is in progress?

ASSUME CapacityAssumption == Capacity \in Nat \ {0}
ASSUME ChunkAssumption == MaxPush \in Nat \ {0} /\ MaxPop \in Nat \ {0}
ASSUME DroppedAssumption == MaxDropped \in Nat
ASSUME ClearAssumption == ClearAnyTime \in BOOLEAN

VARIABLES
    buffer, head, tail, overflow, dropped,  \* the shared structure
    ppc, phead, pdata, pcopied,             \* each producer inside Push
    cpc, ctail, clen, out,                  \* the consumer inside Pop or Clear
    owed                                    \* ghost

shared == <<buffer, head, tail, overflow, dropped>>
producer == <<ppc, phead, pdata, pcopied>>
consumer == <<cpc, ctail, clen, out>>
vars == <<shared, producer, consumer, owed>>

Index == 0 .. Capacity - 1
Chunk == UNION {[1 .. n -> Byte] : n \in 0 .. MaxPush}
MinOf(a, b) == IF a < b THEN a ELSE b

\* Wrong variant: the room fills the last slot.
FreeSpaceFull(h, t) == IF t > h THEN t - h - 1 ELSE Capacity - (h - t)

\* The j-th slot from h, as the two memcpy calls around first_chunk reach it.
Slot(h, j) == IF j < Capacity - h THEN h + j ELSE j - (Capacity - h)

\* The index stored after n bytes.
Advance(h, n) == (h + n) % Capacity

\* Bytes between an index pair; KTerm_InputQueue_Pending and Pop compute it so.
Available(h, t) == IF h >= t THEN h - t ELSE Capacity - (t - h)
Pending == Available(head, tail)

\* Room for a push, one slot held back so that head = tail means empty.
FreeSpace(h, t) == IF t > h THEN t - h - 1 ELSE Capacity - (h - t) - 1

\* What a consumer would read now.
Contents == [i \in 1 .. Pending |-> buffer[Slot(tail, i - 1)]]

-------------------------------------------------------------------------------
Init ==
    /\ buffer \in [Index -> Byte]       \* malloc leaves it unset
    /\ head = 0 /\ tail = 0 /\ overflow = FALSE /\ dropped = 0
    /\ ppc = [p \in Producers |-> "idle"]
    /\ phead = [p \in Producers |-> 0]
    /\ pdata = [p \in Producers |-> << >>]
    /\ pcopied = [p \in Producers |-> 0]
    /\ cpc = "idle" /\ ctail = 0 /\ clen = 0 /\ out = << >>
    /\ owed = << >>

\* Push loads the indices, accounts for what does not fit and keeps the rest.
PushBegin(p, data) ==
    LET free == FreeSpace(head, tail)
        kept == MinOf(Len(data), free)
        lost == Len(data) - kept
    IN  /\ ppc[p] = "idle"
        /\ Len(data) > 0
        /\ ~ClearAnyTime => cpc \notin {"clear", "clear_tail"}
        /\ dropped + lost <= MaxDropped
        /\ overflow' = (overflow \/ lost > 0)
        /\ dropped' = dropped + lost
        /\ IF kept = 0
            THEN UNCHANGED <<ppc, phead, pdata>>
            ELSE /\ ppc' = [ppc EXCEPT ![p] = "copy"]
                 /\ phead' = [phead EXCEPT ![p] = head]
                 /\ pdata' = [pdata EXCEPT ![p] = SubSeq(data, 1, kept)]
        /\ UNCHANGED <<buffer, head, tail, pcopied, consumer, owed>>

\* One byte of the memcpy into the ring.
PushCopy(p) ==
    /\ ppc[p] = "copy"
    /\ pcopied[p] < Len(pdata[p])
    /\ buffer' = [buffer EXCEPT ![Slot(phead[p], pcopied[p])]
                                    = pdata[p][pcopied[p] + 1]]
    /\ pcopied' = [pcopied EXCEPT ![p] = @ + 1]
    /\ UNCHANGED <<head, tail, overflow, dropped, ppc, phead, pdata,
                   consumer, owed>>

\* Wrong variant: head is published before the copy is complete.
PushPublishEarly(p) ==
    /\ ppc[p] = "copy"
    /\ head' = Advance(phead[p], Len(pdata[p]))
    /\ ppc' = [ppc EXCEPT ![p] = "idle"]
    /\ phead' = [phead EXCEPT ![p] = 0]
    /\ pdata' = [pdata EXCEPT ![p] = << >>]
    /\ pcopied' = [pcopied EXCEPT ![p] = 0]
    /\ owed' = owed \o pdata[p]
    /\ UNCHANGED <<buffer, tail, overflow, dropped, consumer>>

\* The release store of head publishes the chunk.
PushPublish(p) ==
    /\ ppc[p] = "copy"
    /\ pcopied[p] = Len(pdata[p])
    /\ head' = Advance(phead[p], Len(pdata[p]))
    /\ ppc' = [ppc EXCEPT ![p] = "idle"]
    /\ phead' = [phead EXCEPT ![p] = 0]
    /\ pdata' = [pdata EXCEPT ![p] = << >>]
    /\ pcopied' = [pcopied EXCEPT ![p] = 0]
    /\ owed' = owed \o pdata[p]
    /\ UNCHANGED <<buffer, tail, overflow, dropped, consumer>>

\* Wrong variants: the slots are given back before they are read; the last byte
\* is left in the ring.
PopBeginReleasing(max) ==
    /\ cpc = "idle"
    /\ Pending > 0
    /\ cpc' = "copy"
    /\ ctail' = tail
    /\ clen' = MinOf(max, Pending)
    /\ out' = << >>
    /\ tail' = Advance(tail, clen')
    /\ UNCHANGED <<buffer, head, overflow, dropped, producer, owed>>
PopBeginOffByOne(max) ==
    /\ cpc = "idle"
    /\ Pending > 1
    /\ cpc' = "copy"
    /\ ctail' = tail
    /\ clen' = MinOf(max, Pending - 1)
    /\ out' = << >>
    /\ UNCHANGED <<shared, producer, owed>>

\* Pop loads the indices; it returns at once when nothing is available.
PopBegin(max) ==
    /\ cpc = "idle"
    /\ Pending > 0
    /\ cpc' = "copy"
    /\ ctail' = tail
    /\ clen' = MinOf(max, Pending)
    /\ out' = << >>
    /\ UNCHANGED <<shared, producer, owed>>

\* Wrong variant: the second memcpy starts where the first one did.
PopCopyNoWrap ==
    /\ cpc = "copy"
    /\ Len(out) < clen
    /\ out' = Append(out, buffer[MinOf(ctail + Len(out), Capacity - 1)])
    /\ UNCHANGED <<shared, producer, cpc, ctail, clen, owed>>

PopCopy ==
    /\ cpc = "copy"
    /\ Len(out) < clen
    /\ out' = Append(out, buffer[Slot(ctail, Len(out))])
    /\ UNCHANGED <<shared, producer, cpc, ctail, clen, owed>>

PopPublish ==
    /\ cpc = "copy"
    /\ Len(out) = clen
    /\ tail' = Advance(ctail, clen)
    /\ cpc' = "idle" /\ ctail' = 0 /\ clen' = 0 /\ out' = << >>
    /\ owed' = SubSeq(owed, clen + 1, Len(owed))
    /\ UNCHANGED <<buffer, head, overflow, dropped, producer>>

\* KTerm_ClearEvents, called by the thread that runs KTerm_Update: three
\* stores, none of which the producer is asked about.
ClearHead ==
    /\ cpc = "idle"
    /\ ~ClearAnyTime => \A p \in Producers : ppc[p] = "idle"
    /\ head' = 0
    /\ cpc' = "clear_tail"
    /\ owed' = << >>
    /\ UNCHANGED <<buffer, tail, overflow, dropped, producer, ctail, clen, out>>

ClearTail ==
    /\ cpc = "clear_tail"
    /\ tail' = 0
    /\ cpc' = "clear"
    /\ UNCHANGED <<buffer, head, overflow, dropped, producer, ctail, clen, out,
                   owed>>

ClearFlag ==
    /\ cpc = "clear"
    /\ overflow' = FALSE
    /\ cpc' = "idle"
    /\ UNCHANGED <<buffer, head, tail, dropped, producer, ctail, clen, out, owed>>

Push(p) == (\E data \in Chunk : PushBegin(p, data)) \/ PushCopy(p) \/ PushPublish(p)
Pop == (\E max \in 1 .. MaxPop : PopBegin(max)) \/ PopCopy \/ PopPublish
Clear == ClearHead \/ ClearTail \/ ClearFlag

Next == (\E p \in Producers : Push(p)) \/ Pop \/ Clear

Spec == Init /\ [][Next]_vars

\* Once begun, an operation finishes, and KTerm_Update comes back to pop;
\* nothing makes a producer push or the program clear.
Fairness ==
    /\ \A p \in Producers : WF_vars(PushCopy(p) \/ PushPublish(p))
    /\ WF_vars(Pop)
    /\ WF_vars(ClearTail \/ ClearFlag)

FairSpec == Spec /\ Fairness

-------------------------------------------------------------------------------
(* Properties *)

TypeOK ==
    /\ buffer \in [Index -> Byte]
    /\ head \in Index /\ tail \in Index
    /\ overflow \in BOOLEAN /\ dropped \in 0 .. MaxDropped
    /\ ppc \in [Producers -> {"idle", "copy"}]
    /\ phead \in [Producers -> Index]
    /\ pdata \in [Producers -> Chunk]
    /\ pcopied \in [Producers -> 0 .. MaxPush]
    /\ cpc \in {"idle", "copy", "clear_tail", "clear"}
    /\ ctail \in Index /\ clen \in 0 .. Capacity - 1
    /\ out \in Seq(Byte) /\ Len(out) <= clen
    /\ owed \in Seq(Byte)

\* The queue neither loses, repeats, reorders nor changes a byte it accepted:
\* between head and tail lies exactly what was pushed and not yet popped, and
\* the consumer copies a prefix of it.  (While a clear has moved head and not
\* yet tail the pair means nothing, and only the clearing thread looks.)
Faithful ==
    cpc # "clear_tail" =>
        /\ Contents = owed
        /\ out = SubSeq(owed, 1, Len(out))

\* The bytes an unfinished push still writes and those an unfinished pop still
\* reads lie in different slots: the two memcpy calls never race.
NoDataRace ==
    \A p \in Producers :
        (ppc[p] = "copy" /\ cpc = "copy") =>
            \A j \in pcopied[p] .. Len(pdata[p]) - 1, i \in Len(out) .. clen - 1 :
                Slot(phead[p], j) # Slot(ctail, i)

\* A push in progress can always be published: the ring has one free slot left
\* after it, so a full ring is never taken for an empty one.
NeverMistakenForEmpty ==
    \A p \in Producers :
        (ppc[p] = "copy" /\ cpc # "clear_tail")
            => Pending + Len(pdata[p]) <= Capacity - 1

\* The oldest accepted byte is handed to the parser however fast the producer
\* goes on pushing: tail never rests while something is owed.
Progress ==
    \A t \in Index :
        (owed # << >> /\ tail = t) ~> (owed = << >> \/ tail # t)

-------------------------------------------------------------------------------
(* The inductive invariant behind Faithful, NoDataRace and
   NeverMistakenForEmpty; see InputQueueProofs. *)

\* What lies between tail and head is what is owed.
Stored ==
    cpc # "clear_tail" =>
        /\ Len(owed) = Pending
        /\ \A i \in 1 .. Pending : owed[i] = buffer[Slot(tail, i - 1)]

\* A pop in progress works on the front of what is owed.
Popping ==
    /\ cpc = "copy" =>
        /\ ctail = tail
        /\ clen > 0 /\ clen <= Pending
        /\ \A i \in 1 .. Len(out) : out[i] = owed[i]
    /\ cpc # "copy" => out = << >>

\* A push in progress starts at head, fits, and has copied a prefix.
Pushing ==
    \A p \in Producers :
        ppc[p] = "copy" =>
            /\ cpc \in {"idle", "copy"}
            /\ phead[p] = head
            /\ Pending + Len(pdata[p]) <= Capacity - 1
            /\ pcopied[p] <= Len(pdata[p])
            /\ \A j \in 0 .. pcopied[p] - 1 :
                  buffer[Slot(phead[p], j)] = pdata[p][j + 1]

\* A clear in progress leaves nothing owed.
Clearing ==
    /\ cpc \in {"clear_tail", "clear"} => head = 0 /\ owed = << >>
    /\ cpc = "clear" => tail = 0

\* An idle producer has no chunk and has copied nothing.
Resting == \A p \in Producers : ppc[p] = "idle" => pcopied[p] = 0

IInv == TypeOK /\ Stored /\ Popping /\ Pushing /\ Clearing /\ Resting

===============================================================================
