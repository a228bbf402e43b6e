--------------------------- MODULE InputQueueProofs ---------------------------
(***************************************************************************)
(* With one producer thread, and clears that wait for it, the input ring is *)
(* type correct and faithful for every capacity, every chunk size and every *)
(* set of bytes.                                                            *)
(***************************************************************************)
EXTENDS MCInputQueue, TLAPS

\* The design: one thread pushes, and the caller keeps clears out of pushes.
SingleProducer == \A p, q \in Producers : p = q
QuietClear == ~ClearAnyTime

-------------------------------------------------------------------------------
(* Ring arithmetic *)

\* Storing an index modulo the capacity is the same as stepping by slots.
LEMMA AdvanceIsSlot ==
    ASSUME NEW h \in Index, NEW n \in Index
    PROVE  Advance(h, n) = Slot(h, n) /\ Advance(h, n) \in Index
<1>1. Capacity \in Nat /\ Capacity > 0 /\ h \in Int /\ n \in Int
  BY CapacityAssumption DEF Index
<1>2. CASE h + n < Capacity
  <2>1. (h + n) % Capacity = h + n
    BY <1>1, <1>2 DEF Index
  <2> QED  BY <1>1, <1>2, <2>1 DEF Index, Advance, Slot
<1>3. CASE h + n >= Capacity
  <2>1. (h + n) % Capacity = h + n - Capacity
    BY <1>1, <1>3 DEF Index
  <2> QED  BY <1>1, <1>3, <2>1 DEF Index, Advance, Slot
<1> QED  BY <1>1, <1>2, <1>3

\* Two distances below the capacity reach two slots, all of them in the ring.
LEMMA SlotFacts ==
    ASSUME NEW h \in Index, NEW i \in Index
    PROVE  /\ Slot(h, i) \in Index
           /\ \A j \in Index : Slot(h, i) = Slot(h, j) => i = j
BY CapacityAssumption DEF Index, Slot

\* A slot reached in two strides is reached in one.
LEMMA SlotCompose ==
    ASSUME NEW h \in Index, NEW n \in Index, NEW i \in Nat, n + i < Capacity
    PROVE  Slot(Slot(h, n), i) = Slot(h, n + i)
BY CapacityAssumption DEF Index, Slot

\* Available measures the distance from tail to head.
LEMMA AvailableFacts ==
    ASSUME NEW h \in Index, NEW t \in Index
    PROVE  /\ Available(h, t) \in Index
           /\ h = Slot(t, Available(h, t))
           /\ FreeSpace(h, t) = Capacity - 1 - Available(h, t)
           /\ \A n \in Nat : Available(h, t) + n < Capacity
                 => Available(Slot(h, n), t) = Available(h, t) + n
           /\ \A n \in Nat : n <= Available(h, t)
                 => Available(h, Slot(t, n)) = Available(h, t) - n
BY CapacityAssumption DEF Index, Slot, Available, FreeSpace

-------------------------------------------------------------------------------
(* The proof *)

\* The inductive invariant implies the three safety properties.
LEMMA InvImplies == IInv => Faithful /\ NoDataRace /\ NeverMistakenForEmpty
<1> SUFFICES ASSUME IInv
             PROVE  Faithful /\ NoDataRace /\ NeverMistakenForEmpty
  OBVIOUS
<1> USE CapacityAssumption DEF IInv
<1>1. Pending \in Index /\ head \in Index /\ tail \in Index
  BY AvailableFacts DEF TypeOK, Pending
<1>2. Faithful
  <2> SUFFICES ASSUME cpc # "clear_tail"
               PROVE  Contents = owed /\ out = SubSeq(owed, 1, Len(out))
    BY DEF Faithful
  <2>1. Contents = owed
    BY <1>1 DEF Stored, Contents, TypeOK, Index
  <2>2. Len(out) \in 0 .. Len(owed) /\ \A i \in 1 .. Len(out) : out[i] = owed[i]
    BY <1>1 DEF Stored, Popping, TypeOK, Index
  <2>3. out = SubSeq(owed, 1, Len(out))
    BY <2>2 DEF TypeOK
  <2> QED  BY <2>1, <2>3
<1>3. NeverMistakenForEmpty
  BY DEF NeverMistakenForEmpty, Pushing
<1>4. NoDataRace
  <2> SUFFICES ASSUME NEW p \in Producers, ppc[p] = "copy", cpc = "copy",
                      NEW j \in pcopied[p] .. Len(pdata[p]) - 1,
                      NEW i \in Len(out) .. clen - 1
               PROVE  Slot(phead[p], j) # Slot(ctail, i)
    BY DEF NoDataRace
  <2>1. /\ phead[p] = head /\ ctail = tail /\ clen <= Pending
        /\ Pending + Len(pdata[p]) <= Capacity - 1
    BY DEF Pushing, Popping
  <2>2. j \in Nat /\ i \in Nat /\ Len(pdata[p]) \in Nat /\ clen \in Nat
    BY DEF TypeOK, Chunk
  <2>3. j \in Index /\ i \in Index /\ Pending + j \in Index /\ i # Pending + j
    BY <1>1, <2>1, <2>2 DEF Index
  <2>4. Slot(head, j) = Slot(tail, Pending + j)
    BY <1>1, <2>3, <2>2, AvailableFacts, SlotCompose DEF Pending, Index
  <2> QED  BY <1>1, <2>1, <2>3, <2>4, SlotFacts
<1> QED  BY <1>2, <1>3, <1>4

\* The data of a push are the byte sequences up to the longest push.
LEMMA ChunkIsSeq ==
    \A s : s \in Chunk <=> s \in Seq(Byte) /\ Len(s) \in 0 .. MaxPush
<1>1. ASSUME NEW s \in Chunk PROVE s \in Seq(Byte) /\ Len(s) \in 0 .. MaxPush
  BY ChunkAssumption DEF Chunk
<1>2. ASSUME NEW s \in Seq(Byte), Len(s) \in 0 .. MaxPush PROVE s \in Chunk
  <2>1. s \in [1 .. Len(s) -> Byte]
    OBVIOUS
  <2> QED  BY <1>2, <2>1 DEF Chunk
<1> QED  BY <1>1, <1>2

\* KTerm_InputQueue_Init leaves an empty ring, of which the invariant holds
\* whatever malloc left in it.
THEOREM InitEstablishes == Init => IInv
<1> SUFFICES ASSUME Init PROVE IInv
  OBVIOUS
<1> USE CapacityAssumption, ChunkAssumption, DroppedAssumption DEF Init
<1>1. Pending = 0 /\ 0 \in Index
  BY DEF Pending, Available, Index
<1>2. << >> \in Chunk
  <2>1. << >> \in Seq(Byte) /\ Len(<< >>) \in 0 .. MaxPush
    OBVIOUS
  <2> QED  BY <2>1, ChunkIsSeq
<1>3. TypeOK
  BY <1>1, <1>2 DEF TypeOK, Index
<1>4. Stored /\ Popping /\ Pushing /\ Clearing /\ Resting
  BY <1>1 DEF Stored, Popping, Pushing, Clearing, Resting
<1> QED  BY <1>3, <1>4 DEF IInv

\* Facts of a state that satisfies the invariant, used by every step.
LEMMA StateFacts ==
    ASSUME IInv
    PROVE  /\ Capacity \in Nat /\ Capacity > 0
           /\ MaxPush \in Nat /\ MaxDropped \in Nat
           /\ head \in Index /\ tail \in Index /\ Pending \in Index
           /\ head = Slot(tail, Pending)
           /\ \A p \in Producers :
                 /\ pdata[p] \in Seq(Byte)
                 /\ Len(pdata[p]) \in 0 .. MaxPush
                 /\ phead[p] \in Index
                 /\ pcopied[p] \in Nat
<1>1. ASSUME NEW p \in Producers
      PROVE  pdata[p] \in Seq(Byte) /\ Len(pdata[p]) \in 0 .. MaxPush
  BY ChunkIsSeq DEF IInv, TypeOK
<1>2. Capacity \in Nat /\ Capacity > 0 /\ MaxPush \in Nat /\ MaxDropped \in Nat
  BY CapacityAssumption, ChunkAssumption, DroppedAssumption
<1>3. head \in Index /\ tail \in Index
  BY DEF IInv, TypeOK
<1>4. Pending \in Index /\ head = Slot(tail, Pending)
  BY <1>3, AvailableFacts DEF Pending
<1>5. \A p \in Producers : phead[p] \in Index /\ pcopied[p] \in Nat
  BY <1>2 DEF IInv, TypeOK
<1> QED  BY <1>1, <1>2, <1>3, <1>4, <1>5

\* What a push keeps of its data fits into the room it has seen.
LEMMA PushBeginStep ==
    ASSUME SingleProducer, QuietClear, IInv,
           NEW p \in Producers, NEW data \in Chunk, PushBegin(p, data)
    PROVE  IInv'
<1> USE StateFacts DEF IInv
<1> DEFINE free == FreeSpace(head, tail)
           kept == MinOf(Len(data), free)
           lost == Len(data) - kept
<1>1. /\ data \in Seq(Byte) /\ Len(data) \in 0 .. MaxPush /\ Len(data) > 0
      /\ free = Capacity - 1 - Pending /\ free \in Nat
      /\ kept \in 0 .. Len(data) /\ kept <= free /\ lost \in Nat
  <2>1. data \in Seq(Byte) /\ Len(data) \in 0 .. MaxPush
    BY ChunkIsSeq
  <2>2. free = Capacity - 1 - Pending
    BY AvailableFacts DEF Pending
  <2> QED  BY <2>1, <2>2 DEF PushBegin, MinOf, Index
<1>2. Pending' = Pending /\ UNCHANGED <<buffer, head, tail, pcopied, consumer, owed>>
  BY DEF PushBegin, Pending
<1>3. /\ SubSeq(data, 1, kept) \in Chunk
      /\ Len(SubSeq(data, 1, kept)) = kept
      /\ SubSeq(data, 1, kept) \in Seq(Byte)
  <2>1. SubSeq(data, 1, kept) \in Seq(Byte) /\ Len(SubSeq(data, 1, kept)) = kept
    BY <1>1
  <2>2. kept \in 0 .. MaxPush
    BY <1>1
  <2> QED  BY <2>1, <2>2, ChunkIsSeq
<1>4. cpc \in {"idle", "copy"}
  BY DEF PushBegin, QuietClear, TypeOK
<1>5. TypeOK'
  <2>1. (dropped' \in 0 .. MaxDropped) /\ overflow' \in BOOLEAN
    BY <1>1, SMTT(30) DEF PushBegin, TypeOK
  <2>2. CASE kept = 0
    BY <1>2, <2>1, <2>2 DEF PushBegin, TypeOK, consumer
  <2>3. CASE kept # 0
    BY <1>2, <1>3, <2>1, <2>3 DEF PushBegin, TypeOK, consumer
  <2> QED  BY <2>2, <2>3
<1>6. Stored' /\ Popping' /\ Clearing'
  BY <1>2 DEF Stored, Popping, Clearing, consumer
<1>7. Pushing'
  <2>1. CASE kept = 0
    BY <1>2, <2>1 DEF PushBegin, Pushing, consumer
  <2>2. CASE kept # 0
    <3> SUFFICES ASSUME NEW q \in Producers, (ppc[q] = "copy")'
                 PROVE  /\ cpc \in {"idle", "copy"}
                        /\ phead'[q] = head
                        /\ Pending + Len(pdata'[q]) <= Capacity - 1
                        /\ pcopied[q] <= Len(pdata'[q])
                        /\ \A j \in 0 .. pcopied[q] - 1 :
                              buffer[Slot(phead'[q], j)] = pdata'[q][j + 1]
      BY <1>2 DEF Pushing, consumer, Slot
    <3>1. q = p
      BY DEF SingleProducer
    <3>2. pdata'[p] = SubSeq(data, 1, kept) /\ phead'[p] = head
      BY <2>2 DEF PushBegin, TypeOK
    <3>3. pcopied[p] = 0
      BY DEF Resting, PushBegin
    <3>4. 0 .. pcopied[p] - 1 = {} /\ pcopied[p] <= kept
      BY <1>1, <3>3
    <3>5. Pending + kept <= Capacity - 1
      BY <1>1 DEF Index
    <3> QED  BY <1>3, <1>4, <3>1, <3>2, <3>4, <3>5
  <2> QED  BY <2>1, <2>2
<1>8. Resting'
  BY <1>2 DEF Resting, PushBegin, TypeOK
<1> QED  BY <1>5, <1>6, <1>7, <1>8

\* The byte written is beyond everything between tail and head.
LEMMA PushCopyStep ==
    ASSUME SingleProducer, QuietClear, IInv, NEW p \in Producers, PushCopy(p)
    PROVE  IInv'
<1> USE StateFacts DEF IInv
<1> DEFINE s == Slot(phead[p], pcopied[p])
<1>1. /\ phead[p] = head /\ pcopied[p] < Len(pdata[p])
      /\ Pending + Len(pdata[p]) <= Capacity - 1
      /\ cpc \in {"idle", "copy"}
  BY DEF PushCopy, Pushing
<1>2. pcopied[p] \in Index /\ s \in Index /\ pcopied[p] + 1 \in 0 .. MaxPush
  <2>1. pcopied[p] \in Index /\ pcopied[p] + 1 \in 0 .. MaxPush
    BY <1>1, SMTT(30) DEF Index
  <2>2. s \in Index
    BY <2>1, SlotFacts
  <2> QED  BY <2>1, <2>2
<1>3. /\ Pending' = Pending
      /\ UNCHANGED <<head, tail, overflow, dropped, ppc, phead, pdata,
                     consumer, owed>>
      /\ buffer' = [buffer EXCEPT ![s] = pdata[p][pcopied[p] + 1]]
      /\ pcopied' = [pcopied EXCEPT ![p] = pcopied[p] + 1]
  BY DEF PushCopy, Pending
<1>4. pdata[p][pcopied[p] + 1] \in Byte
  BY <1>1
<1>5. TypeOK'
  BY <1>2, <1>3, <1>4 DEF TypeOK, consumer
<1>6. \A i \in 0 .. Pending - 1 : buffer'[Slot(tail, i)] = buffer[Slot(tail, i)]
  <2> SUFFICES ASSUME NEW i \in 0 .. Pending - 1
               PROVE  buffer'[Slot(tail, i)] = buffer[Slot(tail, i)]
    OBVIOUS
  <2>1. i \in Index /\ Pending + pcopied[p] \in Index /\ i # Pending + pcopied[p]
    BY <1>1, SMTT(30) DEF Index
  <2>2. s = Slot(tail, Pending + pcopied[p])
    BY <1>1, <2>1, SlotCompose DEF Index
  <2>3. Slot(tail, i) # s /\ Slot(tail, i) \in Index
    BY <2>1, <2>2, SlotFacts
  <2> QED  BY <1>3, <2>3 DEF TypeOK
<1>7. Stored'
  <2> SUFFICES ASSUME NEW i \in 1 .. Pending
               PROVE  owed[i] = buffer'[Slot(tail, i - 1)]
    BY <1>1, <1>3 DEF Stored, consumer, Slot
  <2>1. i - 1 \in 0 .. Pending - 1
    BY DEF Index
  <2>2. owed[i] = buffer[Slot(tail, i - 1)]
    BY <1>1 DEF Stored
  <2> QED  BY <1>6, <2>1, <2>2
<1>8. Popping' /\ Clearing'
  BY <1>3 DEF Popping, Clearing, consumer
<1>9. Pushing'
  <2> SUFFICES ASSUME NEW j \in 0 .. pcopied[p]
               PROVE  buffer'[Slot(head, j)] = pdata[p][j + 1]
    BY <1>1, <1>2, <1>3, SMTT(30) DEF SingleProducer, Pushing, consumer, TypeOK, Slot
  <2>1. CASE j = pcopied[p]
    BY <1>1, <1>2, <1>3, <2>1 DEF TypeOK
  <2>2. CASE j # pcopied[p]
    <3>1. j \in Index /\ j \in 0 .. pcopied[p] - 1
      BY <1>2, <2>2 DEF Index
    <3>2. Slot(head, j) # s /\ Slot(head, j) \in Index
      BY <1>1, <1>2, <2>2, <3>1, SlotFacts
    <3>3. buffer[Slot(head, j)] = pdata[p][j + 1]
      BY <1>1, <3>1 DEF Pushing, PushCopy
    <3> QED  BY <1>3, <3>2, <3>3 DEF TypeOK
  <2> QED  BY <2>1, <2>2
<1>10. Resting'
  BY <1>3 DEF Resting, PushCopy, SingleProducer
<1> QED  BY <1>5, <1>7, <1>8, <1>9, <1>10

\* The new head reaches exactly the copied chunk.
LEMMA PushPublishStep ==
    ASSUME SingleProducer, QuietClear, IInv, NEW p \in Producers, PushPublish(p)
    PROVE  IInv'
<1> USE StateFacts DEF IInv
<1> DEFINE n == Len(pdata[p])
<1>1. /\ phead[p] = head /\ pcopied[p] = n /\ n \in Nat
      /\ Pending + n <= Capacity - 1
      /\ cpc \in {"idle", "copy"}
      /\ \A j \in 0 .. n - 1 : buffer[Slot(head, j)] = pdata[p][j + 1]
  BY DEF PushPublish, Pushing
<1>2. n \in Index
  BY <1>1 DEF Index
<1>3. /\ head' = Slot(head, n) /\ head' \in Index
      /\ owed' = owed \o pdata[p]
      /\ UNCHANGED <<buffer, tail, overflow, dropped, consumer>>
  BY <1>1, <1>2, AdvanceIsSlot DEF PushPublish
<1>4. Pending' = Pending + n
  <2>1. Available(head, tail) + n < Capacity
    BY <1>1 DEF Pending, Index
  <2>2. Available(Slot(head, n), tail) = Available(head, tail) + n
    BY <1>1, <2>1, AvailableFacts
  <2> QED  BY <1>3, <2>2 DEF Pending
<1>5. owed \in Seq(Byte) /\ Len(owed) = Pending
  BY <1>1 DEF TypeOK, Stored
<1>6. TypeOK'
  <2>1. /\ ppc' \in [Producers -> {"idle", "copy"}]
        /\ phead' \in [Producers -> Index]
        /\ pcopied' \in [Producers -> 0 .. MaxPush]
    BY SMTT(30) DEF PushPublish, TypeOK, Index
  <2>2. << >> \in Chunk
    <3>1. << >> \in Seq(Byte) /\ Len(<< >>) \in 0 .. MaxPush
      OBVIOUS
    <3> QED  BY <3>1, ChunkIsSeq
  <2>3. pdata' \in [Producers -> Chunk]
    BY <2>2 DEF PushPublish, TypeOK
  <2>4. owed' \in Seq(Byte)
    BY <1>3, <1>5
  <2> QED  BY <1>3, <2>1, <2>3, <2>4 DEF TypeOK, consumer
<1>7. Stored'
  <2>1. Len(owed') = Pending'
    BY <1>3, <1>4, <1>5, SMTT(30)
  <2> SUFFICES ASSUME NEW i \in 1 .. Pending + n
               PROVE  owed'[i] = buffer[Slot(tail, i - 1)]
    BY <1>3, <1>4, <2>1 DEF Stored, Slot
  <2>2. CASE i <= Pending
    BY <1>1, <1>3, <1>5, <2>2 DEF Stored, Index
  <2>3. CASE i > Pending
    <3> DEFINE j == i - Pending - 1
    <3>1. owed'[i] = pdata[p][i - Pending]
      BY <1>3, <1>5, <2>3, SMTT(30) DEF Index
    <3>0. Pending \in Nat /\ n \in Nat /\ i \in Nat /\ i <= Pending + n
      BY <1>1 DEF Index
    <3>2. j \in 0 .. n - 1 /\ i - Pending = j + 1 /\ Pending + j = i - 1
      BY <2>3, <3>0
    <3> HIDE DEF j
    <3>3. pdata[p][i - Pending] = buffer[Slot(head, j)]
      BY <1>1, <3>2
    <3>4. Slot(head, j) = Slot(tail, i - 1)
      BY <1>1, <3>2, SlotCompose DEF Index
    <3> QED  BY <3>1, <3>3, <3>4
  <2> QED  BY <2>2, <2>3 DEF Index
<1>8. Popping'
  <2>1. ASSUME cpc = "copy"
        PROVE  /\ ctail = tail /\ clen > 0 /\ clen <= Pending'
               /\ \A i \in 1 .. Len(out) : out[i] = owed'[i]
    BY <1>1, <1>3, <1>4, <1>5, <2>1, SMTT(30) DEF Popping, TypeOK, Index
  <2> QED  BY <1>3, <2>1 DEF Popping, consumer
<1>9. Clearing'
  BY <1>1, <1>3 DEF Clearing, consumer
<1>10. Pushing' /\ Resting'
  BY DEF SingleProducer, PushPublish, Pushing, Resting, TypeOK
<1> QED  BY <1>6, <1>7, <1>8, <1>9, <1>10

\* A pop takes no more than there is between tail and head.
LEMMA PopBeginStep ==
    ASSUME IInv, NEW max \in 1 .. MaxPop, PopBegin(max)
    PROVE  IInv'
<1> USE StateFacts DEF IInv
<1>1. max \in Nat /\ max > 0
  BY ChunkAssumption
<1>2. /\ cpc' = "copy" /\ ctail' = tail /\ out' = << >>
      /\ clen' \in 1 .. Pending
      /\ UNCHANGED <<shared, producer, owed>>
  BY <1>1 DEF PopBegin, MinOf, Index
<1>3. Pending' = Pending /\ cpc = "idle"
  BY <1>2 DEF shared, Pending, PopBegin
<1>4. TypeOK'
  BY <1>2, SMTT(30) DEF TypeOK, shared, producer, Index
<1>5. Stored' /\ Popping' /\ Clearing'
  BY <1>2, <1>3 DEF Stored, Popping, Clearing, shared, Slot, Index
<1>6. Pushing' /\ Resting'
  BY <1>2, <1>3 DEF Pushing, Resting, shared, producer, Slot
<1> QED  BY <1>4, <1>5, <1>6

\* The consumer copies the byte it is owed.
LEMMA PopCopyStep ==
    ASSUME IInv, PopCopy
    PROVE  IInv'
<1> USE StateFacts DEF IInv
<1> DEFINE b == buffer[Slot(ctail, Len(out))]
<1>1. /\ cpc = "copy" /\ ctail = tail /\ clen <= Pending
      /\ Len(out) \in Nat /\ Len(out) < clen /\ clen \in Nat
      /\ Len(owed) = Pending /\ owed \in Seq(Byte) /\ out \in Seq(Byte)
  BY DEF PopCopy, Popping, Stored, TypeOK
<1>2. b = owed[Len(out) + 1]
  BY <1>1 DEF Stored, Index
<1>3. /\ out' = Append(out, b)
      /\ UNCHANGED <<shared, producer, cpc, ctail, clen, owed>>
      /\ Pending' = Pending
  BY DEF PopCopy, shared, Pending
<1>4. b \in Byte
  BY <1>1, <1>2 DEF Index
<1>5. TypeOK'
  <2>1. out' \in Seq(Byte) /\ Len(out') <= clen
    BY <1>1, <1>3, <1>4
  <2> QED  BY <1>3, <2>1 DEF TypeOK, shared, producer
<1>6. Popping'
  <2>1. \A i \in 1 .. Len(out') : out'[i] = owed[i]
    BY <1>1, <1>2, <1>3 DEF Popping
  <2> QED  BY <1>1, <1>3, <2>1 DEF Popping, shared
<1>7. Stored' /\ Clearing' /\ Pushing' /\ Resting'
  BY <1>3 DEF Stored, Clearing, Pushing, Resting, shared, producer, Slot
<1> QED  BY <1>5, <1>6, <1>7

\* The slots given back are the front of what was owed.
LEMMA PopPublishStep ==
    ASSUME IInv, PopPublish
    PROVE  IInv'
<1> USE StateFacts DEF IInv
<1>1. /\ cpc = "copy" /\ ctail = tail /\ clen \in 1 .. Pending
      /\ Len(owed) = Pending /\ owed \in Seq(Byte)
  BY DEF PopPublish, Popping, Stored, TypeOK
<1>2. clen \in Index
  BY <1>1 DEF Index
<1>3. /\ tail' = Slot(tail, clen) /\ tail' \in Index
      /\ cpc' = "idle" /\ ctail' = 0 /\ clen' = 0 /\ out' = << >>
      /\ owed' = SubSeq(owed, clen + 1, Len(owed))
      /\ UNCHANGED <<buffer, head, overflow, dropped, producer>>
  BY <1>1, <1>2, AdvanceIsSlot DEF PopPublish
<1>4. Pending' = Pending - clen
  <2>1. clen <= Available(head, tail) /\ clen \in Nat
    BY <1>1 DEF Pending, Index
  <2>2. Available(head, Slot(tail, clen)) = Available(head, tail) - clen
    BY <2>1, AvailableFacts
  <2> QED  BY <1>3, <2>2 DEF Pending
<1>5. /\ owed' \in Seq(Byte) /\ Len(owed') = Pending - clen
      /\ \A i \in 1 .. Pending - clen : owed'[i] = owed[i + clen]
  BY <1>1, <1>3 DEF Index
<1>6. TypeOK'
  <2>1. << >> \in Seq(Byte) /\ Len(<< >>) = 0 /\ 0 \in Index
    BY DEF Index
  <2> QED  BY <1>3, <1>5, <2>1 DEF TypeOK, producer
<1>7. Stored'
  <2> SUFFICES ASSUME NEW i \in 1 .. Pending - clen
               PROVE  owed'[i] = buffer[Slot(Slot(tail, clen), i - 1)]
    BY <1>3, <1>4, <1>5 DEF Stored, Slot
  <2>1. /\ i - 1 \in Nat /\ clen + (i - 1) = (i + clen) - 1
        /\ clen + (i - 1) < Capacity /\ i + clen \in 1 .. Pending
    BY <1>1 DEF Index
  <2>2. Slot(Slot(tail, clen), i - 1) = Slot(tail, (i + clen) - 1)
    BY <1>2, <2>1, SlotCompose
  <2>3. owed[i + clen] = buffer[Slot(tail, (i + clen) - 1)]
    BY <1>1, <2>1 DEF Stored
  <2> QED  BY <1>5, <2>2, <2>3
<1>8. Popping' /\ Clearing' /\ Resting'
  BY <1>3 DEF Popping, Clearing, Resting, producer
<1>9. Pushing'
  <2> SUFFICES ASSUME NEW p \in Producers, ppc[p] = "copy"
               PROVE  /\ phead[p] = head
                      /\ (Pending - clen) + Len(pdata[p]) <= Capacity - 1
                      /\ pcopied[p] <= Len(pdata[p])
                      /\ \A j \in 0 .. pcopied[p] - 1 :
                            buffer[Slot(phead[p], j)] = pdata[p][j + 1]
    BY <1>3, <1>4 DEF Pushing, producer, Slot
  <2> QED  BY <1>1 DEF Pushing, Index
<1> QED  BY <1>6, <1>7, <1>8, <1>9

\* A clear finds no push in progress, and none begins before it ends.
LEMMA ClearStep ==
    ASSUME QuietClear, IInv, Clear
    PROVE  IInv'
<1> USE StateFacts DEF IInv
<1>1. 0 \in Index /\ << >> \in Seq(Byte)
  BY DEF Index
<1>2. CASE ClearHead
  <2>1. \A p \in Producers : ppc[p] # "copy"
    BY <1>2 DEF ClearHead, QuietClear
  <2>2. TypeOK'
    BY <1>1, <1>2 DEF ClearHead, TypeOK, producer
  <2>3. Stored' /\ Popping' /\ Clearing' /\ Resting' /\ Pushing'
    BY <1>2, <2>1 DEF ClearHead, Stored, Popping, Clearing, Resting, Pushing, producer
  <2> QED  BY <2>2, <2>3
<1>3. CASE ClearTail
  <2>1. \A p \in Producers : ppc[p] # "copy"
    BY <1>3 DEF ClearTail, Pushing
  <2>2. TypeOK'
    BY <1>1, <1>3 DEF ClearTail, TypeOK, producer
  <2>3. head' = 0 /\ tail' = 0 /\ owed' = << >> /\ Pending' = 0
    BY <1>3 DEF ClearTail, Clearing, Pending, Available
  <2>4. Stored' /\ Popping' /\ Clearing' /\ Resting' /\ Pushing'
    BY <1>3, <2>1, <2>3 DEF ClearTail, Stored, Popping, Clearing, Resting, Pushing, producer
  <2> QED  BY <2>2, <2>4
<1>4. CASE ClearFlag
  <2>1. \A p \in Producers : ppc[p] # "copy"
    BY <1>4 DEF ClearFlag, Pushing
  <2>2. TypeOK'
    BY <1>4 DEF ClearFlag, TypeOK, producer
  <2>3. Pending' = Pending
    BY <1>4 DEF ClearFlag, Pending
  <2>4. Stored' /\ Popping' /\ Clearing' /\ Resting' /\ Pushing'
    BY <1>4, <2>1, <2>3 DEF ClearFlag, Stored, Popping, Clearing, Resting, Pushing, producer, Slot
  <2> QED  BY <2>2, <2>4
<1> QED  BY <1>2, <1>3, <1>4 DEF Clear

\* The invariant is about nothing but the variables.
LEMMA StutterStep ==
    ASSUME IInv, UNCHANGED vars
    PROVE  IInv'
BY DEF IInv, TypeOK, Stored, Popping, Pushing, Clearing, Resting, Pending,
       Available, Slot, Index, Chunk, vars, shared, producer, consumer

\* IInv is inductive.
LEMMA NextPreserves ==
    ASSUME SingleProducer, QuietClear, IInv, [Next]_vars
    PROVE  IInv'
<1>1. ASSUME NEW p \in Producers, Push(p) PROVE IInv'
  BY <1>1, PushBeginStep, PushCopyStep, PushPublishStep DEF Push
<1>2. CASE Pop
  BY <1>2, PopBeginStep, PopCopyStep, PopPublishStep DEF Pop
<1>3. CASE Clear
  BY <1>3, ClearStep
<1>4. CASE UNCHANGED vars
  BY <1>4, StutterStep
<1> QED  BY <1>1, <1>2, <1>3, <1>4 DEF Next

-------------------------------------------------------------------------------
(* The theorems *)

\* Every reachable state satisfies the inductive invariant: in particular it is
\* type correct (TypeOK), and the indices never leave the ring.
THEOREM Invariance ==
    ASSUME SingleProducer, QuietClear
    PROVE  Spec => []IInv
<1>1. Init => IInv
  BY InitEstablishes
<1>2. IInv /\ [Next]_vars => IInv'
  BY NextPreserves
<1> QED  BY <1>1, <1>2, PTL DEF Spec

\* KTerm_InputQueue_Pop hands out exactly the bytes KTerm_InputQueue_Push
\* accepted, in order, for every capacity: with one producer and quiet clears.
THEOREM FaithfulTheorem ==
    ASSUME SingleProducer, QuietClear
    PROVE  Spec => []Faithful
<1>1. IInv => Faithful
  BY InvImplies
<1> QED  BY <1>1, Invariance, PTL

\* The memcpy of a push and the memcpy of a pop never touch one slot.
THEOREM NoDataRaceTheorem ==
    ASSUME SingleProducer, QuietClear
    PROVE  Spec => []NoDataRace
<1>1. IInv => NoDataRace
  BY InvImplies
<1> QED  BY <1>1, Invariance, PTL

\* A push in progress always leaves the reserved slot free.
THEOREM NeverMistakenForEmptyTheorem ==
    ASSUME SingleProducer, QuietClear
    PROVE  Spec => []NeverMistakenForEmpty
<1>1. IInv => NeverMistakenForEmpty
  BY InvImplies
<1> QED  BY <1>1, Invariance, PTL

-------------------------------------------------------------------------------
(* The refinement of LossyFifo *)

\* What LossyFifo calls its queue is what is owed.
LEMMA QueueIsOwed == IInv => AbstractQueue = owed
<1> SUFFICES ASSUME IInv PROVE AbstractQueue = owed
  OBVIOUS
<1>1. CASE cpc = "clear_tail"
  BY <1>1 DEF AbstractQueue, IInv, Clearing
<1>2. CASE cpc # "clear_tail"
  BY <1>2, InvImplies DEF AbstractQueue, Faithful
<1> QED  BY <1>1, <1>2

\* The same of the next state.
LEMMA QueueIsOwedNext == (IInv => AbstractQueue = owed)'
BY QueueIsOwed, PTL

\* A push is one step of the queue: the store of head, which accepts the chunk.
LEMMA PushRefines ==
    ASSUME SingleProducer, QuietClear, IInv, IInv',
           NEW p \in Producers, Push(p)
    PROVE  [Fifo!FifoNext]_Fifo!fifo
<1> USE StateFacts, QueueIsOwed, QueueIsOwedNext DEF Fifo!fifo
<1>1. ASSUME NEW data \in Chunk, PushBegin(p, data)
      PROVE  UNCHANGED <<owed, out>>
  BY <1>1 DEF PushBegin, consumer
<1>2. ASSUME PushCopy(p)
      PROVE  UNCHANGED <<owed, out>>
  BY <1>2 DEF PushCopy, consumer
<1>3. ASSUME PushPublish(p)
      PROVE  Fifo!Accept \/ UNCHANGED <<owed, out>>
  <2> DEFINE n == Len(pdata[p])
  <2>1. /\ Pending + n <= Capacity - 1 /\ cpc # "clear_tail"
        /\ owed' = owed \o pdata[p] /\ out' = out
    BY <1>3 DEF PushPublish, Pushing, IInv, consumer
  <2>2. Len(owed) = Pending /\ owed \in Seq(Byte)
    BY <2>1 DEF Stored, IInv, TypeOK
  <2>3. pdata[p] \in [1 .. n -> Byte] /\ n \in 0 .. MaxPush
    OBVIOUS
  <2>4. CASE n > 0
    <3>1. n \in 1 .. MaxPush
      BY <2>3, <2>4
    <3>2. /\ Len(AbstractQueue) + n <= Capacity - 1
          /\ AbstractQueue' = AbstractQueue \o pdata[p]
      BY <2>1, <2>2
    <3>3. SUFFICES \E k \in 1 .. MaxPush : \E data \in [1 .. k -> Byte] :
                    /\ Len(AbstractQueue) + k <= Capacity - 1
                    /\ AbstractQueue' = AbstractQueue \o data
                    /\ out' = out
      BY DEF Fifo!Accept
    <3> QED  BY <2>1, <2>3, <3>1, <3>2
  <2>5. CASE n = 0
    <3>1. pdata[p] = << >>
      BY <2>3, <2>5
    <3> QED  BY <2>1, <2>2, <3>1
  <2> QED  BY <2>3, <2>4, <2>5
<1> QED  BY <1>1, <1>2, <1>3 DEF Push, Fifo!FifoNext

\* A pop takes what it copies byte by byte, then releases it at once.
LEMMA PopRefines ==
    ASSUME IInv, IInv', Pop
    PROVE  [Fifo!FifoNext]_Fifo!fifo
<1> USE StateFacts, QueueIsOwed, QueueIsOwedNext DEF Fifo!fifo
<1>1. ASSUME NEW max \in 1 .. MaxPop, PopBegin(max)
      PROVE  UNCHANGED <<owed, out>>
  BY <1>1 DEF PopBegin, IInv, Popping
<1>2. ASSUME PopCopy
      PROVE  Fifo!Take
  <2>1. /\ ctail = tail /\ clen <= Pending /\ Len(out) \in Nat /\ Len(out) < clen
        /\ Len(owed) = Pending /\ clen \in Nat
    BY <1>2 DEF PopCopy, IInv, Popping, Stored, TypeOK
  <2>2. buffer[Slot(ctail, Len(out))] = owed[Len(out) + 1]
    BY <1>2, <2>1 DEF PopCopy, IInv, Stored, Index
  <2> QED  BY <1>2, <2>1, <2>2 DEF PopCopy, Fifo!Take, Index
<1>3. ASSUME PopPublish
      PROVE  Fifo!Release
  <2>1. Len(out) = clen /\ clen > 0 /\ clen \in Nat
    BY <1>3 DEF PopPublish, IInv, Popping, TypeOK
  <2>2. out # << >>
    BY <2>1
  <2> QED  BY <1>3, <2>1, <2>2 DEF PopPublish, Fifo!Release
<1> QED  BY <1>1, <1>2, <1>3 DEF Pop, Fifo!FifoNext

\* A clear empties the queue with its first store.
LEMMA ClearRefines ==
    ASSUME IInv, IInv', Clear
    PROVE  [Fifo!FifoNext]_Fifo!fifo
<1> USE QueueIsOwed, QueueIsOwedNext DEF Fifo!fifo
<1>1. ASSUME ClearHead PROVE Fifo!Empty
  BY <1>1 DEF ClearHead, Fifo!Empty, IInv, Popping
<1>2. ASSUME ClearTail \/ ClearFlag PROVE UNCHANGED <<owed, out>>
  BY <1>2 DEF ClearTail, ClearFlag
<1> QED  BY <1>1, <1>2 DEF Clear, Fifo!FifoNext

\* The ring of any capacity implements the bounded lossy queue of one byte
\* less, with chunks of any length: the initial ring is an empty queue, and
\* each load, copy and store of KTerm_InputQueue_Push, KTerm_InputQueue_Pop and
\* KTerm_ClearEvents is a step of that queue or none.
THEOREM ImplementsFifoTheorem ==
    ASSUME SingleProducer, QuietClear
    PROVE  Spec => ImplementsFifo
<1>1. Init => Fifo!FifoInit
  BY InitEstablishes, QueueIsOwed DEF Init, Fifo!FifoInit
<1>2. IInv /\ IInv' /\ [Next]_vars => [Fifo!FifoNext]_Fifo!fifo
  <2> SUFFICES ASSUME IInv, IInv', [Next]_vars
               PROVE  [Fifo!FifoNext]_Fifo!fifo
    OBVIOUS
  <2>1. ASSUME NEW p \in Producers, Push(p) PROVE [Fifo!FifoNext]_Fifo!fifo
    BY <2>1, PushRefines
  <2>2. CASE Pop
    BY <2>2, PopRefines
  <2>3. CASE Clear
    BY <2>3, ClearRefines
  <2>4. CASE UNCHANGED vars
    BY <2>4, QueueIsOwed, QueueIsOwedNext DEF vars, consumer, Fifo!fifo
  <2> QED  BY <2>1, <2>2, <2>3, <2>4 DEF Next
<1> QED  BY <1>1, <1>2, Invariance, PTL DEF Spec, ImplementsFifo, Fifo!FifoSpec

===============================================================================
