---------------------------- MODULE VoiceLinkProofs ----------------------------
(***************************************************************************)
(* What is said is heard, in order, but for what is dropped whole, for any  *)
(* size of the rings, of a packet and of what the audio threads ask for.    *)
(* A ring with the samples being copied into it is a line; both lines and   *)
(* the packets between them hold what is on its way, in order.              *)
(***************************************************************************)
EXTENDS VoiceLink, TLAPS

Index == 0 .. SIZE - 1
Slot(i, k) == IF i + k < SIZE THEN i + k ELSE i + k - SIZE

Ring == [data : [Index -> Nat], head : Index, tail : Index]
Steps == {"idle", "copy1", "copy2", "store"}
Writer == [at : Steps, samples : Seq(Nat), head : Nat]
Reader == [at : Steps, n : Nat, head : Index, tail : Index, got : Seq(Nat)]

-------------------------------------------------------------------------------
(* One ring *)

Held(ring) == Available(ring.head, ring.tail)

\* What a ring holds and what is being copied into it.
Line(ring, p) ==
    [k \in 1 .. Held(ring) + Len(p.samples) |->
        IF k <= Held(ring) THEN ring.data[Slot(ring.tail, k - 1)]
        ELSE p.samples[k - Held(ring)]]

\* How much of it has been copied.
Copied(p) ==
    CASE p.at = "copy2" -> Chunk1(Len(p.samples), p.head)
      [] p.at = "store" -> Len(p.samples)
      [] OTHER -> 0

Writing(ring, p) ==
    /\ p.at = "idle" => p.samples = << >>
    /\ p.at # "idle" => /\ p.head = ring.head /\ Len(p.samples) > 0
                        /\ Held(ring) + Len(p.samples) < SIZE
    /\ p.at = "copy2" => Chunk1(Len(p.samples), p.head) < Len(p.samples)
    /\ \A k \in 0 .. Copied(p) - 1 : ring.data[Slot(ring.head, k)] = p.samples[k + 1]

Reading(ring, c) ==
    c.at # "idle" =>
        /\ c.tail = ring.tail /\ c.n > 0
        /\ c.n <= Available(c.head, c.tail) /\ Available(c.head, c.tail) <= Held(ring)
        /\ c.at = "copy2" => Len(c.got) = Chunk1(c.n, c.tail) /\ Len(c.got) < c.n
        /\ c.at = "store" => Len(c.got) = c.n
        /\ c.at # "copy1" =>
              \A k \in 0 .. Len(c.got) - 1 : c.got[k + 1] = ring.data[Slot(ring.tail, k)]

(* What is on its way: the line of the speaker p, the packets w, the line of the
   microphone c; h has been heard, n recorded, l is lost. *)

Increasing(s) == \A i, j \in 1 .. Len(s) : i < j => s[i] < s[j]
Before(s, t) == \A i \in 1 .. Len(s), j \in 1 .. Len(t) : s[i] < t[j]
Between(h, s, n) == \A i \in 1 .. Len(s) : h < s[i] /\ s[i] <= n
In(x, s) == \E i \in 1 .. Len(s) : s[i] = x

Ordered(p, w, c, h, n) ==
    /\ Increasing(p) /\ Increasing(c) /\ Before(p, c)
    /\ \A a \in 1 .. Len(w) : Increasing(w[a]) /\ Before(p, w[a]) /\ Before(w[a], c)
    /\ \A a, b \in 1 .. Len(w) : a < b => Before(w[a], w[b])
    /\ Between(h, p, n) /\ Between(h, c, n) /\ h <= n
    /\ \A a \in 1 .. Len(w) : Between(h, w[a], n)

Accounted(p, w, c, h, n, l) ==
    \A x \in 1 .. n : \/ x <= h \/ x \in l \/ In(x, p) \/ In(x, c)
                      \/ \E a \in 1 .. Len(w) : In(x, w[a])

Flow(p, w, c, h, n, l) == Ordered(p, w, c, h, n) /\ Accounted(p, w, c, h, n, l)

(* The inductive invariant *)

LineOf(r) == Line(rings[r], producer[r])

RingPart ==
    /\ rings \in [Rings -> Ring]
    /\ producer \in [Rings -> Writer]
    /\ consumer \in [Rings -> Reader]
    /\ speaking \in [Rings -> BOOLEAN]
    /\ \A r \in Rings :
          /\ Writing(rings[r], producer[r]) /\ Reading(rings[r], consumer[r])
          /\ ~speaking[r] => producer[r].at = "idle" /\ consumer[r].at = "idle"
    /\ consumer["capture"].at # "idle" => consumer["capture"].n = CHUNK

FlowPart ==
    /\ wire \in Seq(Seq(Nat)) /\ \A a \in 1 .. Len(wire) : Len(wire[a]) = CHUNK
    /\ recorded \in Nat /\ heard \in Nat
    /\ Flow(LineOf("playback"), wire, LineOf("capture"), heard, recorded, lost)

IInv == RingPart /\ FlowPart

\* A ring has a slot, a packet a sample, and an audio thread asks for one at least.
Sizes == SIZE \in Nat \ {0} /\ CHUNK \in Nat \ {0} /\ Frames \subseteq Nat \ {0}

-------------------------------------------------------------------------------
(* Ring arithmetic *)

LEMMA SlotFacts ==
    ASSUME SIZE \in Nat \ {0}, NEW i \in Index, NEW k \in Index
    PROVE  /\ (i + k) % SIZE = Slot(i, k)
           /\ Slot(i, k) \in Index
           /\ \A j \in Index : Slot(i, k) = Slot(i, j) => k = j
           /\ \A j \in Nat : k + j < SIZE => Slot(Slot(i, k), j) = Slot(i, k + j)
<1>1. (i + k) % SIZE = Slot(i, k)
  <2>1. CASE i + k < SIZE
    <3>1. (i + k) % SIZE = i + k
      BY <2>1 DEF Index
    <3> QED  BY <2>1, <3>1 DEF Slot
  <2>2. CASE i + k >= SIZE
    <3>1. (i + k) % SIZE = i + k - SIZE
      BY <2>2 DEF Index
    <3> QED  BY <2>2, <3>1 DEF Slot, Index
  <2> QED  BY <2>1, <2>2 DEF Index
<1>2. Slot(i, k) \in Index
  BY DEF Index, Slot
<1>3. \A j \in Index : Slot(i, k) = Slot(i, j) => k = j
  BY DEF Index, Slot
<1>4. \A j \in Nat : k + j < SIZE => Slot(Slot(i, k), j) = Slot(i, k + j)
  BY DEF Index, Slot
<1> QED  BY <1>1, <1>2, <1>3, <1>4

LEMMA SlotSlot ==
    ASSUME SIZE \in Nat \ {0}, NEW i \in Index, NEW k \in Index, NEW j \in Nat, k + j < SIZE
    PROVE  Slot(Slot(i, k), j) = Slot(i, k + j)
BY SlotFacts

LEMMA AvailableFacts ==
    ASSUME SIZE \in Nat \ {0}, NEW h \in Index, NEW t \in Index
    PROVE  /\ Available(h, t) \in Index
           /\ h = Slot(t, Available(h, t))
           /\ Free(h, t) = SIZE - 1 - Available(h, t)
           /\ \A n \in Nat : Available(h, t) + n < SIZE
                 => Available(Slot(h, n), t) = Available(h, t) + n
           /\ \A n \in Nat : n <= Available(h, t)
                 => Available(h, Slot(t, n)) = Available(h, t) - n
BY DEF Index, Slot, Available, Free

\* Copying up to the end of the ring and then the rest is copying slot by slot.
LEMMA Chunk1Facts ==
    ASSUME SIZE \in Nat \ {0}, NEW i \in Index, NEW n \in Index
    PROVE  /\ Chunk1(n, i) \in Nat /\ Chunk1(n, i) <= n
           /\ \A k \in 0 .. Chunk1(n, i) - 1 : Slot(i, k) = i + k
           /\ \A k \in Chunk1(n, i) .. n - 1 : Slot(i, k) = k - Chunk1(n, i)
           /\ Chunk1(n, i) < n => Chunk1(n, i) = SIZE - i
BY DEF Index, Slot, Chunk1

-------------------------------------------------------------------------------
(* Sequences *)

LEMMA SameSeq ==
    ASSUME NEW s \in Seq(Nat), NEW t \in Seq(Nat), Len(s) = Len(t),
           \A i \in 1 .. Len(s) : s[i] = t[i]
    PROVE  s = t
OBVIOUS

LEMMA JoinFacts ==
    ASSUME NEW s \in Seq(Nat), NEW t \in Seq(Nat)
    PROVE  /\ s \o t \in Seq(Nat) /\ Len(s) \in Nat /\ Len(t) \in Nat
           /\ Len(s \o t) = Len(s) + Len(t)
           /\ \A i \in 1 .. Len(s) : (s \o t)[i] = s[i]
           /\ \A i \in 1 .. Len(t) : (s \o t)[Len(s) + i] = t[i]
<1>1. s \o t \in Seq(Nat) /\ Len(s) \in Nat /\ Len(t) \in Nat
  OBVIOUS
<1>2. Len(s \o t) = Len(s) + Len(t)
  OBVIOUS
<1>3. \A i \in 1 .. Len(s) : (s \o t)[i] = s[i]
  OBVIOUS
<1>4. \A i \in 1 .. Len(t) : (s \o t)[Len(s) + i] = t[i]
  OBVIOUS
<1> QED  BY <1>1, <1>2, <1>3, <1>4

\* Every place of two sequences in a row is one of the first or of the second.
LEMMA PlaceIn ==
    ASSUME NEW m \in Nat, NEW n \in Nat, NEW k \in 1 .. m + n
    PROVE  k \in 1 .. m \/ \E j \in 1 .. n : k = m + j
<1>1. CASE k > m
  <2>1. k - m \in 1 .. n /\ k = m + (k - m)
    BY <1>1
  <2> QED  BY <2>1
<1> QED  BY <1>1

-------------------------------------------------------------------------------
(* The calls on one ring *)

LEMMA LineFacts ==
    ASSUME SIZE \in Nat \ {0}, NEW ring \in Ring, NEW p \in Writer
    PROVE  /\ Held(ring) \in Index /\ Held(ring) \in Nat /\ Len(p.samples) \in Nat
           /\ Line(ring, p) \in Seq(Nat)
           /\ Len(Line(ring, p)) = Held(ring) + Len(p.samples)
           /\ \A k \in 1 .. Held(ring) :
                 Line(ring, p)[k] = ring.data[Slot(ring.tail, k - 1)]
           /\ \A k \in 1 .. Len(p.samples) : Line(ring, p)[Held(ring) + k] = p.samples[k]
<1> DEFINE m == Held(ring) + Len(p.samples)
<1>1. /\ ring.head \in Index /\ ring.tail \in Index /\ ring.data \in [Index -> Nat]
      /\ p.samples \in Seq(Nat)
  BY DEF Ring, Writer
<1>2. Held(ring) \in Index /\ Held(ring) \in Nat /\ Len(p.samples) \in Nat
  <2>1. Held(ring) \in Index
    BY <1>1, AvailableFacts DEF Held
  <2>2. Held(ring) \in Nat
    BY <2>1 DEF Index
  <2> QED  BY <1>1, <2>1, <2>2
<1>3. ASSUME NEW k \in 1 .. m
      PROVE  (IF k <= Held(ring) THEN ring.data[Slot(ring.tail, k - 1)]
              ELSE p.samples[k - Held(ring)]) \in Nat
  <2>1. CASE k <= Held(ring)
    <3>1. k - 1 \in Index
      BY <1>2, <2>1 DEF Index
    <3>2. Slot(ring.tail, k - 1) \in Index
      BY <1>1, <3>1, SlotFacts
    <3> QED  BY <1>1, <2>1, <3>2
  <2>2. CASE k > Held(ring)
    <3>1. k - Held(ring) \in 1 .. Len(p.samples)
      BY <1>2, <2>2
    <3>2. p.samples[k - Held(ring)] \in Nat
      BY <1>1, <3>1
    <3> QED  BY <1>2, <2>2, <3>2
  <2> QED  BY <1>2, <2>1, <2>2
<1>4. m \in Nat
  BY <1>2
<1>5. /\ Line(ring, p) = [k \in 1 .. m |->
            IF k <= Held(ring) THEN ring.data[Slot(ring.tail, k - 1)]
            ELSE p.samples[k - Held(ring)]]
  BY DEF Line
<1>6. Line(ring, p) \in Seq(Nat) /\ Len(Line(ring, p)) = m
  BY <1>3, <1>4, <1>5
<1>7. ASSUME NEW k \in 1 .. Held(ring)
      PROVE  Line(ring, p)[k] = ring.data[Slot(ring.tail, k - 1)]
  BY <1>2, <1>5
<1>8. ASSUME NEW k \in 1 .. Len(p.samples)
      PROVE  Line(ring, p)[Held(ring) + k] = p.samples[k]
  <2>1. /\ Held(ring) + k \in 1 .. m /\ ~(Held(ring) + k <= Held(ring))
        /\ (Held(ring) + k) - Held(ring) = k
    BY <1>2
  <2> QED  BY <1>5, <2>1
<1> QED  BY <1>2, <1>6, <1>7, <1>8

\* Lines are the same that are so slot by slot.
LEMMA SameLine ==
    ASSUME SIZE \in Nat \ {0}, NEW ring \in Ring, NEW p \in Writer,
           NEW ring2 \in Ring, NEW p2 \in Writer,
           ring2.head = ring.head, ring2.tail = ring.tail, p2.samples = p.samples,
           \A k \in 0 .. Held(ring) - 1 :
              ring2.data[Slot(ring.tail, k)] = ring.data[Slot(ring.tail, k)]
    PROVE  Held(ring2) = Held(ring) /\ Line(ring2, p2) = Line(ring, p)
<1>1. Held(ring2) = Held(ring)
  BY DEF Held
<1>2. /\ Held(ring) \in Nat /\ Len(p.samples) \in Nat
      /\ Line(ring, p) \in Seq(Nat) /\ Line(ring2, p2) \in Seq(Nat)
      /\ Len(Line(ring, p)) = Held(ring) + Len(p.samples)
      /\ Len(Line(ring2, p2)) = Held(ring) + Len(p.samples)
  BY <1>1, LineFacts
<1>3. ASSUME NEW k \in 1 .. Held(ring) + Len(p.samples)
      PROVE  Line(ring2, p2)[k] = Line(ring, p)[k]
  <2>1. CASE k \in 1 .. Held(ring)
    <3>1. /\ Line(ring, p)[k] = ring.data[Slot(ring.tail, k - 1)]
          /\ Line(ring2, p2)[k] = ring2.data[Slot(ring2.tail, k - 1)]
      <4>1. \A i \in 1 .. Held(ring) : Line(ring, p)[i] = ring.data[Slot(ring.tail, i - 1)]
        BY LineFacts
      <4>2. \A i \in 1 .. Held(ring2) :
               Line(ring2, p2)[i] = ring2.data[Slot(ring2.tail, i - 1)]
        BY LineFacts
      <4> QED  BY ONLY <1>1, <2>1, <4>1, <4>2
    <3>2. k - 1 \in 0 .. Held(ring) - 1
      BY <1>2, <2>1
    <3> QED  BY <3>1, <3>2
  <2>2. CASE \E j \in 1 .. Len(p.samples) : k = Held(ring) + j
    <3>1. PICK j \in 1 .. Len(p.samples) : k = Held(ring) + j
      BY <2>2
    <3>2. /\ Line(ring, p)[Held(ring) + j] = p.samples[j]
          /\ Line(ring2, p2)[Held(ring2) + j] = p2.samples[j]
      BY LineFacts
    <3> QED  BY <1>1, <3>1, <3>2
  <2> QED  BY <1>2, <2>1, <2>2, PlaceIn
<1> QED  BY <1>1, <1>2, <1>3, SameSeq

\* A call that fills the ring lengthens the line by its samples.
LEMMA BeginLine ==
    ASSUME SIZE \in Nat \ {0}, NEW ring \in Ring, NEW p \in Writer, NEW q \in Writer,
           Writing(ring, p), p.at = "idle", q.at = "copy1", q.head = ring.head,
           Len(q.samples) > 0, Len(q.samples) <= Free(ring.head, ring.tail)
    PROVE  Writing(ring, q) /\ Line(ring, q) = Line(ring, p) \o q.samples
<1>1. p.samples = << >> /\ Len(p.samples) = 0
  BY DEF Writing
<1>2. Held(ring) + Len(q.samples) < SIZE
  <2>1. /\ Free(ring.head, ring.tail) = SIZE - 1 - Held(ring)
        /\ Held(ring) \in Nat /\ Len(q.samples) \in Nat
    BY AvailableFacts, LineFacts DEF Ring, Held
  <2> QED  BY <2>1
<1>3. Writing(ring, q)
  BY <1>2 DEF Writing, Copied
<1>4. /\ Held(ring) \in Nat /\ q.samples \in Seq(Nat) /\ Len(q.samples) \in Nat
      /\ Line(ring, p) \in Seq(Nat) /\ Len(Line(ring, p)) = Held(ring)
      /\ Line(ring, q) \in Seq(Nat) /\ Len(Line(ring, q)) = Held(ring) + Len(q.samples)
  <2>1. Len(Line(ring, p)) = Held(ring) + 0 /\ Held(ring) \in Nat
    BY <1>1, LineFacts
  <2> QED  BY <2>1, LineFacts DEF Writer
<1>5. ASSUME NEW k \in 1 .. Held(ring) + Len(q.samples)
      PROVE  (Line(ring, p) \o q.samples)[k] = Line(ring, q)[k]
  <2>1. CASE k \in 1 .. Held(ring)
    <3>1. Line(ring, q)[k] = Line(ring, p)[k]
      BY <2>1, LineFacts
    <3>2. (Line(ring, p) \o q.samples)[k] = Line(ring, p)[k]
      BY <1>4, <2>1, JoinFacts
    <3> QED  BY <3>1, <3>2
  <2>2. CASE \E j \in 1 .. Len(q.samples) : k = Held(ring) + j
    <3>1. PICK j \in 1 .. Len(q.samples) : k = Held(ring) + j
      BY <2>2
    <3>2. Line(ring, q)[Held(ring) + j] = q.samples[j]
      BY LineFacts
    <3>3. (Line(ring, p) \o q.samples)[Len(Line(ring, p)) + j] = q.samples[j]
      <4>1. Line(ring, p) \in Seq(Nat) /\ q.samples \in Seq(Nat)
        BY <1>4
      <4>2. \A i \in 1 .. Len(q.samples) :
               (Line(ring, p) \o q.samples)[Len(Line(ring, p)) + i] = q.samples[i]
        BY ONLY <4>1, JoinFacts
      <4> QED  BY <4>2
    <3> QED  BY <1>4, <3>1, <3>2, <3>3
  <2> QED  BY <1>4, <2>1, <2>2, PlaceIn
<1>6. /\ Line(ring, p) \o q.samples \in Seq(Nat)
      /\ Len(Line(ring, p) \o q.samples) = Held(ring) + Len(q.samples)
  BY <1>4
<1>7. Line(ring, p) \o q.samples = Line(ring, q)
  BY <1>4, <1>5, <1>6, SameSeq
<1> QED  BY <1>3, <1>7

\* A copy writes only to slots that are free.
LEMMA CopyLine ==
    ASSUME SIZE \in Nat \ {0}, NEW ring \in Ring, NEW p \in Writer, NEW c \in Reader,
           Writing(ring, p), Reading(ring, c), p.at # "idle",
           NEW ring2 \in Ring, NEW p2 \in Writer,
           ring2.head = ring.head, ring2.tail = ring.tail, p2.samples = p.samples,
           \A i \in Index : (\A j \in 0 .. Len(p.samples) - 1 : i # Slot(ring.head, j))
                               => ring2.data[i] = ring.data[i]
    PROVE  Reading(ring2, c) /\ Line(ring2, p2) = Line(ring, p)
<1>1. /\ Held(ring) \in Index /\ Held(ring) \in Nat /\ Len(p.samples) \in Nat
      /\ Held(ring) + Len(p.samples) < SIZE /\ ring.head \in Index /\ ring.tail \in Index
      /\ ring.head = Slot(ring.tail, Held(ring))
  BY LineFacts, AvailableFacts DEF Writing, Ring, Held
<1>2. ASSUME NEW k \in 0 .. Held(ring) - 1
      PROVE  ring2.data[Slot(ring.tail, k)] = ring.data[Slot(ring.tail, k)]
  <2>1. k \in Index
    BY <1>1 DEF Index
  <2>2. ASSUME NEW j \in 0 .. Len(p.samples) - 1 PROVE Slot(ring.tail, k) # Slot(ring.head, j)
    <3>1. j \in Nat /\ Held(ring) + j < SIZE /\ Held(ring) + j \in Index /\ Held(ring) + j # k
      <4>1. /\ j \in Nat /\ j < Len(p.samples) /\ k \in Nat /\ k < Held(ring)
            /\ Held(ring) \in Nat /\ Len(p.samples) \in Nat
            /\ Held(ring) + Len(p.samples) < SIZE /\ SIZE \in Nat
        BY <1>1
      <4> QED  BY ONLY <4>1 DEF Index
    <3>2. Slot(ring.head, j) = Slot(ring.tail, Held(ring) + j)
      BY <1>1, <3>1, SlotFacts
    <3>3. \A i \in Index : Slot(ring.tail, k) = Slot(ring.tail, i) => k = i
      BY <1>1, <2>1, SlotFacts
    <3> QED  BY <3>1, <3>2, <3>3
  <2>3. Slot(ring.tail, k) \in Index
    BY <1>1, <2>1, SlotFacts
  <2> QED  BY <2>2, <2>3
<1>3. Held(ring2) = Held(ring) /\ Line(ring2, p2) = Line(ring, p)
  BY <1>2, SameLine
<1>4. Reading(ring2, c)
  <2> SUFFICES ASSUME c.at # "idle" PROVE Reading(ring2, c)
    BY DEF Reading
  <2>1. /\ c.tail = ring.tail /\ c.n > 0 /\ c.n \in Nat /\ Len(c.got) \in Nat
        /\ c.n <= Available(c.head, c.tail) /\ Available(c.head, c.tail) <= Held(ring)
        /\ c.at = "copy2" => Len(c.got) = Chunk1(c.n, c.tail) /\ Len(c.got) < c.n
        /\ c.at = "store" => Len(c.got) = c.n
        /\ c.at # "copy1" =>
              \A k \in 0 .. Len(c.got) - 1 : c.got[k + 1] = ring.data[Slot(ring.tail, k)]
    BY DEF Reading, Reader
  <2>2. Available(c.head, c.tail) \in Nat
    BY AvailableFacts DEF Reader, Index
  <2>3. ASSUME c.at # "copy1", NEW k \in 0 .. Len(c.got) - 1
        PROVE  c.got[k + 1] = ring2.data[Slot(ring.tail, k)]
    <3>1. Len(c.got) <= c.n
      BY <2>1, <2>3 DEF Reader, Steps
    <3>2. k \in 0 .. Held(ring) - 1
      BY <1>1, <2>1, <2>2, <3>1
    <3> QED  BY <1>2, <2>1, <2>3, <3>2
  <2> QED  BY <1>3, <2>1, <2>3 DEF Reading
<1> QED  BY <1>3, <1>4

\* What is in the slots after the copy up to the end of the ring and after the rest.
Filled1(data, h, s) ==
    [k \in 0 .. SIZE - 1 |-> IF k \in h .. h + Chunk1(Len(s), h) - 1
                             THEN s[k - h + 1] ELSE data[k]]
Filled2(data, h, s) ==
    [k \in 0 .. SIZE - 1 |-> IF k < Len(s) - Chunk1(Len(s), h)
                             THEN s[Chunk1(Len(s), h) + k + 1] ELSE data[k]]

\* data2 is data with the samples of s in these places after slot h, and in no other slot
\* than theirs anything else.
Fills(data, h, s, data2, places) ==
    /\ data2 \in [Index -> Nat]
    /\ \A k \in places : data2[Slot(h, k)] = s[k + 1]
    /\ \A i \in Index : (\A j \in 0 .. Len(s) - 1 : i # Slot(h, j)) => data2[i] = data[i]

\* The copy up to the end of the ring fills its slots and no other.
LEMMA Copy1Slots ==
    ASSUME SIZE \in Nat \ {0}, NEW h \in Index, NEW data \in [Index -> Nat],
           NEW s \in Seq(Nat), Len(s) \in Index
    PROVE  Fills(data, h, s, Filled1(data, h, s), 0 .. Chunk1(Len(s), h) - 1)
<1> DEFINE m == Len(s)
           n == Chunk1(m, h)
           data2 == [k \in 0 .. SIZE - 1 |->
              IF k \in h .. h + n - 1 THEN s[k - h + 1] ELSE data[k]]
<1>1. /\ h \in Nat /\ h < SIZE /\ m \in Nat /\ SIZE \in Nat
      /\ n \in Nat /\ n <= m /\ \A k \in 0 .. n - 1 : Slot(h, k) = h + k
  <2>1. n \in Nat /\ n <= m /\ \A k \in 0 .. n - 1 : Slot(h, k) = h + k
    BY Chunk1Facts
  <2>2. h \in Nat /\ h < SIZE /\ m \in Nat /\ SIZE \in Nat
    BY DEF Index
  <2> QED  BY <2>1, <2>2
<1>2. h + n <= SIZE
  BY <1>1 DEF Chunk1
<1> HIDE DEF m, n
<1>3. ASSUME NEW k \in 0 .. n - 1
      PROVE  h + k \in 0 .. SIZE - 1 /\ h + k \in h .. h + n - 1 /\ (h + k) - h + 1 = k + 1
  BY ONLY <1>1, <1>2, <1>3
<1>4. ASSUME NEW k \in h .. h + n - 1
      PROVE  k - h \in 0 .. n - 1 /\ k - h \in 0 .. m - 1 /\ k - h + 1 \in 1 .. m /\ h + (k - h) = k
  BY ONLY <1>1, <1>4
<1>5. ASSUME NEW k \in Index
      PROVE  (IF k \in h .. h + n - 1 THEN s[k - h + 1] ELSE data[k]) \in Nat
  <2>1. CASE k \in h .. h + n - 1
    <3>1. k - h + 1 \in 1 .. Len(s)
      BY <1>4, <2>1 DEF m
    <3>2. s[k - h + 1] \in Nat
      BY ONLY <3>1, s \in Seq(Nat)
    <3> QED  BY <2>1, <3>2
  <2>2. CASE k \notin h .. h + n - 1
    BY <2>2
  <2> QED  BY <2>1, <2>2
<1>6. data2 \in [Index -> Nat]
  BY <1>5 DEF Index
<1>7. ASSUME NEW k \in 0 .. n - 1 PROVE data2[Slot(h, k)] = s[k + 1]
  <2>1. Slot(h, k) = h + k
    BY <1>1
  <2>2. data2[h + k] = s[(h + k) - h + 1]
    BY <1>3
  <2> QED  BY <1>3, <2>1, <2>2
<1>8. ASSUME NEW i \in Index, \A j \in 0 .. m - 1 : i # Slot(h, j)
      PROVE  data2[i] = data[i]
  <2>1. ASSUME i \in h .. h + n - 1 PROVE FALSE
    <3>1. i - h \in 0 .. n - 1 /\ i - h \in 0 .. m - 1 /\ h + (i - h) = i
      BY <1>4, <2>1
    <3>2. Slot(h, i - h) = h + (i - h)
      BY <1>1, <3>1
    <3> QED  BY <1>8, <3>1, <3>2
  <2> QED  BY <2>1 DEF Index
<1>9. data2 = Filled1(data, h, s)
  BY DEF Filled1, m, n
<1> QED  BY <1>6, <1>7, <1>8, <1>9 DEF Fills, m, n

\* The copy of the rest fills the slots from the start of the ring.
LEMMA Copy2Slots ==
    ASSUME SIZE \in Nat \ {0}, NEW h \in Index, NEW data \in [Index -> Nat],
           NEW s \in Seq(Nat), Len(s) \in Index, Chunk1(Len(s), h) < Len(s),
           \A k \in 0 .. Chunk1(Len(s), h) - 1 : data[Slot(h, k)] = s[k + 1]
    PROVE  Fills(data, h, s, Filled2(data, h, s), 0 .. Len(s) - 1)
<1> DEFINE m == Len(s)
           n == Chunk1(m, h)
           data2 == [k \in 0 .. SIZE - 1 |->
              IF k < m - n THEN s[n + k + 1] ELSE data[k]]
<1>1. /\ h \in Nat /\ h < SIZE /\ m \in Nat /\ m < SIZE /\ SIZE \in Nat
      /\ n \in Nat /\ n < m /\ n = SIZE - h
      /\ \A k \in 0 .. n - 1 : Slot(h, k) = h + k
      /\ \A k \in n .. m - 1 : Slot(h, k) = k - n
      /\ \A k \in 0 .. n - 1 : data[Slot(h, k)] = s[k + 1]
  <2>1. /\ Chunk1(m, h) \in Nat /\ (Chunk1(m, h) < m => Chunk1(m, h) = SIZE - h)
        /\ \A k \in 0 .. Chunk1(m, h) - 1 : Slot(h, k) = h + k
        /\ \A k \in Chunk1(m, h) .. m - 1 : Slot(h, k) = k - Chunk1(m, h)
    BY Chunk1Facts
  <2>2. h \in Nat /\ h < SIZE /\ m \in Nat /\ m < SIZE /\ SIZE \in Nat
    BY DEF Index
  <2> QED  BY <2>1, <2>2
<1> HIDE DEF m, n
<1>2. ASSUME NEW k \in 0 .. m - 1, k < n
      PROVE  k \in 0 .. n - 1 /\ h + k \in 0 .. SIZE - 1 /\ ~(h + k < m - n)
  BY ONLY <1>1, <1>2
<1>3. ASSUME NEW k \in 0 .. m - 1, k >= n
      PROVE  /\ k \in n .. m - 1 /\ k - n \in 0 .. SIZE - 1 /\ k - n < m - n
             /\ n + (k - n) + 1 = k + 1
  BY ONLY <1>1, <1>3
<1>4. ASSUME NEW k \in Index, k < m - n
      PROVE  /\ n + k + 1 \in 1 .. m /\ n + k \in n .. m - 1 /\ n + k \in 0 .. m - 1
             /\ (n + k) - n = k
  BY ONLY <1>1, <1>4 DEF Index
<1>5. ASSUME NEW k \in Index
      PROVE  (IF k < m - n THEN s[n + k + 1] ELSE data[k]) \in Nat
  <2>1. CASE k < m - n
    <3>1. n + k + 1 \in 1 .. Len(s)
      BY <1>4, <2>1 DEF m
    <3>2. s[n + k + 1] \in Nat
      BY ONLY <3>1, s \in Seq(Nat)
    <3> QED  BY <2>1, <3>2
  <2>2. CASE ~(k < m - n)
    BY <2>2
  <2> QED  BY <2>1, <2>2
<1>6. data2 \in [Index -> Nat]
  BY <1>5 DEF Index
<1>7. ASSUME NEW k \in 0 .. m - 1 PROVE data2[Slot(h, k)] = s[k + 1]
  <2>1. CASE k < n
    <3>1. Slot(h, k) = h + k /\ data[Slot(h, k)] = s[k + 1]
      BY <1>1, <1>2, <2>1
    <3>2. data2[h + k] = data[h + k]
      BY <1>2, <2>1
    <3> QED  BY <3>1, <3>2
  <2>2. CASE k >= n
    <3>1. Slot(h, k) = k - n
      BY <1>1, <1>3, <2>2
    <3>2. data2[k - n] = s[n + (k - n) + 1]
      BY <1>3, <2>2
    <3> QED  BY <1>3, <2>2, <3>1, <3>2
  <2> QED  BY <1>1, <2>1, <2>2
<1>8. ASSUME NEW i \in Index, \A j \in 0 .. m - 1 : i # Slot(h, j)
      PROVE  data2[i] = data[i]
  <2>1. ASSUME i < m - n PROVE FALSE
    <3>1. n + i \in n .. m - 1 /\ n + i \in 0 .. m - 1 /\ (n + i) - n = i
      BY <1>4, <2>1
    <3>2. Slot(h, n + i) = (n + i) - n
      BY <1>1, <3>1
    <3> QED  BY <1>8, <3>1, <3>2
  <2> QED  BY <2>1 DEF Index
<1>9. data2 = Filled2(data, h, s)
  BY DEF Filled2, m, n
<1> QED  BY <1>6, <1>7, <1>8, <1>9 DEF Fills, m, n

\* What a step of a call that fills the ring starts from.
LEMMA WritingFacts ==
    ASSUME SIZE \in Nat \ {0}, NEW ring \in Ring, NEW p \in Writer,
           Writing(ring, p), p.at # "idle"
    PROVE  /\ p.head = ring.head /\ ring.head \in Index /\ ring.tail \in Index
           /\ ring.data \in [Index -> Nat] /\ p.samples \in Seq(Nat)
           /\ Len(p.samples) \in Index /\ Len(p.samples) \in Nat /\ Len(p.samples) > 0
           /\ Held(ring) \in Nat /\ Held(ring) + Len(p.samples) < SIZE
<1>1. /\ p.head = ring.head /\ ring.head \in Index /\ ring.tail \in Index
      /\ ring.data \in [Index -> Nat] /\ p.samples \in Seq(Nat)
      /\ Len(p.samples) \in Nat /\ Len(p.samples) > 0
      /\ Held(ring) \in Nat /\ Held(ring) + Len(p.samples) < SIZE
  BY LineFacts DEF Writing, Ring, Writer
<1>2. Len(p.samples) \in Index
  BY <1>1 DEF Index
<1> QED  BY <1>1, <1>2

LEMMA Copy1Line ==
    ASSUME SIZE \in Nat \ {0}, NEW ring \in Ring, NEW p \in Writer, NEW c \in Reader,
           Writing(ring, p), Reading(ring, c), p.at = "copy1",
           NEW n, n = Chunk1(Len(p.samples), p.head),
           NEW ring2, ring2 = [ring EXCEPT !.data = [k \in 0 .. SIZE - 1 |->
              IF k \in p.head .. p.head + n - 1 THEN p.samples[k - p.head + 1] ELSE @[k]]],
           NEW p2, p2 = [p EXCEPT !.at = IF n < Len(p.samples) THEN "copy2" ELSE "store"]
    PROVE  /\ ring2 \in Ring /\ p2 \in Writer /\ Writing(ring2, p2) /\ Reading(ring2, c)
           /\ Line(ring2, p2) = Line(ring, p)
<1> DEFINE data2 == Filled1(ring.data, ring.head, p.samples)
<1>1. /\ p.head = ring.head /\ ring.head \in Index /\ ring.tail \in Index
      /\ ring.data \in [Index -> Nat] /\ p.samples \in Seq(Nat)
      /\ Len(p.samples) \in Index /\ Len(p.samples) \in Nat /\ Len(p.samples) > 0
      /\ Held(ring) \in Nat /\ Held(ring) + Len(p.samples) < SIZE
  BY WritingFacts
<1>2. n \in Nat /\ n <= Len(p.samples)
  BY <1>1, Chunk1Facts
<1>3. /\ data2 \in [Index -> Nat]
      /\ \A k \in 0 .. n - 1 : data2[Slot(ring.head, k)] = p.samples[k + 1]
      /\ \A i \in Index : (\A j \in 0 .. Len(p.samples) - 1 : i # Slot(ring.head, j))
                             => data2[i] = ring.data[i]
  <2>1. SIZE \in Nat \ {0} /\ n = Chunk1(Len(p.samples), ring.head)
    BY <1>1
  <2>2. /\ ring.head \in Index /\ ring.data \in [Index -> Nat]
        /\ p.samples \in Seq(Nat) /\ Len(p.samples) \in Index
    BY <1>1
  <2>3. Fills(ring.data, ring.head, p.samples, data2,
              0 .. Chunk1(Len(p.samples), ring.head) - 1)
    BY ONLY <2>1, <2>2, Copy1Slots
  <2> HIDE DEF data2
  <2> QED  BY ONLY <2>1, <2>3 DEF Fills
<1>4. ring2 = [ring EXCEPT !.data = data2]
  BY <1>1 DEF Filled1
<1> HIDE DEF data2
<1>5. /\ ring2 \in Ring /\ ring2.data = data2
      /\ ring2.head = ring.head /\ ring2.tail = ring.tail
  BY <1>3, <1>4 DEF Ring
<1>6. /\ p2 \in Writer /\ p2.samples = p.samples /\ p2.head = p.head
      /\ p2.at = IF n < Len(p.samples) THEN "copy2" ELSE "store"
  BY DEF Writer, Steps
<1>7. Held(ring2) = Held(ring)
  BY <1>5 DEF Held
<1>8. Copied(p2) = n
  <2>1. CASE n < Len(p.samples)
    BY <1>6, <2>1 DEF Copied
  <2>2. CASE ~(n < Len(p.samples))
    <3>1. n = Len(p.samples)
      BY <1>1, <1>2, <2>2
    <3> QED  BY <1>6, <2>2, <3>1 DEF Copied
  <2> QED  BY <2>1, <2>2
<1>9. Writing(ring2, p2)
  BY ONLY <1>1, <1>3, <1>5, <1>6, <1>7, <1>8, n = Chunk1(Len(p.samples), p.head) DEF Writing
<1>10. Reading(ring2, c) /\ Line(ring2, p2) = Line(ring, p)
  <2>1. /\ SIZE \in Nat \ {0} /\ ring \in Ring /\ p \in Writer /\ c \in Reader
        /\ Writing(ring, p) /\ Reading(ring, c) /\ p.at # "idle"
    OBVIOUS
  <2>2. \A i \in Index : (\A j \in 0 .. Len(p.samples) - 1 : i # Slot(ring.head, j))
                             => ring2.data[i] = ring.data[i]
    BY <1>3, <1>5
  <2> QED  BY ONLY <1>5, <1>6, <2>1, <2>2, CopyLine
<1> QED  BY <1>5, <1>6, <1>9, <1>10

LEMMA Copy2Line ==
    ASSUME SIZE \in Nat \ {0}, NEW ring \in Ring, NEW p \in Writer, NEW c \in Reader,
           Writing(ring, p), Reading(ring, c), p.at = "copy2",
           NEW n, n = Chunk1(Len(p.samples), p.head),
           NEW ring2, ring2 = [ring EXCEPT !.data = [k \in 0 .. SIZE - 1 |->
              IF k < Len(p.samples) - n THEN p.samples[n + k + 1] ELSE @[k]]],
           NEW p2, p2 = [p EXCEPT !.at = "store"]
    PROVE  /\ ring2 \in Ring /\ p2 \in Writer /\ Writing(ring2, p2) /\ Reading(ring2, c)
           /\ Line(ring2, p2) = Line(ring, p)
<1> DEFINE data2 == Filled2(ring.data, ring.head, p.samples)
<1>1. /\ p.head = ring.head /\ ring.head \in Index /\ ring.tail \in Index
      /\ ring.data \in [Index -> Nat] /\ p.samples \in Seq(Nat)
      /\ Len(p.samples) \in Index /\ Len(p.samples) \in Nat /\ Len(p.samples) > 0
      /\ Held(ring) \in Nat /\ Held(ring) + Len(p.samples) < SIZE
  BY WritingFacts
<1>2. /\ n < Len(p.samples)
      /\ \A k \in 0 .. n - 1 : ring.data[Slot(ring.head, k)] = p.samples[k + 1]
  BY DEF Writing, Copied
<1>3. /\ data2 \in [Index -> Nat]
      /\ \A k \in 0 .. Len(p.samples) - 1 : data2[Slot(ring.head, k)] = p.samples[k + 1]
      /\ \A i \in Index : (\A j \in 0 .. Len(p.samples) - 1 : i # Slot(ring.head, j))
                             => data2[i] = ring.data[i]
  <2>1. SIZE \in Nat \ {0} /\ n = Chunk1(Len(p.samples), ring.head)
    BY <1>1
  <2>2. /\ ring.head \in Index /\ ring.data \in [Index -> Nat]
        /\ p.samples \in Seq(Nat) /\ Len(p.samples) \in Index
        /\ Chunk1(Len(p.samples), ring.head) < Len(p.samples)
        /\ \A k \in 0 .. Chunk1(Len(p.samples), ring.head) - 1 :
              ring.data[Slot(ring.head, k)] = p.samples[k + 1]
    BY ONLY <1>1, <1>2, <2>1
  <2>3. Fills(ring.data, ring.head, p.samples, data2, 0 .. Len(p.samples) - 1)
    BY ONLY <2>1, <2>2, Copy2Slots
  <2> HIDE DEF data2
  <2> QED  BY ONLY <2>3 DEF Fills
<1>4. ring2 = [ring EXCEPT !.data = data2]
  BY <1>1 DEF Filled2
<1> HIDE DEF data2
<1>5. /\ ring2 \in Ring /\ ring2.data = data2
      /\ ring2.head = ring.head /\ ring2.tail = ring.tail
  BY <1>3, <1>4 DEF Ring
<1>6. p2 \in Writer /\ p2.samples = p.samples /\ p2.head = p.head /\ p2.at = "store"
  BY DEF Writer, Steps
<1>7. Held(ring2) = Held(ring)
  BY <1>5 DEF Held
<1>8. Copied(p2) = Len(p.samples)
  BY <1>6 DEF Copied
<1>9. Writing(ring2, p2)
  BY ONLY <1>1, <1>3, <1>5, <1>6, <1>7, <1>8 DEF Writing
<1>10. Reading(ring2, c) /\ Line(ring2, p2) = Line(ring, p)
  <2>1. /\ SIZE \in Nat \ {0} /\ ring \in Ring /\ p \in Writer /\ c \in Reader
        /\ Writing(ring, p) /\ Reading(ring, c) /\ p.at # "idle"
    OBVIOUS
  <2>2. \A i \in Index : (\A j \in 0 .. Len(p.samples) - 1 : i # Slot(ring.head, j))
                             => ring2.data[i] = ring.data[i]
    BY <1>3, <1>5
  <2> QED  BY ONLY <1>5, <1>6, <2>1, <2>2, CopyLine
<1> QED  BY <1>5, <1>6, <1>9, <1>10

\* The store of head: the ring holds what was copied.
LEMMA StoreLine ==
    ASSUME SIZE \in Nat \ {0}, NEW ring \in Ring, NEW p \in Writer, NEW c \in Reader,
           Writing(ring, p), Reading(ring, c), p.at = "store",
           NEW ring2, ring2 = [ring EXCEPT !.head = (p.head + Len(p.samples)) % SIZE]
    PROVE  /\ ring2 \in Ring /\ Idle \in Writer /\ Writing(ring2, Idle) /\ Reading(ring2, c)
           /\ Line(ring2, Idle) = Line(ring, p)
<1> DEFINE m == Len(p.samples)
           a == Held(ring)
<1>1. /\ p.head = ring.head /\ ring.head \in Index /\ ring.tail \in Index
      /\ ring.data \in [Index -> Nat] /\ p.samples \in Seq(Nat)
      /\ m \in Index /\ m \in Nat /\ m > 0 /\ a \in Nat /\ a + m < SIZE
  BY WritingFacts
<1>2. (p.head + m) % SIZE = Slot(ring.head, m) /\ Slot(ring.head, m) \in Index
  BY <1>1, SlotFacts
<1>3. /\ ring2 \in Ring /\ ring2.data = ring.data
      /\ ring2.head = Slot(ring.head, m) /\ ring2.tail = ring.tail
  BY <1>2 DEF Ring
<1>4. Held(ring2) = a + m
  <2>1. a = Available(ring.head, ring.tail)
    BY DEF Held
  <2>2. Available(Slot(ring.head, m), ring.tail) = Available(ring.head, ring.tail) + m
    BY <1>1, <2>1, AvailableFacts
  <2> QED  BY <1>3, <2>1, <2>2 DEF Held
<1>5. Idle \in Writer /\ Idle.samples = << >> /\ Idle.at = "idle" /\ Len(Idle.samples) = 0
  BY DEF Idle, Writer, Steps
<1>6. \A k \in 0 .. m - 1 : ring.data[Slot(ring.head, k)] = p.samples[k + 1]
  BY DEF Writing, Copied
<1> HIDE DEF m, a
<1>7. Writing(ring2, Idle)
  <2>1. Copied(Idle) = 0
    BY <1>5 DEF Copied
  <2> QED  BY <1>5, <2>1 DEF Writing
<1>8. Reading(ring2, c)
  <2>1. Available(c.head, c.tail) \in Nat
    BY AvailableFacts DEF Reader, Index
  <2>2. Held(ring) <= Held(ring2)
    BY <1>1, <1>4 DEF a
  <2>3. Held(ring) \in Nat /\ Held(ring2) \in Nat
    BY <1>3, LineFacts
  <2> QED  BY <1>3, <2>1, <2>2, <2>3 DEF Reading
<1>9. /\ Line(ring, p) \in Seq(Nat) /\ Line(ring2, Idle) \in Seq(Nat)
      /\ Len(Line(ring, p)) = a + m /\ Len(Line(ring2, Idle)) = a + m
  <2>1. Line(ring, p) \in Seq(Nat) /\ Len(Line(ring, p)) = a + m
    BY LineFacts DEF a, m
  <2>2. Line(ring2, Idle) \in Seq(Nat) /\ Len(Line(ring2, Idle)) = (a + m) + 0
    BY <1>3, <1>4, <1>5, LineFacts
  <2> QED  BY <1>1, <2>1, <2>2
<1>10. ASSUME NEW k \in 1 .. a + m PROVE Line(ring2, Idle)[k] = Line(ring, p)[k]
  <2>1. Line(ring2, Idle)[k] = ring2.data[Slot(ring2.tail, k - 1)]
    <3>1. \A i \in 1 .. Held(ring2) : Line(ring2, Idle)[i] = ring2.data[Slot(ring2.tail, i - 1)]
      BY <1>3, <1>5, LineFacts
    <3> QED  BY <1>4, <3>1
  <2>2. CASE k \in 1 .. a
    <3>1. Line(ring, p)[k] = ring.data[Slot(ring.tail, k - 1)]
      BY <2>2, LineFacts DEF a
    <3> QED  BY <1>3, <2>1, <3>1
  <2>3. CASE \E j \in 1 .. m : k = a + j
    <3>1. PICK j \in 1 .. m : k = a + j
      BY <2>3
    <3>2. Line(ring, p)[a + j] = p.samples[j]
      BY LineFacts DEF a, m
    <3>3. /\ j - 1 \in 0 .. m - 1 /\ j - 1 \in Nat /\ a \in Index /\ a + (j - 1) < SIZE
          /\ k - 1 = a + (j - 1) /\ (j - 1) + 1 = j
      <4>1. j \in Nat /\ 1 <= j /\ j <= m /\ SIZE \in Nat
        BY <1>1
      <4> QED  BY ONLY <1>1, <3>1, <4>1 DEF Index
    <3>4. ring.head = Slot(ring.tail, a)
      BY <1>1, AvailableFacts DEF Held, a
    <3>5. Slot(ring.head, j - 1) = Slot(ring.tail, k - 1)
      <4>1. SIZE \in Nat \ {0} /\ ring.tail \in Index
        BY <1>1
      <4>2. Slot(Slot(ring.tail, a), j - 1) = Slot(ring.tail, a + (j - 1))
        BY ONLY <3>3, <4>1, SlotSlot
      <4> QED  BY ONLY <3>3, <3>4, <4>2
    <3>6. ring.data[Slot(ring.head, j - 1)] = p.samples[(j - 1) + 1]
      BY <1>6, <3>3
    <3> QED  BY <1>3, <2>1, <3>1, <3>2, <3>3, <3>5, <3>6
  <2> QED  BY <1>1, <2>2, <2>3, PlaceIn
<1>11. Line(ring2, Idle) = Line(ring, p)
  BY <1>9, <1>10, SameSeq
<1> QED  BY <1>3, <1>5, <1>7, <1>8, <1>11

-------------------------------------------------------------------------------
(* Calls that empty a ring *)

LEMMA ReadingFacts ==
    ASSUME SIZE \in Nat \ {0}, NEW ring \in Ring, NEW c \in Reader,
           Reading(ring, c), c.at # "idle"
    PROVE  /\ c.tail = ring.tail /\ ring.tail \in Index /\ ring.head \in Index
           /\ ring.data \in [Index -> Nat] /\ c.head \in Index
           /\ c.n \in Nat /\ c.n \in Index /\ c.n > 0
           /\ Held(ring) \in Nat /\ Held(ring) < SIZE
           /\ Available(c.head, ring.tail) \in Nat
           /\ c.n <= Available(c.head, ring.tail)
           /\ Available(c.head, ring.tail) <= Held(ring)
<1>1. /\ c.tail = ring.tail /\ ring.tail \in Index /\ ring.head \in Index
      /\ ring.data \in [Index -> Nat] /\ c.head \in Index /\ c.n \in Nat /\ c.n > 0
      /\ c.n <= Available(c.head, ring.tail) /\ Available(c.head, ring.tail) <= Held(ring)
  BY DEF Reading, Ring, Reader
<1>2. Held(ring) \in Index /\ Available(c.head, ring.tail) \in Index
  BY <1>1, AvailableFacts DEF Held
<1>3. /\ c.n \in Index /\ Held(ring) \in Nat /\ Held(ring) < SIZE
      /\ Available(c.head, ring.tail) \in Nat
  BY <1>1, <1>2 DEF Index
<1> QED  BY <1>1, <1>3

AfterRead1(ring, c) ==
    LET n == Chunk1(c.n, c.tail)
    IN  [c EXCEPT !.at = IF n < c.n THEN "copy2" ELSE "store",
                  !.got = [k \in 1 .. n |-> ring.data[c.tail + k - 1]]]

LEMMA Read1Line ==
    ASSUME SIZE \in Nat \ {0}, NEW ring \in Ring, NEW c \in Reader,
           Reading(ring, c), c.at = "copy1"
    PROVE  /\ AfterRead1(ring, c) \in Reader /\ Reading(ring, AfterRead1(ring, c))
           /\ AfterRead1(ring, c).n = c.n /\ AfterRead1(ring, c).at # "idle"
<1> DEFINE n == Chunk1(c.n, c.tail)
           c2 == AfterRead1(ring, c)
           got == [k \in 1 .. n |-> ring.data[c.tail + k - 1]]
<1>1. /\ c.tail = ring.tail /\ ring.tail \in Index /\ ring.head \in Index
      /\ ring.data \in [Index -> Nat] /\ c.head \in Index
      /\ c.n \in Nat /\ c.n \in Index /\ c.n > 0
      /\ Held(ring) \in Nat /\ Held(ring) < SIZE
      /\ Available(c.head, ring.tail) \in Nat
      /\ c.n <= Available(c.head, ring.tail)
      /\ Available(c.head, ring.tail) <= Held(ring)
  BY ReadingFacts
<1>2. /\ n \in Nat /\ n <= c.n
      /\ \A k \in 0 .. n - 1 : Slot(ring.tail, k) = ring.tail + k
  BY <1>1, Chunk1Facts
<1>3. ASSUME NEW k \in 0 .. n - 1
      PROVE  /\ k \in Index /\ Slot(ring.tail, k) \in Index
             /\ c.tail + (k + 1) - 1 = Slot(ring.tail, k) /\ k + 1 \in 1 .. n
  <2>1. k \in Index
    BY <1>1, <1>2 DEF Index
  <2>2. Slot(ring.tail, k) \in Index /\ Slot(ring.tail, k) = ring.tail + k
    BY <1>1, <1>2, <2>1, SlotFacts
  <2>3. ring.tail \in Nat
    BY <1>1 DEF Index
  <2>4. c.tail + (k + 1) - 1 = ring.tail + k /\ k + 1 \in 1 .. n
    BY <1>1, <1>2, <2>3
  <2> QED  BY <2>1, <2>2, <2>4
<1>4. ASSUME NEW k \in 1 .. n PROVE ring.data[c.tail + k - 1] \in Nat
  <2>1. k - 1 \in 0 .. n - 1 /\ (k - 1) + 1 = k
    BY <1>2
  <2> QED  BY <1>1, <1>3, <2>1
<1>5. got \in Seq(Nat) /\ Len(got) = n
  BY <1>2, <1>4
<1>6. ASSUME NEW k \in 0 .. n - 1 PROVE got[k + 1] = ring.data[Slot(ring.tail, k)]
  BY <1>3
<1>7. c2 = [c EXCEPT !.at = IF n < c.n THEN "copy2" ELSE "store", !.got = got]
  BY DEF AfterRead1
<1> HIDE DEF got, n, c2
<1>8. /\ c2 \in Reader /\ c2.got = got /\ c2.n = c.n /\ c2.head = c.head /\ c2.tail = c.tail
      /\ c2.at = IF n < c.n THEN "copy2" ELSE "store"
  BY <1>5, <1>7 DEF Reader, Steps
<1>9. ~(n < c.n) => n = c.n
  BY <1>1, <1>2
<1>10. Reading(ring, c2)
  BY ONLY <1>1, <1>5, <1>6, <1>8, <1>9 DEF Reading, n
<1> QED  BY <1>8, <1>10 DEF c2

LEMMA Read2Line ==
    ASSUME SIZE \in Nat \ {0}, NEW ring \in Ring, NEW c \in Reader,
           Reading(ring, c), c.at = "copy2",
           NEW c2, c2 = [c EXCEPT !.at = "store",
                  !.got = @ \o [k \in 1 .. c.n - Len(@) |-> ring.data[k - 1]]]
    PROVE  c2 \in Reader /\ Reading(ring, c2) /\ c2.n = c.n /\ c2.at # "idle"
<1> DEFINE n == Len(c.got)
           rest == [k \in 1 .. c.n - n |-> ring.data[k - 1]]
           got == c.got \o rest
<1>1. /\ c.tail = ring.tail /\ ring.tail \in Index /\ ring.head \in Index
      /\ ring.data \in [Index -> Nat] /\ c.head \in Index
      /\ c.n \in Nat /\ c.n \in Index /\ c.n > 0
      /\ Held(ring) \in Nat /\ Held(ring) < SIZE
      /\ Available(c.head, ring.tail) \in Nat
      /\ c.n <= Available(c.head, ring.tail)
      /\ Available(c.head, ring.tail) <= Held(ring)
  BY ReadingFacts
<1>2. /\ c.got \in Seq(Nat) /\ n = Chunk1(c.n, ring.tail) /\ n < c.n /\ n \in Nat
      /\ \A k \in 0 .. n - 1 : c.got[k + 1] = ring.data[Slot(ring.tail, k)]
  BY <1>1 DEF Reading, Reader
<1>3. c2 = [c EXCEPT !.at = "store", !.got = got]
  OBVIOUS
<1>4. \A k \in 1 .. c.n - n : rest[k] = ring.data[k - 1]
  OBVIOUS
<1> HIDE DEF n
<1>5. ASSUME NEW k \in n .. c.n - 1 PROVE Slot(ring.tail, k) = k - n
  <2>1. \A i \in Chunk1(c.n, ring.tail) .. c.n - 1 :
           Slot(ring.tail, i) = i - Chunk1(c.n, ring.tail)
    BY <1>1, Chunk1Facts
  <2> QED  BY <1>2, <2>1
<1>6. rest \in Seq(Nat) /\ Len(rest) = c.n - n
  <2>1. c.n - n \in Nat
    BY <1>1, <1>2
  <2>2. ASSUME NEW k \in 1 .. c.n - n PROVE ring.data[k - 1] \in Nat
    <3>1. k \in Nat /\ 1 <= k /\ k <= c.n - n
      BY <2>1
    <3>2. c.n < SIZE
      BY <1>1 DEF Index
    <3>3. k - 1 \in Index
      BY ONLY <1>1, <1>2, <3>1, <3>2, SIZE \in Nat \ {0} DEF Index
    <3> QED  BY <1>1, <3>3
  <2> QED  BY <2>1, <2>2
<1> HIDE DEF rest
<1>7. /\ got \in Seq(Nat) /\ Len(got) = c.n
      /\ \A i \in 1 .. n : got[i] = c.got[i]
      /\ \A i \in 1 .. c.n - n : got[n + i] = rest[i]
  <2>1. /\ c.got \o rest \in Seq(Nat) /\ Len(c.got \o rest) = Len(c.got) + Len(rest)
        /\ \A i \in 1 .. Len(c.got) : (c.got \o rest)[i] = c.got[i]
        /\ \A i \in 1 .. Len(rest) : (c.got \o rest)[Len(c.got) + i] = rest[i]
    BY ONLY <1>2, <1>6, JoinFacts
  <2>2. n + (c.n - n) = c.n
    BY <1>1, <1>2
  <2> QED  BY <1>6, <2>1, <2>2 DEF n
<1> HIDE DEF got
<1>8. ASSUME NEW k \in 0 .. c.n - 1 PROVE got[k + 1] = ring.data[Slot(ring.tail, k)]
  <2>1. CASE k < n
    <3>1. k \in 0 .. n - 1 /\ k + 1 \in 1 .. n
      BY <1>2, <2>1
    <3> QED  BY <1>2, <1>7, <3>1
  <2>2. CASE ~(k < n)
    <3>1. PICK i \in 1 .. c.n - n : k + 1 = n + i
      <4>1. /\ k \in Nat /\ k <= c.n - 1
        BY <1>1
      <4>2. (k + 1) - n \in 1 .. c.n - n /\ k + 1 = n + ((k + 1) - n)
        BY ONLY <1>1, <1>2, <2>2, <4>1
      <4> QED  BY <4>2
    <3>2. k \in n .. c.n - 1 /\ k - n = i - 1
      <4>1. /\ k \in Nat /\ k <= c.n - 1 /\ i \in Nat /\ c.n \in Nat /\ n \in Nat
        BY <1>1, <1>2
      <4> QED  BY ONLY <2>2, <3>1, <4>1
    <3>3. got[n + i] = rest[i] /\ rest[i] = ring.data[i - 1]
      BY <1>4, <1>7
    <3> QED  BY <1>5, <3>1, <3>2, <3>3
  <2> QED  BY <2>1, <2>2
<1>9. /\ c2 \in Reader /\ c2.got = got /\ c2.n = c.n /\ c2.head = c.head /\ c2.tail = c.tail
      /\ c2.at = "store"
  BY <1>3, <1>7 DEF Reader, Steps
<1>10. Reading(ring, c2)
  BY ONLY <1>1, <1>7, <1>8, <1>9 DEF Reading
<1> QED  BY <1>9, <1>10

TailOf(c) == (c.tail + c.n) % SIZE
AfterTake(ring, c) == [ring EXCEPT !.tail = TailOf(c)]
GoesOn(c) == [c EXCEPT !.at = "copy1", !.tail = TailOf(c)]

\* The store of tail takes off the line what was read, which was its beginning; who
\* has seen more of it may go on.
LEMMA TakeLine ==
    ASSUME SIZE \in Nat \ {0}, NEW ring \in Ring, NEW p \in Writer, NEW c \in Reader,
           Writing(ring, p), Reading(ring, c), c.at = "store"
    PROVE  /\ AfterTake(ring, c) \in Ring /\ Writing(AfterTake(ring, c), p)
           /\ TailOf(c) \in Index
           /\ c.got \in Seq(Nat) /\ Len(c.got) = c.n /\ c.n > 0
           /\ Line(ring, p) = c.got \o Line(AfterTake(ring, c), p)
           /\ Available(c.head, TailOf(c)) >= c.n
                 => Reading(AfterTake(ring, c), GoesOn(c))
<1> DEFINE tail == TailOf(c)
           ring2 == AfterTake(ring, c)
           a == Held(ring)
           m == Len(p.samples)
           n == c.n
<1>1. /\ c.tail = ring.tail /\ ring.tail \in Index /\ ring.head \in Index
      /\ ring.data \in [Index -> Nat] /\ c.head \in Index
      /\ n \in Nat /\ n \in Index /\ n > 0 /\ a \in Nat /\ a < SIZE
      /\ Available(c.head, ring.tail) \in Nat
      /\ n <= Available(c.head, ring.tail)
      /\ Available(c.head, ring.tail) <= a
  BY ReadingFacts
<1>2. /\ c.got \in Seq(Nat) /\ Len(c.got) = n
      /\ \A k \in 0 .. n - 1 : c.got[k + 1] = ring.data[Slot(ring.tail, k)]
  BY DEF Reading, Reader
<1>3. tail = Slot(ring.tail, n) /\ tail \in Index
  BY <1>1, SlotFacts DEF TailOf
<1>4. /\ Available(ring.head, tail) = a - n
      /\ Available(c.head, tail) = Available(c.head, ring.tail) - n
  <2>1. \A i \in Nat : i <= Available(ring.head, ring.tail) =>
           Available(ring.head, Slot(ring.tail, i)) = Available(ring.head, ring.tail) - i
    BY <1>1, AvailableFacts
  <2>2. \A i \in Nat : i <= Available(c.head, ring.tail) =>
           Available(c.head, Slot(ring.tail, i)) = Available(c.head, ring.tail) - i
    BY <1>1, AvailableFacts
  <2>3. n <= a
    BY <1>1
  <2> QED  BY <1>1, <1>3, <2>1, <2>2, <2>3 DEF Held
<1>5. /\ ring2 \in Ring /\ ring2.data = ring.data /\ ring2.head = ring.head
      /\ ring2.tail = tail /\ Held(ring2) = a - n
  BY <1>3, <1>4 DEF AfterTake, Ring, Held
<1>6. m \in Nat /\ p.samples \in Seq(Nat) /\ a - n \in Nat /\ n + (a - n) = a
  BY <1>1 DEF Writer
<1> HIDE DEF a, m, n, tail, ring2
<1>7. Writing(ring2, p)
  <2>1. p.at # "idle" => Held(ring2) + Len(p.samples) < SIZE
    <3>1. p.at # "idle" => a + m < SIZE
      BY DEF Writing, a, m
    <3>2. a + m < SIZE => (a - n) + m < SIZE
      BY <1>1, <1>6
    <3> QED  BY <1>5, <3>1, <3>2 DEF m
  <2> QED  BY <1>5, <2>1 DEF Writing
<1>8. /\ Line(ring, p) \in Seq(Nat) /\ Len(Line(ring, p)) = a + m
      /\ \A k \in 1 .. a : Line(ring, p)[k] = ring.data[Slot(ring.tail, k - 1)]
      /\ \A k \in 1 .. m : Line(ring, p)[a + k] = p.samples[k]
  BY LineFacts DEF a, m
<1>9. /\ Line(ring2, p) \in Seq(Nat) /\ Len(Line(ring2, p)) = (a - n) + m
      /\ \A k \in 1 .. a - n : Line(ring2, p)[k] = ring.data[Slot(tail, k - 1)]
      /\ \A k \in 1 .. m : Line(ring2, p)[(a - n) + k] = p.samples[k]
  <2>1. /\ Line(ring2, p) \in Seq(Nat) /\ Len(Line(ring2, p)) = Held(ring2) + m
        /\ \A k \in 1 .. Held(ring2) : Line(ring2, p)[k] = ring2.data[Slot(ring2.tail, k - 1)]
        /\ \A k \in 1 .. m : Line(ring2, p)[Held(ring2) + k] = p.samples[k]
    BY <1>5, LineFacts DEF m
  <2> QED  BY <1>5, <2>1
<1> DEFINE l == c.got \o Line(ring2, p)
<1>10. /\ l \in Seq(Nat) /\ Len(l) = a + m
       /\ \A k \in 1 .. n : l[k] = c.got[k]
       /\ \A k \in 1 .. (a - n) + m : l[n + k] = Line(ring2, p)[k]
  <2>1. /\ l \in Seq(Nat) /\ Len(l) = n + ((a - n) + m)
        /\ \A k \in 1 .. n : l[k] = c.got[k]
        /\ \A k \in 1 .. (a - n) + m : l[n + k] = Line(ring2, p)[k]
    <3>1. /\ l \in Seq(Nat) /\ Len(l) = Len(c.got) + Len(Line(ring2, p))
          /\ \A k \in 1 .. Len(c.got) : l[k] = c.got[k]
          /\ \A k \in 1 .. Len(Line(ring2, p)) : l[Len(c.got) + k] = Line(ring2, p)[k]
      BY <1>2, <1>9, JoinFacts
    <3> QED  BY ONLY <1>2, <1>9, <3>1
  <2>2. n + ((a - n) + m) = a + m
    BY <1>1, <1>6
  <2> QED  BY <2>1, <2>2
<1> HIDE DEF l
<1>11. ASSUME NEW k \in 1 .. a + m PROVE l[k] = Line(ring, p)[k]
  <2>1. CASE k \in 1 .. n
    <3>1. k - 1 \in 0 .. n - 1 /\ (k - 1) + 1 = k /\ k \in 1 .. a
      BY <1>1, <1>6, <2>1
    <3>2. c.got[k] = ring.data[Slot(ring.tail, k - 1)]
      BY <1>2, <3>1
    <3> QED  BY <1>8, <1>10, <2>1, <3>1, <3>2
  <2>2. CASE \E i \in 1 .. a - n : k = n + i
    <3>1. PICK i \in 1 .. a - n : k = n + i
      BY <2>2
    <3>2. /\ i \in 1 .. (a - n) + m /\ k \in 1 .. a /\ i - 1 \in Nat /\ n + (i - 1) < SIZE
          /\ n + (i - 1) = k - 1
      <4>1. /\ i \in Nat /\ 1 <= i /\ i <= a - n /\ a \in Nat /\ n \in Nat /\ m \in Nat
            /\ a < SIZE /\ SIZE \in Nat
        BY <1>1, <1>6
      <4> QED  BY ONLY <3>1, <4>1
    <3>3. l[n + i] = ring.data[Slot(tail, i - 1)]
      BY <1>9, <1>10, <3>2
    <3>4. Slot(tail, i - 1) = Slot(ring.tail, k - 1)
      <4>1. SIZE \in Nat \ {0} /\ ring.tail \in Index /\ n \in Index
        BY <1>1
      <4>2. Slot(Slot(ring.tail, n), i - 1) = Slot(ring.tail, n + (i - 1))
        BY ONLY <3>2, <4>1, SlotSlot
      <4> QED  BY ONLY <1>3, <3>2, <4>2
    <3> QED  BY <1>8, <3>1, <3>2, <3>3, <3>4
  <2>3. CASE \E j \in 1 .. m : k = a + j
    <3>1. PICK j \in 1 .. m : k = a + j
      BY <2>3
    <3>2. (a - n) + j \in 1 .. (a - n) + m /\ n + ((a - n) + j) = k
      <4>1. /\ j \in Nat /\ 1 <= j /\ j <= m /\ a \in Nat /\ n \in Nat /\ m \in Nat
            /\ a - n \in Nat
        BY <1>1, <1>6
      <4> QED  BY ONLY <3>1, <4>1
    <3>3. l[n + ((a - n) + j)] = Line(ring2, p)[(a - n) + j]
      BY <1>10, <3>2
    <3>4. Line(ring2, p)[(a - n) + j] = p.samples[j]
      BY <1>9
    <3> QED  BY <1>8, <3>1, <3>2, <3>3, <3>4
  <2>4. k \in 1 .. a \/ \E j \in 1 .. m : k = a + j
    BY <1>1, <1>6, PlaceIn
  <2>5. k \in 1 .. a => k \in 1 .. n \/ \E i \in 1 .. a - n : k = n + i
    <3> SUFFICES ASSUME k \in 1 .. a PROVE k \in 1 .. n \/ \E i \in 1 .. a - n : k = n + i
      OBVIOUS
    <3>1. k \in 1 .. n + (a - n)
      BY <1>6
    <3> QED  BY <1>1, <1>6, <3>1, PlaceIn
  <2> QED  BY <2>1, <2>2, <2>3, <2>4, <2>5
<1>12. l = Line(ring, p)
  BY <1>8, <1>10, <1>11, SameSeq
<1>13. ASSUME Available(c.head, tail) >= n
       PROVE  Reading(ring2, GoesOn(c))
  <2> DEFINE d == GoesOn(c)
  <2>1. d.at = "copy1" /\ d.tail = tail /\ d.n = n /\ d.head = c.head
    BY DEF GoesOn, Reader, n, tail
  <2>2. Available(c.head, tail) <= a - n
    BY <1>1, <1>4
  <2>3. n <= Available(c.head, tail)
    BY <1>1, <1>4, <1>13
  <2> HIDE DEF d
  <2>4. Reading(ring2, d)
    BY <1>1, <1>5, <2>1, <2>2, <2>3 DEF Reading
  <2> QED  BY <2>4 DEF d
<1> QED  BY <1>1, <1>2, <1>3, <1>5, <1>7, <1>12, <1>13 DEF l, n, tail, ring2

-------------------------------------------------------------------------------
(* What is on its way *)

\* The order of two sequences in a row is their own and that between them.
LEMMA JoinOrder ==
    ASSUME NEW s \in Seq(Nat), NEW t \in Seq(Nat)
    PROVE  /\ Increasing(s \o t) <=> Increasing(s) /\ Increasing(t) /\ Before(s, t)
           /\ \A u \in Seq(Nat) : /\ Before(s \o t, u) <=> Before(s, u) /\ Before(t, u)
                                  /\ Before(u, s \o t) <=> Before(u, s) /\ Before(u, t)
           /\ \A h, n \in Nat : Between(h, s \o t, n) <=> Between(h, s, n) /\ Between(h, t, n)
           /\ \A x : In(x, s \o t) <=> In(x, s) \/ In(x, t)
<1> DEFINE j == s \o t
           a == Len(s)
           b == Len(t)
<1>1. /\ a \in Nat /\ b \in Nat /\ Len(j) = a + b
      /\ \A i \in 1 .. a : j[i] = s[i]
      /\ \A i \in 1 .. b : j[a + i] = t[i]
  BY JoinFacts
<1> HIDE DEF j, a, b
<1>2. /\ \A i \in 1 .. a : i \in 1 .. a + b
      /\ \A i \in 1 .. b : a + i \in 1 .. a + b
  BY <1>1
<1>3. ASSUME NEW i \in 1 .. a + b
      PROVE  i \in 1 .. a \/ \E k \in 1 .. b : i = a + k
  BY <1>1, PlaceIn
<1>4. /\ \A i \in 1 .. a, k \in 1 .. b : i < a + k
      /\ \A i, k \in 1 .. b : i < k <=> a + i < a + k
      /\ \A i \in 1 .. a, k \in 1 .. b : ~(a + k < i)
  BY <1>1
<1>each. ASSUME NEW i \in 1 .. a + b
         PROVE  (\E k \in 1 .. a : j[i] = s[k]) \/ (\E k \in 1 .. b : j[i] = t[k])
  <2>1. CASE i \in 1 .. a
    BY <1>1, <2>1
  <2>2. CASE \E k \in 1 .. b : i = a + k
    BY <1>1, <2>2
  <2> QED  BY <1>3, <2>1, <2>2
<1>5. Increasing(j) <=> Increasing(s) /\ Increasing(t) /\ Before(s, t)
  <2>1. ASSUME Increasing(j) PROVE Increasing(s) /\ Increasing(t) /\ Before(s, t)
    <3>1. \A i, k \in 1 .. a + b : i < k => j[i] < j[k]
      BY <1>1, <2>1 DEF Increasing
    <3>2. Increasing(s)
      BY <1>1, <1>2, <3>1 DEF Increasing, a
    <3>3. Increasing(t)
      <4> SUFFICES ASSUME NEW i \in 1 .. b, NEW k \in 1 .. b, i < k PROVE t[i] < t[k]
        BY DEF Increasing, b
      <4>1. a + i \in 1 .. a + b /\ a + k \in 1 .. a + b /\ a + i < a + k
        BY <1>2, <1>4
      <4> QED  BY <1>1, <3>1, <4>1
    <3>4. Before(s, t)
      <4> SUFFICES ASSUME NEW i \in 1 .. a, NEW k \in 1 .. b PROVE s[i] < t[k]
        BY DEF Before, a, b
      <4>1. i \in 1 .. a + b /\ a + k \in 1 .. a + b /\ i < a + k
        BY <1>2, <1>4
      <4> QED  BY <1>1, <3>1, <4>1
    <3> QED  BY <3>2, <3>3, <3>4
  <2>2. ASSUME Increasing(s), Increasing(t), Before(s, t) PROVE Increasing(j)
    <3> SUFFICES ASSUME NEW i \in 1 .. a + b, NEW k \in 1 .. a + b, i < k PROVE j[i] < j[k]
      BY <1>1 DEF Increasing
    <3>1. CASE i \in 1 .. a /\ k \in 1 .. a
      BY <1>1, <2>2, <3>1 DEF Increasing, a
    <3>2. CASE i \in 1 .. a /\ \E k2 \in 1 .. b : k = a + k2
      BY <1>1, <2>2, <3>2 DEF Before, a, b
    <3>3. CASE \E i2 \in 1 .. b : i = a + i2
      <4>1. PICK i2 \in 1 .. b : i = a + i2
        BY <3>3
      <4>2. PICK k2 \in 1 .. b : k = a + k2
        BY <1>3, <1>4, <4>1
      <4>3. i2 < k2
        BY <1>4, <4>1, <4>2
      <4>4. t[i2] < t[k2]
        BY <2>2, <4>3 DEF Increasing, b
      <4> QED  BY <1>1, <4>1, <4>2, <4>4
    <3> QED  BY <1>3, <3>1, <3>2, <3>3
  <2> QED  BY <2>1, <2>2
<1>6. ASSUME NEW u \in Seq(Nat)
      PROVE  /\ Before(j, u) <=> Before(s, u) /\ Before(t, u)
             /\ Before(u, j) <=> Before(u, s) /\ Before(u, t)
  <2>1. Before(j, u) => Before(s, u) /\ Before(t, u)
    BY <1>1, <1>2 DEF Before, a, b
  <2>2. Before(s, u) /\ Before(t, u) => Before(j, u)
    BY <1>1, <1>each DEF Before, a, b
  <2>3. Before(u, j) => Before(u, s) /\ Before(u, t)
    BY <1>1, <1>2 DEF Before, a, b
  <2>4. Before(u, s) /\ Before(u, t) => Before(u, j)
    BY <1>1, <1>each DEF Before, a, b
  <2> QED  BY <2>1, <2>2, <2>3, <2>4
<1>7. ASSUME NEW h \in Nat, NEW n \in Nat
      PROVE  Between(h, j, n) <=> Between(h, s, n) /\ Between(h, t, n)
  <2>1. Between(h, j, n) => Between(h, s, n) /\ Between(h, t, n)
    BY <1>1, <1>2 DEF Between, a, b
  <2>2. Between(h, s, n) /\ Between(h, t, n) => Between(h, j, n)
    BY <1>1, <1>each DEF Between, a, b
  <2> QED  BY <2>1, <2>2
<1>8. ASSUME NEW x PROVE In(x, j) <=> In(x, s) \/ In(x, t)
  <2>1. In(x, s) \/ In(x, t) => In(x, j)
    BY <1>1, <1>2 DEF In, a, b
  <2>2. In(x, j) => In(x, s) \/ In(x, t)
    BY <1>1, <1>each DEF In, a, b
  <2> QED  BY <2>1, <2>2
<1> QED  BY <1>5, <1>6, <1>7, <1>8 DEF j

\* The next k samples are recorded and join the line of the microphone ...
LEMMA FlowRecord ==
    ASSUME NEW p \in Seq(Nat), NEW w \in Seq(Seq(Nat)), NEW c \in Seq(Nat),
           NEW h \in Nat, NEW n \in Nat, NEW l, Flow(p, w, c, h, n, l),
           NEW k \in Nat, NEW s \in Seq(Nat), Len(s) = k, \A i \in 1 .. k : s[i] = n + i
    PROVE  Flow(p, w, c \o s, h, n + k, l)
<1>1. /\ Increasing(p) /\ Increasing(c) /\ Before(p, c)
      /\ \A a \in 1 .. Len(w) : Increasing(w[a]) /\ Before(p, w[a]) /\ Before(w[a], c)
      /\ \A a, b \in 1 .. Len(w) : a < b => Before(w[a], w[b])
      /\ Between(h, p, n) /\ Between(h, c, n) /\ h <= n
      /\ \A a \in 1 .. Len(w) : Between(h, w[a], n)
  BY DEF Flow, Ordered
<1>2. \A a \in 1 .. Len(w) : w[a] \in Seq(Nat)
  OBVIOUS
<1>3. ASSUME NEW u \in Seq(Nat), Between(h, u, n)
      PROVE  Between(h, u, n + k) /\ Before(u, s)
  <2>1. \A i \in 1 .. Len(u) : u[i] \in Nat /\ h < u[i] /\ u[i] <= n
    BY <1>3 DEF Between
  <2>2. \A i \in 1 .. Len(s) : s[i] = n + i /\ i > 0
    OBVIOUS
  <2>3. Between(h, u, n + k)
    BY <2>1 DEF Between
  <2>4. ASSUME NEW i \in 1 .. Len(u), NEW j \in 1 .. Len(s) PROVE u[i] < s[j]
    <3>1. u[i] \in Nat /\ u[i] <= n /\ s[j] = n + j /\ j \in Nat /\ j > 0
      BY <2>1, <2>2
    <3>2. u[i] < n + j
      BY ONLY <3>1, n \in Nat
    <3> QED  BY ONLY <3>1, <3>2
  <2> QED  BY <2>3, <2>4 DEF Before
<1>4. Increasing(s)
  BY DEF Increasing
<1>5. Between(h, s, n + k) /\ h <= n + k
  BY <1>1 DEF Between
<1>6. /\ Increasing(c \o s) /\ Before(p, c \o s) /\ Between(h, c \o s, n + k)
      /\ \A a \in 1 .. Len(w) : Before(w[a], c \o s)
  <2>1. Increasing(c \o s)
    BY <1>1, <1>3, <1>4, JoinOrder
  <2>2. ASSUME NEW u \in Seq(Nat), Before(u, c), Between(h, u, n) PROVE Before(u, c \o s)
    BY <1>3, <2>2, JoinOrder
  <2>3. Between(h, c \o s, n + k)
    BY <1>1, <1>3, <1>5, JoinOrder
  <2> QED  BY <1>1, <1>2, <2>1, <2>2, <2>3
<1>7. Ordered(p, w, c \o s, h, n + k)
  BY <1>1, <1>2, <1>3, <1>5, <1>6 DEF Ordered
<1>8. Accounted(p, w, c \o s, h, n + k, l)
  <2> SUFFICES ASSUME NEW x \in 1 .. n + k
               PROVE  \/ x <= h \/ x \in l \/ In(x, p) \/ In(x, c \o s)
                      \/ \E a \in 1 .. Len(w) : In(x, w[a])
    BY DEF Accounted
  <2>1. CASE x \in 1 .. n
    <3>1. \/ x <= h \/ x \in l \/ In(x, p) \/ In(x, c)
          \/ \E a \in 1 .. Len(w) : In(x, w[a])
      BY <2>1 DEF Flow, Accounted
    <3> QED  BY <3>1, JoinOrder
  <2>2. CASE \E i \in 1 .. k : x = n + i
    <3>1. In(x, s)
      BY <2>2 DEF In
    <3> QED  BY <3>1, JoinOrder
  <2> QED  BY <2>1, <2>2, PlaceIn
<1> QED  BY <1>7, <1>8 DEF Flow

\* ... or are lost.
LEMMA FlowLose ==
    ASSUME NEW p \in Seq(Nat), NEW w \in Seq(Seq(Nat)), NEW c \in Seq(Nat),
           NEW h \in Nat, NEW n \in Nat, NEW l, Flow(p, w, c, h, n, l),
           NEW k \in Nat, NEW l2, l \subseteq l2, \A i \in 1 .. k : n + i \in l2
    PROVE  Flow(p, w, c, h, n + k, l2)
<1>1. /\ Increasing(p) /\ Increasing(c) /\ Before(p, c)
      /\ \A a \in 1 .. Len(w) : Increasing(w[a]) /\ Before(p, w[a]) /\ Before(w[a], c)
      /\ \A a, b \in 1 .. Len(w) : a < b => Before(w[a], w[b])
      /\ Between(h, p, n) /\ Between(h, c, n) /\ h <= n
      /\ \A a \in 1 .. Len(w) : Between(h, w[a], n)
  BY DEF Flow, Ordered
<1>2. \A a \in 1 .. Len(w) : w[a] \in Seq(Nat)
  OBVIOUS
<1>3. ASSUME NEW u \in Seq(Nat), Between(h, u, n) PROVE Between(h, u, n + k)
  <2>1. \A i \in 1 .. Len(u) : u[i] \in Nat /\ h < u[i] /\ u[i] <= n
    BY <1>3 DEF Between
  <2> QED  BY <2>1 DEF Between
<1>4. Ordered(p, w, c, h, n + k)
  BY <1>1, <1>2, <1>3 DEF Ordered
<1>5. Accounted(p, w, c, h, n + k, l2)
  <2> SUFFICES ASSUME NEW x \in 1 .. n + k
               PROVE  \/ x <= h \/ x \in l2 \/ In(x, p) \/ In(x, c)
                      \/ \E a \in 1 .. Len(w) : In(x, w[a])
    BY DEF Accounted
  <2>1. CASE x \in 1 .. n
    BY <2>1 DEF Flow, Accounted
  <2>2. CASE \E i \in 1 .. k : x = n + i
    BY <2>2
  <2> QED  BY <2>1, <2>2, PlaceIn
<1> QED  BY <1>4, <1>5 DEF Flow

\* The beginning of the line of the microphone is sent as a packet.
LEMMA FlowSend ==
    ASSUME NEW p \in Seq(Nat), NEW w \in Seq(Seq(Nat)), NEW g \in Seq(Nat),
           NEW c \in Seq(Nat), NEW h \in Nat, NEW n \in Nat, NEW l,
           Flow(p, w, g \o c, h, n, l)
    PROVE  Flow(p, Append(w, g), c, h, n, l)
<1> DEFINE v == Append(w, g)
           m == Len(w)
<1>1. /\ m \in Nat /\ Len(v) = m + 1 /\ v[m + 1] = g
      /\ \A a \in 1 .. m : v[a] = w[a] /\ w[a] \in Seq(Nat) /\ a \in 1 .. m + 1
      /\ m + 1 \in 1 .. m + 1
      /\ \A a \in 1 .. m + 1 : a \in 1 .. m \/ a = m + 1
      /\ \A a \in 1 .. m : ~(m + 1 < a) /\ a < m + 1
  OBVIOUS
<1> HIDE DEF v
<1>2. /\ Increasing(p) /\ Increasing(g \o c) /\ Before(p, g \o c)
      /\ \A a \in 1 .. m : Increasing(w[a]) /\ Before(p, w[a]) /\ Before(w[a], g \o c)
      /\ \A a, b \in 1 .. m : a < b => Before(w[a], w[b])
      /\ Between(h, p, n) /\ Between(h, g \o c, n) /\ h <= n
      /\ \A a \in 1 .. m : Between(h, w[a], n)
  BY DEF Flow, Ordered
<1> HIDE DEF m
<1>3. /\ Increasing(g) /\ Increasing(c) /\ Before(g, c) /\ Before(p, g) /\ Before(p, c)
      /\ Between(h, g, n) /\ Between(h, c, n)
  BY <1>2, JoinOrder
<1>4. \A a \in 1 .. m : Before(w[a], g) /\ Before(w[a], c)
  BY <1>1, <1>2, JoinOrder
<1>5. \A a \in 1 .. m + 1 :
         Increasing(v[a]) /\ Before(p, v[a]) /\ Before(v[a], c) /\ Between(h, v[a], n)
  BY <1>1, <1>2, <1>3, <1>4
<1>6. ASSUME NEW a \in 1 .. m + 1, NEW b \in 1 .. m + 1, a < b PROVE Before(v[a], v[b])
  <2>1. CASE a \in 1 .. m /\ b \in 1 .. m
    BY <1>1, <1>2, <1>6, <2>1
  <2>2. CASE a \in 1 .. m /\ b = m + 1
    BY <1>1, <1>4, <2>2
  <2>3. CASE a = m + 1
    <3>1. ~(a < b)
      BY <1>1, <2>3
    <3> QED  BY <1>6, <3>1
  <2> QED  BY <1>1, <2>1, <2>2, <2>3
<1>7. Ordered(p, v, c, h, n)
  BY <1>1, <1>2, <1>3, <1>5, <1>6 DEF Ordered
<1>8. Accounted(p, v, c, h, n, l)
  <2> SUFFICES ASSUME NEW x \in 1 .. n
               PROVE  \/ x <= h \/ x \in l \/ In(x, p) \/ In(x, c)
                      \/ \E a \in 1 .. m + 1 : In(x, v[a])
    BY <1>1 DEF Accounted
  <2>1. \/ x <= h \/ x \in l \/ In(x, p) \/ In(x, g \o c)
        \/ \E a \in 1 .. m : In(x, w[a])
    BY DEF Flow, Accounted, m
  <2>2. In(x, g \o c) => In(x, g) \/ In(x, c)
    BY JoinOrder
  <2>3. In(x, g) => In(x, v[m + 1])
    BY <1>1
  <2> QED  BY <1>1, <2>1, <2>2, <2>3
<1> QED  BY <1>7, <1>8 DEF Flow, v

\* What the first packet leaves on its way.
LEMMA TailFacts ==
    ASSUME NEW w \in Seq(Seq(Nat)), w # << >>
    PROVE  /\ Head(w) = w[1] /\ w[1] \in Seq(Nat) /\ 1 \in 1 .. Len(w)
           /\ Tail(w) \in Seq(Seq(Nat)) /\ Len(w) \in Nat /\ Len(Tail(w)) = Len(w) - 1
           /\ \A a \in 1 .. Len(Tail(w)) :
                 Tail(w)[a] = w[a + 1] /\ a + 1 \in 1 .. Len(w) /\ 1 < a + 1
           /\ \A a \in 1 .. Len(w) : a = 1 \/ \E b \in 1 .. Len(Tail(w)) : a = b + 1
<1>1. Len(w) \in Nat /\ Len(w) > 0 /\ 1 \in 1 .. Len(w)
  OBVIOUS
<1>2. Head(w) = w[1] /\ w[1] \in Seq(Nat)
  BY <1>1
<1>3. Tail(w) \in Seq(Seq(Nat)) /\ Len(Tail(w)) = Len(w) - 1
  BY <1>1
<1>4. \A a \in 1 .. Len(w) - 1 : Tail(w)[a] = w[a + 1] /\ a + 1 \in 1 .. Len(w) /\ 1 < a + 1
  BY <1>1
<1>5. ASSUME NEW a \in 1 .. Len(w) PROVE a = 1 \/ \E b \in 1 .. Len(w) - 1 : a = b + 1
  <2>1. CASE a > 1
    <3>1. a - 1 \in 1 .. Len(w) - 1 /\ a = (a - 1) + 1
      BY <1>1, <2>1
    <3> QED  BY <3>1
  <2> QED  BY <1>1, <2>1
<1> QED  BY <1>1, <1>2, <1>3, <1>4, <1>5

\* A packet joins the line of the speaker ...
LEMMA FlowReceive ==
    ASSUME NEW p \in Seq(Nat), NEW w \in Seq(Seq(Nat)), w # << >>, NEW c \in Seq(Nat),
           NEW h \in Nat, NEW n \in Nat, NEW l, Flow(p, w, c, h, n, l)
    PROVE  Flow(p \o Head(w), Tail(w), c, h, n, l)
<1> DEFINE x == w[1]
           v == Tail(w)
<1>1. /\ Head(w) = x /\ x \in Seq(Nat) /\ 1 \in 1 .. Len(w)
      /\ \A a \in 1 .. Len(v) : v[a] = w[a + 1] /\ a + 1 \in 1 .. Len(w) /\ 1 < a + 1
      /\ \A a \in 1 .. Len(w) : a = 1 \/ \E b \in 1 .. Len(v) : a = b + 1
      /\ \A a, b \in 1 .. Len(v) : a < b => a + 1 < b + 1
      /\ \A a \in 1 .. Len(w) : w[a] \in Seq(Nat)
  BY TailFacts
<1>2. /\ Increasing(p) /\ Increasing(c) /\ Before(p, c)
      /\ \A a \in 1 .. Len(w) : Increasing(w[a]) /\ Before(p, w[a]) /\ Before(w[a], c)
      /\ \A a, b \in 1 .. Len(w) : a < b => Before(w[a], w[b])
      /\ Between(h, p, n) /\ Between(h, c, n) /\ h <= n
      /\ \A a \in 1 .. Len(w) : Between(h, w[a], n)
  BY DEF Flow, Ordered
<1>3. /\ Increasing(x) /\ Before(p, x) /\ Before(x, c) /\ Between(h, x, n)
      /\ \A b \in 1 .. Len(w) : 1 < b => Before(x, w[b])
  BY <1>1, <1>2
<1> HIDE DEF x, v
<1>4. /\ Increasing(p \o x) /\ Before(p \o x, c) /\ Between(h, p \o x, n)
      /\ \A a \in 1 .. Len(w) : 1 < a => Before(p \o x, w[a])
  BY <1>1, <1>2, <1>3, JoinOrder
<1>5. \A a \in 1 .. Len(v) : Increasing(v[a]) /\ Before(p \o x, v[a]) /\ Before(v[a], c)
                               /\ Between(h, v[a], n)
  BY <1>1, <1>2, <1>4
<1>6. \A a, b \in 1 .. Len(v) : a < b => Before(v[a], v[b])
  BY <1>1, <1>2
<1>7. Ordered(p \o x, v, c, h, n)
  BY <1>2, <1>4, <1>5, <1>6 DEF Ordered
<1>8. Accounted(p \o x, v, c, h, n, l)
  <2> SUFFICES ASSUME NEW y \in 1 .. n
               PROVE  \/ y <= h \/ y \in l \/ In(y, p \o x) \/ In(y, c)
                      \/ \E a \in 1 .. Len(v) : In(y, v[a])
    BY DEF Accounted
  <2>1. \/ y <= h \/ y \in l \/ In(y, p) \/ In(y, c)
        \/ \E a \in 1 .. Len(w) : In(y, w[a])
    BY DEF Flow, Accounted
  <2>2. In(y, p) \/ In(y, x) => In(y, p \o x)
    BY <1>1, JoinOrder
  <2>3. (\E a \in 1 .. Len(w) : In(y, w[a]))
           => In(y, x) \/ \E a \in 1 .. Len(v) : In(y, v[a])
    BY <1>1 DEF x
  <2> QED  BY <2>1, <2>2, <2>3
<1> QED  BY <1>1, <1>7, <1>8 DEF Flow, v

\* ... or is lost.
LEMMA FlowDrop ==
    ASSUME NEW p \in Seq(Nat), NEW w \in Seq(Seq(Nat)), w # << >>, NEW c \in Seq(Nat),
           NEW h \in Nat, NEW n \in Nat, NEW l, Flow(p, w, c, h, n, l),
           NEW l2, l \subseteq l2, \A i \in 1 .. Len(Head(w)) : Head(w)[i] \in l2
    PROVE  Flow(p, Tail(w), c, h, n, l2)
<1> DEFINE x == w[1]
           v == Tail(w)
<1>1. /\ Head(w) = x /\ x \in Seq(Nat) /\ 1 \in 1 .. Len(w)
      /\ \A a \in 1 .. Len(v) : v[a] = w[a + 1] /\ a + 1 \in 1 .. Len(w) /\ 1 < a + 1
      /\ \A a \in 1 .. Len(w) : a = 1 \/ \E b \in 1 .. Len(v) : a = b + 1
      /\ \A a, b \in 1 .. Len(v) : a < b => a + 1 < b + 1
  BY TailFacts
<1>2. /\ Increasing(p) /\ Increasing(c) /\ Before(p, c)
      /\ \A a \in 1 .. Len(w) : Increasing(w[a]) /\ Before(p, w[a]) /\ Before(w[a], c)
      /\ \A a, b \in 1 .. Len(w) : a < b => Before(w[a], w[b])
      /\ Between(h, p, n) /\ Between(h, c, n) /\ h <= n
      /\ \A a \in 1 .. Len(w) : Between(h, w[a], n)
  BY DEF Flow, Ordered
<1> HIDE DEF v
<1>3. Ordered(p, v, c, h, n)
  BY <1>1, <1>2 DEF Ordered
<1>4. Accounted(p, v, c, h, n, l2)
  <2> SUFFICES ASSUME NEW y \in 1 .. n
               PROVE  \/ y <= h \/ y \in l2 \/ In(y, p) \/ In(y, c)
                      \/ \E a \in 1 .. Len(v) : In(y, v[a])
    BY DEF Accounted
  <2>1. \/ y <= h \/ y \in l \/ In(y, p) \/ In(y, c)
        \/ \E a \in 1 .. Len(w) : In(y, w[a])
    BY DEF Flow, Accounted
  <2>2. In(y, x) => y \in l2
    BY <1>1 DEF In
  <2>3. (\E a \in 1 .. Len(w) : In(y, w[a]))
           => In(y, x) \/ \E a \in 1 .. Len(v) : In(y, v[a])
    BY <1>1
  <2> QED  BY <2>1, <2>2, <2>3
<1> QED  BY <1>3, <1>4 DEF Flow, v

\* The speaker is given the beginning of its line.
LEMMA FlowHear ==
    ASSUME NEW g \in Seq(Nat), NEW p \in Seq(Nat), NEW w \in Seq(Seq(Nat)),
           NEW c \in Seq(Nat), NEW h \in Nat, NEW n \in Nat, NEW l,
           Flow(g \o p, w, c, h, n, l), Len(g) > 0
    PROVE  g[Len(g)] \in Nat /\ Flow(p, w, c, g[Len(g)], n, l)
<1> DEFINE z == g[Len(g)]
<1>1. /\ Increasing(g \o p) /\ Increasing(c) /\ Before(g \o p, c)
      /\ \A a \in 1 .. Len(w) : Increasing(w[a]) /\ Before(g \o p, w[a]) /\ Before(w[a], c)
      /\ \A a, b \in 1 .. Len(w) : a < b => Before(w[a], w[b])
      /\ Between(h, g \o p, n) /\ Between(h, c, n) /\ h <= n
      /\ \A a \in 1 .. Len(w) : Between(h, w[a], n) /\ w[a] \in Seq(Nat)
  <2>1. \A a \in 1 .. Len(w) : w[a] \in Seq(Nat)
    OBVIOUS
  <2> QED  BY <2>1 DEF Flow, Ordered
<1>2. /\ Increasing(g) /\ Increasing(p) /\ Before(g, p) /\ Before(g, c) /\ Before(p, c)
      /\ Between(h, g, n) /\ Between(h, p, n)
  BY <1>1, JoinOrder
<1>3. \A a \in 1 .. Len(w) : Before(g, w[a]) /\ Before(p, w[a])
  BY <1>1, JoinOrder
<1>4. /\ Len(g) \in 1 .. Len(g) /\ z \in Nat /\ z <= n
      /\ \A i \in 1 .. Len(g) : g[i] \in Nat /\ g[i] <= z
  <2>1. Len(g) \in 1 .. Len(g) /\ \A i \in 1 .. Len(g) : g[i] \in Nat
    OBVIOUS
  <2>2. z <= n /\ h < z
    BY <1>2, <2>1 DEF Between
  <2>3. ASSUME NEW i \in 1 .. Len(g) PROVE g[i] <= z
    <3>1. CASE i < Len(g)
      <4>1. g[i] < g[Len(g)]
        BY <1>2, <2>1, <3>1 DEF Increasing
      <4> QED  BY <2>1, <4>1
    <3>2. CASE i = Len(g)
      BY <2>1, <3>2
    <3> QED  BY <3>1, <3>2
  <2> QED  BY <2>1, <2>2, <2>3
<1> HIDE DEF z
<1>5. ASSUME NEW u \in Seq(Nat), Before(g, u), Between(h, u, n) PROVE Between(z, u, n)
  BY <1>4, <1>5 DEF Before, Between, z
<1>6. Ordered(p, w, c, z, n)
  BY <1>1, <1>2, <1>3, <1>4, <1>5 DEF Ordered
<1>7. Accounted(p, w, c, z, n, l)
  <2> SUFFICES ASSUME NEW y \in 1 .. n
               PROVE  \/ y <= z \/ y \in l \/ In(y, p) \/ In(y, c)
                      \/ \E a \in 1 .. Len(w) : In(y, w[a])
    BY DEF Accounted
  <2>1. \/ y <= h \/ y \in l \/ In(y, g \o p) \/ In(y, c)
        \/ \E a \in 1 .. Len(w) : In(y, w[a])
    BY DEF Flow, Accounted
  <2>2. In(y, g \o p) => In(y, g) \/ In(y, p)
    BY JoinOrder
  <2>3. In(y, g) => y <= z
    BY <1>4 DEF In
  <2>4. y <= h => y <= z
    <3>1. h < z
      BY <1>2, <1>4 DEF Between, z
    <3> QED  BY <1>4, <3>1
  <2> QED  BY <2>1, <2>2, <2>3, <2>4
<1> QED  BY <1>4, <1>6, <1>7 DEF Flow, z

\* A line that is cleared is lost.
LEMMA FlowClear ==
    ASSUME NEW p \in Seq(Nat), NEW w \in Seq(Seq(Nat)), NEW c \in Seq(Nat),
           NEW h \in Nat, NEW n \in Nat, NEW l, Flow(p, w, c, h, n, l),
           NEW l2, l \subseteq l2
    PROVE  /\ (\A i \in 1 .. Len(p) : p[i] \in l2) => Flow(<< >>, w, c, h, n, l2)
           /\ (\A i \in 1 .. Len(c) : c[i] \in l2) => Flow(p, w, << >>, h, n, l2)
<1>1. /\ Increasing(p) /\ Increasing(c) /\ Before(p, c)
      /\ \A a \in 1 .. Len(w) : Increasing(w[a]) /\ Before(p, w[a]) /\ Before(w[a], c)
      /\ \A a, b \in 1 .. Len(w) : a < b => Before(w[a], w[b])
      /\ Between(h, p, n) /\ Between(h, c, n) /\ h <= n
      /\ \A a \in 1 .. Len(w) : Between(h, w[a], n)
  BY DEF Flow, Ordered
<1>2. /\ Increasing(<< >>) /\ Between(h, << >>, n)
      /\ \A u \in Seq(Nat) : Before(u, << >>) /\ Before(<< >>, u)
  BY DEF Increasing, Between, Before
<1>3. \A a \in 1 .. Len(w) : w[a] \in Seq(Nat)
  OBVIOUS
<1>4. Ordered(<< >>, w, c, h, n) /\ Ordered(p, w, << >>, h, n)
  BY <1>1, <1>2, <1>3 DEF Ordered
<1>5. \A x \in 1 .. n : \/ x <= h \/ x \in l \/ In(x, p) \/ In(x, c)
                        \/ \E a \in 1 .. Len(w) : In(x, w[a])
  BY DEF Flow, Accounted
<1>6. (\A i \in 1 .. Len(p) : p[i] \in l2) => Accounted(<< >>, w, c, h, n, l2)
  <2> SUFFICES ASSUME \A i \in 1 .. Len(p) : p[i] \in l2
               PROVE  Accounted(<< >>, w, c, h, n, l2)
    OBVIOUS
  <2>1. \A x : In(x, p) => x \in l2
    BY DEF In
  <2> QED  BY <1>5, <2>1 DEF Accounted
<1>7. (\A i \in 1 .. Len(c) : c[i] \in l2) => Accounted(p, w, << >>, h, n, l2)
  <2> SUFFICES ASSUME \A i \in 1 .. Len(c) : c[i] \in l2
               PROVE  Accounted(p, w, << >>, h, n, l2)
    OBVIOUS
  <2>1. \A x : In(x, c) => x \in l2
    BY DEF In
  <2> QED  BY <1>5, <2>1 DEF Accounted
<1> QED  BY <1>4, <1>6, <1>7 DEF Flow

-------------------------------------------------------------------------------
(* Every step *)

\* A step of one ring leaves the other alone.
LEMMA RingStep ==
    ASSUME RingPart, NEW r \in Rings, NEW ring2 \in Ring, NEW p2 \in Writer, NEW c2 \in Reader,
           rings' = [rings EXCEPT ![r] = ring2], producer' = [producer EXCEPT ![r] = p2],
           consumer' = [consumer EXCEPT ![r] = c2], speaking' \in [Rings -> BOOLEAN],
           \A q \in Rings : q # r => speaking'[q] = speaking[q],
           Writing(ring2, p2), Reading(ring2, c2),
           ~speaking'[r] => p2.at = "idle" /\ c2.at = "idle",
           r = "capture" /\ c2.at # "idle" => c2.n = CHUNK
    PROVE  /\ RingPart' /\ LineOf(r)' = Line(ring2, p2)
           /\ \A q \in Rings : q # r => LineOf(q)' = LineOf(q)
<1>1. /\ rings \in [Rings -> Ring] /\ producer \in [Rings -> Writer]
      /\ consumer \in [Rings -> Reader]
  BY DEF RingPart
<1>2. /\ rings'[r] = ring2 /\ producer'[r] = p2 /\ consumer'[r] = c2
      /\ \A q \in Rings : q # r => /\ rings'[q] = rings[q] /\ producer'[q] = producer[q]
                                   /\ consumer'[q] = consumer[q]
  BY <1>1
<1>3. /\ rings' \in [Rings -> Ring] /\ producer' \in [Rings -> Writer]
      /\ consumer' \in [Rings -> Reader]
  BY <1>1
<1>4. ASSUME NEW q \in Rings
      PROVE  /\ Writing(rings'[q], producer'[q]) /\ Reading(rings'[q], consumer'[q])
             /\ ~speaking'[q] => producer'[q].at = "idle" /\ consumer'[q].at = "idle"
  <2>1. CASE q = r
    BY <1>2, <2>1
  <2>2. CASE q # r
    BY <1>2, <2>2 DEF RingPart
  <2> QED  BY <2>1, <2>2
<1>5. consumer'["capture"].at # "idle" => consumer'["capture"].n = CHUNK
  <2>1. CASE r = "capture"
    BY <1>2, <2>1
  <2>2. CASE r # "capture"
    BY <1>2, <2>2 DEF RingPart, Rings
  <2> QED  BY <2>1, <2>2
<1>6. RingPart'
  BY <1>3, <1>4, <1>5 DEF RingPart
<1> QED  BY <1>2, <1>6 DEF LineOf

\* The step of a copy, of a read or of the store of head moves no sample.
LEMMA Stays ==
    ASSUME IInv, NEW r \in Rings, NEW ring2 \in Ring, NEW p2 \in Writer, NEW c2 \in Reader,
           rings' = [rings EXCEPT ![r] = ring2], producer' = [producer EXCEPT ![r] = p2],
           consumer' = [consumer EXCEPT ![r] = c2],
           Writing(ring2, p2), Reading(ring2, c2), Line(ring2, p2) = LineOf(r),
           ~speaking[r] => p2.at = "idle" /\ c2.at = "idle",
           r = "capture" /\ c2.at # "idle" => c2.n = CHUNK,
           UNCHANGED <<speaking, wire, recorded, lost, heard>>
    PROVE  IInv'
<1>1. RingPart /\ FlowPart /\ speaking \in [Rings -> BOOLEAN] /\ speaking' = speaking
  BY DEF IInv, RingPart
<1>2. /\ RingPart' /\ LineOf(r)' = Line(ring2, p2)
      /\ \A q \in Rings : q # r => LineOf(q)' = LineOf(q)
  BY <1>1, RingStep
<1>3. LineOf("playback")' = LineOf("playback") /\ LineOf("capture")' = LineOf("capture")
  BY <1>2 DEF Rings
<1>4. FlowPart'
  BY <1>1, <1>3 DEF FlowPart
<1> QED  BY <1>2, <1>4 DEF IInv

LEMMA Copy1Step ==
    ASSUME Sizes, IInv, NEW r \in Rings, Copy1(r)
    PROVE  IInv'
<1> DEFINE ring == rings[r]
           p == producer[r]
           c == consumer[r]
           n == Chunk1(Len(p.samples), p.head)
           ring2 == [ring EXCEPT !.data = [k \in 0 .. SIZE - 1 |->
              IF k \in p.head .. p.head + n - 1 THEN p.samples[k - p.head + 1] ELSE @[k]]]
           p2 == [p EXCEPT !.at = IF n < Len(p.samples) THEN "copy2" ELSE "store"]
<1>1. /\ ring \in Ring /\ p \in Writer /\ c \in Reader /\ Writing(ring, p) /\ Reading(ring, c)
      /\ p.at = "copy1" /\ speaking[r] /\ consumer \in [Rings -> Reader]
      /\ r = "capture" /\ c.at # "idle" => c.n = CHUNK
  BY DEF IInv, RingPart, Copy1
<1>2. /\ rings' = [rings EXCEPT ![r] = ring2] /\ producer' = [producer EXCEPT ![r] = p2]
      /\ consumer' = [consumer EXCEPT ![r] = c]
      /\ UNCHANGED <<speaking, wire, recorded, lost, heard>>
  BY <1>1 DEF Copy1
<1>3. /\ ring2 \in Ring /\ p2 \in Writer /\ Writing(ring2, p2) /\ Reading(ring2, c)
      /\ Line(ring2, p2) = Line(ring, p)
  BY <1>1, Copy1Line DEF Sizes
<1> HIDE DEF ring2, p2
<1> QED  BY <1>1, <1>2, <1>3, Stays DEF LineOf

LEMMA Copy2Step ==
    ASSUME Sizes, IInv, NEW r \in Rings, Copy2(r)
    PROVE  IInv'
<1> DEFINE ring == rings[r]
           p == producer[r]
           c == consumer[r]
           n == Chunk1(Len(p.samples), p.head)
           ring2 == [ring EXCEPT !.data = [k \in 0 .. SIZE - 1 |->
              IF k < Len(p.samples) - n THEN p.samples[n + k + 1] ELSE @[k]]]
           p2 == [p EXCEPT !.at = "store"]
<1>1. /\ ring \in Ring /\ p \in Writer /\ c \in Reader /\ Writing(ring, p) /\ Reading(ring, c)
      /\ p.at = "copy2" /\ speaking[r] /\ consumer \in [Rings -> Reader]
      /\ r = "capture" /\ c.at # "idle" => c.n = CHUNK
  BY DEF IInv, RingPart, Copy2
<1>2. /\ rings' = [rings EXCEPT ![r] = ring2] /\ producer' = [producer EXCEPT ![r] = p2]
      /\ consumer' = [consumer EXCEPT ![r] = c]
      /\ UNCHANGED <<speaking, wire, recorded, lost, heard>>
  BY <1>1 DEF Copy2
<1>3. /\ ring2 \in Ring /\ p2 \in Writer /\ Writing(ring2, p2) /\ Reading(ring2, c)
      /\ Line(ring2, p2) = Line(ring, p)
  BY <1>1, Copy2Line DEF Sizes
<1> HIDE DEF ring2, p2
<1> QED  BY <1>1, <1>2, <1>3, Stays DEF LineOf

LEMMA StoreStep ==
    ASSUME Sizes, IInv, NEW r \in Rings, Store(r)
    PROVE  IInv'
<1> DEFINE ring == rings[r]
           p == producer[r]
           c == consumer[r]
           ring2 == [ring EXCEPT !.head = (p.head + Len(p.samples)) % SIZE]
<1>1. /\ ring \in Ring /\ p \in Writer /\ c \in Reader /\ Writing(ring, p) /\ Reading(ring, c)
      /\ p.at = "store" /\ speaking[r] /\ consumer \in [Rings -> Reader]
      /\ r = "capture" /\ c.at # "idle" => c.n = CHUNK
  BY DEF IInv, RingPart, Store
<1>2. /\ rings' = [rings EXCEPT ![r] = ring2] /\ producer' = [producer EXCEPT ![r] = Idle]
      /\ consumer' = [consumer EXCEPT ![r] = c]
      /\ UNCHANGED <<speaking, wire, recorded, lost, heard>>
  BY <1>1 DEF Store
<1>3. /\ ring2 \in Ring /\ Idle \in Writer /\ Writing(ring2, Idle) /\ Reading(ring2, c)
      /\ Line(ring2, Idle) = Line(ring, p)
  BY <1>1, StoreLine DEF Sizes
<1> HIDE DEF ring2
<1> QED  BY <1>1, <1>2, <1>3, Stays DEF LineOf

LEMMA Read1Step ==
    ASSUME Sizes, IInv, NEW r \in Rings, Read1(r)
    PROVE  IInv'
<1> DEFINE ring == rings[r]
           p == producer[r]
           c == consumer[r]
           c2 == AfterRead1(ring, c)
<1>1. /\ ring \in Ring /\ p \in Writer /\ c \in Reader /\ Writing(ring, p) /\ Reading(ring, c)
      /\ c.at = "copy1" /\ speaking[r]
      /\ rings \in [Rings -> Ring] /\ producer \in [Rings -> Writer]
      /\ r = "capture" /\ c.at # "idle" => c.n = CHUNK
  BY DEF IInv, RingPart, Read1
<1>2. /\ rings' = [rings EXCEPT ![r] = ring] /\ producer' = [producer EXCEPT ![r] = p]
      /\ consumer' = [consumer EXCEPT ![r] = c2]
      /\ UNCHANGED <<speaking, wire, recorded, lost, heard>>
  BY <1>1 DEF Read1, AfterRead1
<1>3. c2 \in Reader /\ Reading(ring, c2) /\ c2.n = c.n /\ c2.at # "idle"
  BY <1>1, Read1Line DEF Sizes
<1> HIDE DEF c2
<1> QED  BY <1>1, <1>2, <1>3, Stays DEF LineOf

LEMMA Read2Step ==
    ASSUME Sizes, IInv, NEW r \in Rings, Read2(r)
    PROVE  IInv'
<1> DEFINE ring == rings[r]
           p == producer[r]
           c == consumer[r]
           c2 == [c EXCEPT !.at = "store",
                           !.got = @ \o [k \in 1 .. c.n - Len(@) |-> ring.data[k - 1]]]
<1>1. /\ ring \in Ring /\ p \in Writer /\ c \in Reader /\ Writing(ring, p) /\ Reading(ring, c)
      /\ c.at = "copy2" /\ speaking[r]
      /\ rings \in [Rings -> Ring] /\ producer \in [Rings -> Writer]
      /\ r = "capture" /\ c.at # "idle" => c.n = CHUNK
  BY DEF IInv, RingPart, Read2
<1>2. /\ rings' = [rings EXCEPT ![r] = ring] /\ producer' = [producer EXCEPT ![r] = p]
      /\ consumer' = [consumer EXCEPT ![r] = c2]
      /\ UNCHANGED <<speaking, wire, recorded, lost, heard>>
  BY <1>1 DEF Read2
<1>3. c2 \in Reader /\ Reading(ring, c2) /\ c2.n = c.n /\ c2.at # "idle"
  BY <1>1, Read2Line DEF Sizes
<1> HIDE DEF c2
<1> QED  BY <1>1, <1>2, <1>3, Stays DEF LineOf

\* PlaybackCallback asks for samples, ProcessCapture for packets.
LEMMA LookStep ==
    ASSUME Sizes, IInv, NEW r \in Rings, NEW n \in Nat \ {0}, Look(r, n),
           r = "capture" => n = CHUNK
    PROVE  IInv'
<1> DEFINE ring == rings[r]
           p == producer[r]
           c2 == [at |-> "copy1", n |-> n, got |-> << >>, head |-> ring.head, tail |-> ring.tail]
<1>1. /\ ring \in Ring /\ p \in Writer /\ Writing(ring, p) /\ speaking[r]
      /\ rings \in [Rings -> Ring] /\ producer \in [Rings -> Writer]
      /\ Available(ring.head, ring.tail) >= n
  BY DEF IInv, RingPart, Look
<1>2. /\ rings' = [rings EXCEPT ![r] = ring] /\ producer' = [producer EXCEPT ![r] = p]
      /\ consumer' = [consumer EXCEPT ![r] = c2]
      /\ UNCHANGED <<speaking, wire, recorded, lost, heard>>
  BY <1>1 DEF Look
<1>3. c2 \in Reader /\ c2.n = n /\ c2.at = "copy1"
  BY <1>1 DEF Reader, Steps, Ring
<1>4. Reading(ring, c2)
  <2>1. c2.head = ring.head /\ c2.tail = ring.tail
    OBVIOUS
  <2>2. Held(ring) = Available(ring.head, ring.tail) /\ Held(ring) \in Nat
    BY <1>1, LineFacts DEF Sizes, Held
  <2> HIDE DEF c2, ring
  <2> QED  BY <1>1, <1>3, <2>1, <2>2 DEF Reading
<1> HIDE DEF c2
<1> QED  BY <1>1, <1>2, <1>3, <1>4, Stays DEF LineOf

\* A call that fills ring r: its line is longer, or the samples are lost.
LEMMA BeginStep ==
    ASSUME Sizes, RingPart, NEW r \in Rings, NEW s \in Seq(Nat), Len(s) > 0, speaking[r],
           producer[r].at = "idle", Begin(r, s), UNCHANGED <<rings, consumer, speaking>>
    PROVE  /\ RingPart'
           /\ \A q \in Rings : q # r => LineOf(q)' = LineOf(q)
           /\ \/ LineOf(r)' = LineOf(r) \o s /\ lost' = lost
              \/ LineOf(r)' = LineOf(r) /\ lost' = lost \cup ASet(s)
<1> DEFINE ring == rings[r]
           p == producer[r]
           c == consumer[r]
           q2 == [at |-> "copy1", samples |-> s, head |-> ring.head]
<1>1. /\ ring \in Ring /\ p \in Writer /\ c \in Reader /\ Writing(ring, p) /\ Reading(ring, c)
      /\ rings \in [Rings -> Ring] /\ consumer \in [Rings -> Reader]
      /\ r = "capture" /\ c.at # "idle" => c.n = CHUNK
      /\ speaking' \in [Rings -> BOOLEAN] /\ speaking' = speaking
  BY DEF RingPart
<1>2. CASE Len(s) > Free(ring.head, ring.tail)
  <2>1. /\ producer' = producer /\ rings' = rings /\ consumer' = consumer
        /\ lost' = lost \cup ASet(s)
    BY <1>2 DEF Begin
  <2> QED  BY <1>1, <2>1 DEF RingPart, LineOf
<1>3. CASE ~(Len(s) > Free(ring.head, ring.tail))
  <2>1. /\ producer' = [producer EXCEPT ![r] = q2] /\ lost' = lost
        /\ rings' = [rings EXCEPT ![r] = ring] /\ consumer' = [consumer EXCEPT ![r] = c]
    BY <1>1, <1>3 DEF Begin
  <2>2. /\ q2 \in Writer /\ q2.at = "copy1" /\ q2.samples = s /\ q2.head = ring.head
        /\ p.at = "idle"
    BY <1>1 DEF Writer, Steps, Ring, Index
  <2> HIDE DEF q2
  <2>3. Len(s) <= Free(ring.head, ring.tail)
    <3>1. Free(ring.head, ring.tail) \in Int /\ Len(s) \in Int
      BY <1>1 DEF Sizes, Free, Ring, Index
    <3> QED  BY <1>3, <3>1
  <2>4. Writing(ring, q2) /\ Line(ring, q2) = Line(ring, p) \o s
    BY <1>1, <2>2, <2>3, BeginLine DEF Sizes
  <2>5. /\ RingPart' /\ LineOf(r)' = Line(ring, q2)
        /\ \A q \in Rings : q # r => LineOf(q)' = LineOf(q)
    BY <1>1, <2>1, <2>2, <2>4, RingStep
  <2> QED  BY <2>1, <2>4, <2>5 DEF LineOf
<1> QED  BY <1>2, <1>3

\* The lines, and what the invariant says of them.
LEMMA FlowFacts ==
    ASSUME Sizes, IInv
    PROVE  /\ RingPart /\ LineOf("playback") \in Seq(Nat) /\ LineOf("capture") \in Seq(Nat)
           /\ wire \in Seq(Seq(Nat)) /\ \A a \in 1 .. Len(wire) : Len(wire[a]) = CHUNK
           /\ recorded \in Nat /\ heard \in Nat
           /\ Flow(LineOf("playback"), wire, LineOf("capture"), heard, recorded, lost)
           /\ "playback" \in Rings /\ "capture" \in Rings /\ "playback" # "capture"
<1>1. ASSUME NEW r \in Rings PROVE LineOf(r) \in Seq(Nat)
  <2>1. rings[r] \in Ring /\ producer[r] \in Writer
    BY DEF IInv, RingPart
  <2> QED  BY <2>1, LineFacts DEF Sizes, LineOf
<1>2. "playback" \in Rings /\ "capture" \in Rings /\ "playback" # "capture"
  BY DEF Rings
<1> QED  BY <1>1, <1>2 DEF IInv, FlowPart

LEMMA CaptureStep ==
    ASSUME Sizes, IInv, CaptureCallback
    PROVE  IInv'
<1> DEFINE p == LineOf("playback")
           c == LineOf("capture")
<1>1. /\ RingPart /\ p \in Seq(Nat) /\ c \in Seq(Nat) /\ wire \in Seq(Seq(Nat))
      /\ \A a \in 1 .. Len(wire) : Len(wire[a]) = CHUNK
      /\ recorded \in Nat /\ heard \in Nat /\ Flow(p, wire, c, heard, recorded, lost)
      /\ "playback" \in Rings /\ "capture" \in Rings /\ "playback" # "capture"
  BY FlowFacts
<1>2. UNCHANGED <<rings, consumer, speaking, wire, heard>> /\ producer["capture"].at = "idle"
  BY DEF CaptureCallback
<1>3. PICK n \in Frames :
        /\ recorded' = recorded + n
        /\ IF speaking["capture"] THEN Begin("capture", [k \in 1 .. n |-> recorded + k])
           ELSE UNCHANGED producer /\ lost' = lost \cup (recorded + 1) .. (recorded + n)
  BY DEF CaptureCallback
<1> DEFINE s == [k \in 1 .. n |-> recorded + k]
<1>4. n \in Nat /\ n > 0
  BY DEF Sizes
<1>5. s \in Seq(Nat) /\ Len(s) = n /\ \A i \in 1 .. n : s[i] = recorded + i
  BY <1>1, <1>4
<1>6. recorded' \in Nat
  BY <1>1, <1>3, <1>4
<1>7. speaking["capture"] => Begin("capture", s)
  BY <1>3
<1> HIDE DEF s
<1>8. CASE speaking["capture"]
  <2>1. /\ RingPart' /\ p' = p
        /\ \/ c' = c \o s /\ lost' = lost
           \/ c' = c /\ lost' = lost \cup ASet(s)
    BY <1>1, <1>2, <1>4, <1>5, <1>7, <1>8, BeginStep
  <2> HIDE DEF p, c
  <2>2. CASE c' = c \o s /\ lost' = lost
    <3>1. Flow(p, wire, c \o s, heard, recorded + n, lost)
      BY <1>1, <1>4, <1>5, FlowRecord
    <3> QED  BY <1>1, <1>2, <1>3, <1>6, <2>1, <2>2, <3>1 DEF IInv, FlowPart, p, c
  <2>3. CASE c' = c /\ lost' = lost \cup ASet(s)
    <3>1. ASSUME NEW i \in 1 .. n PROVE recorded + i \in lost'
      <4>1. s[i] \in ASet(s)
        BY <1>5 DEF ASet, ToSet
      <4> QED  BY <1>5, <2>3, <4>1
    <3>2. lost \subseteq lost'
      BY <2>3
    <3>3. Flow(p, wire, c, heard, recorded + n, lost')
      BY <1>1, <1>4, <3>1, <3>2, FlowLose
    <3> QED  BY <1>1, <1>2, <1>3, <1>6, <2>1, <2>3, <3>3 DEF IInv, FlowPart, p, c
  <2> QED  BY <2>1, <2>2, <2>3
<1>9. CASE ~speaking["capture"]
  <2>1. producer' = producer /\ lost' = lost \cup (recorded + 1) .. (recorded + n)
    BY <1>3, <1>9
  <2>2. RingPart' /\ p' = p /\ c' = c
    BY <1>1, <1>2, <2>1 DEF RingPart, LineOf
  <2> HIDE DEF p, c
  <2>3. ASSUME NEW i \in 1 .. n PROVE recorded + i \in lost'
    BY <1>1, <1>4, <2>1
  <2>4. lost \subseteq lost'
    BY <2>1
  <2>5. Flow(p, wire, c, heard, recorded + n, lost')
    BY <1>1, <1>4, <2>3, <2>4, FlowLose
  <2> QED  BY <1>1, <1>2, <1>3, <1>6, <2>2, <2>5 DEF IInv, FlowPart, p, c
<1> QED  BY <1>8, <1>9

LEMMA PlaybackStep ==
    ASSUME Sizes, IInv, ProcessPlayback
    PROVE  IInv'
<1> DEFINE p == LineOf("playback")
           c == LineOf("capture")
           s == Head(wire)
<1>1. /\ RingPart /\ p \in Seq(Nat) /\ c \in Seq(Nat) /\ wire \in Seq(Seq(Nat))
      /\ \A a \in 1 .. Len(wire) : Len(wire[a]) = CHUNK
      /\ recorded \in Nat /\ heard \in Nat /\ Flow(p, wire, c, heard, recorded, lost)
      /\ "playback" \in Rings /\ "capture" \in Rings /\ "playback" # "capture"
  BY FlowFacts
<1>2. /\ UNCHANGED <<rings, consumer, speaking, recorded, heard>>
      /\ producer["playback"].at = "idle" /\ wire # << >> /\ wire' = Tail(wire)
      /\ IF speaking["playback"] THEN Begin("playback", s)
         ELSE UNCHANGED producer /\ lost' = lost \cup ASet(s)
  BY DEF ProcessPlayback
<1>3. /\ s \in Seq(Nat) /\ Len(s) = CHUNK /\ Len(s) > 0 /\ wire' \in Seq(Seq(Nat))
      /\ \A a \in 1 .. Len(wire') : Len(wire'[a]) = CHUNK
  <2>1. /\ s = wire[1] /\ wire[1] \in Seq(Nat) /\ 1 \in 1 .. Len(wire)
        /\ wire' \in Seq(Seq(Nat))
        /\ \A a \in 1 .. Len(wire') : wire'[a] = wire[a + 1] /\ a + 1 \in 1 .. Len(wire)
    BY <1>1, <1>2, TailFacts
  <2>2. Len(wire[1]) = CHUNK /\ CHUNK > 0
    BY <1>1, <2>1 DEF Sizes
  <2>3. s \in Seq(Nat) /\ Len(s) = CHUNK /\ Len(s) > 0
    BY ONLY <2>1, <2>2
  <2>4. \A a \in 1 .. Len(wire') : Len(wire'[a]) = CHUNK
    BY ONLY <1>1, <2>1
  <2> QED  BY ONLY <2>1, <2>3, <2>4
<1> HIDE DEF s
<1>4. ASSUME lost \cup ASet(s) \subseteq lost' PROVE Flow(p, wire', c, heard, recorded, lost')
  <2>1. \A i \in 1 .. Len(Head(wire)) : Head(wire)[i] \in lost'
    BY <1>3, <1>4 DEF ASet, ToSet, s
  <2> QED  BY <1>1, <1>2, <1>4, <2>1, FlowDrop
<1>5. CASE speaking["playback"]
  <2>1. Begin("playback", s)
    BY <1>2, <1>5
  <2>2. /\ RingPart' /\ c' = c
        /\ \/ p' = p \o s /\ lost' = lost
           \/ p' = p /\ lost' = lost \cup ASet(s)
    BY <1>1, <1>2, <1>3, <1>5, <2>1, BeginStep
  <2> HIDE DEF p, c
  <2>3. CASE p' = p \o s /\ lost' = lost
    <3>1. Flow(p \o s, wire', c, heard, recorded, lost)
      BY <1>1, <1>2, FlowReceive DEF s
    <3> QED  BY <1>1, <1>2, <1>3, <2>2, <2>3, <3>1 DEF IInv, FlowPart, p, c
  <2>4. CASE p' = p /\ lost' = lost \cup ASet(s)
    BY <1>1, <1>2, <1>3, <1>4, <2>2, <2>4 DEF IInv, FlowPart, p, c
  <2> QED  BY <2>2, <2>3, <2>4
<1>6. CASE ~speaking["playback"]
  <2>1. producer' = producer /\ lost' = lost \cup ASet(s)
    BY <1>2, <1>6
  <2>2. RingPart' /\ p' = p /\ c' = c
    BY <1>1, <1>2, <2>1 DEF RingPart, LineOf
  <2> HIDE DEF p, c
  <2> QED  BY <1>1, <1>2, <1>3, <1>4, <2>1, <2>2 DEF IInv, FlowPart, p, c
<1> QED  BY <1>5, <1>6

\* The store of tail by the speaker's thread, and by the frame loop that has sent.
LEMMA HeardStep ==
    ASSUME Sizes, IInv, Heard
    PROVE  IInv'
<1> DEFINE ring == rings["playback"]
           p == producer["playback"]
           c == consumer["playback"]
           tail == TailOf(c)
           ring2 == AfterTake(ring, c)
           rest == Line(ring2, p)
           out == LineOf("capture")
<1>1. /\ RingPart /\ out \in Seq(Nat) /\ wire \in Seq(Seq(Nat))
      /\ \A a \in 1 .. Len(wire) : Len(wire[a]) = CHUNK
      /\ recorded \in Nat /\ heard \in Nat
      /\ Flow(Line(ring, p), wire, out, heard, recorded, lost)
      /\ "playback" \in Rings /\ "capture" \in Rings /\ "playback" # "capture"
  BY FlowFacts DEF LineOf
<1>2. /\ ring \in Ring /\ p \in Writer /\ c \in Reader /\ Writing(ring, p) /\ Reading(ring, c)
      /\ c.at = "store" /\ speaking["playback"] /\ producer \in [Rings -> Writer]
      /\ speaking' \in [Rings -> BOOLEAN] /\ UNCHANGED <<speaking, wire, recorded, lost>>
  BY <1>1 DEF RingPart, Heard
<1>3. /\ rings' = [rings EXCEPT !["playback"] = ring2]
      /\ producer' = [producer EXCEPT !["playback"] = p]
      /\ consumer' = [consumer EXCEPT !["playback"] = NotReading]
      /\ heard' = c.got[Len(c.got)]
  BY <1>1, <1>2 DEF Heard, Taken, Last, AfterTake, TailOf
<1>4. /\ ring2 \in Ring /\ Writing(ring2, p)
      /\ c.got \in Seq(Nat) /\ Len(c.got) > 0
      /\ Line(ring, p) = c.got \o rest
  <2>1. /\ ring2 \in Ring /\ Writing(ring2, p) /\ tail \in Index
        /\ c.got \in Seq(Nat) /\ Len(c.got) = c.n /\ c.n > 0
        /\ Line(ring, p) = c.got \o Line(ring2, p)
    <3>1. SIZE \in Nat \ {0}
      BY DEF Sizes
    <3> HIDE DEF ring, p, c, ring2
    <3>2. /\ ring \in Ring /\ p \in Writer /\ c \in Reader /\ Writing(ring, p)
          /\ Reading(ring, c) /\ c.at = "store"
      BY <1>2
    <3> QED  BY ONLY <3>1, <3>2, TakeLine DEF ring2
  <2> QED  BY <2>1
<1>5. NotReading \in Reader /\ Reading(ring2, NotReading) /\ NotReading.at = "idle"
  BY DEF Sizes, NotReading, Reader, Steps, Index, Reading
<1> HIDE DEF ring2
<1>6. rest \in Seq(Nat)
  BY <1>2, <1>4, LineFacts DEF Sizes
<1>7. RingPart' /\ LineOf("playback")' = rest /\ out' = out
  BY <1>1, <1>2, <1>3, <1>4, <1>5, RingStep
<1> HIDE DEF rest, ring, p, c, out
<1>8. heard' \in Nat /\ Flow(rest, wire, out, heard', recorded, lost)
  BY <1>1, <1>3, <1>4, <1>6, FlowHear
<1> QED  BY <1>1, <1>2, <1>7, <1>8 DEF IInv, FlowPart, out

LEMMA SentStep ==
    ASSUME Sizes, IInv, Sent
    PROVE  IInv'
<1> DEFINE ring == rings["capture"]
           p == producer["capture"]
           c == consumer["capture"]
           tail == TailOf(c)
           ring2 == AfterTake(ring, c)
           more == GoesOn(c)
           c2 == IF Available(c.head, tail) >= CHUNK THEN more ELSE NotReading
           rest == Line(ring2, p)
           in == LineOf("playback")
<1>1. /\ RingPart /\ in \in Seq(Nat) /\ wire \in Seq(Seq(Nat))
      /\ \A a \in 1 .. Len(wire) : Len(wire[a]) = CHUNK
      /\ recorded \in Nat /\ heard \in Nat
      /\ Flow(in, wire, Line(ring, p), heard, recorded, lost)
      /\ "playback" \in Rings /\ "capture" \in Rings /\ "playback" # "capture"
  BY FlowFacts DEF LineOf
<1>2. /\ ring \in Ring /\ p \in Writer /\ c \in Reader /\ Writing(ring, p) /\ Reading(ring, c)
      /\ c.at = "store" /\ speaking["capture"] /\ producer \in [Rings -> Writer] /\ c.n = CHUNK
      /\ speaking' \in [Rings -> BOOLEAN] /\ UNCHANGED <<speaking, recorded, lost, heard>>
  BY <1>1 DEF RingPart, Sent
<1>3. /\ rings' = [rings EXCEPT !["capture"] = ring2]
      /\ producer' = [producer EXCEPT !["capture"] = p]
      /\ consumer' = [consumer EXCEPT !["capture"] = c2]
      /\ wire' = Append(wire, c.got)
  BY <1>1, <1>2 DEF Sent, Taken, AfterTake, GoesOn, TailOf
<1>4. /\ ring2 \in Ring /\ Writing(ring2, p) /\ tail \in Index
      /\ c.got \in Seq(Nat) /\ Len(c.got) = CHUNK
      /\ Line(ring, p) = c.got \o rest
      /\ Available(c.head, tail) >= CHUNK => Reading(ring2, more)
  <2>1. /\ ring2 \in Ring /\ Writing(ring2, p) /\ tail \in Index
        /\ c.got \in Seq(Nat) /\ Len(c.got) = c.n /\ c.n > 0
        /\ Line(ring, p) = c.got \o Line(ring2, p)
        /\ Available(c.head, tail) >= c.n
              => Reading(ring2, more)
    <3>1. SIZE \in Nat \ {0}
      BY DEF Sizes
    <3> HIDE DEF ring, p, c, ring2
    <3>2. /\ ring \in Ring /\ p \in Writer /\ c \in Reader /\ Writing(ring, p)
          /\ Reading(ring, c) /\ c.at = "store"
      BY <1>2
    <3> QED  BY ONLY <3>1, <3>2, TakeLine DEF ring2
  <2> QED  BY <1>2, <2>1
<1>5. NotReading \in Reader /\ Reading(ring2, NotReading) /\ NotReading.at = "idle"
  BY DEF Sizes, NotReading, Reader, Steps, Index, Reading
<1>6. more \in Reader /\ more.n = CHUNK
  BY <1>2, <1>4 DEF Reader, Steps, GoesOn
<1>7. c2 \in Reader /\ Reading(ring2, c2) /\ (c2.at # "idle" => c2.n = CHUNK)
  <2> HIDE DEF ring2, more, tail
  <2> QED  BY <1>4, <1>5, <1>6
<1> HIDE DEF ring2, c2, more
<1>8. rest \in Seq(Nat)
  BY <1>2, <1>4, LineFacts DEF Sizes
<1>9. RingPart' /\ LineOf("capture")' = rest /\ in' = in
  <2> DEFINE r == "capture"
  <2> HIDE DEF ring, p, rest, in
  <2>1. /\ RingPart /\ r \in Rings /\ ring2 \in Ring /\ p \in Writer /\ c2 \in Reader
        /\ rings' = [rings EXCEPT ![r] = ring2] /\ producer' = [producer EXCEPT ![r] = p]
        /\ consumer' = [consumer EXCEPT ![r] = c2] /\ speaking' \in [Rings -> BOOLEAN]
        /\ \A q \in Rings : q # r => speaking'[q] = speaking[q]
        /\ Writing(ring2, p) /\ Reading(ring2, c2)
        /\ ~speaking'[r] => p.at = "idle" /\ c2.at = "idle"
        /\ r = "capture" /\ c2.at # "idle" => c2.n = CHUNK
    BY <1>1, <1>2, <1>3, <1>4, <1>7
  <2> HIDE DEF r
  <2>2. /\ RingPart' /\ LineOf(r)' = Line(ring2, p)
        /\ \A q \in Rings : q # r => LineOf(q)' = LineOf(q)
    BY ONLY <2>1, RingStep
  <2> QED  BY <1>1, <2>2 DEF r, rest, in
<1> HIDE DEF rest, ring, p, c, in, tail
<1>10. Flow(in, wire', rest, heard, recorded, lost)
  BY <1>1, <1>3, <1>4, <1>8, FlowSend
<1>11. wire' \in Seq(Seq(Nat)) /\ \A a \in 1 .. Len(wire') : Len(wire'[a]) = CHUNK
  <2>1. /\ wire' \in Seq(Seq(Nat)) /\ Len(wire') = Len(wire) + 1
        /\ \A a \in 1 .. Len(wire) : wire'[a] = wire[a]
        /\ wire'[Len(wire) + 1] = c.got
    BY <1>1, <1>3, <1>4
  <2>2. \A a \in 1 .. Len(wire') : a \in 1 .. Len(wire) \/ a = Len(wire) + 1
    BY <1>1, <2>1
  <2> QED  BY <1>1, <1>4, <2>1, <2>2
<1> QED  BY <1>1, <1>2, <1>9, <1>10, <1>11 DEF IInv, FlowPart, in

LEMMA DisableStep ==
    ASSUME Sizes, IInv, NEW r \in Rings, DisableVoice(r)
    PROVE  IInv'
<1>1. /\ producer[r].at = "idle" /\ consumer[r].at = "idle"
      /\ speaking' = [speaking EXCEPT ![r] = FALSE]
      /\ UNCHANGED <<rings, producer, consumer, wire, recorded, lost, heard>>
  BY DEF DisableVoice
<1>2. RingPart /\ FlowPart
  BY DEF IInv
<1>3. RingPart'
  BY <1>1, <1>2 DEF RingPart
<1>4. FlowPart'
  BY <1>1, <1>2 DEF FlowPart, LineOf
<1> QED  BY <1>3, <1>4 DEF IInv

\* Who is not filling a ring has nothing on its line that Inside does not name.
LEMMA InsideFacts ==
    ASSUME Sizes, NEW r \in Rings, rings[r] \in Ring, producer[r] \in Writer
    PROVE  \A i \in 1 .. Len(LineOf(r)) : \/ LineOf(r)[i] \in Inside(r)
                                          \/ LineOf(r)[i] \in ASet(producer[r].samples)
<1> DEFINE ring == rings[r]
           p == producer[r]
           a == Held(ring)
<1>1. /\ a \in Index /\ a \in Nat /\ Len(p.samples) \in Nat
      /\ Len(LineOf(r)) = a + Len(p.samples)
      /\ \A k \in 1 .. a : LineOf(r)[k] = ring.data[Slot(ring.tail, k - 1)]
      /\ \A k \in 1 .. Len(p.samples) : LineOf(r)[a + k] = p.samples[k]
  BY LineFacts DEF Sizes, LineOf
<1>2. ring.tail \in Index
  BY DEF Ring
<1>3. Inside(r) = {ring.data[(ring.tail + k) % SIZE] : k \in 0 .. a - 1}
  BY DEF Inside, Held
<1> HIDE DEF ring, a, p
<1>4. ASSUME NEW i \in 1 .. a PROVE LineOf(r)[i] \in Inside(r)
  <2>1. i - 1 \in 0 .. a - 1 /\ i - 1 \in Index
    <3>1. i \in Nat /\ 1 <= i /\ i <= a /\ SIZE \in Nat
      BY <1>1 DEF Sizes
    <3> QED  BY ONLY <1>1, <3>1 DEF Index
  <2>2. (ring.tail + (i - 1)) % SIZE = Slot(ring.tail, i - 1)
    BY <1>2, <2>1, SlotFacts DEF Sizes
  <2>3. ring.data[(ring.tail + (i - 1)) % SIZE] \in Inside(r)
    BY <1>3, <2>1
  <2> QED  BY <1>1, <2>2, <2>3
<1>5. ASSUME NEW j \in 1 .. Len(p.samples)
      PROVE  LineOf(r)[a + j] \in ASet(p.samples)
  BY <1>1 DEF ASet, ToSet
<1>6. ASSUME NEW i \in 1 .. Len(LineOf(r))
      PROVE  LineOf(r)[i] \in Inside(r) \/ LineOf(r)[i] \in ASet(p.samples)
  <2>1. i \in 1 .. a \/ \E j \in 1 .. Len(p.samples) : i = a + j
    BY <1>1, PlaceIn
  <2> QED  BY <1>4, <1>5, <2>1
<1> QED  BY <1>6 DEF p

\* A ring that is cleared holds nothing.
LEMMA EnableStep ==
    ASSUME Sizes, IInv, NEW r \in Rings, EnableVoice(r)
    PROVE  IInv'
<1> DEFINE ring == rings[r]
           p == producer[r]
           c == consumer[r]
           ring2 == [ring EXCEPT !.head = 0, !.tail = 0]
           in == LineOf("playback")
           out == LineOf("capture")
<1>1. /\ RingPart /\ in \in Seq(Nat) /\ out \in Seq(Nat) /\ wire \in Seq(Seq(Nat))
      /\ \A a \in 1 .. Len(wire) : Len(wire[a]) = CHUNK
      /\ recorded \in Nat /\ heard \in Nat /\ Flow(in, wire, out, heard, recorded, lost)
      /\ "playback" \in Rings /\ "capture" \in Rings /\ "playback" # "capture"
  BY FlowFacts
<1>2. /\ ring \in Ring /\ p \in Writer /\ c \in Reader /\ Writing(ring, p)
      /\ ~speaking[r] /\ p.at = "idle" /\ c.at = "idle" /\ p.samples = << >>
      /\ producer \in [Rings -> Writer] /\ consumer \in [Rings -> Reader]
      /\ rings \in [Rings -> Ring] /\ speaking \in [Rings -> BOOLEAN]
  BY <1>1 DEF RingPart, EnableVoice, Writing
<1>3. /\ rings' = [rings EXCEPT ![r] = ring2] /\ producer' = [producer EXCEPT ![r] = p]
      /\ consumer' = [consumer EXCEPT ![r] = c]
      /\ speaking' = [speaking EXCEPT ![r] = TRUE]
      /\ lost' = lost \cup Inside(r) /\ UNCHANGED <<wire, recorded, heard>>
  BY <1>2 DEF EnableVoice
<1>4. ring2 \in Ring /\ Held(ring2) = 0
  <2>1. 0 \in Index
    BY DEF Sizes, Index
  <2>2. ring2 \in Ring /\ ring2.head = 0 /\ ring2.tail = 0
    BY <1>2, <2>1 DEF Ring
  <2> HIDE DEF ring2
  <2> QED  BY <2>2 DEF Held, Available
<1>5. Writing(ring2, p) /\ Reading(ring2, c)
  BY <1>2 DEF Writing, Reading, Copied
<1>6. Line(ring2, p) = << >>
  <2>1. Len(p.samples) = 0
    BY <1>2
  <2>2. Line(ring2, p) \in Seq(Nat) /\ Len(Line(ring2, p)) = Held(ring2) + Len(p.samples)
    BY <1>2, <1>4, LineFacts DEF Sizes
  <2> HIDE DEF ring2, p
  <2> QED  BY <1>4, <2>1, <2>2
<1>7. \A i \in 1 .. Len(LineOf(r)) : LineOf(r)[i] \in lost'
  <2>1. ASet(p.samples) = {}
    BY <1>2 DEF ASet, ToSet
  <2>2. \A i \in 1 .. Len(LineOf(r)) : \/ LineOf(r)[i] \in Inside(r)
                                       \/ LineOf(r)[i] \in ASet(p.samples)
    BY <1>2, InsideFacts
  <2> QED  BY <1>3, <2>1, <2>2
<1> HIDE DEF ring2
<1>8. speaking' \in [Rings -> BOOLEAN] /\ \A q \in Rings : q # r => speaking'[q] = speaking[q]
  BY <1>2, <1>3
<1>9. /\ RingPart' /\ LineOf(r)' = << >>
      /\ \A q \in Rings : q # r => LineOf(q)' = LineOf(q)
  <2> HIDE DEF ring, p, c, in, out
  <2>1. /\ RingPart /\ r \in Rings /\ ring2 \in Ring /\ p \in Writer /\ c \in Reader
        /\ rings' = [rings EXCEPT ![r] = ring2] /\ producer' = [producer EXCEPT ![r] = p]
        /\ consumer' = [consumer EXCEPT ![r] = c] /\ speaking' \in [Rings -> BOOLEAN]
        /\ \A q \in Rings : q # r => speaking'[q] = speaking[q]
        /\ Writing(ring2, p) /\ Reading(ring2, c)
        /\ ~speaking'[r] => p.at = "idle" /\ c.at = "idle"
        /\ r = "capture" /\ c.at # "idle" => c.n = CHUNK
    BY <1>1, <1>2, <1>3, <1>4, <1>5, <1>8
  <2>2. /\ RingPart' /\ LineOf(r)' = Line(ring2, p)
        /\ \A q \in Rings : q # r => LineOf(q)' = LineOf(q)
    BY ONLY <2>1, RingStep
  <2> QED  BY <1>6, <2>2
<1>10. lost \subseteq lost'
  BY <1>3
<1> HIDE DEF ring, p, c, in, out
<1>11. CASE r = "playback"
  <2>1. in' = << >> /\ out' = out
    BY <1>1, <1>9, <1>11 DEF in, out
  <2>2. Flow(<< >>, wire, out, heard, recorded, lost')
    BY <1>1, <1>7, <1>10, <1>11, FlowClear DEF in
  <2> QED  BY <1>1, <1>3, <1>9, <2>1, <2>2 DEF IInv, FlowPart, in, out
<1>12. CASE r = "capture"
  <2>1. in' = in /\ out' = << >>
    BY <1>1, <1>9, <1>12 DEF in, out
  <2>2. Flow(in, wire, << >>, heard, recorded, lost')
    BY <1>1, <1>7, <1>10, <1>12, FlowClear DEF out
  <2> QED  BY <1>1, <1>3, <1>9, <2>1, <2>2 DEF IInv, FlowPart, in, out
<1> QED  BY <1>11, <1>12 DEF Rings

LEMMA InitEstablishes ==
    ASSUME Sizes, VoiceInit
    PROVE  IInv
<1> DEFINE ring0 == [data |-> [k \in 0 .. SIZE - 1 |-> 0], head |-> 0, tail |-> 0]
<1>1. /\ rings = [r \in Rings |-> ring0] /\ producer = [r \in Rings |-> Idle]
      /\ consumer = [r \in Rings |-> NotReading] /\ speaking = [r \in Rings |-> TRUE]
      /\ wire = << >> /\ recorded = 0 /\ heard = 0
  BY DEF VoiceInit
<1>2. ring0 \in Ring /\ Held(ring0) = 0
  <2>1. 0 \in Index
    BY DEF Sizes, Index
  <2>2. ring0 \in Ring /\ ring0.head = 0 /\ ring0.tail = 0
    BY <2>1 DEF Ring, Index
  <2> HIDE DEF ring0
  <2> QED  BY <2>2 DEF Held, Available
<1>3. Idle \in Writer /\ Idle.samples = << >> /\ Len(Idle.samples) = 0 /\ Idle.at = "idle"
  BY DEF Idle, Writer, Steps
<1>4. NotReading \in Reader /\ NotReading.at = "idle"
  BY DEF Sizes, NotReading, Reader, Steps, Index
<1> HIDE DEF ring0
<1>5. Writing(ring0, Idle) /\ Reading(ring0, NotReading)
  BY <1>3, <1>4 DEF Writing, Reading, Copied
<1>6. Line(ring0, Idle) = << >>
  <2>1. /\ Line(ring0, Idle) \in Seq(Nat)
        /\ Len(Line(ring0, Idle)) = Held(ring0) + Len(Idle.samples)
    BY <1>2, <1>3, LineFacts DEF Sizes
  <2> QED  BY <1>2, <1>3, <2>1
<1>7. \A r \in Rings : /\ rings[r] = ring0 /\ producer[r] = Idle /\ consumer[r] = NotReading
                       /\ speaking[r] = TRUE
  BY <1>1
<1>8. "playback" \in Rings /\ "capture" \in Rings
  BY DEF Rings
<1>9. RingPart
  BY <1>1, <1>2, <1>3, <1>4, <1>5, <1>7, <1>8 DEF RingPart
<1>10. LineOf("playback") = << >> /\ LineOf("capture") = << >>
  BY <1>6, <1>7, <1>8 DEF LineOf
<1>11. Flow(<< >>, << >>, << >>, 0, 0, lost)
  BY DEF Flow, Ordered, Accounted, Increasing, Before, Between, In
<1>12. FlowPart
  BY <1>1, <1>10, <1>11 DEF FlowPart
<1> QED  BY <1>9, <1>12 DEF IInv

LEMMA Preserved ==
    ASSUME Sizes, IInv, [VoiceNext]_voice
    PROVE  IInv'
<1>1. CASE CaptureCallback
  BY <1>1, CaptureStep
<1>2. CASE ProcessCapture
  <2>1. "capture" \in Rings /\ CHUNK \in Nat \ {0} /\ Look("capture", CHUNK)
    BY <1>2 DEF ProcessCapture, Sizes, Rings
  <2> QED  BY <2>1, LookStep
<1>3. CASE Sent
  BY <1>3, SentStep
<1>4. CASE ProcessPlayback
  BY <1>4, PlaybackStep
<1>5. CASE PlaybackCallback
  <2>1. PICK n \in Frames : Look("playback", n)
    BY <1>5 DEF PlaybackCallback
  <2>2. "playback" \in Rings /\ n \in Nat \ {0} /\ "playback" # "capture"
    BY DEF Sizes, Rings
  <2> QED  BY <2>1, <2>2, LookStep
<1>6. CASE Heard
  BY <1>6, HeardStep
<1>7. ASSUME NEW r \in Rings, Copy1(r) \/ Copy2(r) \/ Store(r) PROVE IInv'
  BY <1>7, Copy1Step, Copy2Step, StoreStep
<1>8. ASSUME NEW r \in Rings, Read1(r) \/ Read2(r) PROVE IInv'
  BY <1>8, Read1Step, Read2Step
<1>9. ASSUME NEW r \in Rings, DisableVoice(r) \/ EnableVoice(r) PROVE IInv'
  BY <1>9, DisableStep, EnableStep
<1>10. CASE UNCHANGED voice
  <2>1. UNCHANGED <<rings, producer, consumer, speaking, wire, recorded, lost, heard>>
    BY <1>10 DEF voice
  <2>2. RingPart' /\ FlowPart'
    BY <2>1 DEF IInv, RingPart, FlowPart, LineOf
  <2> QED  BY <2>2 DEF IInv
<1> QED  BY <1>1, <1>2, <1>3, <1>4, <1>5, <1>6, <1>7, <1>8, <1>9, <1>10 DEF VoiceNext

\* Each ring is one sequence of samples with the call that fills it, and all that is
\* on its way is in the order of the microphone: kt_voice.h
THEOREM Invariance ==
    ASSUME Sizes
    PROVE  VoiceSpec => []IInv
<1>1. VoiceInit => IInv
  BY InitEstablishes
<1>2. IInv /\ [VoiceNext]_voice => IInv'
  BY Preserved
<1> QED  BY <1>1, <1>2, PTL DEF VoiceSpec

-------------------------------------------------------------------------------
(* What the speaker is given *)

\* Who reads the beginning of the line after what has been heard misses what was lost,
\* and nothing else.
LEMMA FlowGaps ==
    ASSUME NEW p \in Seq(Nat), NEW w, NEW c, NEW h \in Nat, NEW n \in Nat, NEW l,
           Flow(p, w, c, h, n, l),
           NEW k \in 1 .. Len(p), NEW b \in Nat, IF k = 1 THEN b = h ELSE b = p[k - 1]
    PROVE  p[k] \in b + 1 .. n /\ b + 1 .. p[k] - 1 \subseteq l
<1>1. /\ Increasing(p) /\ Before(p, c) /\ Between(h, p, n)
      /\ \A a \in 1 .. Len(w) : Before(p, w[a])
  BY DEF Flow, Ordered
<1>2. /\ Len(p) \in Nat /\ \A i \in 1 .. Len(p) : p[i] \in Nat /\ h < p[i] /\ p[i] <= n
  BY <1>1 DEF Between
<1>3. /\ h <= b /\ b < p[k]
      /\ \A i \in 1 .. Len(p) : i < k => p[i] <= b
  <2>1. CASE k = 1
    BY <1>2, <2>1
  <2>2. CASE k # 1
    <3>1. k - 1 \in 1 .. Len(p) /\ k - 1 < k /\ b = p[k - 1]
      BY <1>2, <2>2
    <3>2. ASSUME NEW i \in 1 .. Len(p), i < k PROVE p[i] <= b
      <4>1. i < k - 1 \/ i = k - 1
        BY <3>2
      <4>2. i < k - 1 => p[i] < p[k - 1]
        BY <1>1, <3>1 DEF Increasing
      <4>3. p[i] \in Nat /\ p[k - 1] \in Nat
        BY <1>2, <3>1
      <4>4. p[i] <= p[k - 1]
        BY ONLY <4>1, <4>2, <4>3
      <4> QED  BY <3>1, <4>4
    <3>3. p[k - 1] < p[k]
      BY <1>1, <3>1 DEF Increasing
    <3>4. h < p[k - 1]
      BY <1>2, <3>1
    <3> QED  BY <1>2, <3>1, <3>2, <3>3, <3>4
  <2> QED  BY <2>1, <2>2
<1>4. p[k] \in b + 1 .. n
  BY <1>2, <1>3
<1>5. ASSUME NEW x \in b + 1 .. p[k] - 1 PROVE x \in l
  <2>1. x \in Nat /\ x \in 1 .. n /\ ~(x <= h) /\ b < x /\ x < p[k]
    BY <1>2, <1>3
  <2>2. \/ x \in l \/ In(x, p) \/ In(x, c) \/ \E a \in 1 .. Len(w) : In(x, w[a])
    BY <2>1 DEF Flow, Accounted
  <2>3. ~In(x, p)
    <3> SUFFICES ASSUME NEW i \in 1 .. Len(p), p[i] = x PROVE FALSE
      BY DEF In
    <3>1. i < k \/ i = k \/ k < i
      OBVIOUS
    <3>2. i < k => p[i] <= b
      BY <1>3
    <3>3. k < i => p[k] < p[i]
      BY <1>1 DEF Increasing
    <3> QED  BY <2>1, <3>1, <3>2, <3>3
  <2>4. ASSUME NEW s, Before(p, s) PROVE ~In(x, s)
    <3> SUFFICES ASSUME NEW i \in 1 .. Len(s), s[i] = x PROVE FALSE
      BY DEF In
    <3>1. p[k] < x
      BY <2>4 DEF Before
    <3> QED  BY <1>2, <2>1, <3>1
  <2> QED  BY <1>1, <2>2, <2>3, <2>4
<1> QED  BY <1>4, <1>5

LEMMA SaidFacts ==
    ASSUME NEW h \in Nat, NEW g \in Seq(Nat), NEW k \in 1 .. Len(g)
    PROVE  /\ (<<h>> \o g)[k + 1] = g[k]
           /\ (<<h>> \o g)[k] = IF k = 1 THEN h ELSE g[k - 1]
<1>1. <<h>> \in Seq(Nat) /\ Len(<<h>>) = 1 /\ <<h>>[1] = h
  OBVIOUS
<1>2. /\ \A i \in 1 .. 1 : (<<h>> \o g)[i] = <<h>>[i]
      /\ \A i \in 1 .. Len(g) : (<<h>> \o g)[1 + i] = g[i]
  BY <1>1, JoinFacts
<1>3. k = 1 \/ (k - 1 \in 1 .. Len(g) /\ 1 + (k - 1) = k)
  OBVIOUS
<1>4. 1 + k = k + 1
  OBVIOUS
<1> QED  BY <1>1, <1>2, <1>3, <1>4

LEMMA HearsFromIInv ==
    ASSUME Sizes, IInv
    PROVE  HearsWhatWasSaid
<1> DEFINE p == LineOf("playback")
           out == LineOf("capture")
           c == consumer["playback"]
           said == <<heard>> \o c.got
<1>1. /\ RingPart /\ p \in Seq(Nat) /\ out \in Seq(Nat) /\ wire \in Seq(Seq(Nat))
      /\ recorded \in Nat /\ heard \in Nat /\ Flow(p, wire, out, heard, recorded, lost)
      /\ "playback" \in Rings /\ "capture" \in Rings
  BY FlowFacts
<1>2. ASSUME NEW r \in Rings, NEW x, In(x, LineOf(r)) PROVE x \in OnItsWay
  <2>1. PICK i \in 1 .. Len(LineOf(r)) : LineOf(r)[i] = x
    BY <1>2 DEF In
  <2>2. rings[r] \in Ring /\ producer[r] \in Writer
    BY <1>1 DEF RingPart
  <2>3. x \in Inside(r) \/ x \in ASet(producer[r].samples)
    BY <2>1, <2>2, InsideFacts
  <2> QED  BY <2>3 DEF OnItsWay
<1>3. ASSUME NEW a \in 1 .. Len(wire), NEW x, In(x, wire[a]) PROVE x \in OnItsWay
  <2>1. x \in ASet(wire[a])
    BY <1>3 DEF In, ASet, ToSet
  <2> QED  BY <2>1 DEF OnItsWay
<1>4. 1 .. recorded \subseteq 1 .. heard \cup lost \cup OnItsWay
  <2> SUFFICES ASSUME NEW x \in 1 .. recorded
               PROVE  x \in 1 .. heard \/ x \in lost \/ x \in OnItsWay
    OBVIOUS
  <2>1. \/ x <= heard \/ x \in lost \/ In(x, p) \/ In(x, out)
        \/ \E a \in 1 .. Len(wire) : In(x, wire[a])
    BY <1>1 DEF Flow, Accounted
  <2>2. x <= heard => x \in 1 .. heard
    BY <1>1
  <2> QED  BY <1>1, <1>2, <1>3, <2>1, <2>2
<1>5. ASSUME c.at = "store", NEW k \in 1 .. Len(c.got)
      PROVE  said[k + 1] \in said[k] + 1 .. recorded /\ said[k] + 1 .. said[k + 1] - 1 \subseteq lost
  <2> DEFINE ring == rings["playback"]
             g == c.got
  <2>1. /\ ring \in Ring /\ producer["playback"] \in Writer /\ c \in Reader
        /\ Reading(ring, c) /\ c.at # "idle"
    BY <1>1, <1>5 DEF RingPart
  <2>2. /\ g \in Seq(Nat) /\ Len(g) = c.n
        /\ \A i \in 0 .. Len(g) - 1 : g[i + 1] = ring.data[Slot(ring.tail, i)]
    BY <1>5, <2>1 DEF Reading, Reader
  <2>3. c.n \in Nat /\ c.n <= Held(ring) /\ Held(ring) \in Nat
    <3>1. /\ c.n \in Nat /\ Held(ring) \in Nat /\ Available(c.head, ring.tail) \in Nat
          /\ c.n <= Available(c.head, ring.tail) /\ Available(c.head, ring.tail) <= Held(ring)
      BY <2>1, ReadingFacts DEF Sizes
    <3> QED  BY <3>1
  <2>4. /\ Len(p) = Held(ring) + Len(producer["playback"].samples)
        /\ Len(producer["playback"].samples) \in Nat
        /\ \A i \in 1 .. Held(ring) : p[i] = ring.data[Slot(ring.tail, i - 1)]
    BY <2>1, LineFacts DEF Sizes, LineOf
  <2> HIDE DEF p, c, ring, g, out
  <2>5. ASSUME NEW i \in 1 .. Len(g) PROVE i \in 1 .. Len(p) /\ p[i] = g[i]
    <3>1. i - 1 \in 0 .. Len(g) - 1 /\ (i - 1) + 1 = i /\ i \in 1 .. Held(ring)
          /\ i \in 1 .. Len(p)
      <4>1. i \in Nat /\ 1 <= i /\ i <= c.n /\ Len(g) = c.n
        BY <2>2, <2>3
      <4> QED  BY ONLY <2>3, <2>4, <4>1
    <3> QED  BY <2>2, <2>4, <3>1
  <2>6. k \in 1 .. Len(g)
    BY DEF g
  <2>7. said[k + 1] = g[k] /\ said[k] = IF k = 1 THEN heard ELSE g[k - 1]
    BY <1>1, <2>2, <2>6, SaidFacts DEF g
  <2>8. IF k = 1 THEN said[k] = heard ELSE said[k] = p[k - 1] /\ p[k - 1] \in Nat
    <3>1. k # 1 => k - 1 \in 1 .. Len(g)
      BY <2>2, <2>6
    <3>2. k # 1 => p[k - 1] = g[k - 1] /\ k - 1 \in 1 .. Len(p)
      BY <2>5, <3>1
    <3>3. k # 1 => p[k - 1] \in Nat
      BY <1>1, <3>2
    <3> QED  BY ONLY <2>7, <3>2, <3>3
  <2> HIDE DEF said
  <2>9. said[k] \in Nat /\ (IF k = 1 THEN said[k] = heard ELSE said[k] = p[k - 1])
    BY <1>1, <2>8
  <2>10. p[k] \in said[k] + 1 .. recorded /\ said[k] + 1 .. p[k] - 1 \subseteq lost
    BY <1>1, <2>5, <2>6, <2>9, FlowGaps
  <2> QED  BY <2>5, <2>6, <2>7, <2>10
<1> QED  BY <1>4, <1>5 DEF HearsWhatWasSaid

\* Every sample recorded is on its way, has been heard or was dropped whole, and the
\* speaker is given what was recorded in order, with gaps only where it was dropped
\* (KTerm_Voice_CaptureCallback, KTerm_Voice_PlaybackCallback, KTerm_Voice_ProcessCapture,
\* KTerm_Voice_ProcessPlayback, KTerm_Voice_Enable): for any size of the rings and of a
\* packet, and any number of samples that an audio thread is about.
THEOREM HearsWhatWasSaidTheorem ==
    ASSUME Sizes
    PROVE  VoiceSpec => []HearsWhatWasSaid
<1>1. IInv => HearsWhatWasSaid
  BY HearsFromIInv
<1>2. VoiceSpec => []IInv
  BY Invariance
<1> QED  BY <1>1, <1>2, PTL

===============================================================================
