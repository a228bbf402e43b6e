--------------------------- MODULE DiagnosticsProofs ---------------------------
(***************************************************************************)
(* The two parts of kt_net.h that diagnose a network.  A packet capture:   *)
(* without a packet count, on a device that does not fail, its thread never *)
(* outlives what it uses and packetdiag_detail answers with the packet     *)
(* asked for, for every ring, every output buffer, every number of captures *)
(* and of packets.  The diagnostic jobs: whatever the application starts    *)
(* from its callbacks and whatever the network answers, no context is used  *)
(* or freed after it was freed and every open descriptor has an owner, for  *)
(* every number of contexts, descriptors, streams, hops and ports.          *)
(***************************************************************************)
EXTENDS PacketCapture, NetJobs, WellFoundedInduction, TLAPS

-------------------------------------------------------------------------------
(* The packet capture *)

\* The sizes are those of arrays; the bounds only keep TLC's instance finite.
Sizes ==
    /\ RING \in Nat \ {0} /\ OUT_SIZE \in Nat \ {0}
    /\ FLOW_MAX \in Nat /\ MAX_STARTS \in Nat /\ MAX_PACKETS \in Nat

\* pcap_loop ends by pcap_breakloop only: then every thread is waited for.
EndlessCapture == Counts \subseteq {0} /\ DeviceFails = FALSE

-------------------------------------------------------------------------------
(* The inductive invariant *)

Context ==
    [life : {"none", "live", "freed"}, handle : {"none", "open", "closed"},
     mutex : {"none", "live", "destroyed"}, running : BOOLEAN,
     paused : BOOLEAN, count : {0}, captured : Nat, breaks : BOOLEAN,
     ring : [0 .. RING - 1 -> Nat], head : 0 .. RING - 1, total : Nat,
     trigger : BOOLEAN, flows : Seq(Flows), follow : Nat,
     buf_head : 0 .. OUT_SIZE - 1, buf_tail : 0 .. OUT_SIZE - 1]

ThreadState ==
    [at : {"off", "loop", "ended", "notify", "exited"}]
        \cup [at : {"store", "fragment", "stats", "stream", "write"}, packet : Packet]

MainState ==
    [at : {"idle", "free", "start"}] \cup [at : {"join"}, then : {"idle", "free", "start"}]

TypeOK ==
    /\ packetdiag \in Ctx \cup {None}
    /\ ctx \in [Ctx -> Context]
    /\ thread \in [Ctx -> ThreadState]
    /\ main \in MainState
    /\ probe \in BOOLEAN
    /\ arrived \in 0 .. MAX_PACKETS
    /\ seen \in [Ctx -> Seq(Nat)]

\* A thread that runs has its context linked and whole.
HeldAt(c, x, t, p) ==
    t.at \notin {"off", "exited"} =>
        /\ c = p
        /\ x.life = "live" /\ x.mutex = "live" /\ x.handle = "open"
        /\ t.at # "notify" => x.running
Held == \A c \in Ctx : HeldAt(c, ctx[c], thread[c], packetdiag)

\* A thread ends because the logic thread waits for it, and what follows the
\* wait finds no thread.
WaitedAt(x, t, m) ==
    /\ t.at \in {"ended", "notify"} => m = "join"
    /\ t.at \notin {"off", "exited"} =>
          /\ x.breaks => m = "join"
          /\ m \notin {"free", "start"}
Waited ==
    /\ \A c \in Ctx : WaitedAt(ctx[c], thread[c], main.at)
    /\ main.at \in {"join", "free"} => packetdiag # None

\* A context that was never allocated is blank.
BlankAt(x, t, s) ==
    x.life = "none" =>
        x.total = 0 /\ ~x.breaks /\ ~x.running /\ t.at = "off" /\ s = << >>
Blank == \A c \in Ctx : BlankAt(ctx[c], thread[c], seen[c])

\* The slot k places behind the head.
Back(h, k) == IF k <= h THEN h - k ELSE h - k + RING

\* The packet that the thread is about to store is the last one seen; all before
\* it are stored, and the last RING of them are behind the head, newest first.
RememberedAt(x, t, s) ==
    /\ IF t.at = "store" THEN Len(s) = x.total + 1 /\ s[x.total + 1] = t.packet.id
                         ELSE Len(s) = x.total
    /\ \A k \in 1 .. RING :
          k <= x.total => x.ring[Back(x.head, k)] = s[x.total - k + 1]
Remembered == \A c \in Ctx : RememberedAt(ctx[c], thread[c], seen[c])

IInv == TypeOK /\ Held /\ Waited /\ Blank /\ Remembered

-------------------------------------------------------------------------------
(* Ring arithmetic *)

\* The index behind the head is the one the code computes with a modulus.
LEMMA BackIsModulus ==
    ASSUME Sizes, NEW h \in 0 .. RING - 1, NEW k \in 1 .. RING
    PROVE  (h - k) % RING = Back(h, k) /\ Back(h, k) \in 0 .. RING - 1
<1>1. RING \in Nat /\ RING > 0
  BY DEF Sizes
<1>2. CASE k <= h
  BY <1>1, <1>2 DEF Back
<1>3. CASE k > h
  <2>1. h - k = (h - k + RING) - RING /\ h - k + RING \in 0 .. RING - 1
    BY <1>1, <1>3
  <2>2. (h - k) % RING = h - k + RING
    BY <1>1, <2>1
  <2> QED  BY <1>1, <1>3, <2>1, <2>2 DEF Back
<1> QED  BY <1>1, <1>2, <1>3

\* A step of the head puts the slot it leaves one place behind it, and the
\* others one place further.
LEMMA HeadSteps ==
    ASSUME Sizes, NEW h \in 0 .. RING - 1
    PROVE  LET g == (h + 1) % RING
           IN  /\ g \in 0 .. RING - 1
               /\ Back(g, 1) = h
               /\ \A k \in 2 .. RING : Back(g, k) = Back(h, k - 1) /\ Back(h, k - 1) # h
<1>1. RING \in Nat /\ RING > 0
  BY DEF Sizes
<1>2. CASE h + 1 = RING
  <2>1. (h + 1) % RING = 0
    BY <1>1, <1>2
  <2> QED  BY <1>1, <1>2, <2>1 DEF Back
<1>3. CASE h + 1 < RING
  <2>1. (h + 1) % RING = h + 1
    BY <1>1, <1>3
  <2> QED  BY <1>1, <1>3, <2>1 DEF Back
<1> QED  BY <1>1, <1>2, <1>3

\* Output touches the indices of the output ring only.
LEMMA WriteFacts ==
    ASSUME Sizes, NEW c \in Context
    PROVE  \E h, t \in 0 .. OUT_SIZE - 1 :
              WriteToBuffer(c) = [c EXCEPT !.buf_head = h, !.buf_tail = t]
<1>1. ASSUME NEW d \in Context
      PROVE  \E h, t \in 0 .. OUT_SIZE - 1 :
                Put(d) = [d EXCEPT !.buf_head = h, !.buf_tail = t]
  <2> DEFINE h == (d.buf_head + 1) % OUT_SIZE
             t == IF h = d.buf_tail THEN (d.buf_tail + 1) % OUT_SIZE ELSE d.buf_tail
  <2>1. d.buf_head \in Int /\ d.buf_tail \in 0 .. OUT_SIZE - 1 /\ OUT_SIZE \in Nat \ {0}
    BY DEF Context, Sizes
  <2>2. h \in 0 .. OUT_SIZE - 1 /\ t \in 0 .. OUT_SIZE - 1
    BY <2>1
  <2>3. Put(d) = [d EXCEPT !.buf_head = h, !.buf_tail = t]
    BY DEF Put, Context
  <2> QED  BY <2>2, <2>3
<1>2. PICK h1, t1 \in 0 .. OUT_SIZE - 1 :
            Put(c) = [c EXCEPT !.buf_head = h1, !.buf_tail = t1]
  BY <1>1
<1>3. Put(c) \in Context
  BY <1>2 DEF Context
<1>4. PICK h2, t2 \in 0 .. OUT_SIZE - 1 :
            WriteToBuffer(c) = [Put(c) EXCEPT !.buf_head = h2, !.buf_tail = t2]
  BY <1>1, <1>3 DEF WriteToBuffer
<1>5. WriteToBuffer(c) = [c EXCEPT !.buf_head = h2, !.buf_tail = t2]
  BY <1>2, <1>4 DEF Context
<1> QED  BY <1>5

-------------------------------------------------------------------------------
(* The capture thread *)

\* What TypeOK says of one context.
LEMMA StateFacts ==
    ASSUME TypeOK, NEW c \in Ctx
    PROVE  ctx[c] \in Context /\ thread[c] \in ThreadState /\ seen[c] \in Seq(Nat)
BY DEF TypeOK

LEMMA ContextFacts ==
    ASSUME NEW x \in Context
    PROVE  /\ x.total \in Nat /\ x.head \in 0 .. RING - 1
           /\ x.ring \in [0 .. RING - 1 -> Nat] /\ x.captured \in Nat
           /\ x.count = 0
BY DEF Context

\* A step that touches one context keeps the invariant if it keeps what the
\* invariant says of that context, and of the others under a new packetdiag and
\* a new place of the logic thread.
LEMMA OneContext ==
    ASSUME IInv, NEW c \in Ctx,
           NEW x \in Context, NEW t \in ThreadState, NEW s \in Seq(Nat),
           ctx' = [ctx EXCEPT ![c] = x], thread' = [thread EXCEPT ![c] = t],
           seen' = [seen EXCEPT ![c] = s],
           packetdiag' \in Ctx \cup {None}, main' \in MainState,
           probe' \in BOOLEAN, arrived' \in 0 .. MAX_PACKETS,
           main'.at \in {"join", "free"} => packetdiag' # None,
           HeldAt(c, x, t, packetdiag'), WaitedAt(x, t, main'.at),
           BlankAt(x, t, s), RememberedAt(x, t, s),
           \A d \in Ctx \ {c} : /\ HeldAt(d, ctx[d], thread[d], packetdiag')
                                /\ WaitedAt(ctx[d], thread[d], main'.at)
    PROVE  IInv'
<1>1. TypeOK'
  BY DEF IInv, TypeOK
<1>2. \A d \in Ctx : /\ ctx'[d] = IF d = c THEN x ELSE ctx[d]
                     /\ thread'[d] = IF d = c THEN t ELSE thread[d]
                     /\ seen'[d] = IF d = c THEN s ELSE seen[d]
  BY DEF IInv, TypeOK
<1>3. \A d \in Ctx : /\ HeldAt(d, ctx'[d], thread'[d], packetdiag')
                     /\ WaitedAt(ctx'[d], thread'[d], main'.at)
                     /\ BlankAt(ctx'[d], thread'[d], seen'[d])
                     /\ RememberedAt(ctx'[d], thread'[d], seen'[d])
  BY <1>2 DEF IInv, Blank, Remembered
<1> QED  BY <1>1, <1>3 DEF IInv, Held, Waited, Blank, Remembered

\* The same of a step of the capture thread, which leaves the logic thread where
\* it is.
LEMMA ThreadStep ==
    ASSUME IInv, NEW c \in Ctx,
           NEW x \in Context, NEW t \in ThreadState, NEW s \in Seq(Nat),
           ctx' = [ctx EXCEPT ![c] = x], thread' = [thread EXCEPT ![c] = t],
           seen' = [seen EXCEPT ![c] = s],
           UNCHANGED <<packetdiag, main, probe>>, arrived' \in 0 .. MAX_PACKETS,
           HeldAt(c, x, t, packetdiag), WaitedAt(x, t, main.at),
           BlankAt(x, t, s), RememberedAt(x, t, s)
    PROVE  IInv'
<1>1. \A d \in Ctx \ {c} : /\ HeldAt(d, ctx[d], thread[d], packetdiag')
                           /\ WaitedAt(ctx[d], thread[d], main'.at)
  BY DEF IInv, Held, Waited
<1>2. /\ packetdiag' \in Ctx \cup {None} /\ main' \in MainState
      /\ probe' \in BOOLEAN
      /\ main'.at \in {"join", "free"} => packetdiag' # None
      /\ HeldAt(c, x, t, packetdiag') /\ WaitedAt(x, t, main'.at)
  BY DEF IInv, TypeOK, Waited
<1> QED  BY <1>1, <1>2, OneContext

\* Two contexts that differ in nothing the invariant speaks of.
Same(x, y) ==
    /\ y.life = x.life /\ y.mutex = x.mutex /\ y.handle = x.handle
    /\ y.running = x.running /\ y.breaks = x.breaks
    /\ y.total = x.total /\ y.head = x.head /\ y.ring = x.ring

\* The updates of a context that leave those fields alone.
LEMMA SameFacts ==
    ASSUME Sizes, NEW x \in Context
    PROVE  /\ \A n \in Nat : LET y == [x EXCEPT !.captured = n]
                             IN  y \in Context /\ Same(x, y)
           /\ \A b \in BOOLEAN : LET y == [x EXCEPT !.trigger = b]
                                 IN  y \in Context /\ Same(x, y)
           /\ \A b \in BOOLEAN : LET y == [x EXCEPT !.paused = b]
                                 IN  y \in Context /\ Same(x, y)
           /\ \A n \in Nat : LET y == [x EXCEPT !.follow = n]
                             IN  y \in Context /\ Same(x, y)
           /\ \A f \in Seq(Flows) : LET y == [x EXCEPT !.flows = f]
                                    IN  y \in Context /\ Same(x, y)
           /\ \A h, t \in 0 .. OUT_SIZE - 1 :
                 LET y == [x EXCEPT !.buf_head = h, !.buf_tail = t]
                 IN  y \in Context /\ Same(x, y)
           /\ WriteToBuffer(x) \in Context /\ Same(x, WriteToBuffer(x))
<1>1. ASSUME NEW n \in Nat PROVE LET y == [x EXCEPT !.captured = n]
                                IN  y \in Context /\ Same(x, y)
  BY DEF Context, Same
<1>2. ASSUME NEW b \in BOOLEAN PROVE LET y == [x EXCEPT !.trigger = b]
                                    IN  y \in Context /\ Same(x, y)
  BY DEF Context, Same
<1>3. ASSUME NEW b \in BOOLEAN PROVE LET y == [x EXCEPT !.paused = b]
                                    IN  y \in Context /\ Same(x, y)
  BY DEF Context, Same
<1>4. ASSUME NEW n \in Nat PROVE LET y == [x EXCEPT !.follow = n]
                                IN  y \in Context /\ Same(x, y)
  BY DEF Context, Same
<1>5. ASSUME NEW f \in Seq(Flows) PROVE LET y == [x EXCEPT !.flows = f]
                                       IN  y \in Context /\ Same(x, y)
  BY DEF Context, Same
<1>6. ASSUME NEW h \in 0 .. OUT_SIZE - 1, NEW t \in 0 .. OUT_SIZE - 1
      PROVE  LET y == [x EXCEPT !.buf_head = h, !.buf_tail = t]
             IN  y \in Context /\ Same(x, y)
  BY DEF Context, Same
<1>7. WriteToBuffer(x) \in Context /\ Same(x, WriteToBuffer(x))
  <2>1. PICK h, t \in 0 .. OUT_SIZE - 1 :
              WriteToBuffer(x) = [x EXCEPT !.buf_head = h, !.buf_tail = t]
    BY WriteFacts
  <2>2. LET y == [x EXCEPT !.buf_head = h, !.buf_tail = t]
        IN  y \in Context /\ Same(x, y)
    BY <1>6
  <2> QED  BY <2>1, <2>2
<1> QED  BY <1>1, <1>2, <1>3, <1>4, <1>5, <1>6, <1>7

\* The places of a thread that is at work and has nothing left to store.
Working == {"loop", "fragment", "stats", "stream", "write"}

\* A step that changes none of those fields, in either thread.
LEMMA QuietStep ==
    ASSUME IInv, NEW c \in Ctx, NEW x \in Context, NEW t \in ThreadState,
           Same(ctx[c], x), ctx' = [ctx EXCEPT ![c] = x],
           thread' = [thread EXCEPT ![c] = t],
           t = thread[c] \/ (thread[c].at \in Working /\ t.at \in Working),
           UNCHANGED <<packetdiag, main, arrived, seen>>, probe' \in BOOLEAN
    PROVE  IInv'
<1> DEFINE s == seen[c]
<1>1. /\ s \in Seq(Nat) /\ seen' = [seen EXCEPT ![c] = s]
      /\ packetdiag' \in Ctx \cup {None} /\ main' \in MainState
      /\ arrived' \in 0 .. MAX_PACKETS
      /\ main'.at \in {"join", "free"} => packetdiag' # None
  BY DEF IInv, TypeOK, Waited
<1>2. \A d \in Ctx : /\ HeldAt(d, ctx[d], thread[d], packetdiag')
                     /\ WaitedAt(ctx[d], thread[d], main'.at)
  BY DEF IInv, Held, Waited
<1>3. BlankAt(ctx[c], thread[c], s) /\ RememberedAt(ctx[c], thread[c], s)
  BY DEF IInv, Blank, Remembered
<1> HIDE DEF s
<1>4. HeldAt(c, x, t, packetdiag') /\ WaitedAt(x, t, main'.at)
  BY <1>2 DEF HeldAt, WaitedAt, Same, Working
<1>5. BlankAt(x, t, s) /\ RememberedAt(x, t, s)
  BY <1>3 DEF BlankAt, RememberedAt, Same, Working
<1> QED  BY <1>1, <1>2, <1>4, <1>5, OneContext

\* A packet that is counted is the next one to be stored.
LEMMA ReceiveStep ==
    ASSUME Sizes, IInv, NEW c \in Ctx, ReceivePacket(c)
    PROVE  IInv'
<1>0. /\ thread[c].at = "loop" /\ ~ctx[c].breaks /\ arrived < MAX_PACKETS
      /\ arrived' = arrived + 1
      /\ UNCHANGED <<packetdiag, main, probe>>
      /\ ctx[c] \in Context /\ thread[c] \in ThreadState /\ seen[c] \in Seq(Nat)
      /\ ctx[c].count = 0 /\ arrived' \in 0 .. MAX_PACKETS
      /\ ctx[c].captured \in Nat /\ ctx[c].total \in Nat
      /\ HeldAt(c, ctx[c], thread[c], packetdiag)
      /\ WaitedAt(ctx[c], thread[c], main.at)
      /\ BlankAt(ctx[c], thread[c], seen[c])
      /\ RememberedAt(ctx[c], thread[c], seen[c])
  <2>1. arrived \in 0 .. MAX_PACKETS /\ MAX_PACKETS \in Nat
    BY DEF IInv, TypeOK, Sizes
  <2> QED  BY <2>1, StateFacts, ContextFacts
           DEF ReceivePacket, IInv, Held, Waited, Blank, Remembered
<1>1. PICK f \in Flows, frag \in BOOLEAN :
        LET p == [id |-> arrived + 1, flow |-> f, fragment |-> frag]
        IN  \/ UNCHANGED <<thread, ctx, seen>>
            \/ /\ thread' = [thread EXCEPT ![c] = At("store", p)]
               /\ ctx' = [ctx EXCEPT ![c].captured = @ + 1]
               /\ seen' = [seen EXCEPT ![c] = Append(@, p.id)]
  BY <1>0 DEF ReceivePacket
<1> DEFINE p == [id |-> arrived + 1, flow |-> f, fragment |-> frag]
<1>2. p.id = arrived + 1 /\ p.id \in Nat /\ p \in Packet
  BY <1>0 DEF Sizes, IInv, TypeOK, Packet
<1> HIDE DEF p
<1>3. CASE UNCHANGED <<thread, ctx, seen>>
  <2>1. /\ ctx' = [ctx EXCEPT ![c] = ctx[c]]
        /\ thread' = [thread EXCEPT ![c] = thread[c]]
        /\ seen' = [seen EXCEPT ![c] = seen[c]]
    BY <1>3 DEF IInv, TypeOK
  <2> QED  BY <1>0, <2>1, ThreadStep
<1>4. CASE /\ thread' = [thread EXCEPT ![c] = At("store", p)]
           /\ ctx' = [ctx EXCEPT ![c].captured = @ + 1]
           /\ seen' = [seen EXCEPT ![c] = Append(@, p.id)]
  <2> DEFINE x == [ctx[c] EXCEPT !.captured = @ + 1]
             t == At("store", p)
             s == Append(seen[c], p.id)
  <2>1. x \in Context /\ Same(ctx[c], x)
    <3>1. \A n \in Nat : LET y == [ctx[c] EXCEPT !.captured = n]
                        IN  y \in Context /\ Same(ctx[c], y)
      BY <1>0, SameFacts
    <3>2. ctx[c].captured + 1 \in Nat
      BY <1>0
    <3> QED  BY <3>1, <3>2
  <2>2. t \in ThreadState /\ t.at = "store" /\ t.packet = p
    BY <1>2 DEF ThreadState, At
  <2>3. /\ s \in Seq(Nat) /\ Len(s) = x.total + 1 /\ s[x.total + 1] = p.id
        /\ \A i \in 1 .. x.total : s[i] = seen[c][i]
    BY <1>0, <1>2, <2>1 DEF RememberedAt, Same
  <2>4. /\ ctx' = [ctx EXCEPT ![c] = x] /\ thread' = [thread EXCEPT ![c] = t]
        /\ seen' = [seen EXCEPT ![c] = s]
    BY <1>4 DEF IInv, TypeOK
  <2> HIDE DEF x, t, s
  <2>5. HeldAt(c, x, t, packetdiag) /\ WaitedAt(x, t, main.at) /\ BlankAt(x, t, s)
    BY <1>0, <2>1, <2>2 DEF HeldAt, WaitedAt, BlankAt, Same
  <2>6. RememberedAt(x, t, s)
    <3>1. ASSUME NEW k \in 1 .. RING, k <= x.total
          PROVE  x.ring[Back(x.head, k)] = s[x.total - k + 1]
      <4>1. x.total - k + 1 \in 1 .. x.total
        BY <1>0, <2>1, <3>1 DEF Sizes, Same
      <4> QED  BY <1>0, <2>1, <2>3, <3>1, <4>1 DEF RememberedAt, Same
    <3> QED  BY <2>2, <2>3, <3>1 DEF RememberedAt
  <2> QED  BY <1>0, <2>1, <2>2, <2>3, <2>4, <2>5, <2>6, ThreadStep
<1> QED  BY <1>1, <1>3, <1>4 DEF p

\* What the invariant says of one context.
LEMMA InvAt ==
    ASSUME IInv, NEW c \in Ctx
    PROVE  /\ ctx[c] \in Context /\ thread[c] \in ThreadState /\ seen[c] \in Seq(Nat)
           /\ HeldAt(c, ctx[c], thread[c], packetdiag)
           /\ WaitedAt(ctx[c], thread[c], main.at)
           /\ BlankAt(ctx[c], thread[c], seen[c])
           /\ RememberedAt(ctx[c], thread[c], seen[c])
           /\ packetdiag \in Ctx \cup {None} /\ main \in MainState
           /\ probe \in BOOLEAN /\ arrived \in 0 .. MAX_PACKETS
           /\ ctx = [ctx EXCEPT ![c] = ctx[c]]
           /\ thread = [thread EXCEPT ![c] = thread[c]]
           /\ seen = [seen EXCEPT ![c] = seen[c]]
BY DEF IInv, TypeOK, Held, Waited, Blank, Remembered

\* A thread at these places has a packet in its hands, and what comes next.
LEMMA PacketPlaces ==
    ASSUME NEW t \in ThreadState,
           t.at \in {"store", "fragment", "stats", "stream", "write"}
    PROVE  /\ t.packet \in Packet
           /\ \A a \in {"store", "fragment", "stats", "stream", "write"} :
                 LET u == [t EXCEPT !.at = a] IN u \in ThreadState /\ u.at = a
BY DEF ThreadState

LEMMA BarePlaces ==
    \A a \in {"loop", "ended", "notify", "exited"} :
        LET u == [at |-> a] IN u \in ThreadState /\ u.at = a
BY DEF ThreadState

\* The packet goes to the head and the slots behind it are one further behind.
LEMMA StoreStep ==
    ASSUME Sizes, IInv, NEW c \in Ctx, Store(c)
    PROVE  IInv'
<1> DEFINE p == thread[c].packet
           x == [ctx[c] EXCEPT !.ring = [ctx[c].ring EXCEPT ![ctx[c].head] = p.id],
                               !.head = (ctx[c].head + 1) % RING,
                               !.total = ctx[c].total + 1]
           s == seen[c]
           h == ctx[c].head
           total == ctx[c].total
<1>0. /\ thread[c].at = "store" /\ ctx[c] \in Context /\ s \in Seq(Nat)
      /\ p \in Packet /\ p.id \in Nat /\ h \in 0 .. RING - 1
      /\ total \in Nat /\ ctx[c].ring \in [0 .. RING - 1 -> Nat]
      /\ UNCHANGED <<packetdiag, main, probe, arrived, seen>>
  <2>1. thread[c].at = "store" /\ UNCHANGED <<packetdiag, main, probe, arrived, seen>>
    BY DEF Store
  <2>2. p \in Packet
    BY <2>1, InvAt, PacketPlaces
  <2>3. p.id \in Nat
    BY <2>2 DEF Packet, Sizes
  <2> QED  BY <2>1, <2>2, <2>3, InvAt, ContextFacts
<1>1. PICK t \in {[at |-> "loop"], At(IF p.fragment THEN "fragment" ELSE "stats", p)} :
          thread' = [thread EXCEPT ![c] = t]
  BY DEF Store
<1>2. t \in ThreadState /\ t.at \in Working
  BY <1>0 DEF ThreadState, At, Working
<1>3. ctx' = [ctx EXCEPT ![c] = x]
  BY DEF Store, IInv, TypeOK
<1>4. (h + 1) % RING \in 0 .. RING - 1
  BY <1>0, HeadSteps
<1>5. /\ x \in Context
      /\ x.life = ctx[c].life /\ x.mutex = ctx[c].mutex /\ x.handle = ctx[c].handle
      /\ x.running = ctx[c].running /\ x.breaks = ctx[c].breaks
      /\ x.ring = [ctx[c].ring EXCEPT ![h] = p.id]
      /\ x.head = (h + 1) % RING /\ x.total = total + 1
  <2>1. [ctx[c].ring EXCEPT ![h] = p.id] \in [0 .. RING - 1 -> Nat]
    BY <1>0
  <2>2. total + 1 \in Nat
    BY <1>0
  <2> DEFINE r == [ctx[c].ring EXCEPT ![h] = p.id]
             g == (h + 1) % RING
             n == total + 1
             y == [ctx[c] EXCEPT !.ring = r, !.head = g, !.total = n]
  <2>3. x = y
    OBVIOUS
  <2>4. /\ y \in Context
        /\ y.life = ctx[c].life /\ y.mutex = ctx[c].mutex /\ y.handle = ctx[c].handle
        /\ y.running = ctx[c].running /\ y.breaks = ctx[c].breaks
        /\ y.ring = r /\ y.head = g /\ y.total = n
    <3>1. /\ ctx[c] \in Context /\ r \in [0 .. RING - 1 -> Nat]
          /\ g \in 0 .. RING - 1 /\ n \in Nat
      BY <1>0, <1>4, <2>1, <2>2
    <3> HIDE DEF r, g, n
    <3> QED  BY <3>1 DEF Context
  <2> HIDE DEF x, y
  <2> QED  BY <2>3, <2>4
<1> HIDE DEF x
<1>6. /\ HeldAt(c, x, t, packetdiag) /\ WaitedAt(x, t, main.at) /\ BlankAt(x, t, s)
  BY <1>0, <1>2, <1>5, InvAt DEF HeldAt, WaitedAt, BlankAt, Working
<1>7. RememberedAt(x, t, s)
  <2>1. Len(s) = total + 1 /\ s[total + 1] = p.id
    BY <1>0, InvAt DEF RememberedAt
  <2>2. ASSUME NEW k \in 1 .. RING, k <= total + 1
        PROVE  x.ring[Back(x.head, k)] = s[(total + 1) - k + 1]
    <3>1. CASE k = 1
      <4>1. Back(x.head, k) = h
        BY <1>0, <1>5, <3>1, HeadSteps
      <4>2. x.ring[h] = p.id
        BY <1>0, <1>5
      <4>3. (total + 1) - k + 1 = total + 1
        BY <1>0, <3>1
      <4> QED  BY <2>1, <4>1, <4>2, <4>3
    <3>2. CASE k # 1
      <4>0. k \in 2 .. RING /\ k - 1 \in 1 .. RING /\ k - 1 <= total
        BY <1>0, <2>2, <3>2 DEF Sizes
      <4>1. Back(x.head, k) = Back(h, k - 1) /\ Back(h, k - 1) # h
        BY <1>0, <1>5, <4>0, HeadSteps
      <4>2. Back(h, k - 1) \in 0 .. RING - 1
        BY <1>0, <4>0, BackIsModulus
      <4>3. ctx[c].ring[Back(h, k - 1)] = s[total - (k - 1) + 1]
        BY <4>0, InvAt DEF RememberedAt
      <4>4. total - (k - 1) + 1 = (total + 1) - k + 1
        BY <1>0
      <4> QED  BY <1>0, <1>5, <4>1, <4>2, <4>3, <4>4
    <3> QED  BY <3>1, <3>2
  <2> QED  BY <1>0, <1>2, <1>5, <2>1, <2>2 DEF RememberedAt, Working
<1>8. seen' = [seen EXCEPT ![c] = s] /\ arrived' \in 0 .. MAX_PACKETS
  BY <1>0, InvAt
<1> HIDE DEF s
<1> QED  BY <1>0, <1>1, <1>2, <1>3, <1>5, <1>6, <1>7, <1>8, ThreadStep

\* The work on a packet that is stored, and the lines about it.
LEMMA WorkStep ==
    ASSUME Sizes, IInv, NEW c \in Ctx,
           Fragment(c) \/ Stats(c) \/ WriteStream(c) \/ WriteLine(c)
    PROVE  IInv'
<1>0. /\ ctx[c] \in Context /\ thread[c] \in ThreadState
      /\ UNCHANGED <<packetdiag, main, probe, arrived, seen>> /\ probe' \in BOOLEAN
      /\ thread[c].at \in Working /\ thread[c].at # "loop"
  BY InvAt DEF Fragment, Stats, WriteStream, WriteLine, Working
<1>1. \A a \in {"stats", "stream", "write"} :
          LET u == [thread[c] EXCEPT !.at = a] IN u \in ThreadState /\ u.at = a
  BY <1>0, PacketPlaces DEF Working
<1>2. CASE Fragment(c)
  <2> DEFINE x == [ctx[c] EXCEPT !.trigger = TRUE]
             t == [thread[c] EXCEPT !.at = "stats"]
  <2>1. x \in Context /\ Same(ctx[c], x)
    BY <1>0, SameFacts
  <2>2. t \in ThreadState /\ t.at \in Working
    BY <1>1 DEF Working
  <2>3. ctx' = [ctx EXCEPT ![c] = x] /\ thread' = [thread EXCEPT ![c] = t]
    BY <1>2 DEF Fragment, IInv, TypeOK
  <2> HIDE DEF x, t
  <2> QED  BY <1>0, <2>1, <2>2, <2>3, QuietStep
<1>3. CASE Stats(c)
  <2> DEFINE f == thread[c].packet.flow
             flows == IF Contains(ctx[c].flows, f) \/ Len(ctx[c].flows) >= FLOW_MAX
                      THEN ctx[c].flows ELSE Append(ctx[c].flows, f)
             x == [ctx[c] EXCEPT !.flows = flows]
  <2>1. f \in Flows /\ ctx[c].flows \in Seq(Flows)
    <3>1. thread[c].packet \in Packet
      BY <1>0, <1>3, PacketPlaces DEF Stats
    <3> QED  BY <1>0, <3>1 DEF Packet, Context
  <2>2. flows \in Seq(Flows)
    BY <2>1
  <2>3. x \in Context /\ Same(ctx[c], x)
    <3> HIDE DEF flows
    <3>1. \A g \in Seq(Flows) : LET y == [ctx[c] EXCEPT !.flows = g]
                                IN  y \in Context /\ Same(ctx[c], y)
      BY <1>0, SameFacts
    <3> QED  BY <2>2, <3>1
  <2>4. PICK a \in {"stream", "write"} : thread' = [thread EXCEPT ![c].at = a]
    BY <1>3 DEF Stats
  <2> DEFINE t == [thread[c] EXCEPT !.at = a]
  <2>5. t \in ThreadState /\ t.at \in Working
    BY <1>1 DEF Working
  <2>6. ctx' = [ctx EXCEPT ![c] = x] /\ thread' = [thread EXCEPT ![c] = t]
    BY <1>3, <2>4 DEF Stats, IInv, TypeOK
  <2> HIDE DEF x, t
  <2> QED  BY <1>0, <2>3, <2>5, <2>6, QuietStep
<1> DEFINE x == WriteToBuffer(ctx[c])
<1>4. x \in Context /\ Same(ctx[c], x)
  BY <1>0, SameFacts
<1>5. CASE WriteStream(c)
  <2> DEFINE t == [thread[c] EXCEPT !.at = "write"]
  <2>1. t \in ThreadState /\ t.at \in Working
    BY <1>1 DEF Working
  <2>2. ctx' = [ctx EXCEPT ![c] = x] /\ thread' = [thread EXCEPT ![c] = t]
    BY <1>5 DEF WriteStream, IInv, TypeOK
  <2> HIDE DEF x, t
  <2> QED  BY <1>0, <1>4, <2>1, <2>2, QuietStep
<1>6. CASE WriteLine(c)
  <2> DEFINE t == [at |-> "loop"]
  <2>1. t \in ThreadState /\ t.at \in Working
    BY BarePlaces DEF Working
  <2>2. ctx' = [ctx EXCEPT ![c] = x] /\ thread' = [thread EXCEPT ![c] = t]
    BY <1>6 DEF WriteLine, IInv, TypeOK
  <2> HIDE DEF x, t
  <2> QED  BY <1>0, <1>4, <2>1, <2>2, QuietStep
<1> QED  BY <1>2, <1>3, <1>5, <1>6

\* pcap_loop is broken off while the logic thread waits, and all that follows
\* happens while it goes on waiting.
LEMMA EndStep ==
    ASSUME Sizes, EndlessCapture, IInv, NEW c \in Ctx,
           LoopEnds(c) \/ ClearRunning(c) \/ Notify(c)
    PROVE  IInv'
<1> DEFINE s == seen[c]
<1>0. /\ ctx[c] \in Context /\ thread[c] \in ThreadState /\ s \in Seq(Nat)
      /\ UNCHANGED <<packetdiag, main, probe, arrived, seen>>
      /\ seen' = [seen EXCEPT ![c] = s] /\ arrived' \in 0 .. MAX_PACKETS
      /\ HeldAt(c, ctx[c], thread[c], packetdiag)
      /\ WaitedAt(ctx[c], thread[c], main.at)
      /\ BlankAt(ctx[c], thread[c], s) /\ RememberedAt(ctx[c], thread[c], s)
  BY InvAt DEF LoopEnds, ClearRunning, Notify
<1> HIDE DEF s
<1>1. CASE LoopEnds(c)
  <2> DEFINE t == [at |-> "ended"]
             x == ctx[c]
  <2>1. thread[c].at = "loop" /\ x.breaks
    BY <1>0, <1>1, ContextFacts DEF LoopEnds, EndlessCapture
  <2>2. t \in ThreadState /\ t.at = "ended"
    BY BarePlaces
  <2>3. ctx' = [ctx EXCEPT ![c] = x] /\ thread' = [thread EXCEPT ![c] = t]
    BY <1>1, InvAt DEF LoopEnds
  <2> HIDE DEF x, t
  <2>4. HeldAt(c, x, t, packetdiag) /\ WaitedAt(x, t, main.at)
        /\ BlankAt(x, t, s) /\ RememberedAt(x, t, s)
    BY <1>0, <2>1, <2>2 DEF HeldAt, WaitedAt, BlankAt, RememberedAt, x
  <2> QED  BY <1>0, <2>2, <2>3, <2>4, ThreadStep DEF x
<1>2. CASE ClearRunning(c)
  <2> DEFINE t == [at |-> "notify"]
             x == [ctx[c] EXCEPT !.running = FALSE]
  <2>1. /\ x \in Context /\ x.life = ctx[c].life /\ x.mutex = ctx[c].mutex
        /\ x.handle = ctx[c].handle /\ x.breaks = ctx[c].breaks
        /\ x.total = ctx[c].total /\ x.head = ctx[c].head /\ x.ring = ctx[c].ring
    BY <1>0 DEF Context
  <2>2. t \in ThreadState /\ t.at = "notify" /\ thread[c].at = "ended"
    BY <1>2, BarePlaces DEF ClearRunning
  <2>3. ctx' = [ctx EXCEPT ![c] = x] /\ thread' = [thread EXCEPT ![c] = t]
    BY <1>2 DEF ClearRunning, IInv, TypeOK
  <2> HIDE DEF x, t
  <2>4. HeldAt(c, x, t, packetdiag) /\ WaitedAt(x, t, main.at)
        /\ BlankAt(x, t, s) /\ RememberedAt(x, t, s)
    BY <1>0, <2>1, <2>2 DEF HeldAt, WaitedAt, BlankAt, RememberedAt
  <2> QED  BY <1>0, <2>1, <2>2, <2>3, <2>4, ThreadStep
<1>3. CASE Notify(c)
  <2> DEFINE t == [at |-> "exited"]
             x == WriteToBuffer(ctx[c])
  <2>1. x \in Context /\ Same(ctx[c], x)
    BY <1>0, SameFacts
  <2>2. t \in ThreadState /\ t.at = "exited" /\ thread[c].at = "notify"
    BY <1>3, BarePlaces DEF Notify
  <2>3. ctx' = [ctx EXCEPT ![c] = x] /\ thread' = [thread EXCEPT ![c] = t]
    BY <1>3 DEF Notify, IInv, TypeOK
  <2> HIDE DEF x, t
  <2>4. HeldAt(c, x, t, packetdiag) /\ WaitedAt(x, t, main.at)
        /\ BlankAt(x, t, s) /\ RememberedAt(x, t, s)
    BY <1>0, <2>1, <2>2 DEF HeldAt, WaitedAt, BlankAt, RememberedAt, Same
  <2> QED  BY <1>0, <2>1, <2>2, <2>3, <2>4, ThreadStep
<1> QED  BY <1>1, <1>2, <1>3

-------------------------------------------------------------------------------
(* The logic thread *)

\* A thread that does not run asks for nothing, wherever the logic thread goes.
LEMMA AtRest ==
    ASSUME NEW d, NEW x, NEW t, NEW p, NEW m, t.at \in {"off", "exited"}
    PROVE  HeldAt(d, x, t, p) /\ WaitedAt(x, t, m)
BY DEF HeldAt, WaitedAt

\* No thread runs on a context that is not linked, and none at all when the
\* logic thread is about to free a capture or to start one.
LEMMA OthersAtRest ==
    ASSUME IInv, NEW d \in Ctx, d # packetdiag \/ main.at \in {"free", "start"}
    PROVE  thread[d].at \in {"off", "exited"}
BY InvAt DEF HeldAt, WaitedAt

\* What KTerm_Net_PacketDiag_Stop, _Free and _Start do to a context.
LEMMA LifeFacts ==
    ASSUME NEW x \in Context
    PROVE  /\ LET y == [x EXCEPT !.handle = IF @ = "open" THEN "closed" ELSE @]
              IN  /\ y \in Context /\ y.life = x.life /\ y.breaks = x.breaks
                  /\ y.running = x.running
                  /\ y.total = x.total /\ y.head = x.head /\ y.ring = x.ring
           /\ LET y == [x EXCEPT !.mutex = "destroyed", !.running = FALSE,
                                 !.handle = "closed"]
              IN  /\ y \in Context /\ y.life = x.life /\ y.breaks = x.breaks
                  /\ ~y.running
                  /\ y.total = x.total /\ y.head = x.head /\ y.ring = x.ring
           /\ LET y == [x EXCEPT !.life = "freed", !.running = FALSE]
              IN  /\ y \in Context /\ y.life = "freed"
                  /\ y.total = x.total /\ y.head = x.head /\ y.ring = x.ring
           /\ LET y == [x EXCEPT !.life = "freed"]
              IN  /\ y \in Context /\ y.life = "freed"
                  /\ y.total = x.total /\ y.head = x.head /\ y.ring = x.ring
           /\ LET y == [x EXCEPT !.life = "live", !.handle = "open",
                                 !.mutex = "live", !.running = TRUE, !.count = 0]
              IN  /\ y \in Context /\ y.life = "live" /\ y.handle = "open"
                  /\ y.mutex = "live" /\ y.running
                  /\ y.breaks = x.breaks /\ y.total = x.total
<1>1. LET y == [x EXCEPT !.handle = IF @ = "open" THEN "closed" ELSE @]
      IN  /\ y \in Context /\ y.life = x.life /\ y.breaks = x.breaks
          /\ y.running = x.running
          /\ y.total = x.total /\ y.head = x.head /\ y.ring = x.ring
  BY DEF Context
<1>2. LET y == [x EXCEPT !.mutex = "destroyed", !.running = FALSE, !.handle = "closed"]
      IN  /\ y \in Context /\ y.life = x.life /\ y.breaks = x.breaks /\ ~y.running
          /\ y.total = x.total /\ y.head = x.head /\ y.ring = x.ring
  BY DEF Context
<1>3. LET y == [x EXCEPT !.life = "freed", !.running = FALSE]
      IN  /\ y \in Context /\ y.life = "freed"
          /\ y.total = x.total /\ y.head = x.head /\ y.ring = x.ring
  BY DEF Context
<1>4. LET y == [x EXCEPT !.life = "freed"]
      IN  /\ y \in Context /\ y.life = "freed"
          /\ y.total = x.total /\ y.head = x.head /\ y.ring = x.ring
  BY DEF Context
<1>5. LET y == [x EXCEPT !.life = "live", !.handle = "open", !.mutex = "live",
                         !.running = TRUE, !.count = 0]
      IN  /\ y \in Context /\ y.life = "live" /\ y.handle = "open"
          /\ y.mutex = "live" /\ y.running
          /\ y.breaks = x.breaks /\ y.total = x.total
  BY DEF Context
<1> QED  BY <1>1, <1>2, <1>3, <1>4, <1>5

\* A step of the logic thread that leaves the linked context's thread, if any,
\* without anything to hold.
LEMMA MainStep ==
    ASSUME IInv, NEW c \in Ctx, c = packetdiag \/ main.at \in {"free", "start"},
           NEW x \in Context, thread[c].at \in {"off", "exited"},
           ctx' = [ctx EXCEPT ![c] = x], main' \in MainState,
           packetdiag' \in Ctx \cup {None},
           main'.at \in {"join", "free"} => packetdiag' # None,
           x.total = ctx[c].total, x.head = ctx[c].head, x.ring = ctx[c].ring,
           x.life # "none" \/ x = ctx[c]
                \/ (x.life = ctx[c].life /\ x.breaks = ctx[c].breaks /\ ~x.running),
           UNCHANGED <<thread, probe, arrived, seen>>
    PROVE  IInv'
<1> DEFINE s == seen[c]
           t == thread[c]
<1>1. /\ s \in Seq(Nat) /\ t \in ThreadState
      /\ thread' = [thread EXCEPT ![c] = t] /\ seen' = [seen EXCEPT ![c] = s]
      /\ probe' \in BOOLEAN /\ arrived' \in 0 .. MAX_PACKETS
      /\ BlankAt(ctx[c], t, s) /\ RememberedAt(ctx[c], t, s)
  BY InvAt
<1>2. \A d \in Ctx \ {c} : thread[d].at \in {"off", "exited"}
  BY OthersAtRest
<1>3. \A d \in Ctx \ {c} : /\ HeldAt(d, ctx[d], thread[d], packetdiag')
                           /\ WaitedAt(ctx[d], thread[d], main'.at)
  BY <1>2, AtRest
<1>4. HeldAt(c, x, t, packetdiag') /\ WaitedAt(x, t, main'.at)
  BY AtRest
<1> HIDE DEF s
<1>5. BlankAt(x, t, s) /\ RememberedAt(x, t, s)
  BY <1>1 DEF BlankAt, RememberedAt
<1> HIDE DEF t
<1> QED  BY <1>1, <1>3, <1>4, <1>5, OneContext

\* KTerm_Net_PacketDiag_Stop breaks a running capture off and waits; what it
\* does not wait for does not run.
LEMMA StopStep ==
    ASSUME IInv, NEW then \in {"idle", "free", "start"}, Stop(then),
           main.at = "idle", packetdiag # None,
           UNCHANGED <<packetdiag, thread, probe, arrived, seen>>
    PROVE  IInv'
<1> DEFINE c == packetdiag
<1>0. c \in Ctx /\ packetdiag' \in Ctx \cup {None} /\ packetdiag' # None
  BY DEF IInv, TypeOK
<1>1. CASE ctx[c].running /\ ctx[c].handle = "open"
  <2> DEFINE x == [ctx[c] EXCEPT !.breaks = TRUE]
             t == thread[c]
             s == seen[c]
  <2>1. /\ s \in Seq(Nat) /\ t \in ThreadState
        /\ thread' = [thread EXCEPT ![c] = t] /\ seen' = [seen EXCEPT ![c] = s]
        /\ probe' \in BOOLEAN /\ arrived' \in 0 .. MAX_PACKETS
        /\ ctx[c] \in Context
        /\ HeldAt(c, ctx[c], t, packetdiag) /\ WaitedAt(ctx[c], t, main.at)
        /\ BlankAt(ctx[c], t, s) /\ RememberedAt(ctx[c], t, s)
    BY <1>0, InvAt
  <2>2. /\ x \in Context /\ x.life = ctx[c].life /\ x.mutex = ctx[c].mutex
        /\ x.handle = ctx[c].handle /\ x.running = ctx[c].running
        /\ x.total = ctx[c].total /\ x.head = ctx[c].head /\ x.ring = ctx[c].ring
    BY <2>1 DEF Context
  <2>3. ctx' = [ctx EXCEPT ![c] = x] /\ main' = [at |-> "join", then |-> then]
    BY <1>1 DEF Stop, IInv, TypeOK
  <2>4. main' \in MainState /\ main'.at = "join"
    BY <2>3 DEF MainState
  <2>5. \A d \in Ctx \ {c} : /\ HeldAt(d, ctx[d], thread[d], packetdiag')
                             /\ WaitedAt(ctx[d], thread[d], main'.at)
    BY OthersAtRest, AtRest
  <2> HIDE DEF x, t, s
  <2>6. /\ HeldAt(c, x, t, packetdiag') /\ WaitedAt(x, t, main'.at)
        /\ BlankAt(x, t, s) /\ RememberedAt(x, t, s)
    BY <1>1, <2>1, <2>2, <2>4 DEF HeldAt, WaitedAt, BlankAt, RememberedAt
  <2> QED  BY <1>0, <2>1, <2>2, <2>3, <2>4, <2>5, <2>6, OneContext
<1>2. CASE ~(ctx[c].running /\ ctx[c].handle = "open")
  <2> DEFINE x == [ctx[c] EXCEPT !.handle = IF @ = "open" THEN "closed" ELSE @]
  <2>1. thread[c].at \in {"off", "exited"}
    BY <1>0, <1>2, InvAt DEF HeldAt, WaitedAt
  <2>2. /\ x \in Context /\ x.life = ctx[c].life /\ x.breaks = ctx[c].breaks
        /\ x.running = ctx[c].running
        /\ x.total = ctx[c].total /\ x.head = ctx[c].head /\ x.ring = ctx[c].ring
    <3>1. ctx[c] \in Context
      BY <1>0, InvAt
    <3> QED  BY <3>1, LifeFacts
  <2>3. x.life # "none" \/ ~x.running
    BY <1>0, <2>2, InvAt DEF BlankAt
  <2>4. ctx' = [ctx EXCEPT ![c] = x] /\ main' = [at |-> then]
    BY <1>2 DEF Stop, IInv, TypeOK
  <2>5. main' \in MainState
    BY <2>4 DEF MainState
  <2> HIDE DEF x
  <2> QED  BY <1>0, <2>1, <2>2, <2>3, <2>4, <2>5, MainStep
<1> QED  BY <1>1, <1>2

LEMMA JoinedStep ==
    ASSUME IInv, Joined
    PROVE  IInv'
<1> DEFINE c == packetdiag
           x == [ctx[c] EXCEPT !.mutex = "destroyed", !.running = FALSE,
                               !.handle = "closed"]
<1>1. c \in Ctx /\ thread[c].at = "exited" /\ main.at = "join"
  BY DEF Joined, IInv, TypeOK, Waited
<1>2. /\ x \in Context /\ x.life = ctx[c].life /\ x.breaks = ctx[c].breaks
      /\ ~x.running
      /\ x.total = ctx[c].total /\ x.head = ctx[c].head /\ x.ring = ctx[c].ring
  <2>1. ctx[c] \in Context
    BY <1>1, InvAt
  <2> QED  BY <2>1, LifeFacts
<1>3. /\ ctx' = [ctx EXCEPT ![c] = x]
      /\ UNCHANGED <<packetdiag, thread, probe, arrived, seen>>
  BY DEF Joined, IInv, TypeOK
<1>4. main' \in MainState
  BY <1>1 DEF Joined, IInv, TypeOK, MainState
<1>5. packetdiag' \in Ctx \cup {None} /\ packetdiag' # None
  BY <1>1, <1>3 DEF Ctx, None
<1> HIDE DEF x
<1> QED  BY <1>1, <1>2, <1>3, <1>4, <1>5, MainStep

LEMMA FreeStep ==
    ASSUME IInv, Free
    PROVE  IInv'
<1> DEFINE c == packetdiag
           x == [ctx[c] EXCEPT !.life = "freed", !.running = FALSE]
<1>1. c \in Ctx /\ main.at = "free"
  BY DEF Free, IInv, TypeOK, Waited
<1>2. /\ x \in Context /\ x.life = "freed"
      /\ x.total = ctx[c].total /\ x.head = ctx[c].head /\ x.ring = ctx[c].ring
  <2>1. ctx[c] \in Context
    BY <1>1, InvAt
  <2> QED  BY <2>1, LifeFacts
<1>3. /\ ctx' = [ctx EXCEPT ![c] = x] /\ packetdiag' = None /\ main' = Idle
      /\ UNCHANGED <<thread, probe, arrived, seen>>
  BY DEF Free, IInv, TypeOK
<1>4. main' \in MainState /\ main'.at = "idle"
  BY <1>3 DEF MainState, Idle
<1>5. thread[c].at \in {"off", "exited"}
  BY <1>1, OthersAtRest
<1> HIDE DEF x
<1> QED  BY <1>1, <1>2, <1>3, <1>4, <1>5, MainStep

\* Asking for a capture stops the one there is.
LEMMA AskStep ==
    ASSUME IInv, AskStop \/ AskCancel \/ AskStart
    PROVE  IInv'
<1>1. CASE AskStop
  BY <1>1, StopStep DEF AskStop
<1>2. CASE AskCancel
  BY <1>2, StopStep DEF AskCancel
<1>3. CASE AskStart /\ packetdiag # None
  BY <1>3, StopStep DEF AskStart
<1>4. CASE AskStart /\ packetdiag = None
  <2>1. \A d \in Ctx : thread[d].at \in {"off", "exited"}
    BY <1>4, OthersAtRest DEF Ctx, None
  <2>2. /\ UNCHANGED <<packetdiag, ctx, thread, probe, arrived, seen>>
        /\ main' = [at |-> "start"]
    BY <1>4 DEF AskStart
  <2>3. main' \in MainState /\ main'.at = "start"
    BY <2>2 DEF MainState
  <2>4. Waited' /\ Held'
    BY <2>1, <2>2, <2>3, AtRest DEF Waited, Held
  <2>5. TypeOK' /\ Blank' /\ Remembered'
    BY <2>2, <2>3 DEF IInv, TypeOK, Blank, Remembered
  <2> QED  BY <2>4, <2>5 DEF IInv
<1> QED  BY <1>1, <1>2, <1>3, <1>4

\* A capture starts on a context that was never used.
LEMMA StartStep ==
    ASSUME Sizes, EndlessCapture, IInv, Start
    PROVE  IInv'
<1>1. main.at = "start" /\ main' = Idle /\ UNCHANGED <<probe, arrived, seen>>
  BY DEF Start
<1>2. main' \in MainState /\ main'.at = "idle"
  BY <1>1 DEF MainState, Idle
<1>3. PICK c \in Ctx :
        /\ ctx[c].life = "none"
        /\ \/ \E n \in Counts :
                 /\ packetdiag' = c
                 /\ ctx' = [ctx EXCEPT ![c] = WriteToBuffer(
                        [@ EXCEPT !.life = "live", !.handle = "open", !.mutex = "live",
                                  !.running = TRUE, !.count = n])]
                 /\ thread' = [thread EXCEPT ![c] = [at |-> "loop"]]
           \/ /\ packetdiag' = None
              /\ ctx' = [ctx EXCEPT ![c].life = "freed"]
              /\ UNCHANGED thread
  BY DEF Start
<1> DEFINE s == seen[c]
<1>4. /\ ctx[c] \in Context /\ thread[c].at = "off" /\ s = << >>
      /\ ctx[c].total = 0 /\ ~ctx[c].breaks
      /\ seen' = [seen EXCEPT ![c] = s] /\ s \in Seq(Nat)
      /\ probe' \in BOOLEAN /\ arrived' \in 0 .. MAX_PACKETS
  BY <1>1, <1>3, InvAt DEF BlankAt
<1>5. CASE /\ packetdiag' = None /\ ctx' = [ctx EXCEPT ![c].life = "freed"]
           /\ UNCHANGED thread
  <2> DEFINE x == [ctx[c] EXCEPT !.life = "freed"]
  <2>1. /\ x \in Context /\ x.life = "freed"
        /\ x.total = ctx[c].total /\ x.head = ctx[c].head /\ x.ring = ctx[c].ring
    BY <1>4, LifeFacts
  <2>2. ctx' = [ctx EXCEPT ![c] = x]
    BY <1>5 DEF IInv, TypeOK
  <2> HIDE DEF x
  <2> QED  BY <1>1, <1>2, <1>4, <1>5, <2>1, <2>2, MainStep
<1>6. ASSUME NEW n \in Counts, packetdiag' = c,
             ctx' = [ctx EXCEPT ![c] = WriteToBuffer(
                        [@ EXCEPT !.life = "live", !.handle = "open", !.mutex = "live",
                                  !.running = TRUE, !.count = n])],
             thread' = [thread EXCEPT ![c] = [at |-> "loop"]]
      PROVE  IInv'
  <2> DEFINE y == [ctx[c] EXCEPT !.life = "live", !.handle = "open", !.mutex = "live",
                                 !.running = TRUE, !.count = n]
             x == WriteToBuffer(y)
             t == [at |-> "loop"]
  <2>1. n = 0
    BY DEF EndlessCapture
  <2>2. /\ y \in Context /\ y.life = "live" /\ y.handle = "open" /\ y.mutex = "live"
        /\ y.running /\ ~y.breaks /\ y.total = 0
    <3>1. y = [ctx[c] EXCEPT !.life = "live", !.handle = "open", !.mutex = "live",
                             !.running = TRUE, !.count = 0]
      BY <2>1
    <3> HIDE DEF y
    <3> QED  BY <1>4, <3>1, LifeFacts
  <2> HIDE DEF y
  <2>3. x \in Context /\ Same(y, x)
    BY <2>2, SameFacts
  <2>4. t \in ThreadState /\ t.at = "loop"
    BY BarePlaces
  <2>5. ctx' = [ctx EXCEPT ![c] = x] /\ thread' = [thread EXCEPT ![c] = t]
    BY <1>6 DEF IInv, TypeOK, y
  <2>6. \A d \in Ctx \ {c} : /\ HeldAt(d, ctx[d], thread[d], packetdiag')
                             /\ WaitedAt(ctx[d], thread[d], main'.at)
    BY <1>1, OthersAtRest, AtRest
  <2> HIDE DEF x, t, s
  <2>7. /\ HeldAt(c, x, t, packetdiag') /\ WaitedAt(x, t, main'.at)
        /\ BlankAt(x, t, s) /\ RememberedAt(x, t, s)
    BY <1>2, <1>4, <1>6, <2>2, <2>3, <2>4
       DEF HeldAt, WaitedAt, BlankAt, RememberedAt, Same
  <2> QED  BY <1>2, <1>4, <1>6, <2>3, <2>4, <2>5, <2>6, <2>7, OneContext
<1> QED  BY <1>3, <1>5, <1>6

\* What the logic thread does without asking the capture thread.
LEMMA AsideStep ==
    ASSUME Sizes, IInv, SetPaused \/ Follow \/ Frame
    PROVE  IInv'
<1> DEFINE c == packetdiag
           t == thread[c]
<1>1. /\ c \in Ctx /\ ctx[c] \in Context /\ t \in ThreadState
      /\ thread' = [thread EXCEPT ![c] = t]
      /\ UNCHANGED <<packetdiag, main, arrived, seen>>
  <2>1. packetdiag # None /\ UNCHANGED <<packetdiag, thread, main, arrived, seen>>
    BY DEF SetPaused, Follow, Frame
  <2>2. c \in Ctx
    BY <2>1 DEF IInv, TypeOK
  <2> QED  BY <2>1, <2>2, InvAt
<1>2. probe' \in BOOLEAN
  BY <1>1, InvAt, ContextFacts DEF SetPaused, Follow, Frame, Context
<1>3. CASE SetPaused
  <2>1. PICK b \in BOOLEAN : ctx' = [ctx EXCEPT ![packetdiag].paused = b]
    BY <1>3 DEF SetPaused
  <2> DEFINE x == [ctx[c] EXCEPT !.paused = b]
  <2>2. x \in Context /\ Same(ctx[c], x)
    BY <1>1, SameFacts
  <2>3. ctx' = [ctx EXCEPT ![c] = x]
    BY <2>1 DEF IInv, TypeOK
  <2> HIDE DEF x, t
  <2> QED  BY <1>1, <1>2, <2>2, <2>3, QuietStep DEF t
<1>4. CASE Follow
  <2>1. PICK f \in 0 .. FLOW_MAX : ctx' = [ctx EXCEPT ![packetdiag].follow = f]
    BY <1>4 DEF Follow
  <2> DEFINE x == [ctx[c] EXCEPT !.follow = f]
  <2>2. x \in Context /\ Same(ctx[c], x)
    <3>1. \A n \in Nat : LET y == [ctx[c] EXCEPT !.follow = n]
                        IN  y \in Context /\ Same(ctx[c], y)
      BY <1>1, SameFacts
    <3>2. f \in Nat
      BY DEF Sizes
    <3> QED  BY <3>1, <3>2
  <2>3. ctx' = [ctx EXCEPT ![c] = x]
    BY <2>1 DEF IInv, TypeOK
  <2> HIDE DEF x, t
  <2> QED  BY <1>1, <1>2, <2>2, <2>3, QuietStep DEF t
<1>5. CASE Frame
  <2> DEFINE x == [ctx[c] EXCEPT !.buf_tail = ctx[c].buf_head, !.trigger = FALSE]
  <2>1. x \in Context /\ Same(ctx[c], x)
    BY <1>1 DEF Context, Same
  <2>2. ctx' = [ctx EXCEPT ![c] = x]
    BY <1>5 DEF Frame, IInv, TypeOK
  <2> HIDE DEF x, t
  <2> QED  BY <1>1, <1>2, <2>1, <2>2, QuietStep DEF t
<1> QED  BY <1>3, <1>4, <1>5

-------------------------------------------------------------------------------
(* The theorems *)

\* KTerm_Net has no capture when it begins.
LEMMA InitEstablishes ==
    ASSUME Sizes, CaptureInit
    PROVE  IInv
<1>1. Unused \in Context /\ ~Unused.breaks /\ ~Unused.running /\ Unused.total = 0
  <2>1. << >> \in Seq(Flows) /\ None \in Nat
    BY DEF None
  <2>2. [i \in 0 .. RING - 1 |-> None] \in [0 .. RING - 1 -> Nat]
    BY <2>1
  <2>3. 0 \in 0 .. RING - 1 /\ 0 \in 0 .. OUT_SIZE - 1
    BY DEF Sizes
  <2> QED  BY <2>1, <2>2, <2>3 DEF Unused, Context
<1>2. Off \in ThreadState /\ Off.at = "off" /\ Idle \in MainState /\ Idle.at = "idle"
  BY DEF Off, ThreadState, Idle, MainState
<1>3. TypeOK
  <2>1. 0 \in 0 .. MAX_PACKETS /\ << >> \in Seq(Nat)
    BY DEF Sizes
  <2>2. seen \in [Ctx -> Seq(Nat)]
    BY <2>1 DEF CaptureInit
  <2>3. ctx \in [Ctx -> Context] /\ thread \in [Ctx -> ThreadState]
    BY <1>1, <1>2 DEF CaptureInit
  <2> QED  BY <1>2, <2>1, <2>2, <2>3 DEF CaptureInit, TypeOK
<1>4. ASSUME NEW c \in Ctx
      PROVE  /\ HeldAt(c, ctx[c], thread[c], packetdiag)
             /\ WaitedAt(ctx[c], thread[c], main.at)
             /\ BlankAt(ctx[c], thread[c], seen[c])
             /\ RememberedAt(ctx[c], thread[c], seen[c])
  <2>1. ctx[c] = Unused /\ thread[c] = Off /\ seen[c] = << >>
    BY DEF CaptureInit
  <2> HIDE DEF CaptureInit
  <2> QED  BY <1>1, <1>2, <2>1, AtRest DEF BlankAt, RememberedAt
<1> QED  BY <1>2, <1>3, <1>4 DEF IInv, Held, Waited, Blank, Remembered, CaptureInit

\* IInv is inductive.
LEMMA NextPreserves ==
    ASSUME Sizes, EndlessCapture, IInv, [CaptureNext]_capture
    PROVE  IInv'
<1>1. ASSUME NEW c \in Ctx, ReceivePacket(c) \/ Capture(c)
      PROVE  IInv'
  BY <1>1, ReceiveStep, StoreStep, WorkStep, EndStep DEF Capture
<1>2. CASE Joined \/ Free
  BY <1>2, JoinedStep, FreeStep
<1>3. CASE AskStop \/ AskCancel \/ AskStart
  BY <1>3, AskStep
<1>4. CASE Start
  BY <1>4, StartStep
<1>5. CASE SetPaused \/ Follow \/ Frame
  BY <1>5, AsideStep
<1>6. CASE ProbeEnds \/ UNCHANGED capture
  BY <1>6 DEF ProbeEnds, capture, IInv, TypeOK, Held, Waited, Blank, Remembered
<1> QED  BY <1>1, <1>2, <1>3, <1>4, <1>5, <1>6 DEF CaptureNext

\* The packet of a number is found where GetDetail looks for it.
LEMMA InvImplies ==
    ASSUME Sizes, IInv
    PROVE  CaptureSound
<1>1. ThreadOnLive
  BY InvAt DEF ThreadOnLive, Running, HeldAt
<1>2. ASSUME NEW c \in Ctx, NEW n \in 0 .. MAX_PACKETS
      PROVE  Detail(ctx[c], n) = IF n < ctx[c].total /\ n >= ctx[c].total - RING
                                 THEN seen[c][n + 1] ELSE None
  <2> DEFINE x == ctx[c]
             total == x.total
             k == total - n
  <2>0. /\ RING \in Nat /\ RING > 0 /\ n \in Nat /\ total \in Nat
        /\ x.head \in 0 .. RING - 1
    BY InvAt, ContextFacts DEF Sizes
  <2>1. CASE n < total /\ n >= total - RING
    <3>1. k \in 1 .. RING /\ k <= total /\ total - k + 1 = n + 1
          /\ x.head - total + n = x.head - k
      BY <2>0, <2>1
    <3>2. Detail(x, n) = x.ring[(x.head - total + n) % RING]
      BY <2>0, <2>1 DEF Detail
    <3> HIDE DEF k
    <3>3. (x.head - k) % RING = Back(x.head, k)
      BY <2>0, <3>1, BackIsModulus
    <3>4. x.ring[Back(x.head, k)] = seen[c][total - k + 1]
      BY <3>1, InvAt DEF RememberedAt
    <3> QED  BY <2>1, <3>1, <3>2, <3>3, <3>4
  <2>2. CASE ~(n < total /\ n >= total - RING)
    BY <2>0, <2>2 DEF Detail
  <2> QED  BY <2>1, <2>2
<1> QED  BY <1>1, <1>2 DEF CaptureSound, DetailIsNth

\* Every reachable state satisfies the inductive invariant; in particular it is
\* type correct.
THEOREM Invariance ==
    ASSUME Sizes, EndlessCapture
    PROVE  CaptureSpec => []IInv
<1>1. CaptureInit => IInv
  BY InitEstablishes
<1>2. IInv /\ [CaptureNext]_capture => IInv'
  BY NextPreserves
<1> QED  BY <1>1, <1>2, PTL DEF CaptureSpec

\* Whatever order packetdiag, packetdiag_stop, packetdiag_filter and cancel_diag
\* come in, the capture thread finds its context, its mutex and its handle, and
\* KTerm_Net_PacketDiag_GetDetail the packet of the number it is asked for.
THEOREM CaptureSoundTheorem ==
    ASSUME Sizes, EndlessCapture
    PROVE  CaptureSpec => []CaptureSound
<1>1. IInv => CaptureSound
  BY InvImplies
<1> QED  BY <1>1, Invariance, PTL

-------------------------------------------------------------------------------
(* The diagnostic jobs: what is always so of their contexts *)

SpeedStates == {"auto_connect", "auto_send", "auto_read", "auto_parse", "latency",
                "dl_connect", "dl", "ul_connect", "ul", "done"}
Places == 0 .. Streams

\* The descriptor a context has: its own, or that of a stream.
Fd(c, s) == IF s = 0 THEN c.fd ELSE c.streams[s].fd

\* The parts of a context that its memory and its descriptors depend on.
IsJob(c) ==
    /\ DOMAIN c = DOMAIN NoJob
    /\ DOMAIN c.streams = 1 .. Streams
    /\ \A s \in 1 .. Streams : DOMAIN c.streams[s] = {"fd", "up", "bytes"}
    /\ \A s \in Places : Fd(c, s) \in Descriptor \cup {Null}
    /\ c.kind = "speed" /\ c.life = "live" => c.state \in SpeedStates
Shape(w) ==
    /\ DOMAIN w = {"mem", "slots", "open", "errno", "fault", "path"}
    /\ DOMAIN w.mem = Block /\ \A b \in Block : IsJob(w.mem[b])
    /\ DOMAIN w.slots = Slots /\ \A slot \in Slots : w.slots[slot] \in Block \cup {Null}

\* Every open descriptor is in one place, and of a context that is live.
Placed(w) ==
    /\ \A d : d \in w.open <=>
          d # Null /\ \E b \in Block, s \in Places : Fd(w.mem[b], s) = d
    /\ \A a, b \in Block, s, t \in Places :
          Fd(w.mem[a], s) = Fd(w.mem[b], t) /\ Fd(w.mem[a], s) # Null => a = b /\ s = t
    /\ \A b \in Block, s \in Places : w.mem[b].life # "live" => Fd(w.mem[b], s) = Null

\* A pointer is to a live context of its kind.
Pointed(w) ==
    \A slot \in Slots : w.slots[slot] # Null =>
        w.mem[w.slots[slot]].life = "live" /\ w.mem[w.slots[slot]].kind = slot

\* Who frees the data, and whose it is.
Lent(w) ==
    \A b \in Block : w.mem[b].life = "live" =>
        /\ w.mem[b].own => w.mem[b].kind = "response"
        /\ w.mem[b].kind = "response" => w.mem[b].data \in {"null", "test"}
        /\ w.mem[b].kind \in {"scan", "whois"} => w.mem[b].data = "null"
        /\ w.mem[b].data = "test" =>
              /\ w.mem[b].kind = "response" /\ w.mem[b].test \in Block
              /\ w.mem[w.mem[b].test].life = "live" /\ w.mem[w.mem[b].test].kind = "speed"
              /\ w.mem[w.mem[b].test].asked
        /\ w.mem[b].kind = "speed" /\ ~w.mem[b].asked => w.slots["response"] = Null

\* A context has no descriptor where it is about to open one.
Unopened(c) ==
    /\ c.state = "socket" => c.fd = Null
    /\ ~c.initiated => \A s \in 1 .. Streams : c.streams[s].fd = Null
    /\ c.initiated => c.kind = "speed"
Waits(w) == \A b \in Block : Unopened(w.mem[b])

Firm(w) == Shape(w) /\ w.fault = FALSE /\ Placed(w) /\ Pointed(w) /\ Lent(w)
Sound(w) == Firm(w) /\ Waits(w)

\* From w to v nothing is started or freed.
Kept(w, v) ==
    /\ v.slots = w.slots
    /\ \A b \in Block :
          /\ v.mem[b].kind = w.mem[b].kind /\ v.mem[b].life = w.mem[b].life
          /\ v.mem[b].data = w.mem[b].data /\ v.mem[b].test = w.mem[b].test
          /\ v.mem[b].own = w.mem[b].own /\ (w.mem[b].asked => v.mem[b].asked)
Keeps(w, v) == Sound(v) /\ Kept(w, v)

\* From w to v context b changes only, and not what it is.
Only(w, v, b) ==
    /\ DOMAIN v = DOMAIN w /\ v.slots = w.slots /\ v.fault = w.fault
    /\ DOMAIN v.mem = Block /\ \A a \in Block : a # b => v.mem[a] = w.mem[a]
    /\ IsJob(v.mem[b])
    /\ v.mem[b].kind = w.mem[b].kind /\ v.mem[b].life = w.mem[b].life
    /\ v.mem[b].data = w.mem[b].data /\ v.mem[b].test = w.mem[b].test
    /\ v.mem[b].own = w.mem[b].own /\ (w.mem[b].asked => v.mem[b].asked)

\* The context of no job.
LEMMA NoJobFacts ==
    /\ DOMAIN NoJob.streams = 1 .. Streams
    /\ \A s \in 1 .. Streams : DOMAIN NoJob.streams[s] = {"fd", "up", "bytes"} /\ NoJob.streams[s].fd = Null
    /\ NoJob.fd = Null /\ NoJob.data = "null" /\ NoJob.initiated = FALSE /\ NoJob.state = "none"
    /\ NoJob.own = FALSE /\ NoJob.asked = FALSE /\ NoJob.kind = "none" /\ NoJob.life = "never"
BY DEF NoJob

LEMMA NoJobDomain ==
    DOMAIN NoJob = {"kind", "life", "state", "late", "fd", "data", "test", "own", "n", "got", "lo",
                    "hi", "good", "size", "raw", "lost", "streams", "initiated", "asked",
                    "latency", "told", "cut", "seen"}
BY DEF NoJob

LEMMA Apart ==
    ASSUME NEW w, NEW v, NEW b \in Block, Firm(w), Only(w, v, b), Placed(v)
    PROVE  Firm(v) /\ Kept(w, v)
<1>1. Kept(w, v)  BY DEF Only, Kept
<1>2. Shape(v)  BY DEF Firm, Shape, Only
<1>3. Pointed(v)  BY <1>1, <1>2 DEF Firm, Pointed, Kept, Shape
<1>4. Lent(v)  BY <1>1 DEF Firm, Lent, Kept
<1> QED  BY <1>1, <1>2, <1>3, <1>4 DEF Firm, Only

\* No descriptor is touched.
LEMMA Noting ==
    ASSUME NEW w, NEW v, NEW b \in Block, Firm(w), Only(w, v, b), v.open = w.open,
           \A s \in Places : Fd(v.mem[b], s) = Fd(w.mem[b], s)
    PROVE  Firm(v) /\ Kept(w, v)
<1>1. \A a \in Block, s \in Places : Fd(v.mem[a], s) = Fd(w.mem[a], s)
  BY DEF Only
<1>2. \A a \in Block : v.mem[a].life = w.mem[a].life
  BY DEF Only
<1>3. Placed(v)  BY <1>1, <1>2 DEF Firm, Placed
<1> QED  BY <1>3, Apart

\* A descriptor is opened where there was none.
LEMMA Opening ==
    ASSUME NEW w, NEW v, NEW b \in Block, Firm(w), Only(w, v, b), w.mem[b].life = "live",
           NEW d \in Descriptor \ w.open, v.open = w.open \cup {d},
           NEW t \in Places, Fd(w.mem[b], t) = Null, Fd(v.mem[b], t) = d,
           \A s \in Places : s # t => Fd(v.mem[b], s) = Fd(w.mem[b], s)
    PROVE  Firm(v) /\ Kept(w, v)
<1>1. \A a \in Block, s \in Places :
          Fd(v.mem[a], s) = IF a = b /\ s = t THEN d ELSE Fd(w.mem[a], s)
  BY DEF Only
<1>2. \A a \in Block : v.mem[a].life = w.mem[a].life
  BY DEF Only
<1>3. d # Null  BY Numbers DEF Null
<1>4. \A a \in Block, s \in Places : Fd(w.mem[a], s) # d
  BY <1>3 DEF Firm, Placed
<1>5. Placed(v)
  <2>1. ASSUME NEW e
        PROVE  e \in v.open <=> e # Null /\ \E a \in Block, s \in Places : Fd(v.mem[a], s) = e
    <3>1. e \in w.open <=> e # Null /\ \E a \in Block, s \in Places : Fd(w.mem[a], s) = e
      BY DEF Firm, Placed
    <3>2. CASE e = d  BY <1>1, <1>3, <3>2
    <3>3. CASE e # d
      <4>1. ASSUME NEW a \in Block, NEW s \in Places, e # Null
            PROVE  Fd(v.mem[a], s) = e <=> Fd(w.mem[a], s) = e
        BY <1>1, <3>3, <4>1
      <4> QED  BY <3>1, <3>3, <4>1
    <3> QED  BY <3>2, <3>3
  <2>2. \A a, c \in Block, s, r \in Places :
            Fd(v.mem[a], s) = Fd(v.mem[c], r) /\ Fd(v.mem[a], s) # Null => a = c /\ s = r
    BY <1>1, <1>4 DEF Firm, Placed
  <2>3. \A a \in Block, s \in Places : v.mem[a].life # "live" => Fd(v.mem[a], s) = Null
    BY <1>1, <1>2 DEF Firm, Placed
  <2> QED  BY <2>1, <2>2, <2>3 DEF Placed
<1> QED  BY <1>5, Apart

\* Some of a context's descriptors are closed.
LEMMA Closing ==
    ASSUME NEW w, NEW v, NEW b \in Block, Firm(w), Only(w, v, b),
           NEW T \in SUBSET Places, v.open = w.open \ {Fd(w.mem[b], s) : s \in T},
           \A s \in Places : Fd(v.mem[b], s) = IF s \in T THEN Null ELSE Fd(w.mem[b], s)
    PROVE  Firm(v) /\ Kept(w, v)
<1>1. \A a \in Block, s \in Places :
          Fd(v.mem[a], s) = IF a = b /\ s \in T THEN Null ELSE Fd(w.mem[a], s)
  BY DEF Only
<1>2. \A a \in Block : v.mem[a].life = w.mem[a].life
  BY DEF Only
<1>3. Placed(v)
  <2>1. ASSUME NEW e
        PROVE  e \in v.open <=> e # Null /\ \E a \in Block, s \in Places : Fd(v.mem[a], s) = e
    <3>1. e \in w.open <=> e # Null /\ \E a \in Block, s \in Places : Fd(w.mem[a], s) = e
      BY DEF Firm, Placed
    <3>2. CASE \E s \in T : Fd(w.mem[b], s) = e
      <4>1. PICK s \in T : Fd(w.mem[b], s) = e  BY <3>2
      <4>2. ASSUME e # Null, NEW a \in Block, NEW r \in Places, Fd(v.mem[a], r) = e PROVE FALSE
        <5>1. Fd(w.mem[a], r) = e /\ ~(a = b /\ r \in T)  BY <1>1, <4>2
        <5>2. a = b /\ r = s  BY <4>1, <4>2, <5>1 DEF Firm, Placed
        <5> QED  BY <5>1, <5>2
      <4> QED  BY <3>2, <4>2
    <3>3. CASE ~ \E s \in T : Fd(w.mem[b], s) = e
      <4>1. ASSUME NEW a \in Block, NEW s \in Places, e # Null
            PROVE  Fd(v.mem[a], s) = e <=> Fd(w.mem[a], s) = e
        BY <1>1, <3>3, <4>1
      <4> QED  BY <3>1, <3>3, <4>1
    <3> QED  BY <3>2, <3>3
  <2>2. \A a, c \in Block, s, r \in Places :
            Fd(v.mem[a], s) = Fd(v.mem[c], r) /\ Fd(v.mem[a], s) # Null => a = c /\ s = r
    BY <1>1 DEF Firm, Placed
  <2>3. \A a \in Block, s \in Places : v.mem[a].life # "live" => Fd(v.mem[a], s) = Null
    BY <1>1, <1>2 DEF Firm, Placed
  <2> QED  BY <2>1, <2>2, <2>3 DEF Placed
<1> QED  BY <1>3, Apart

LEMMA WaitsOn ==
    ASSUME NEW w, NEW v, NEW b \in Block, Waits(w), Only(w, v, b), Unopened(v.mem[b])
    PROVE  Waits(v)
BY DEF Waits, Only

LEMMA Again ==
    ASSUME NEW w, NEW v, NEW u, Keeps(w, v), Keeps(v, u)
    PROVE  Keeps(w, u)
BY DEF Keeps, Kept

-------------------------------------------------------------------------------
(* What the steps are made of *)

LEMMA Touching ==
    ASSUME NEW w, NEW v, NEW b \in Block, Sound(w), Only(w, v, b), v.open = w.open,
           \A s \in Places : Fd(v.mem[b], s) = Fd(w.mem[b], s), Unopened(v.mem[b])
    PROVE  Keeps(w, v)
BY Noting, WaitsOn DEF Keeps, Sound

\* From d to c nothing changes that descriptors and memory depend on.
Plain(d, c) ==
    /\ DOMAIN c = DOMAIN NoJob /\ c.streams = d.streams /\ c.fd = d.fd
    /\ c.kind = d.kind /\ c.life = d.life /\ c.data = d.data /\ c.test = d.test
    /\ c.own = d.own /\ (d.asked => c.asked) /\ c.initiated = d.initiated
    /\ \/ c.state = d.state
       \/ c.state # "socket" /\ (d.kind = "speed" => c.state \in SpeedStates)

LEMMA PlainKeeps ==
    ASSUME NEW w, Sound(w), NEW b \in Block, NEW v,
           DOMAIN v = DOMAIN w, v.slots = w.slots, v.fault = w.fault, v.open = w.open,
           DOMAIN v.mem = Block, \A a \in Block : a # b => v.mem[a] = w.mem[a],
           Plain(w.mem[b], v.mem[b])
    PROVE  Keeps(w, v)
<1>1. IsJob(w.mem[b]) /\ Unopened(w.mem[b])
  BY DEF Sound, Firm, Shape, Waits
<1>3. \A s \in Places : Fd(v.mem[b], s) = Fd(w.mem[b], s)
  BY DEF Plain, Fd
<1>4. IsJob(v.mem[b]) /\ Unopened(v.mem[b])
  BY <1>1, <1>3 DEF Plain, IsJob, Unopened
<1>5. Only(w, v, b)
  BY <1>4 DEF Only, Plain
<1> QED  BY <1>3, <1>4, <1>5, Touching

LEMMA Domains ==
    ASSUME NEW w, Sound(w), NEW b \in Block
    PROVE  /\ DOMAIN w = {"mem", "slots", "open", "errno", "fault", "path"}
           /\ DOMAIN w.mem = Block /\ IsJob(w.mem[b]) /\ DOMAIN w.mem[b] = DOMAIN NoJob
           /\ Unopened(w.mem[b])
BY DEF Sound, Firm, Shape, IsJob, Waits

LEMMA GotoKeeps ==
    ASSUME NEW w, Sound(w), NEW b \in Block, NEW state, state # "socket",
           w.mem[b].kind = "speed" => state \in SpeedStates
    PROVE  Keeps(w, Goto(w, b, state)) /\ Goto(w, b, state).mem[b].state = state
<1> DEFINE v == Goto(w, b, state)
<1>1. /\ DOMAIN v = DOMAIN w /\ v.slots = w.slots /\ v.fault = w.fault /\ v.open = w.open
      /\ DOMAIN v.mem = Block /\ \A a \in Block : a # b => v.mem[a] = w.mem[a]
  BY Domains DEF Goto
<1>2. v.mem[b] = [w.mem[b] EXCEPT !.state = state, !.late = FALSE]
  BY Domains DEF Goto
<1>3. Plain(w.mem[b], v.mem[b]) /\ v.mem[b].state = state
  BY <1>2, Domains DEF Plain, NoJob
<1> HIDE DEF v
<1>4. Keeps(w, v)
  BY <1>1, <1>3, PlainKeeps
<1> QED  BY <1>3, <1>4 DEF v

LEMMA SeenKeeps ==
    ASSUME NEW w, Sound(w), NEW b \in Block, NEW what
    PROVE  Keeps(w, Seen(w, b, what)) /\ Seen(w, b, what).mem[b].state = w.mem[b].state
<1> DEFINE v == Seen(w, b, what)
<1>1. /\ DOMAIN v = DOMAIN w /\ v.slots = w.slots /\ v.fault = w.fault /\ v.open = w.open
      /\ DOMAIN v.mem = Block /\ \A a \in Block : a # b => v.mem[a] = w.mem[a]
  BY Domains DEF Seen
<1>2. v.mem[b] = [w.mem[b] EXCEPT !.seen = Append(w.mem[b].seen, what)]
  BY Domains DEF Seen
<1>3. Plain(w.mem[b], v.mem[b]) /\ v.mem[b].state = w.mem[b].state
  BY <1>2, Domains DEF Plain, NoJob
<1> HIDE DEF v
<1>4. Keeps(w, v)
  BY <1>1, <1>3, PlainKeeps
<1> QED  BY <1>3, <1>4 DEF v

LEMMA Noted ==
    ASSUME NEW w, Sound(w), NEW b \in Block, NEW c, Plain(w.mem[b], c)
    PROVE  /\ Keeps(w, [w EXCEPT !.mem[b] = c])
           /\ \A x : Keeps(w, [w EXCEPT !.mem[b] = c, !.path = x])
<1> DEFINE v == [w EXCEPT !.mem[b] = c]
<1>1. /\ DOMAIN v = DOMAIN w /\ v.slots = w.slots /\ v.fault = w.fault /\ v.open = w.open
      /\ DOMAIN v.mem = Block /\ (\A a \in Block : a # b => v.mem[a] = w.mem[a]) /\ v.mem[b] = c
  BY Domains
<1>2. ASSUME NEW x PROVE Keeps(w, [w EXCEPT !.mem[b] = c, !.path = x])
  <2> DEFINE u == [w EXCEPT !.mem[b] = c, !.path = x]
  <2>1. /\ DOMAIN u = DOMAIN w /\ u.slots = w.slots /\ u.fault = w.fault /\ u.open = w.open
        /\ DOMAIN u.mem = Block /\ (\A a \in Block : a # b => u.mem[a] = w.mem[a])
        /\ u.mem[b] = c
    BY Domains
  <2> HIDE DEF u
  <2>2. Keeps(w, u)
    BY <2>1, PlainKeeps
  <2> QED  BY <2>2 DEF u
<1> HIDE DEF v
<1>3. Keeps(w, v)
  BY <1>1, PlainKeeps
<1> QED  BY <1>2, <1>3 DEF v

\* The fields that only count, measure or remember.
LEMMA NoteKeeps ==
    ASSUME NEW w, Sound(w), NEW b \in Block, NEW x
    PROVE  /\ Keeps(w, [w EXCEPT !.errno = x])
           /\ Keeps(w, [w EXCEPT !.mem[b].n = x])
           /\ Keeps(w, [w EXCEPT !.mem[b].got = x])
           /\ Keeps(w, [w EXCEPT !.mem[b].raw = x])
           /\ Keeps(w, [w EXCEPT !.mem[b].size = x])
           /\ Keeps(w, [w EXCEPT !.mem[b].hi = x])
           /\ Keeps(w, [w EXCEPT !.mem[b].told = x])
           /\ Keeps(w, [w EXCEPT !.mem[b].late = x])
           /\ Keeps(w, [w EXCEPT !.mem[b].latency = TRUE])
           /\ Keeps(w, [w EXCEPT !.mem[b].asked = TRUE])
<1> DEFINE c == w.mem[b]
<1>0. DOMAIN c = DOMAIN NoJob
  BY Domains
<1>1. Keeps(w, [w EXCEPT !.mem[b].n = x])
  <2>1. Plain(c, [c EXCEPT !.n = x])
    BY <1>0, NoJobDomain DEF Plain
  <2> QED  BY <2>1, Noted
<1>2. Keeps(w, [w EXCEPT !.mem[b].got = x])
  <2>1. Plain(c, [c EXCEPT !.got = x])
    BY <1>0, NoJobDomain DEF Plain
  <2> QED  BY <2>1, Noted
<1>3. Keeps(w, [w EXCEPT !.mem[b].raw = x])
  <2>1. Plain(c, [c EXCEPT !.raw = x])
    BY <1>0, NoJobDomain DEF Plain
  <2> QED  BY <2>1, Noted
<1>4. Keeps(w, [w EXCEPT !.mem[b].size = x])
  <2>1. Plain(c, [c EXCEPT !.size = x])
    BY <1>0, NoJobDomain DEF Plain
  <2> QED  BY <2>1, Noted
<1>5. Keeps(w, [w EXCEPT !.mem[b].hi = x])
  <2>1. Plain(c, [c EXCEPT !.hi = x])
    BY <1>0, NoJobDomain DEF Plain
  <2> QED  BY <2>1, Noted
<1>6. Keeps(w, [w EXCEPT !.mem[b].told = x])
  <2>1. Plain(c, [c EXCEPT !.told = x])
    BY <1>0, NoJobDomain DEF Plain
  <2> QED  BY <2>1, Noted
<1>7. Keeps(w, [w EXCEPT !.mem[b].late = x])
  <2>1. Plain(c, [c EXCEPT !.late = x])
    BY <1>0, NoJobDomain DEF Plain
  <2> QED  BY <2>1, Noted
<1>8. Keeps(w, [w EXCEPT !.mem[b].latency = TRUE])
  <2>1. Plain(c, [c EXCEPT !.latency = TRUE])
    BY <1>0, NoJobDomain DEF Plain
  <2> QED  BY <2>1, Noted
<1>9. Keeps(w, [w EXCEPT !.mem[b].asked = TRUE])
  <2>1. Plain(c, [c EXCEPT !.asked = TRUE])
    BY <1>0, NoJobDomain DEF Plain
  <2> QED  BY <2>1, Noted
<1>10. Keeps(w, [w EXCEPT !.errno = x])
  <2> DEFINE v == [w EXCEPT !.errno = x]
  <2>1. /\ DOMAIN v = DOMAIN w /\ v.slots = w.slots /\ v.fault = w.fault /\ v.open = w.open
        /\ DOMAIN v.mem = Block /\ (\A a \in Block : a # b => v.mem[a] = w.mem[a]) /\ v.mem[b] = c
    BY Domains
  <2>2. Plain(c, c)
    BY <1>0 DEF Plain
  <2> HIDE DEF v
  <2>3. Keeps(w, v)
    BY <2>1, <2>2, PlainKeeps
  <2> QED  BY <2>3 DEF v
<1> QED  BY <1>1, <1>2, <1>3, <1>4, <1>5, <1>6, <1>7, <1>8, <1>9, <1>10

\* What the steps of single jobs note together.
LEMMA NotesKeep ==
    ASSUME NEW w, Sound(w), NEW b \in Block, NEW x, NEW y, NEW z
    PROVE  /\ Keeps(w, [w EXCEPT !.path = x, !.mem[b].lost = y])
           /\ Keeps(w, [w EXCEPT !.path = x, !.mem[b].good = y, !.mem[b].lo = z])
           /\ Keeps(w, [w EXCEPT !.mem[b].hi = x, !.mem[b].lost = y])
           /\ Keeps(w, [w EXCEPT !.mem[b].n = x, !.mem[b].told = y, !.mem[b].seen = z])
<1> DEFINE c == w.mem[b]
<1>0. /\ DOMAIN c = DOMAIN NoJob /\ DOMAIN w.mem = Block
      /\ DOMAIN w = {"mem", "slots", "open", "errno", "fault", "path"}
  BY Domains
<1>1. Keeps(w, [w EXCEPT !.path = x, !.mem[b].lost = y])
  <2> DEFINE d == [c EXCEPT !.lost = y]
  <2>1. Plain(c, d)
    BY <1>0, NoJobDomain DEF Plain
  <2>2. [w EXCEPT !.path = x, !.mem[b].lost = y] = [w EXCEPT !.mem[b] = d, !.path = x]
    BY <1>0
  <2> HIDE DEF d
  <2>3. Keeps(w, [w EXCEPT !.mem[b] = d, !.path = x])
    BY <2>1, Noted
  <2> QED  BY <2>2, <2>3
<1>2. Keeps(w, [w EXCEPT !.path = x, !.mem[b].good = y, !.mem[b].lo = z])
  <2> DEFINE d == [c EXCEPT !.good = y, !.lo = z]
  <2>1. Plain(c, d)
    BY <1>0, NoJobDomain DEF Plain
  <2>2. [w EXCEPT !.path = x, !.mem[b].good = y, !.mem[b].lo = z] = [w EXCEPT !.mem[b] = d, !.path = x]
    BY <1>0
  <2> HIDE DEF d
  <2>3. Keeps(w, [w EXCEPT !.mem[b] = d, !.path = x])
    BY <2>1, Noted
  <2> QED  BY <2>2, <2>3
<1>3. Keeps(w, [w EXCEPT !.mem[b].hi = x, !.mem[b].lost = y])
  <2> DEFINE d == [c EXCEPT !.hi = x, !.lost = y]
  <2>1. Plain(c, d)
    BY <1>0, NoJobDomain DEF Plain
  <2>2. [w EXCEPT !.mem[b].hi = x, !.mem[b].lost = y] = [w EXCEPT !.mem[b] = d]
    BY <1>0
  <2> HIDE DEF d
  <2>3. Keeps(w, [w EXCEPT !.mem[b] = d])
    BY <2>1, Noted
  <2> QED  BY <2>2, <2>3
<1>4. Keeps(w, [w EXCEPT !.mem[b].n = x, !.mem[b].told = y, !.mem[b].seen = z])
  <2> DEFINE d == [c EXCEPT !.n = x, !.told = y, !.seen = z]
  <2>1. Plain(c, d)
    BY <1>0, NoJobDomain DEF Plain
  <2>2. [w EXCEPT !.mem[b].n = x, !.mem[b].told = y, !.mem[b].seen = z] = [w EXCEPT !.mem[b] = d]
    BY <1>0
  <2> HIDE DEF d
  <2>3. Keeps(w, [w EXCEPT !.mem[b] = d])
    BY <2>1, Noted
  <2> QED  BY <2>2, <2>3
<1> QED  BY <1>1, <1>2, <1>3, <1>4

LEMMA ReportKeeps ==
    ASSUME NEW w, Sound(w), NEW b \in Block, w.mem[b].data = "test" => w.mem[b].life = "live"
    PROVE  Keeps(w, Report(w, b))
              /\ (w.mem[b].kind # "speed" => Report(w, b).mem[b].state = w.mem[b].state)
<1> DEFINE v == [w EXCEPT !.mem[b].told = w.mem[b].told + 1]
           t == w.mem[b].test
<1>1. Keeps(w, v)
  BY NoteKeeps
<1>2. v.mem[b].state = w.mem[b].state
  <2>1. v.mem[b] = [w.mem[b] EXCEPT !.told = w.mem[b].told + 1]
    BY Domains
  <2> QED  BY <2>1, Domains DEF NoJob
<1>3. CASE w.mem[b].data # "test"
  BY <1>1, <1>2, <1>3 DEF Report
<1>4. CASE w.mem[b].data = "test"
  <2>1. t \in Block /\ w.mem[t].life = "live" /\ w.mem[t].kind = "speed" /\ w.mem[b].kind = "response"
    BY <1>4 DEF Sound, Firm, Lent
  <2>7. Report(w, b) = LatencyCB(v, t)
    BY <1>4 DEF Report
  <2> HIDE DEF t
  <2>2. Sound(v) /\ v.mem[t].life = "live"
    BY <1>1, <2>1 DEF Keeps, Kept
  <2>3. t # Null
    BY <2>1, Numbers DEF Null
  <2> HIDE DEF v
  <2>4. LatencyCB(v, t) = [v EXCEPT !.mem[t].latency = TRUE]
    BY <2>2, <2>3 DEF LatencyCB, Live
  <2>5. Keeps(v, LatencyCB(v, t))
    <3>1. Keeps(v, [v EXCEPT !.mem[t].latency = TRUE])
      BY <2>1, <2>2, NoteKeeps
    <3> QED  BY <2>4, <3>1
  <2>6. LatencyCB(v, t).mem[b] = v.mem[b]
    <3>1. t # b /\ t \in Block
      BY <2>1
    <3>2. DOMAIN v = {"mem", "slots", "open", "errno", "fault", "path"} /\ DOMAIN v.mem = Block
      BY <2>2, Domains
    <3>3. LatencyCB(v, t).mem = [v.mem EXCEPT ![t].latency = TRUE]
      BY <2>4, <3>2
    <3> QED  BY <3>1, <3>2, <3>3
  <2> QED  BY <1>1, <1>2, <2>5, <2>6, <2>7, Again
<1> HIDE DEF v, t
<1> QED  BY <1>3, <1>4

LEMMA FinishKeeps ==
    ASSUME NEW w, Sound(w), NEW b \in Block, w.mem[b].life = "live"
    PROVE  Keeps(w, Finish(w, b))
<1> DEFINE v == Goto(w, b, "done")
<1>1. Keeps(w, v)
  BY GotoKeeps DEF SpeedStates
<1> HIDE DEF v
<1>2. Keeps(v, Report(v, b))
  BY <1>1, ReportKeeps DEF Keeps, Kept
<1> QED  BY <1>1, <1>2, Again DEF Finish, v

-------------------------------------------------------------------------------
(* Descriptors *)

LEMMA Smallest ==
    ASSUME NEW S, S \subseteq Nat, S # {}
    PROVE  \E d \in S : \A e \in S : d <= e
<1> DEFINE R == {ss \in Nat \X Nat : ss[1] < ss[2]}
<1>1. IsWellFoundedOn(R, Nat)
  <2>1. R = OpToRel(<, Nat)
    BY DEF OpToRel
  <2> QED  BY <2>1, NatLessThanWellFounded
<1>2. PICK d \in S : \A e \in S : ~(<<e, d>> \in R)
  <2> HIDE DEF R
  <2> QED  BY <1>1, WFMin
<1>3. ASSUME NEW e \in S PROVE d <= e
  <2>1. d \in Nat /\ e \in Nat /\ ~(e < d)
    BY <1>2
  <2> QED  BY <2>1
<1> QED  BY <1>3

LEMMA NewDescriptorFacts ==
    ASSUME NEW w, Firm(w), HasDescriptor(w)
    PROVE  NewDescriptor(w) \in Descriptor \ w.open
<1>1. w.open \subseteq Descriptor
  BY DEF Firm, Placed, Shape, IsJob
<1>2. Descriptor \ w.open # {} /\ Descriptor \ w.open \subseteq Nat
  BY <1>1, Numbers DEF HasDescriptor
<1>3. \E d \in Descriptor \ w.open : \A e \in Descriptor \ w.open : d <= e
  BY <1>2, Smallest
<1> QED  BY <1>3 DEF NewDescriptor

\* A context opens its own descriptor; it may leave its state by that.
LEMMA OpenKeeps ==
    ASSUME NEW w, Sound(w), NEW b \in Block, w.mem[b].life = "live", w.mem[b].fd = Null,
           HasDescriptor(w)
    PROVE  /\ w.mem[b].state # "socket" => Keeps(w, OpenSocket(w, b))
           /\ \A state : state # "socket" /\ w.mem[b].kind # "speed" =>
                 Keeps(w, Goto(OpenSocket(w, b), b, state))
           /\ OpenSocket(w, b).mem[b].state = w.mem[b].state
<1> DEFINE d == NewDescriptor(w)
           v == OpenSocket(w, b)
<1>1. d \in Descriptor \ w.open
  BY NewDescriptorFacts DEF Sound
<1>2. /\ DOMAIN v = DOMAIN w /\ v.slots = w.slots /\ v.fault = w.fault /\ v.open = w.open \cup {d}
      /\ DOMAIN v.mem = Block /\ \A a \in Block : a # b => v.mem[a] = w.mem[a]
  BY Domains DEF OpenSocket, Opened
<1>3. v.mem[b] = [w.mem[b] EXCEPT !.fd = d]
  BY Domains DEF OpenSocket, Opened
<1> HIDE DEF d
<1>4. /\ DOMAIN v.mem[b] = DOMAIN NoJob /\ v.mem[b].streams = w.mem[b].streams /\ v.mem[b].fd = d
      /\ v.mem[b].kind = w.mem[b].kind /\ v.mem[b].life = w.mem[b].life
      /\ v.mem[b].data = w.mem[b].data /\ v.mem[b].test = w.mem[b].test
      /\ v.mem[b].own = w.mem[b].own /\ v.mem[b].asked = w.mem[b].asked
      /\ v.mem[b].initiated = w.mem[b].initiated /\ v.mem[b].state = w.mem[b].state
  BY <1>3, Domains DEF NoJob
<1> HIDE DEF v
<1>5. \A s \in Places : Fd(v.mem[b], s) = IF s = 0 THEN d ELSE Fd(w.mem[b], s)
  BY <1>4 DEF Fd
<1>6. IsJob(v.mem[b])
  BY <1>1, <1>4, <1>5, Domains DEF IsJob
<1>7. Only(w, v, b)
  BY <1>2, <1>4, <1>6 DEF Only
<1>8. 0 \in Places /\ Fd(w.mem[b], 0) = Null /\ Fd(v.mem[b], 0) = d
  BY <1>5, Numbers DEF Places, Fd
<1>9. \A s \in Places : s # 0 => Fd(v.mem[b], s) = Fd(w.mem[b], s)
  BY <1>5
<1>10. Firm(v) /\ Kept(w, v)
  BY <1>1, <1>2, <1>7, <1>8, <1>9, Opening DEF Sound
<1>11. ASSUME w.mem[b].state # "socket" PROVE Keeps(w, v)
  <2>1. Unopened(v.mem[b])
    BY <1>4, <1>11, Domains DEF Unopened
  <2> QED  BY <1>7, <1>10, <2>1, WaitsOn DEF Keeps, Sound
<1>12. ASSUME NEW state, state # "socket", w.mem[b].kind # "speed"
       PROVE  Keeps(w, Goto(v, b, state))
  <2> DEFINE u == Goto(v, b, state)
  <2>1. /\ DOMAIN u = DOMAIN v /\ u.slots = v.slots /\ u.fault = v.fault /\ u.open = v.open
        /\ DOMAIN u.mem = Block /\ \A a \in Block : a # b => u.mem[a] = v.mem[a]
        /\ u.mem[b] = [v.mem[b] EXCEPT !.state = state, !.late = FALSE]
    BY <1>10 DEF Goto, Firm, Shape
  <2>2. Plain(v.mem[b], u.mem[b]) /\ u.mem[b].state = state
    BY <1>4, <1>12, <2>1 DEF Plain, NoJob
  <2> HIDE DEF u
  <2>3. \A s \in Places : Fd(u.mem[b], s) = Fd(v.mem[b], s)
    BY <2>2 DEF Plain, Fd
  <2>4. IsJob(u.mem[b]) /\ u.mem[b].kind # "speed"
    BY <1>4, <1>6, <1>12, <2>2, <2>3 DEF Plain, IsJob
  <2>5. Only(v, u, b)
    BY <2>1, <2>2, <2>4 DEF Only, Plain
  <2>6. Firm(u) /\ Kept(v, u)
    BY <1>10, <2>1, <2>3, <2>5, Noting
  <2>7. Unopened(u.mem[b])
    BY <1>4, <1>12, <2>2, Domains DEF Unopened, Plain
  <2>8. Waits(u)
    BY <1>2, <2>1, <2>7 DEF Waits, Sound
  <2> QED  BY <1>10, <2>6, <2>8 DEF Keeps, Sound, Kept, u
<1> QED  BY <1>4, <1>11, <1>12 DEF v

LEMMA CloseKeeps ==
    ASSUME NEW w, Sound(w), NEW b \in Block
    PROVE  /\ Keeps(w, CloseProbe(w, b))
           /\ CloseProbe(w, b).mem[b].fd = Null /\ CloseProbe(w, b).mem[b].state = w.mem[b].state
           /\ HasDescriptor(w) => HasDescriptor(CloseProbe(w, b))
<1> DEFINE v == CloseProbe(w, b)
<1>1. /\ DOMAIN v = DOMAIN w /\ v.slots = w.slots /\ v.fault = w.fault
      /\ v.open = w.open \ {w.mem[b].fd}
      /\ DOMAIN v.mem = Block /\ \A a \in Block : a # b => v.mem[a] = w.mem[a]
  BY Domains DEF CloseProbe, Closed
<1>2. v.mem[b] = [w.mem[b] EXCEPT !.fd = Null]
  BY Domains DEF CloseProbe, Closed
<1>3. /\ DOMAIN v.mem[b] = DOMAIN NoJob /\ v.mem[b].streams = w.mem[b].streams /\ v.mem[b].fd = Null
      /\ v.mem[b].kind = w.mem[b].kind /\ v.mem[b].life = w.mem[b].life
      /\ v.mem[b].data = w.mem[b].data /\ v.mem[b].test = w.mem[b].test
      /\ v.mem[b].own = w.mem[b].own /\ v.mem[b].asked = w.mem[b].asked
      /\ v.mem[b].initiated = w.mem[b].initiated /\ v.mem[b].state = w.mem[b].state
  BY <1>2, Domains DEF NoJob
<1> HIDE DEF v
<1>4. \A s \in Places : Fd(v.mem[b], s) = IF s \in {0} THEN Null ELSE Fd(w.mem[b], s)
  BY <1>3 DEF Fd
<1>5. IsJob(v.mem[b]) /\ Unopened(v.mem[b])
  BY <1>3, <1>4, Domains DEF IsJob, Unopened
<1>6. Only(w, v, b)
  BY <1>1, <1>3, <1>5 DEF Only
<1>7. {0} \in SUBSET Places /\ v.open = w.open \ {Fd(w.mem[b], s) : s \in {0}}
  BY <1>1, Numbers DEF Places, Fd
<1>8. Firm(v) /\ Kept(w, v)
  BY <1>4, <1>6, <1>7, Closing DEF Sound
<1>9. Keeps(w, v)
  BY <1>5, <1>6, <1>8, WaitsOn DEF Keeps, Sound
<1>10. ASSUME HasDescriptor(w) PROVE HasDescriptor(v)
  <2>1. w.open \subseteq Descriptor
    BY DEF Sound, Firm, Placed, Shape, IsJob
  <2> QED  BY <1>1, <1>10, <2>1 DEF HasDescriptor
<1> QED  BY <1>3, <1>9, <1>10 DEF v

LEMMA CloseStreamsKeeps ==
    ASSUME NEW w, Sound(w), NEW b \in Block
    PROVE  /\ Keeps(w, CloseStreams(w, b))
           /\ \A s \in 1 .. Streams : CloseStreams(w, b).mem[b].streams[s].fd = Null
<1> DEFINE v == CloseStreams(w, b)
<1>1. /\ DOMAIN v = DOMAIN w /\ v.slots = w.slots /\ v.fault = w.fault
      /\ v.open = w.open \ {w.mem[b].streams[s].fd : s \in 1 .. Streams}
      /\ DOMAIN v.mem = Block /\ \A a \in Block : a # b => v.mem[a] = w.mem[a]
  BY Domains DEF CloseStreams, Closed
<1>2. v.mem[b] = [w.mem[b] EXCEPT !.streams = NoJob.streams]
  BY Domains DEF CloseStreams, Closed
<1>3. /\ DOMAIN v.mem[b] = DOMAIN NoJob /\ v.mem[b].streams = NoJob.streams
      /\ v.mem[b].fd = w.mem[b].fd
      /\ v.mem[b].kind = w.mem[b].kind /\ v.mem[b].life = w.mem[b].life
      /\ v.mem[b].data = w.mem[b].data /\ v.mem[b].test = w.mem[b].test
      /\ v.mem[b].own = w.mem[b].own /\ v.mem[b].asked = w.mem[b].asked
      /\ v.mem[b].initiated = w.mem[b].initiated /\ v.mem[b].state = w.mem[b].state
  BY <1>2, Domains DEF NoJob
<1>4. /\ DOMAIN NoJob.streams = 1 .. Streams
      /\ \A s \in 1 .. Streams :
            DOMAIN NoJob.streams[s] = {"fd", "up", "bytes"} /\ NoJob.streams[s].fd = Null
  BY DEF NoJob
<1> HIDE DEF v
<1>5. \A s \in Places : Fd(v.mem[b], s) = IF s \in 1 .. Streams THEN Null ELSE Fd(w.mem[b], s)
  BY <1>3, <1>4, Numbers DEF Fd, Places
<1>6. IsJob(v.mem[b]) /\ Unopened(v.mem[b])
  BY <1>3, <1>4, <1>5, Domains DEF IsJob, Unopened
<1>7. Only(w, v, b)
  BY <1>1, <1>3, <1>6 DEF Only
<1>8. 1 .. Streams \in SUBSET Places /\ v.open = w.open \ {Fd(w.mem[b], s) : s \in 1 .. Streams}
  <2>1. {w.mem[b].streams[s].fd : s \in 1 .. Streams} = {Fd(w.mem[b], s) : s \in 1 .. Streams}
    BY Numbers DEF Fd
  <2>2. 1 .. Streams \in SUBSET Places
    BY Numbers DEF Places
  <2>3. v.open = w.open \ {Fd(w.mem[b], s) : s \in 1 .. Streams}
    <3>1. v.open = w.open \ {w.mem[b].streams[s].fd : s \in 1 .. Streams}
      BY <1>1
    <3> QED  BY <2>1, <3>1, Zenon
  <2> QED  BY <2>2, <2>3
<1>9. Firm(v) /\ Kept(w, v)
  BY <1>5, <1>7, <1>8, Closing DEF Sound
<1>10. Keeps(w, v)
  BY <1>6, <1>7, <1>9, WaitsOn DEF Keeps, Sound
<1> QED  BY <1>3, <1>4, <1>10 DEF v

-------------------------------------------------------------------------------
(* Memory *)

\* From w to v contexts are freed only.
Fewer(w, v) ==
    /\ \A slot \in Slots : v.slots[slot] \in {w.slots[slot], Null}
    /\ \A a \in Block :
          /\ v.mem[a].life = "live" => v.mem[a] = w.mem[a]
          /\ w.mem[a].life = "never" => v.mem[a].life = "never"
    /\ v.open \subseteq w.open

\* Nobody reports to b.
Unread(w, b) == \A a \in Block : w.mem[a].life = "live" /\ w.mem[a].data = "test" => w.mem[a].test # b

LEMMA Freeing ==
    ASSUME NEW w, Sound(w), NEW b \in Block, w.mem[b].life = "live", Unread(w, b),
           NEW v, DOMAIN v = DOMAIN w, v.fault = w.fault, v.open = w.open \ HeldBy(w.mem[b]),
           DOMAIN v.mem = Block, \A a \in Block : a # b => v.mem[a] = w.mem[a],
           DOMAIN v.slots = Slots,
           \A slot \in Slots : v.slots[slot] \in {w.slots[slot], Null} /\ v.slots[slot] # b,
           DOMAIN v.mem[b] = DOMAIN NoJob, v.mem[b].life = "freed", v.mem[b].fd = Null,
           v.mem[b].streams = NoJob.streams, v.mem[b].state = "none", v.mem[b].initiated = FALSE
    PROVE  Sound(v) /\ Fewer(w, v)
<1>1. \A s \in Places : Fd(v.mem[b], s) = Null
  BY NoJobFacts, Numbers DEF Fd, Places
<1>2. IsJob(v.mem[b]) /\ Unopened(v.mem[b])
  BY <1>1, NoJobFacts DEF IsJob, Unopened
<1>3. Shape(v)
  BY <1>2 DEF Sound, Firm, Shape
<1>4. HeldBy(w.mem[b]) = {Fd(w.mem[b], s) : s \in Places} \ {Null}
  <2>1. ASSUME NEW e
        PROVE  e \in HeldBy(w.mem[b]) <=> e \in {Fd(w.mem[b], s) : s \in Places} \ {Null}
    BY Numbers DEF HeldBy, Fd, Places
  <2> QED  BY <2>1
<1>5. \A a \in Block, s \in Places : Fd(v.mem[a], s) = IF a = b THEN Null ELSE Fd(w.mem[a], s)
  BY <1>1
<1>6. Placed(v)
  <2>1. ASSUME NEW e
        PROVE  e \in v.open <=> e # Null /\ \E a \in Block, s \in Places : Fd(v.mem[a], s) = e
    <3>1. e \in w.open <=> e # Null /\ \E a \in Block, s \in Places : Fd(w.mem[a], s) = e
      BY DEF Sound, Firm, Placed
    <3>2. CASE e \in HeldBy(w.mem[b])
      <4>1. PICK s \in Places : Fd(w.mem[b], s) = e /\ e # Null  BY <1>4, <3>2
      <4>2. ASSUME NEW a \in Block, NEW r \in Places, Fd(v.mem[a], r) = e PROVE FALSE
        <5>1. a # b /\ Fd(w.mem[a], r) = e  BY <1>5, <4>1, <4>2
        <5> QED  BY <4>1, <5>1 DEF Sound, Firm, Placed
      <4> QED  BY <3>2, <4>2
    <3>3. CASE e \notin HeldBy(w.mem[b])
      <4>1. ASSUME NEW a \in Block, NEW s \in Places, e # Null
            PROVE  Fd(v.mem[a], s) = e <=> Fd(w.mem[a], s) = e
        BY <1>4, <1>5, <3>3, <4>1
      <4> QED  BY <3>1, <3>3, <4>1
    <3> QED  BY <3>2, <3>3
  <2>2. \A a, c \in Block, s, r \in Places :
            Fd(v.mem[a], s) = Fd(v.mem[c], r) /\ Fd(v.mem[a], s) # Null => a = c /\ s = r
    BY <1>5 DEF Sound, Firm, Placed
  <2>3. \A a \in Block, s \in Places : v.mem[a].life # "live" => Fd(v.mem[a], s) = Null
    BY <1>5 DEF Sound, Firm, Placed
  <2> QED  BY <2>1, <2>2, <2>3 DEF Placed
<1>7. Pointed(v)
  <2>1. ASSUME NEW slot \in Slots, v.slots[slot] # Null
        PROVE  v.mem[v.slots[slot]].life = "live" /\ v.mem[v.slots[slot]].kind = slot
    <3>1. v.slots[slot] = w.slots[slot] /\ v.slots[slot] # b
      BY <2>1
    <3>2. w.slots[slot] \in Block
      BY <2>1, <3>1 DEF Sound, Firm, Shape
    <3>3. w.mem[w.slots[slot]].life = "live" /\ w.mem[w.slots[slot]].kind = slot
      BY <2>1, <3>1 DEF Sound, Firm, Pointed
    <3> QED  BY <3>1, <3>2, <3>3
  <2> QED  BY <2>1 DEF Pointed
<1>8. Lent(v)
  <2> SUFFICES ASSUME NEW a \in Block, v.mem[a].life = "live"
               PROVE  /\ v.mem[a].own => v.mem[a].kind = "response"
                      /\ v.mem[a].kind = "response" => v.mem[a].data \in {"null", "test"}
                      /\ v.mem[a].kind \in {"scan", "whois"} => v.mem[a].data = "null"
                      /\ v.mem[a].data = "test" =>
                            /\ v.mem[a].kind = "response" /\ v.mem[a].test \in Block
                            /\ v.mem[v.mem[a].test].life = "live"
                            /\ v.mem[v.mem[a].test].kind = "speed"
                            /\ v.mem[v.mem[a].test].asked
                      /\ v.mem[a].kind = "speed" /\ ~v.mem[a].asked => v.slots["response"] = Null
    BY DEF Lent
  <2>1. a # b /\ v.mem[a] = w.mem[a]
    OBVIOUS
  <2>2. w.mem[a].data = "test" => w.mem[a].test # b
    BY <2>1 DEF Unread
  <2>3. "response" \in Slots
    BY DEF Slots, Jobs
  <2> QED  BY <2>1, <2>2, <2>3 DEF Sound, Firm, Lent
<1>9. Waits(v)
  BY <1>2 DEF Sound, Waits
<1>10. Fewer(w, v)
  BY DEF Fewer
<1> QED  BY <1>3, <1>6, <1>7, <1>8, <1>9, <1>10 DEF Sound, Firm

LEMMA FreeJobFrees ==
    ASSUME NEW w, Sound(w), NEW slot \in Slots,
           w.slots[slot] # Null =>
               w.mem[w.slots[slot]].data # "test" /\ Unread(w, w.slots[slot])
    PROVE  /\ Sound(FreeJob(w, slot)) /\ Fewer(w, FreeJob(w, slot))
           /\ FreeJob(w, slot).slots[slot] = Null
<1> DEFINE b == w.slots[slot]
           x == Closed(w, HeldBy(w.mem[b]))
           v == FreeJob(w, slot)
<1>1. CASE b = Null
  <2>1. v = w
    BY <1>1 DEF FreeJob
  <2> QED  BY <1>1, <2>1 DEF Fewer
<1>2. CASE b # Null
  <2>1. b \in Block /\ w.mem[b].life = "live" /\ w.mem[b].kind = slot
    BY <1>2 DEF Sound, Firm, Shape, Pointed
  <2>2. /\ DOMAIN x = DOMAIN w /\ x.mem = w.mem /\ x.slots = w.slots /\ x.fault = w.fault
        /\ x.open = w.open \ HeldBy(w.mem[b])
    BY <2>1, Domains DEF Closed
  <2>3. w.mem[b].own => w.mem[b].data = "null"
    BY <1>2, <2>1 DEF Sound, Firm, Lent
  <2>4. (IF w.mem[b].own THEN FreeData(x, w.mem[b]) ELSE x) = x
    BY <2>3 DEF FreeData
  <2> DEFINE c == [NoJob EXCEPT !.kind = w.mem[b].kind, !.life = "freed",
                                !.told = w.mem[b].told, !.seen = w.mem[b].seen]
  <2>5. FreeBlock(x, b) = [x EXCEPT !.mem[b] = c]
    BY <1>2, <2>1, <2>2 DEF FreeBlock, Live
  <2>6. v = [[x EXCEPT !.mem[b] = c] EXCEPT !.mem[b].cut = TRUE, !.slots[slot] = Null]
    BY <1>2, <2>4, <2>5 DEF FreeJob
  <2>7. /\ DOMAIN c = DOMAIN NoJob /\ c.life = "freed" /\ c.fd = Null
        /\ c.streams = NoJob.streams /\ c.state = "none" /\ c.initiated = FALSE
    BY NoJobFacts DEF NoJob
  <2>8. DOMAIN w.mem = Block /\ DOMAIN w.slots = Slots
        /\ DOMAIN w = {"mem", "slots", "open", "errno", "fault", "path"}
    BY DEF Sound, Firm, Shape
  <2> HIDE DEF x, c, b
  <2>9. /\ DOMAIN v = DOMAIN w /\ v.fault = w.fault /\ v.open = w.open \ HeldBy(w.mem[b])
        /\ DOMAIN v.mem = Block /\ \A a \in Block : a # b => v.mem[a] = w.mem[a]
    BY <2>1, <2>2, <2>6, <2>8
  <2>10. DOMAIN v.slots = Slots /\ \A t \in Slots : v.slots[t] = IF t = slot THEN Null ELSE w.slots[t]
    BY <2>1, <2>2, <2>6, <2>8
  <2>11. v.mem[b] = [c EXCEPT !.cut = TRUE]
    BY <2>1, <2>2, <2>6, <2>8
  <2>12. /\ DOMAIN v.mem[b] = DOMAIN NoJob /\ v.mem[b].life = "freed" /\ v.mem[b].fd = Null
         /\ v.mem[b].streams = NoJob.streams /\ v.mem[b].state = "none"
         /\ v.mem[b].initiated = FALSE
    BY <2>7, <2>11 DEF NoJob
  <2>13. \A t \in Slots : t # slot => w.slots[t] # b
    BY <1>2, <2>1 DEF Sound, Firm, Pointed
  <2>14. Unread(w, b)
    BY <1>2 DEF b
  <2> HIDE DEF v
  <2>16. \A t \in Slots : v.slots[t] \in {w.slots[t], Null} /\ v.slots[t] # b
    <3>1. b # Null
      BY <2>1, Numbers DEF Null
    <3> QED  BY <2>10, <2>13, <3>1
  <2>15. Sound(v) /\ Fewer(w, v)
    BY <2>1, <2>9, <2>10, <2>12, <2>14, <2>16, Freeing
  <2> QED  BY <2>10, <2>15 DEF v
<1> QED  BY <1>1, <1>2

LEMMA RetireFrees ==
    ASSUME NEW w, Sound(w), NEW b \in Block, w.mem[b].life = "live",
           w.mem[b].kind \in {"scan", "whois"}
    PROVE  Sound(Retire(w, b)) /\ Fewer(w, Retire(w, b))
<1> DEFINE x == CloseProbe(w, b)
           k == w.mem[b].kind
           y == [x EXCEPT !.slots[k] = Null]
           v == Retire(w, b)
           c == [NoJob EXCEPT !.kind = y.mem[b].kind, !.life = "freed",
                              !.told = y.mem[b].told, !.seen = y.mem[b].seen]
<1>1. w.mem[b].data = "null" /\ b # Null
  BY Numbers DEF Sound, Firm, Lent, Null
<1>2. FreeData(x, w.mem[b]) = x
  BY <1>1 DEF FreeData
<1>3. /\ DOMAIN x = DOMAIN w /\ x.slots = w.slots /\ x.fault = w.fault
      /\ x.open = w.open \ {w.mem[b].fd}
      /\ DOMAIN x.mem = Block /\ \A a \in Block : a # b => x.mem[a] = w.mem[a]
      /\ x.mem[b].life = "live"
  <2>1. x.mem[b] = [w.mem[b] EXCEPT !.fd = Null]
    BY Domains DEF CloseProbe, Closed
  <2>2. x.mem[b].life = w.mem[b].life
    BY <2>1, Domains DEF NoJob
  <2> QED  BY <2>2, Domains DEF CloseProbe, Closed
<1>4. DOMAIN w.slots = Slots /\ DOMAIN w = {"mem", "slots", "open", "errno", "fault", "path"}
      /\ k \in Slots
  BY DEF Sound, Firm, Shape, Slots, Jobs
<1>5. v = FreeBlock(y, b)
  BY <1>2 DEF Retire
<1> HIDE DEF x, k
<1>6. /\ DOMAIN y = DOMAIN w /\ y.mem = x.mem /\ y.fault = w.fault /\ y.open = x.open
      /\ DOMAIN y.slots = Slots
      /\ \A t \in Slots : y.slots[t] = IF t = k THEN Null ELSE w.slots[t]
  BY <1>3, <1>4
<1> HIDE DEF y
<1>7. v = [y EXCEPT !.mem[b] = c]
  BY <1>1, <1>3, <1>5, <1>6 DEF FreeBlock, Live
<1>8. /\ DOMAIN c = DOMAIN NoJob /\ c.life = "freed" /\ c.fd = Null
      /\ c.streams = NoJob.streams /\ c.state = "none" /\ c.initiated = FALSE
  BY NoJobFacts DEF NoJob
<1> HIDE DEF c, v
<1>9. /\ DOMAIN v = DOMAIN w /\ v.fault = w.fault /\ v.open = w.open \ {w.mem[b].fd}
      /\ DOMAIN v.mem = Block /\ (\A a \in Block : a # b => v.mem[a] = w.mem[a])
      /\ v.mem[b] = c /\ v.slots = y.slots
  BY <1>3, <1>4, <1>6, <1>7
<1>10. w.open \ {w.mem[b].fd} = w.open \ HeldBy(w.mem[b])
  <2>1. \A s \in 1 .. Streams : w.mem[b].streams[s].fd = Null
    BY Domains DEF Unopened
  <2>2. Null \notin w.open
    BY DEF Sound, Firm, Placed
  <2> QED  BY <2>1, <2>2 DEF HeldBy
<1>11. \A t \in Slots : t # k => w.slots[t] # b
  BY <1>1 DEF Sound, Firm, Pointed, k
<1>12. Unread(w, b)
  BY DEF Unread, Sound, Firm, Lent
<1>13. \A t \in Slots : v.slots[t] \in {w.slots[t], Null} /\ v.slots[t] # b
  BY <1>1, <1>6, <1>9, <1>11
<1>14. v.open = w.open \ HeldBy(w.mem[b]) /\ DOMAIN v.slots = Slots
  BY <1>6, <1>9, <1>10
<1>15. Sound(v) /\ Fewer(w, v)
  BY <1>8, <1>9, <1>12, <1>13, <1>14, Freeing
<1> QED  BY <1>15 DEF v

-------------------------------------------------------------------------------
(* Starting *)

LEMMA NewBlockFacts ==
    ASSUME NEW w, HasBlock(w)
    PROVE  NewBlock(w) \in Block /\ w.mem[NewBlock(w)].life = "never"
<1> DEFINE S == {b \in Block : w.mem[b].life = "never"}
<1>1. S \subseteq Nat /\ S # {}
  BY Numbers DEF HasBlock
<1>2. \E b \in S : \A a \in S : b <= a
  <2> HIDE DEF S
  <2> QED  BY <1>1, Smallest
<1>3. \E b \in Block : w.mem[b].life = "never" /\ \A a \in Block : w.mem[a].life = "never" => b <= a
  BY <1>2
<1> QED  BY <1>3 DEF NewBlock

\* What a start may write into a context.
Begun(c) ==
    /\ DOMAIN c = DOMAIN NoJob /\ c.streams = NoJob.streams /\ c.fd = Null
    /\ c.initiated = FALSE /\ c.life = "live" /\ c.asked \in BOOLEAN
    /\ c.kind = "speed" => c.state \in SpeedStates /\ c.asked = FALSE
    /\ c.own => c.kind = "response"
    /\ c.kind = "response" => c.data \in {"null", "test"}
    /\ c.kind \in {"scan", "whois"} => c.data = "null"
    /\ c.data = "test" => c.kind = "response"

LEMMA Starting ==
    ASSUME NEW w, Sound(w), NEW b \in Block, w.mem[b].life = "never", NEW k \in Slots,
           NEW v, DOMAIN v = DOMAIN w, v.fault = w.fault, v.open = w.open,
           DOMAIN v.mem = Block, \A a \in Block : a # b => v.mem[a] = w.mem[a],
           DOMAIN v.slots = Slots,
           \A t \in Slots : v.slots[t] = IF t = k THEN b ELSE w.slots[t],
           Begun(v.mem[b]), v.mem[b].kind = k,
           v.mem[b].data = "test" =>
               /\ v.mem[b].test \in Block /\ w.mem[v.mem[b].test].life = "live"
               /\ w.mem[v.mem[b].test].kind = "speed" /\ w.mem[v.mem[b].test].asked,
           k = "response" =>
               \A a \in Block : w.mem[a].life = "live" /\ w.mem[a].kind = "speed" => w.mem[a].asked,
           k = "speed" => w.slots["response"] = Null
    PROVE  Sound(v)
<1>1. \A s \in Places : Fd(v.mem[b], s) = Null /\ Fd(w.mem[b], s) = Null
  BY NoJobFacts, Numbers DEF Begun, Fd, Places, Sound, Firm, Placed
<1>2. IsJob(v.mem[b]) /\ Unopened(v.mem[b])
  BY <1>1, NoJobFacts DEF IsJob, Unopened, Begun
<1>3. Shape(v)
  BY <1>2 DEF Sound, Firm, Shape
<1>4. \A a \in Block, s \in Places : Fd(v.mem[a], s) = Fd(w.mem[a], s)
  BY <1>1
<1>5. Placed(v)
  BY <1>1, <1>4 DEF Sound, Firm, Placed
<1>6. Pointed(v)
  <2>1. ASSUME NEW t \in Slots, v.slots[t] # Null
        PROVE  v.mem[v.slots[t]].life = "live" /\ v.mem[v.slots[t]].kind = t
    <3>1. CASE t = k
      BY <3>1 DEF Begun
    <3>2. CASE t # k
      <4>1. v.slots[t] = w.slots[t] /\ w.slots[t] \in Block
        BY <2>1, <3>2 DEF Sound, Firm, Shape
      <4>2. w.mem[w.slots[t]].life = "live" /\ w.mem[w.slots[t]].kind = t
        BY <2>1, <4>1 DEF Sound, Firm, Pointed
      <4> QED  BY <4>1, <4>2
    <3> QED  BY <3>1, <3>2
  <2> QED  BY <2>1 DEF Pointed
<1>7. Lent(v)
  <2> SUFFICES ASSUME NEW a \in Block, v.mem[a].life = "live"
               PROVE  /\ v.mem[a].own => v.mem[a].kind = "response"
                      /\ v.mem[a].kind = "response" => v.mem[a].data \in {"null", "test"}
                      /\ v.mem[a].kind \in {"scan", "whois"} => v.mem[a].data = "null"
                      /\ v.mem[a].data = "test" =>
                            /\ v.mem[a].kind = "response" /\ v.mem[a].test \in Block
                            /\ v.mem[v.mem[a].test].life = "live"
                            /\ v.mem[v.mem[a].test].kind = "speed"
                            /\ v.mem[v.mem[a].test].asked
                      /\ v.mem[a].kind = "speed" /\ ~v.mem[a].asked => v.slots["response"] = Null
    BY DEF Lent
  <2>1. "response" \in Slots
    BY DEF Slots, Jobs
  <2>2. CASE a = b
    <3>1. v.mem[a].data = "test" =>
            /\ v.mem[a].test \in Block
            /\ v.mem[v.mem[a].test].life = "live" /\ v.mem[v.mem[a].test].kind = "speed"
            /\ v.mem[v.mem[a].test].asked
      BY <2>2
    <3>2. v.mem[a].kind = "speed" => v.slots["response"] = Null
      BY <2>1, <2>2
    <3> QED  BY <2>2, <3>1, <3>2 DEF Begun
  <2>3. CASE a # b
    <3>1. v.mem[a] = w.mem[a]
      BY <2>3
    <3>2. w.mem[a].data = "test" => w.mem[a].test \in Block /\ w.mem[w.mem[a].test].life = "live"
      BY <3>1 DEF Sound, Firm, Lent
    <3>3. w.mem[a].data = "test" => v.mem[w.mem[a].test] = w.mem[w.mem[a].test]
      BY <3>2
    <3>4. w.mem[a].kind = "speed" /\ ~w.mem[a].asked => v.slots["response"] = Null
      BY <2>1, <3>1 DEF Sound, Firm, Lent
    <3> QED  BY <3>1, <3>2, <3>3, <3>4 DEF Sound, Firm, Lent
  <2> QED  BY <2>2, <2>3
<1>8. Waits(v)
  BY <1>2 DEF Sound, Waits
<1> QED  BY <1>3, <1>5, <1>6, <1>7, <1>8 DEF Sound, Firm

\* The context that a start sets up.
Fresh(kind, data, auto, test) == [Setup(kind, data, auto) EXCEPT !.life = "live", !.test = test]

LEMMA SetupFacts ==
    ASSUME NEW kind \in Jobs, NEW data \in {"null", "tag", "app", "test"}, NEW auto \in BOOLEAN,
           NEW test,
           kind = "response" => data # "app", kind \in {"scan", "whois"} => data = "null",
           data = "test" => kind = "response"
    PROVE  LET c == Fresh(kind, data, auto, test)
           IN  /\ Begun(c) /\ c.kind = Slot(kind) /\ c.test = test
               /\ (kind \in OpensAtOnce => c.state # "socket")
               /\ (c.data = data \/ (kind = "response" /\ c.data = "null"))
<1> DEFINE d == Setup(kind, data, auto)
           c == Fresh(kind, data, auto, test)
           Stay(e) == /\ DOMAIN e = DOMAIN NoJob /\ e.streams = NoJob.streams /\ e.fd = Null
                      /\ e.initiated = FALSE
<1>1. /\ Stay(d) /\ d.kind = Slot(kind) /\ d.asked \in BOOLEAN
      /\ d.kind = "speed" => d.state \in SpeedStates /\ d.asked = FALSE
      /\ d.own => kind = "response"
      /\ kind = "response" => d.data = (IF data = "tag" THEN "null" ELSE data)
      /\ kind # "response" => d.data = data
      /\ kind \in OpensAtOnce => d.state # "socket"
  <2>1. CASE kind = "ping"
    <3>1. d = PingExt(data)
      BY <2>1 DEF Setup
    <3>2. Stay(d) /\ d.kind = "ping" /\ d.data = data
      BY <2>1, <3>1, NoJobFacts, NoJobDomain DEF PingExt
    <3>3. d.own = FALSE /\ d.asked = FALSE /\ d.state = "socket"
      BY <2>1, <3>1, NoJobFacts, NoJobDomain DEF PingExt
    <3> HIDE DEF d, Stay
    <3> QED  BY <2>1, <3>2, <3>3 DEF Slot, OpensAtOnce
  <2>2. CASE kind = "mtu"
    <3>1. d = MTUProbe(data)
      BY <2>2 DEF Setup
    <3>2. Stay(d) /\ d.kind = "mtu" /\ d.data = data
      BY <2>2, <3>1, NoJobFacts, NoJobDomain DEF MTUProbe
    <3>3. d.own = FALSE /\ d.asked = FALSE /\ d.state = "socket"
      BY <2>2, <3>1, NoJobFacts, NoJobDomain DEF MTUProbe
    <3> HIDE DEF d, Stay
    <3> QED  BY <2>2, <3>2, <3>3 DEF Slot, OpensAtOnce
  <2>3. CASE kind = "frag"
    <3>1. d = FragTest(data)
      BY <2>3 DEF Setup
    <3>2. Stay(d) /\ d.kind = "frag" /\ d.data = data
      BY <2>3, <3>1, NoJobFacts, NoJobDomain DEF FragTest
    <3>3. d.own = FALSE /\ d.asked = FALSE /\ d.state = "socket"
      BY <2>3, <3>1, NoJobFacts, NoJobDomain DEF FragTest
    <3> HIDE DEF d, Stay
    <3> QED  BY <2>3, <3>2, <3>3 DEF Slot, OpensAtOnce
  <2>4. CASE kind = "response"
    <3>1. d = ResponseTime(data)
      BY <2>4 DEF Setup
    <3>2. Stay(d) /\ d.kind = "response" /\ d.data = (IF data = "tag" THEN "null" ELSE data)
      BY <2>4, <3>1, NoJobFacts, NoJobDomain DEF ResponseTime
    <3>3. d.own = TRUE /\ d.asked = FALSE /\ d.state = "send"
      BY <2>4, <3>1, NoJobFacts, NoJobDomain DEF ResponseTime
    <3> HIDE DEF d, Stay
    <3> QED  BY <2>4, <3>2, <3>3 DEF Slot, OpensAtOnce
  <2>5. CASE kind \in {"trace", "loop"}
    <3>1. d = TracerouteContinuous(data, kind = "loop")
      BY <2>5 DEF Setup
    <3>2. Stay(d) /\ d.kind = "trace" /\ d.data = data
      BY <2>5, <3>1, NoJobFacts, NoJobDomain DEF TracerouteContinuous
    <3>3. d.own = FALSE /\ d.asked \in BOOLEAN /\ d.state = "send"
      BY <2>5, <3>1, NoJobFacts, NoJobDomain DEF TracerouteContinuous
    <3> HIDE DEF d, Stay
    <3> QED  BY <2>5, <3>2, <3>3 DEF Slot, OpensAtOnce
  <2>6. CASE kind = "scan"
    <3>1. d = PortScan(data)
      BY <2>6 DEF Setup
    <3>2. Stay(d) /\ d.kind = "scan" /\ d.data = data
      BY <2>6, <3>1, NoJobFacts, NoJobDomain DEF PortScan
    <3>3. d.own = FALSE /\ d.asked = FALSE /\ d.state = "next"
      BY <2>6, <3>1, NoJobFacts, NoJobDomain DEF PortScan
    <3> HIDE DEF d, Stay
    <3> QED  BY <2>6, <3>2, <3>3 DEF Slot, OpensAtOnce
  <2>7. CASE kind = "whois"
    <3>1. d = Whois(data)
      BY <2>7 DEF Setup
    <3>2. Stay(d) /\ d.kind = "whois" /\ d.data = data
      BY <2>7, <3>1, NoJobFacts, NoJobDomain DEF Whois
    <3>3. d.own = FALSE /\ d.asked = FALSE /\ d.state = "connect"
      BY <2>7, <3>1, NoJobFacts, NoJobDomain DEF Whois
    <3> HIDE DEF d, Stay
    <3> QED  BY <2>7, <3>2, <3>3 DEF Slot, OpensAtOnce
  <2>8. CASE kind = "http"
    <3>1. d = HttpProbe(data)
      BY <2>8 DEF Setup
    <3>2. Stay(d) /\ d.kind = "http" /\ d.data = data
      BY <2>8, <3>1, NoJobFacts, NoJobDomain DEF HttpProbe
    <3>3. d.own = FALSE /\ d.asked = FALSE /\ d.state = "connect"
      BY <2>8, <3>1, NoJobFacts, NoJobDomain DEF HttpProbe
    <3> HIDE DEF d, Stay
    <3> QED  BY <2>8, <3>2, <3>3 DEF Slot, OpensAtOnce
  <2>9. CASE kind = "speed"
    <3>1. d = Speedtest(data, auto)
      BY <2>9 DEF Setup
    <3>2. Stay(d) /\ d.kind = "speed" /\ d.data = data
      BY <2>9, <3>1, NoJobFacts, NoJobDomain DEF Speedtest
    <3>3. d.own = FALSE /\ d.asked = FALSE /\ d.state \in SpeedStates
      BY <2>9, <3>1, NoJobFacts, NoJobDomain DEF Speedtest, SpeedStates
    <3> HIDE DEF d, Stay
    <3> QED  BY <2>9, <3>2, <3>3 DEF Slot, OpensAtOnce
  <2> QED  BY <2>1, <2>2, <2>3, <2>4, <2>5, <2>6, <2>7, <2>8, <2>9 DEF Jobs
<1>0. c = [d EXCEPT !.life = "live", !.test = test]
  BY DEF Fresh
<1> HIDE DEF d, c
<1>2. /\ DOMAIN c = DOMAIN NoJob /\ c.streams = d.streams /\ c.fd = d.fd /\ c.initiated = d.initiated
      /\ c.life = "live" /\ c.test = test /\ c.kind = d.kind /\ c.data = d.data /\ c.own = d.own
      /\ c.asked = d.asked /\ c.state = d.state
  BY <1>0, <1>1, NoJobDomain
<1>3. Begun(c) /\ c.kind = Slot(kind)
  BY <1>1, <1>2 DEF Begun, Slot, Jobs
<1> QED  BY <1>1, <1>2, <1>3 DEF c, d

\* From w to v no speed test is started.
Speeds(w) == {b \in Block : w.mem[b].life = "live" /\ w.mem[b].kind = "speed"}
Moves(w, v) == Sound(v) /\ Speeds(v) \subseteq Speeds(w)

LEMMA KeepsMoves ==
    ASSUME NEW w, NEW v, Keeps(w, v)
    PROVE  Moves(w, v)
BY DEF Keeps, Moves, Kept, Speeds

LEMMA FewerMoves ==
    ASSUME NEW w, NEW v, Sound(v), Fewer(w, v)
    PROVE  Moves(w, v)
BY DEF Fewer, Moves, Speeds

LEMMA MovesOn ==
    ASSUME NEW w, NEW v, NEW u, Moves(w, v), Moves(v, u)
    PROVE  Moves(w, u)
BY DEF Moves

\* A start may be made: what is under the pointer can be freed, and the data that
\* is given is the caller's to give.
MayStart(w, kind, data, test) ==
    /\ kind = "response" => data # "app"
    /\ kind \in {"trace", "loop", "scan", "whois"} => data = "null"
    /\ data = "test" =>
          /\ kind = "response" /\ test \in Block /\ w.mem[test].life = "live"
          /\ w.mem[test].kind = "speed" /\ w.mem[test].asked /\ w.slots["response"] = Null
    /\ kind = "response" => \A a \in Speeds(w) : w.mem[a].asked
    /\ kind = "speed" => w.slots["response"] = Null
    /\ w.slots[Slot(kind)] # Null =>
          w.mem[w.slots[Slot(kind)]].data # "test" /\ Unread(w, w.slots[Slot(kind)])

Made(w, b, kind, data, test, auto) ==
    [w EXCEPT !.mem[b] = Fresh(kind, data, auto, test),
              !.slots[Slot(kind)] = b]

LEMMA MadeFacts ==
    ASSUME NEW w, Sound(w), NEW kind \in Jobs, NEW data \in {"null", "tag", "app", "test"},
           NEW test, NEW auto \in BOOLEAN, MayStart(w, kind, data, test), w.slots[Slot(kind)] = Null,
           NEW b \in Block, w.mem[b].life = "never"
    PROVE  LET v == Made(w, b, kind, data, test, auto)
           IN  /\ Sound(v) /\ Begun(v.mem[b]) /\ v.mem[b].kind = Slot(kind)
               /\ kind \in OpensAtOnce => v.mem[b].state # "socket"
               /\ data # "test" => v.mem[b].data # "test"
               /\ kind \in {"trace", "loop"} => v.mem[b].data = "null"
               /\ DOMAIN v = DOMAIN w /\ v.fault = w.fault /\ v.open = w.open
               /\ DOMAIN v.mem = Block /\ \A a \in Block : a # b => v.mem[a] = w.mem[a]
               /\ DOMAIN v.slots = Slots /\ \A t \in Slots : v.slots[t] = IF t = Slot(kind) THEN b ELSE w.slots[t]
<1> DEFINE c == Fresh(kind, data, auto, test)
           v == Made(w, b, kind, data, test, auto)
<1>1. /\ Begun(c) /\ c.kind = Slot(kind) /\ c.test = test
      /\ (kind \in OpensAtOnce => c.state # "socket")
      /\ (c.data = data \/ (kind = "response" /\ c.data = "null"))
  <2>1. /\ kind = "response" => data # "app"
        /\ kind \in {"scan", "whois"} => data = "null"
        /\ data = "test" => kind = "response"
    BY DEF MayStart
  <2> QED  BY <2>1, SetupFacts
<1>2. DOMAIN w.slots = Slots /\ Slot(kind) \in Slots
      /\ DOMAIN w = {"mem", "slots", "open", "errno", "fault", "path"} /\ DOMAIN w.mem = Block
  BY DEF Sound, Firm, Shape, Slots, Slot, Jobs
<1>3. v = [w EXCEPT !.mem[b] = c, !.slots[Slot(kind)] = b]
  BY DEF Made
<1> HIDE DEF c, v
<1>4. /\ DOMAIN v = DOMAIN w /\ v.fault = w.fault /\ v.open = w.open
      /\ DOMAIN v.mem = Block /\ (\A a \in Block : a # b => v.mem[a] = w.mem[a]) /\ v.mem[b] = c
  BY <1>2, <1>3
<1>5. DOMAIN v.slots = Slots /\ \A t \in Slots : v.slots[t] = IF t = Slot(kind) THEN b ELSE w.slots[t]
  BY <1>2, <1>3
<1>6. c.data = "test" => data = "test" /\ kind = "response"
  BY <1>1 DEF MayStart
<1>7. v.mem[b].data = "test" =>
         /\ v.mem[b].test \in Block /\ w.mem[v.mem[b].test].life = "live"
         /\ w.mem[v.mem[b].test].kind = "speed" /\ w.mem[v.mem[b].test].asked
  BY <1>1, <1>4, <1>6 DEF MayStart
<1>8. Slot(kind) = "response" =>
         \A a \in Block : w.mem[a].life = "live" /\ w.mem[a].kind = "speed" => w.mem[a].asked
  BY DEF MayStart, Speeds, Slot
<1>9. Slot(kind) = "speed" => w.slots["response"] = Null
  BY DEF MayStart, Slot
<1>11. Begun(v.mem[b]) /\ v.mem[b].kind = Slot(kind)
  BY <1>1, <1>4
<1>10. Sound(v)
  BY <1>2, <1>4, <1>5, <1>7, <1>8, <1>9, <1>11, Starting
<1>12. kind \in {"trace", "loop"} => v.mem[b].data = "null"
  BY <1>1, <1>4 DEF MayStart
<1>13. (kind \in OpensAtOnce => v.mem[b].state # "socket") /\ (data # "test" => v.mem[b].data # "test")
  BY <1>1, <1>4, <1>6
<1> QED  BY <1>4, <1>5, <1>10, <1>11, <1>12, <1>13 DEF v

LEMMA MadeMoves ==
    ASSUME NEW w, Sound(w), NEW kind \in Jobs, kind # "speed",
           NEW b \in Block, w.mem[b].life = "never", NEW v, Sound(v), v.mem[b].kind = Slot(kind),
           \A a \in Block : a # b => v.mem[a] = w.mem[a]
    PROVE  Moves(w, v)
BY DEF Moves, Speeds, Slot

\* A start that fails frees what it has made.
LEMMA Failing ==
    ASSUME NEW w, Sound(w), NEW b \in Block, Begun(w.mem[b]), w.mem[b].data # "test",
           NEW k \in Slots, w.mem[b].kind = k, w.slots[k] = b, Unread(w, b)
    PROVE  LET v == [FreeBlock([w EXCEPT !.slots[k] = Null], b) EXCEPT !.mem[b].cut = TRUE]
           IN  Sound(v) /\ Fewer(w, v) /\ v.mem[b].data = "null"
<1> DEFINE y == [w EXCEPT !.slots[k] = Null]
           c == [NoJob EXCEPT !.kind = y.mem[b].kind, !.life = "freed",
                              !.told = y.mem[b].told, !.seen = y.mem[b].seen]
           v == [FreeBlock(y, b) EXCEPT !.mem[b].cut = TRUE]
<1>1. b # Null /\ w.mem[b].life = "live"
  BY Numbers DEF Null, Begun
<1>2. DOMAIN w.slots = Slots /\ DOMAIN w = {"mem", "slots", "open", "errno", "fault", "path"}
      /\ DOMAIN w.mem = Block
  BY DEF Sound, Firm, Shape
<1>3. /\ DOMAIN y = DOMAIN w /\ y.mem = w.mem /\ y.fault = w.fault /\ y.open = w.open
      /\ DOMAIN y.slots = Slots
      /\ \A t \in Slots : y.slots[t] = IF t = k THEN Null ELSE w.slots[t]
  BY <1>2
<1> HIDE DEF y
<1>4. FreeBlock(y, b) = [y EXCEPT !.mem[b] = c]
  BY <1>1, <1>3 DEF FreeBlock, Live
<1>5. /\ DOMAIN c = DOMAIN NoJob /\ c.life = "freed" /\ c.fd = Null /\ c.data = "null"
      /\ c.streams = NoJob.streams /\ c.state = "none" /\ c.initiated = FALSE
  BY NoJobFacts, NoJobDomain
<1>6. v = [[y EXCEPT !.mem[b] = c] EXCEPT !.mem[b].cut = TRUE]
  BY <1>4
<1> HIDE DEF c, v
<1>7. v.mem[b] = [c EXCEPT !.cut = TRUE]
  BY <1>2, <1>3, <1>6
<1>8. /\ DOMAIN v.mem[b] = DOMAIN NoJob /\ v.mem[b].life = "freed" /\ v.mem[b].fd = Null
      /\ v.mem[b].streams = NoJob.streams /\ v.mem[b].state = "none" /\ v.mem[b].initiated = FALSE
      /\ v.mem[b].data = "null"
  BY <1>5, <1>7, NoJobDomain
<1>9. /\ DOMAIN v = DOMAIN w /\ v.fault = w.fault /\ v.open = w.open
      /\ DOMAIN v.mem = Block /\ (\A a \in Block : a # b => v.mem[a] = w.mem[a])
      /\ v.slots = y.slots
  BY <1>2, <1>3, <1>6
<1>10. HeldBy(w.mem[b]) = {}
  BY NoJobFacts DEF HeldBy, Begun
<1>11. \A t \in Slots : t # k => w.slots[t] # b
  BY <1>1 DEF Sound, Firm, Pointed
<1>12. \A t \in Slots : v.slots[t] \in {w.slots[t], Null} /\ v.slots[t] # b
  BY <1>1, <1>3, <1>9, <1>11
<1>13. v.open = w.open \ HeldBy(w.mem[b]) /\ DOMAIN v.slots = Slots
  BY <1>3, <1>9, <1>10
<1>14. Sound(v) /\ Fewer(w, v)
  BY <1>1, <1>8, <1>9, <1>12, <1>13, Freeing
<1> QED  BY <1>8, <1>14 DEF v, y

\* What was under the pointer is freed first.
LEMMA Clearing ==
    ASSUME NEW w, Sound(w), NEW kind \in Jobs, NEW data, NEW test, MayStart(w, kind, data, test),
           HasBlock(w)
    PROVE  LET v == FreeJob(w, Slot(kind))
           IN  /\ Sound(v) /\ Fewer(w, v) /\ v.slots[Slot(kind)] = Null /\ HasBlock(v)
               /\ MayStart(v, kind, data, test) /\ (HasDescriptor(w) => HasDescriptor(v))
               /\ (w.slots[Slot(kind)] = Null => v = w)
<1> DEFINE v == FreeJob(w, Slot(kind))
<1>1. Slot(kind) \in Slots
  BY DEF Slot, Slots, Jobs
<1>2. Sound(v) /\ Fewer(w, v) /\ v.slots[Slot(kind)] = Null
  BY <1>1, FreeJobFrees DEF MayStart
<1>3. w.slots[Slot(kind)] = Null => v = w
  BY DEF FreeJob
<1> HIDE DEF v
<1>4. HasBlock(v)
  BY <1>2 DEF HasBlock, Fewer
<1>5. MayStart(v, kind, data, test)
  <2>1. Speeds(v) \subseteq Speeds(w) /\ \A a \in Speeds(v) : v.mem[a] = w.mem[a]
    BY <1>2 DEF Fewer, Speeds
  <2>2. w.slots["response"] = Null => v.slots["response"] = Null
    BY <1>2 DEF Fewer, Slots, Jobs
  <2>3. data = "test" => v = w
    BY <1>3 DEF MayStart, Slot
  <2> QED  BY <1>2, <2>1, <2>2, <2>3 DEF MayStart
<1>6. ASSUME HasDescriptor(w) PROVE HasDescriptor(v)
  <2>1. w.open \subseteq Descriptor
    BY DEF Sound, Firm, Placed, Shape, IsJob
  <2> QED  BY <1>2, <1>6, <2>1 DEF HasDescriptor, Fewer
<1> QED  BY <1>2, <1>3, <1>4, <1>5, <1>6 DEF v

LEMMA StartKeepsSound ==
    ASSUME NEW w0, Sound(w0), NEW kind \in Jobs, NEW data \in {"null", "tag", "app", "test"},
           NEW test, NEW result \in {"ok", "failed", "auto"}, MayStart(w0, kind, data, test),
           HasBlock(w0), result = "ok" => HasDescriptor(w0), data = "test" => result = "ok"
    PROVE  LET v == StartFor(w0, kind, data, test, result)
           IN  /\ Sound(v)
               /\ kind # "speed" => Moves(w0, v)
               /\ Speeds(w0) = {} => \A a, c \in Speeds(v) : a = c
               /\ result = "ok" /\ w0.slots[Slot(kind)] = Null =>
                     \A a \in Block : w0.mem[a].life = "live" => v.mem[a] = w0.mem[a]
<1> DEFINE w == FreeJob(w0, Slot(kind))
           b == NewBlock(w)
           made == Made(w, b, kind, data, test, result = "auto")
           k == Slot(kind)
           failed == [FreeBlock([made EXCEPT !.slots[k] = Null], b) EXCEPT !.mem[b].cut = TRUE]
           v == StartFor(w0, kind, data, test, result)
<1>1. /\ Sound(w) /\ Fewer(w0, w) /\ w.slots[k] = Null /\ HasBlock(w)
      /\ MayStart(w, kind, data, test) /\ (HasDescriptor(w0) => HasDescriptor(w))
      /\ (w0.slots[k] = Null => w = w0)
  BY Clearing
<1>v. v = CASE result = "auto" -> made
            [] result = "failed" ->
                  IF k = "trace" THEN FreeData(Report(failed, b), made.mem[b]) ELSE failed
            [] result = "ok" /\ kind \in OpensAtOnce ->
                  [OpenSocket(made, b) EXCEPT
                      !.errno = IF kind \in {"whois", "http"} THEN "other" ELSE OpenSocket(made, b).errno]
            [] result = "ok" /\ kind \notin OpensAtOnce -> made
  BY DEF StartFor, Made, Fresh
<1> HIDE DEF w, v
<1>2. b \in Block /\ w.mem[b].life = "never"
  BY <1>1, NewBlockFacts
<1> HIDE DEF b
<1>3. made = Made(w, b, kind, data, test, TRUE) \/ made = Made(w, b, kind, data, test, FALSE)
  <2>1. CASE result = "auto"
    <3>1. (result = "auto") = TRUE
      BY <2>1
    <3> QED  BY <3>1
  <2>2. CASE result # "auto"
    <3>1. (result = "auto") = FALSE
      BY <2>2
    <3> QED  BY <3>1
  <2> QED  BY <2>1, <2>2
<1>4. /\ Sound(made) /\ Begun(made.mem[b]) /\ made.mem[b].kind = k
      /\ kind \in OpensAtOnce => made.mem[b].state # "socket"
      /\ data # "test" => made.mem[b].data # "test"
      /\ kind \in {"trace", "loop"} => made.mem[b].data = "null"
      /\ DOMAIN made = DOMAIN w /\ made.fault = w.fault /\ made.open = w.open
      /\ DOMAIN made.mem = Block /\ (\A a \in Block : a # b => made.mem[a] = w.mem[a])
      /\ DOMAIN made.slots = Slots /\ \A t \in Slots : made.slots[t] = IF t = k THEN b ELSE w.slots[t]
  <2> HIDE DEF made
  <2>1. ASSUME NEW auto \in BOOLEAN, NEW u, u = Made(w, b, kind, data, test, auto)
        PROVE  /\ Sound(u) /\ Begun(u.mem[b]) /\ u.mem[b].kind = Slot(kind)
               /\ kind \in OpensAtOnce => u.mem[b].state # "socket"
               /\ data # "test" => u.mem[b].data # "test"
               /\ kind \in {"trace", "loop"} => u.mem[b].data = "null"
               /\ DOMAIN u = DOMAIN w /\ u.fault = w.fault /\ u.open = w.open
               /\ DOMAIN u.mem = Block /\ (\A a \in Block : a # b => u.mem[a] = w.mem[a])
               /\ DOMAIN u.slots = Slots /\ \A t \in Slots : u.slots[t] = IF t = Slot(kind) THEN b ELSE w.slots[t]
    BY <1>1, <1>2, <2>1, MadeFacts
  <2> QED  BY <1>3, <2>1
<1> HIDE DEF made
<1>5. k \in Slots /\ b # Null
  BY <1>2, Numbers DEF Slots, Slot, Jobs, k, Null
<1>6. Moves(w0, w)
  BY <1>1, FewerMoves
<1>7. kind # "speed" => Moves(w, made)
  BY <1>1, <1>2, <1>4, MadeMoves DEF k
<1>8. w0.slots[k] = Null =>
         \A a \in Block : w0.mem[a].life = "live" => made.mem[a] = w0.mem[a]
  BY <1>1, <1>2, <1>4
<1>a. Speeds(w0) = {} => \A a, c \in Speeds(made) : a = c
  BY <1>4, <1>6 DEF Speeds, Moves
<1>9. ASSUME Keeps(made, v)
      PROVE  /\ Sound(v) /\ (kind # "speed" => Moves(w0, v))
             /\ (Speeds(w0) = {} => \A a, c \in Speeds(v) : a = c)
  <2>1. Moves(made, v)
    BY <1>9, KeepsMoves
  <2> QED  BY <1>6, <1>7, <1>a, <2>1, MovesOn DEF Moves
<1>10. CASE result = "auto" \/ (result = "ok" /\ kind \notin OpensAtOnce)
  <2>1. v = made
    BY <1>v, <1>10
  <2> QED  BY <1>4, <1>6, <1>7, <1>8, <1>a, <2>1, MovesOn DEF k, v
<1>11. CASE result = "ok" /\ kind \in OpensAtOnce
  <2> DEFINE u == OpenSocket(made, b)
             x == IF kind \in {"whois", "http"} THEN "other" ELSE u.errno
  <2>1. HasDescriptor(made)
    BY <1>1, <1>4, <1>11 DEF HasDescriptor
  <2>2. made.mem[b].life = "live" /\ made.mem[b].fd = Null /\ made.mem[b].state # "socket"
    BY <1>4, <1>11 DEF Begun
  <2>3. Keeps(made, u)
    BY <1>2, <1>4, <2>1, <2>2, OpenKeeps
  <2>4. \A a \in Block : a # b => u.mem[a] = made.mem[a]
    BY <1>4, <1>2, Domains DEF OpenSocket, Opened
  <2>5. v = [u EXCEPT !.errno = x]
    BY <1>v, <1>11
  <2> HIDE DEF u, x
  <2>6. Keeps(u, [u EXCEPT !.errno = x])
    BY <1>2, <2>3, NoteKeeps DEF Keeps
  <2>7. Keeps(made, v)
    BY <2>3, <2>5, <2>6, Again
  <2>8. v.mem = u.mem
    BY <1>2, <2>3, <2>5, Domains DEF Keeps
  <2> QED  BY <1>1, <1>2, <1>8, <1>9, <2>4, <2>7, <2>8 DEF k, v
<1>12. CASE result = "failed"
  <2>1. Unread(made, b)
    <3>1. ASSUME NEW a \in Block, made.mem[a].life = "live", made.mem[a].data = "test",
                 made.mem[a].test = b
          PROVE  FALSE
      <4>1. data # "test"
        BY <1>12
      <4>2. a # b /\ made.mem[a] = w.mem[a]
        BY <1>4, <3>1, <4>1
      <4>3. w.mem[b].life = "live"
        BY <1>1, <3>1, <4>2 DEF Sound, Firm, Lent
      <4> QED  BY <1>2, <4>3
    <3> QED  BY <3>1 DEF Unread
  <2>2. made.slots[k] = b /\ made.mem[b].data # "test"
    BY <1>4, <1>5, <1>12
  <2>3. Sound(failed) /\ Fewer(made, failed) /\ failed.mem[b].data = "null"
    <3> HIDE DEF k
    <3> QED  BY <1>2, <1>4, <1>5, <2>1, <2>2, Failing
  <2>8. v = IF k = "trace" THEN FreeData(Report(failed, b), made.mem[b]) ELSE failed
    BY <1>v, <1>12
  <2> HIDE DEF failed
  <2>4. Moves(made, failed)
    BY <2>3, FewerMoves
  <2>5. Keeps(failed, Report(failed, b))
    BY <1>2, <2>3, ReportKeeps
  <2>6. k = "trace" => FreeData(Report(failed, b), made.mem[b]) = Report(failed, b)
    <3>1. k = "trace" => made.mem[b].data = "null"
      BY <1>4 DEF k, Slot, Jobs
    <3> QED  BY <3>1 DEF FreeData
  <2>7. v = failed \/ v = Report(failed, b)
    BY <2>6, <2>8
  <2>9. Sound(v) /\ Moves(made, v)
    BY <2>3, <2>4, <2>5, <2>7, KeepsMoves, MovesOn DEF Keeps
  <2>10. Speeds(w0) = {} => \A a, c \in Speeds(v) : a = c
    BY <1>a, <2>9 DEF Moves
  <2> QED  BY <1>6, <1>7, <1>12, <2>9, <2>10, MovesOn DEF v
<1> QED  BY <1>10, <1>11, <1>12 DEF v

-------------------------------------------------------------------------------
(* The steps of single jobs *)

LEMMA Stays ==
    ASSUME NEW w, Sound(w)
    PROVE  Keeps(w, w)
BY DEF Keeps, Kept

\* A job goes to its next state and notes something.
LEMMA GoesOn ==
    ASSUME NEW w, Sound(w), NEW b \in Block, w.mem[b].kind # "speed",
           NEW state, state # "socket", NEW x
    PROVE  /\ Keeps(w, [Goto(w, b, state) EXCEPT !.mem[b].n = x])
           /\ Keeps(w, [Goto(w, b, state) EXCEPT !.mem[b].got = x])
           /\ \A y, z :
                 /\ Keeps(w, [Goto(w, b, state) EXCEPT !.mem[b].n = x, !.mem[b].told = y,
                                                       !.mem[b].seen = z])
                 /\ Keeps(w, [Goto(w, b, state) EXCEPT !.path = x, !.mem[b].good = y,
                                                       !.mem[b].lo = z])
                 /\ Keeps(w, [Goto(w, b, state) EXCEPT !.mem[b].hi = x, !.mem[b].lost = y])
<1> DEFINE v == Goto(w, b, state)
<1>1. Keeps(w, v) /\ Sound(v)
  BY GotoKeeps DEF Keeps
<1> HIDE DEF v
<1>2. Keeps(v, [v EXCEPT !.mem[b].n = x]) /\ Keeps(v, [v EXCEPT !.mem[b].got = x])
  BY <1>1, NoteKeeps
<1>3. ASSUME NEW y, NEW z
      PROVE  /\ Keeps(v, [v EXCEPT !.mem[b].n = x, !.mem[b].told = y, !.mem[b].seen = z])
             /\ Keeps(v, [v EXCEPT !.path = x, !.mem[b].good = y, !.mem[b].lo = z])
             /\ Keeps(v, [v EXCEPT !.mem[b].hi = x, !.mem[b].lost = y])
  BY <1>1, NotesKeep
<1> QED  BY <1>1, <1>2, <1>3, Again DEF v

\* A job opens its descriptor and leaves the state it does so in.
LEMMA OpensProbe ==
    ASSUME NEW w, Sound(w), NEW b \in Block, w.mem[b].life = "live", w.mem[b].kind # "speed",
           w.mem[b].state = "socket", HasDescriptor(w)
    PROVE  Keeps(w, Goto(OpenSocket(w, b), b, "send"))
<1>1. w.mem[b].fd = Null
  BY Domains DEF Unopened
<1> QED  BY <1>1, OpenKeeps

LEMMA PingKeeps ==
    ASSUME NEW w, Sound(w), NEW b \in Block, w.mem[b].life = "live", w.mem[b].kind # "speed", NEW in
    PROVE  Keeps(w, PingStep(w, b, in))
<1>1. Keeps(w, w) /\ Keeps(w, Finish(w, b)) /\ Keeps(w, Goto(w, b, "send"))
  BY Stays, FinishKeeps, GotoKeeps
<1>2. Keeps(w, PingSend(w, b))
  <2>1. Keeps(w, [Goto(w, b, "wait") EXCEPT !.mem[b].n = Goto(w, b, "wait").mem[b].n + 1])
    BY GoesOn
  <2> QED  BY <1>1, <2>1 DEF PingSend
<1>3. Keeps(w, PingWait(w, b, in))
  <2>1. Keeps(w, [Goto(w, b, "send") EXCEPT !.mem[b].got = Goto(w, b, "send").mem[b].got + 1])
    BY GoesOn
  <2> QED  BY <1>1, <2>1 DEF PingWait
<1>4. w.mem[b].state = "socket" /\ HasDescriptor(w) => Keeps(w, Goto(OpenSocket(w, b), b, "send"))
  BY OpensProbe
<1> QED  BY <1>1, <1>2, <1>3, <1>4 DEF PingStep

LEMMA ResponseKeeps ==
    ASSUME NEW w, Sound(w), NEW b \in Block, w.mem[b].life = "live", w.mem[b].kind # "speed", NEW in
    PROVE  Keeps(w, ResponseStep(w, b, in))
BY Stays, FinishKeeps, PingKeeps DEF ResponseStep

LEMMA MtuSendKeeps ==
    ASSUME NEW w, Sound(w), NEW b \in Block, w.mem[b].life = "live", w.mem[b].kind # "speed", NEW in
    PROVE  Keeps(w, MtuSend(w, b, in))
<1> DEFINE c == w.mem[b]
           size == (c.lo + c.hi) \div 2
           cut == [w EXCEPT !.mem[b].size = size]
           good == [w EXCEPT !.mem[b].size = c.good]
           sent == Sent(cut, b, size, in = "answered")
<1>1. Keeps(w, cut) /\ Keeps(w, good)
  BY NoteKeeps
<1>2. Keeps(w, Finish(good, b))
  <2> HIDE DEF good
  <2>1. good.mem[b].life = "live" /\ Sound(good)
    BY <1>1 DEF Keeps, Kept
  <2> QED  BY <1>1, <2>1, FinishKeeps, Again
<1>3. Keeps(w, [cut EXCEPT !.mem[b].hi = size - 1])
  <2> HIDE DEF cut, size
  <2>1. Keeps(cut, [cut EXCEPT !.mem[b].hi = size - 1])
    BY <1>1, NoteKeeps DEF Keeps
  <2> QED  BY <1>1, <2>1, Again
<1>4. Keeps(w, Goto(sent, b, "wait"))
  <2> DEFINE x == IF in = "answered"
                  THEN cut.path \cup {<<size, IF size <= Mtu THEN "reply" ELSE "error", b>>}
                  ELSE cut.path
             y == cut.mem[b].lost \/ ~(in = "answered")
  <2>1. sent = [cut EXCEPT !.path = x, !.mem[b].lost = y]
    BY DEF Sent
  <2> HIDE DEF cut, sent, x, y
  <2>2. Keeps(cut, sent)
    BY <1>1, <2>1, NotesKeep DEF Keeps
  <2>3. Keeps(w, sent)
    BY <1>1, <2>2, Again
  <2>4. Keeps(sent, Goto(sent, b, "wait"))
    BY <2>3, GotoKeeps DEF Keeps, Kept
  <2> QED  BY <2>3, <2>4, Again
<1>5. MtuSend(w, b, in) =
        CASE c.lo > c.hi -> Finish(good, b)
          [] c.lo <= c.hi /\ in = "too_large" /\ size > Mtu -> [cut EXCEPT !.mem[b].hi = size - 1]
          [] OTHER -> Goto(sent, b, "wait")
  BY DEF MtuSend
<1> HIDE DEF c, size, cut, good, sent
<1> QED  BY <1>2, <1>3, <1>4, <1>5

LEMMA MtuKeeps ==
    ASSUME NEW w, Sound(w), NEW b \in Block, w.mem[b].life = "live", w.mem[b].kind # "speed", NEW in
    PROVE  Keeps(w, MtuStep(w, b, in))
<1> DEFINE c == w.mem[b]
           received == {m \in w.path : c.raw \/ (m[2] = "reply" /\ m[3] = b)}
           u == Goto(OpenSocket(w, b), b, "send")
           g == Goto(w, b, "send")
           m0 == CHOOSE m \in received : TRUE
           raw == (in = "raw")
           lost == g.mem[b].lost \/ received # {}
<1>1. Keeps(w, w) /\ Keeps(w, Finish(w, b)) /\ Keeps(w, MtuSend(w, b, in))
  BY Stays, FinishKeeps, MtuSendKeeps
<1>2. c.state = "socket" /\ HasDescriptor(w) => Keeps(w, [u EXCEPT !.mem[b].raw = raw])
  <2>1. c.state = "socket" /\ HasDescriptor(w) => Keeps(w, u)
    BY OpensProbe
  <2> HIDE DEF c, u, raw
  <2>2. Keeps(w, u) => Keeps(u, [u EXCEPT !.mem[b].raw = raw])
    BY NoteKeeps DEF Keeps
  <2> QED  BY <2>1, <2>2, Again
<1>3. Keeps(w, [g EXCEPT !.path = g.path \ {m0}, !.mem[b].good = c.size, !.mem[b].lo = c.size + 1])
  BY GoesOn
<1>4. Keeps(w, [g EXCEPT !.mem[b].hi = c.size - 1, !.mem[b].lost = lost])
  <2> HIDE DEF lost
  <2> QED  BY GoesOn
<1>5. MtuStep(w, b, in) =
        CASE c.state = "socket" ->
                IF in = "failed" \/ ~HasDescriptor(w) THEN Finish(w, b)
                ELSE [u EXCEPT !.mem[b].raw = raw]
          [] c.state = "send" -> MtuSend(w, b, in)
          [] c.state = "wait" /\ in = "reply" /\ received # {} ->
                [g EXCEPT !.path = g.path \ {m0}, !.mem[b].good = c.size, !.mem[b].lo = c.size + 1]
          [] c.state = "wait" /\ in = "nothing" /\ c.late ->
                [g EXCEPT !.mem[b].hi = c.size - 1, !.mem[b].lost = lost]
          [] OTHER -> w
  BY DEF MtuStep
<1> HIDE DEF c, received, u, g, m0, raw, lost
<1> QED  BY <1>1, <1>2, <1>3, <1>4, <1>5

LEMMA FragKeeps ==
    ASSUME NEW w, Sound(w), NEW b \in Block, w.mem[b].life = "live", w.mem[b].kind # "speed", NEW in
    PROVE  Keeps(w, FragStep(w, b, in))
<1>1. Keeps(w, w) /\ Keeps(w, Finish(w, b)) /\ Keeps(w, Goto(w, b, "wait"))
  BY Stays, FinishKeeps, GotoKeeps
<1>2. w.mem[b].state = "socket" /\ HasDescriptor(w) => Keeps(w, Goto(OpenSocket(w, b), b, "send"))
  BY OpensProbe
<1> QED  BY <1>1, <1>2 DEF FragStep

LEMMA TraceKeeps ==
    ASSUME NEW w, Sound(w), NEW b \in Block, w.mem[b].life = "live", w.mem[b].kind = "trace", NEW in
    PROVE  Keeps(w, TraceStep(w, b, in))
<1>1. ASSUME NEW v, Sound(v), v.mem[b].kind = "trace"
      PROVE  Keeps(v, NextRound(v, b))
  <2>1. Keeps(v, Goto(v, b, "done"))
    BY <1>1, GotoKeeps
  <2>2. Keeps(v, [Goto(v, b, "loop") EXCEPT !.mem[b].n = 1, !.mem[b].told = 0, !.mem[b].seen = << >>])
    BY <1>1, GoesOn
  <2> QED  BY <2>1, <2>2 DEF NextRound
<1>2. ASSUME NEW what PROVE Keeps(w, Seen(w, b, what))
  BY SeenKeeps
<1>3. Keeps(w, NextHop(w, b))
  <2> DEFINE v == Seen(w, b, w.mem[b].n)
             x == Goto(v, b, "send").mem[b].n + 1
  <2>1. Keeps(w, v)
    BY <1>2
  <2>2. NextHop(w, b) = [Goto(v, b, "send") EXCEPT !.mem[b].n = x]
    BY DEF NextHop
  <2> HIDE DEF v, x
  <2>3. Sound(v) /\ v.mem[b].kind # "speed"
    BY <2>1 DEF Keeps, Kept
  <2>4. Keeps(v, [Goto(v, b, "send") EXCEPT !.mem[b].n = x])
    BY <2>3, GoesOn
  <2> QED  BY <2>1, <2>2, <2>4, Again
<1>4. Keeps(w, NextRound(Report(Seen(w, b, w.mem[b].n), b), b))
  <2> DEFINE v == Seen(w, b, w.mem[b].n)
             u == Report(v, b)
  <2>1. Keeps(w, v)
    BY <1>2
  <2> HIDE DEF v
  <2>2. Keeps(v, u)
    BY <2>1, ReportKeeps DEF Keeps, Kept
  <2> HIDE DEF u
  <2>3. Keeps(w, u)
    BY <2>1, <2>2, Again
  <2>4. Keeps(u, NextRound(u, b))
    BY <1>1, <2>3 DEF Keeps, Kept
  <2>5. Keeps(w, NextRound(u, b))
    BY <2>3, <2>4, Again
  <2> QED  BY <2>5 DEF u, v
<1>5. Keeps(w, w) /\ Keeps(w, Goto(w, b, "wait")) /\ Keeps(w, Goto(w, b, "send")) /\ Keeps(w, NextRound(w, b))
  BY <1>1, Stays, GotoKeeps
<1> QED  BY <1>3, <1>4, <1>5 DEF TraceStep

LEMMA ScanMoves ==
    ASSUME NEW w, Sound(w), NEW b \in Block, w.mem[b].life = "live", w.mem[b].kind = "scan",
           w.slots["scan"] = b, NEW in
    PROVE  Moves(w, ScanStep(w, b, in))
<1> DEFINE c == w.mem[b]
           next == NextPort(c.n)
           shut == CloseProbe(w, b)
           turn == [shut EXCEPT !.mem[b].n = next]
           known == Seen(w, b, Ports[c.n])
           answer == Goto(CloseProbe(known, b), b, "next")
           told == Report(w, b)
<1>1. Moves(w, Retire(w, b))
  BY RetireFrees, FewerMoves
<1>2. /\ Keeps(w, turn) /\ turn.mem[b].fd = Null /\ turn.mem[b].state = w.mem[b].state
  <2>1. Keeps(w, shut) /\ shut.mem[b].fd = Null /\ shut.mem[b].state = w.mem[b].state
    BY CloseKeeps
  <2> HIDE DEF shut, next
  <2>2. Keeps(shut, turn)
    BY <2>1, NoteKeeps DEF Keeps
  <2>3. turn.mem[b] = [shut.mem[b] EXCEPT !.n = next]
    BY <2>1, Domains DEF Keeps
  <2>4. turn.mem[b].fd = shut.mem[b].fd /\ turn.mem[b].state = shut.mem[b].state
    BY <2>1, <2>3, Domains, NoJobDomain DEF Keeps
  <2> QED  BY <2>1, <2>2, <2>4, Again
<1>3. Keeps(w, Seen(turn, b, Ports[next]))
  <2> HIDE DEF turn, next
  <2> QED  BY <1>2, SeenKeeps, Again DEF Keeps
<1>4. c.state # "socket" /\ HasDescriptor(turn) => Keeps(w, Goto(OpenSocket(turn, b), b, "connect"))
  <2> HIDE DEF turn
  <2>1. turn.mem[b].life = "live" /\ turn.mem[b].kind # "speed"
    BY <1>2 DEF Keeps, Kept
  <2> QED  BY <1>2, <2>1, OpenKeeps, Again DEF Keeps
<1>5. Keeps(w, answer)
  <2> DEFINE x == CloseProbe(known, b)
  <2>1. Keeps(w, known)
    BY SeenKeeps
  <2> HIDE DEF known
  <2>2. Keeps(known, x)
    BY <2>1, CloseKeeps DEF Keeps
  <2> HIDE DEF x
  <2>3. Keeps(w, x)
    BY <2>1, <2>2, Again
  <2>4. Keeps(x, Goto(x, b, "next"))
    BY <2>3, GotoKeeps DEF Keeps, Kept
  <2>5. Keeps(w, Goto(x, b, "next"))
    BY <2>3, <2>4, Again
  <2> QED  BY <2>5 DEF x
<1>6. Moves(w, FreeJob(told, "scan"))
  <2>1. Keeps(w, told)
    BY ReportKeeps
  <2> HIDE DEF told
  <2>2. told.slots["scan"] = b /\ told.mem[b].kind = "scan" /\ told.mem[b].life = "live" /\ Sound(told)
    BY <2>1 DEF Keeps, Kept
  <2>3. told.mem[b].data # "test" /\ Unread(told, b) /\ "scan" \in Slots
    BY <2>2 DEF Sound, Firm, Lent, Unread, Slots, Jobs
  <2>4. Sound(FreeJob(told, "scan")) /\ Fewer(told, FreeJob(told, "scan"))
    BY <2>2, <2>3, FreeJobFrees
  <2> QED  BY <2>1, <2>4, KeepsMoves, FewerMoves, MovesOn
<1>7. ScanStep(w, b, in) =
        CASE c.state = "next" /\ next = 0 -> Retire(w, b)
          [] c.state = "next" /\ next # 0 /\ (in = "failed" \/ ~HasDescriptor(turn)) ->
                Seen(turn, b, Ports[next])
          [] c.state = "next" /\ next # 0 /\ in # "failed" /\ HasDescriptor(turn) ->
                Goto(OpenSocket(turn, b), b, "connect")
          [] c.state = "connect" /\ High(c) -> FreeJob(told, "scan")
          [] c.state = "connect" /\ ~High(c)
                /\ (in \in {"connected", "refused"} \/ (in = "nothing" /\ c.late)) -> answer
          [] OTHER -> w
  BY DEF ScanStep
<1>8. Moves(w, w)
  BY Stays, KeepsMoves
<1>9. Moves(w, answer) /\ Moves(w, Seen(turn, b, Ports[next]))
      /\ (c.state = "next" /\ HasDescriptor(turn) => Moves(w, Goto(OpenSocket(turn, b), b, "connect")))
  BY <1>3, <1>4, <1>5, KeepsMoves
<1> HIDE DEF c, next, shut, turn, known, answer, told
<1> QED  BY <1>1, <1>6, <1>7, <1>8, <1>9

LEMMA WhoisMoves ==
    ASSUME NEW w, Sound(w), NEW b \in Block, w.mem[b].life = "live", w.mem[b].kind = "whois", NEW in
    PROVE  Moves(w, WhoisStep(w, b, in))
<1>1. Moves(w, w) /\ Moves(w, Goto(w, b, "done")) /\ Moves(w, Goto(w, b, "send"))
      /\ Moves(w, Goto(w, b, "read"))
  BY Stays, GotoKeeps, KeepsMoves
<1>2. Moves(w, Retire(Finish(w, b), b))
  <2> DEFINE v == Finish(w, b)
  <2>1. Keeps(w, v)
    BY FinishKeeps
  <2> HIDE DEF v
  <2>2. Sound(Retire(v, b)) /\ Fewer(v, Retire(v, b))
    BY <2>1, RetireFrees DEF Keeps, Kept
  <2>3. Moves(w, Retire(v, b))
    BY <2>1, <2>2, KeepsMoves, FewerMoves, MovesOn
  <2> QED  BY <2>3 DEF v
<1> QED  BY <1>1, <1>2 DEF WhoisStep

LEMMA HttpKeeps ==
    ASSUME NEW w, Sound(w), NEW b \in Block, w.mem[b].life = "live", w.mem[b].kind = "http", NEW in
    PROVE  Keeps(w, HttpStep(w, b, in))
<1>1. Keeps(w, w) /\ Keeps(w, Goto(w, b, "done")) /\ Keeps(w, Goto(w, b, "send"))
      /\ Keeps(w, Goto(w, b, "head")) /\ Keeps(w, Goto(w, b, "body"))
  BY Stays, GotoKeeps
<1>2. Keeps(w, HttpOver(w, b))
  <2> DEFINE v == Finish(w, b)
  <2>1. Keeps(w, v)
    BY FinishKeeps
  <2> HIDE DEF v
  <2>2. Keeps(v, CloseProbe(v, b))
    BY <2>1, CloseKeeps DEF Keeps
  <2>3. Keeps(w, CloseProbe(v, b))
    BY <2>1, <2>2, Again
  <2> QED  BY <2>3 DEF v, HttpOver
<1>3. Keeps(w, HttpLate(w, b))
  BY <1>1, <1>2 DEF HttpLate
<1>4. Keeps(w, [HttpLate(w, b) EXCEPT !.errno = "again"])
  <2>1. Keeps(HttpLate(w, b), [HttpLate(w, b) EXCEPT !.errno = "again"])
    BY <1>3, NoteKeeps DEF Keeps
  <2> QED  BY <1>3, <2>1, Again
<1>5. Keeps(w, HttpConnect(w, b, in))
  BY <1>1, <1>2, <1>3 DEF HttpConnect
<1>6. Keeps(w, HttpHead(w, b, in))
  BY <1>1, <1>2, <1>3 DEF HttpHead
<1>7. Keeps(w, HttpBody(w, b, in))
  BY <1>1, <1>2, <1>3, <1>4 DEF HttpBody
<1> QED  BY <1>1, <1>2, <1>5, <1>6, <1>7 DEF HttpStep

-------------------------------------------------------------------------------
(* The steps of a speed test *)

LEMMA AutoKeeps ==
    ASSUME NEW w, Sound(w), NEW b \in Block, w.mem[b].life = "live", w.mem[b].kind = "speed", NEW in,
           w.mem[b].state \in {"auto_connect", "auto_send", "auto_read", "auto_parse"}
    PROVE  Keeps(w, AutoStep(w, b, in))
<1>1. ASSUME NEW v, Keeps(w, v), NEW state \in SpeedStates
      PROVE  Keeps(w, Goto(v, b, state))
  <2>1. Keeps(v, Goto(v, b, state))
    BY <1>1, GotoKeeps DEF Keeps, SpeedStates
  <2> QED  BY <1>1, <2>1, Again
<1>2. Keeps(w, w)
  BY Stays
<1>3. Keeps(w, AutoConnect(w, b, in))
  <2> DEFINE c == w.mem[b]
             ready == IF c.fd = Null THEN OpenSocket(w, b) ELSE w
  <2>1. c.fd # Null \/ HasDescriptor(w) => Keeps(w, ready)
    BY <1>2, OpenKeeps
  <2>2. AutoConnect(w, b, in) =
          CASE c.fd = Null /\ in = "default" -> Goto(w, b, "latency")
            [] c.fd = Null /\ in # "default" /\ (in = "failed" \/ ~HasDescriptor(w)) ->
                  Goto(w, b, "done")
            [] OTHER ->
                  IF High(ready.mem[b]) \/ c.late THEN Goto(ready, b, "done")
                  ELSE IF in = "connected" THEN Goto(ready, b, "auto_send") ELSE ready
    BY DEF AutoConnect
  <2> HIDE DEF c, ready
  <2>3. Keeps(w, Goto(w, b, "latency")) /\ Keeps(w, Goto(w, b, "done"))
    BY <1>1, <1>2 DEF SpeedStates
  <2>4. c.fd # Null \/ HasDescriptor(w) =>
           Keeps(w, Goto(ready, b, "done")) /\ Keeps(w, Goto(ready, b, "auto_send"))
    BY <1>1, <2>1 DEF SpeedStates
  <2> QED  BY <2>1, <2>2, <2>3, <2>4
<1>4. Keeps(w, Goto(w, b, "auto_read")) /\ Keeps(w, Goto(w, b, "auto_parse"))
  BY <1>1, <1>2 DEF SpeedStates
<1>5. Keeps(w, Goto(CloseProbe(w, b), b, IF in = "failed" THEN "done" ELSE "latency"))
  <2>1. Keeps(w, CloseProbe(w, b))
    BY CloseKeeps
  <2>2. (IF in = "failed" THEN "done" ELSE "latency") \in SpeedStates
    BY DEF SpeedStates
  <2> QED  BY <1>1, <2>1, <2>2
<1> QED  BY <1>2, <1>3, <1>4, <1>5 DEF AutoStep

LEMMA LatencyMoves ==
    ASSUME NEW w, Sound(w), NEW b \in Block, w.mem[b].life = "live", w.mem[b].kind = "speed", NEW in,
           \A a \in Speeds(w) : a = b
    PROVE  Moves(w, LatencyStep(w, b, in))
<1> DEFINE asked == [w EXCEPT !.mem[b].asked = TRUE]
           none == FreeJob(asked, "response")
           started ==
            IF w.mem[b].asked THEN w
            ELSE IF in = "failed" \/ ~HasBlock(w) \/ ~HasDescriptor(w)
                 THEN [none EXCEPT !.mem[b].latency = TRUE]
                 ELSE StartFor(asked, "response", "test", b, "ok")
<1>1. /\ Keeps(w, asked) /\ asked.mem[b].asked /\ asked.open = w.open
      /\ \A a \in Block : asked.mem[a].life = w.mem[a].life
  <2>1. Keeps(w, asked)
    BY NoteKeeps
  <2>2. asked.mem[b] = [w.mem[b] EXCEPT !.asked = TRUE] /\ asked.open = w.open
    BY Domains
  <2>3. asked.mem[b].asked = TRUE
    BY <2>2, Domains, NoJobDomain
  <2> QED  BY <2>1, <2>2, <2>3 DEF Keeps, Kept
<1>2. LatencyStep(w, b, in) =
         IF started.mem[b].latency THEN Goto(started, b, "dl_connect") ELSE started
  BY DEF LatencyStep
<1>3. Moves(w, started) /\ started.mem[b].kind = "speed"
  <2>1. CASE w.mem[b].asked
    BY <2>1, Stays, KeepsMoves
  <2>2. CASE ~w.mem[b].asked
    <3>1. w.slots["response"] = Null
      BY <2>2 DEF Sound, Firm, Lent
    <3>2. asked.slots["response"] = Null /\ Sound(asked) /\ asked.mem[b].kind = "speed"
      BY <1>1, <3>1 DEF Keeps, Kept
    <3>3. none = asked
      BY <3>2 DEF FreeJob
    <3>4. CASE in = "failed" \/ ~HasBlock(w) \/ ~HasDescriptor(w)
      <4> DEFINE late == [none EXCEPT !.mem[b].latency = TRUE]
      <4>1. started = late
        BY <2>2, <3>4
      <4> HIDE DEF asked, none, started
      <4>2. Keeps(asked, late)
        <5>1. Keeps(asked, [asked EXCEPT !.mem[b].latency = TRUE])
          BY <3>2, NoteKeeps
        <5> QED  BY <3>3, <5>1
      <4>3. Keeps(w, late)
        BY <1>1, <4>2, Again
      <4> QED  BY <4>1, <4>3, KeepsMoves DEF Keeps, Kept
    <3>5. CASE ~(in = "failed" \/ ~HasBlock(w) \/ ~HasDescriptor(w))
      <4>1. started = StartFor(asked, "response", "test", b, "ok")
        BY <2>2, <3>5
      <4> HIDE DEF asked, started
      <4>2. MayStart(asked, "response", "test", b)
        <5>1. \A a \in Speeds(asked) : a = b
          BY <1>1 DEF Keeps, Kept, Speeds
        <5>2. asked.mem[b].life = "live"
          BY <1>1
        <5> QED  BY <1>1, <3>2, <5>1, <5>2 DEF MayStart, Slot
      <4>3. HasBlock(asked) /\ HasDescriptor(asked)
        BY <1>1, <3>5 DEF HasBlock, HasDescriptor
      <4>4. "response" \in Jobs /\ "test" \in {"null", "tag", "app", "test"}
            /\ "ok" \in {"ok", "failed", "auto"} /\ Slot("response") = "response"
        BY DEF Jobs, Slot
      <4>5. /\ Moves(asked, started)
            /\ \A a \in Block : asked.mem[a].life = "live" => started.mem[a] = asked.mem[a]
        BY <3>2, <4>1, <4>2, <4>3, <4>4, StartKeepsSound
      <4>6. started.mem[b] = asked.mem[b]
        BY <1>1, <4>5
      <4>7. Moves(w, asked)
        BY <1>1, KeepsMoves
      <4> QED  BY <3>2, <4>5, <4>6, <4>7, MovesOn
    <3> QED  BY <3>4, <3>5
  <2> QED  BY <2>1, <2>2
<1> HIDE DEF started
<1>4. Keeps(started, Goto(started, b, "dl_connect"))
  BY <1>3, GotoKeeps DEF Moves, SpeedStates
<1> QED  BY <1>2, <1>3, <1>4, KeepsMoves, MovesOn

-------------------------------------------------------------------------------
(* Going through the streams, and through the jobs *)

\* Induction, on a set of numbers.
LEMMA Upward ==
    ASSUME NEW S, 0 \in S, \A n \in Nat : n \in S => n + 1 \in S
    PROVE  Nat \subseteq S
<1> DEFINE T == Nat \ S
<1>1. ASSUME T # {} PROVE FALSE
  <2>1. PICK n \in T : \A m \in T : n <= m
    <3>1. T \subseteq Nat
      OBVIOUS
    <3> HIDE DEF T
    <3> QED  BY <1>1, <3>1, Smallest
  <2>2. n \in Nat /\ n # 0 /\ n \notin S
    BY <2>1
  <2>3. n - 1 \in Nat /\ ~(n <= n - 1) /\ (n - 1) + 1 = n
    BY <2>2
  <2>4. n - 1 \notin T
    BY <2>1, <2>3
  <2> QED  BY <2>2, <2>3, <2>4
<1> QED  BY <1>1

\* What is done along a sequence.
Does(o, v, x) ==
    CASE o.op = "open" -> OpenStream(v, o.b, x, o.in)
      [] o.op = "connect" -> ConnectStream(v, o.b, x, o.in)
      [] o.op = "read" -> ReadStream(v, o.b, x, o.in)
      [] o.op = "free" -> FreeJob(v, x)

\* tr[k] is what doing so for the first k members of q makes of s.
Trail(tr, o, s, q, n) == tr[0] = s /\ \A k \in 1 .. n : tr[k] = Does(o, tr[k - 1], q[k])

\* The recursion by which FoldLeft goes through n members.
Fold(F, o, s, q, n) ==
    F = [S \in SUBSET (1 .. n) |->
            IF S = {} THEN s
            ELSE LET k == CHOOSE x \in S : \A z \in S : x >= z
                 IN  Does(o, F[S \ {k}], q[k])]

\* That recursion has a solution for any number of members.
LEMMA FoldExists ==
    ASSUME NEW o, NEW s, NEW q, NEW n \in Nat
    PROVE  \E F : Fold(F, o, s, q, n)
<1> DEFINE K == {m \in Nat : \E F : Fold(F, o, s, q, m)}
           Largest(S) == CHOOSE x \in S : \A z \in S : x >= z
<1>1. 0 \in K
  <2> DEFINE F == [S \in SUBSET (1 .. 0) |-> s]
  <2>1. \A S \in SUBSET (1 .. 0) : S = {}
    OBVIOUS
  <2>2. Fold(F, o, s, q, 0)
    BY <2>1 DEF Fold
  <2> QED  BY <2>2
<1>2. ASSUME NEW m \in Nat, m \in K PROVE m + 1 \in K
  <2>1. PICK F : Fold(F, o, s, q, m)
    BY <1>2
  <2> DEFINE G == [S \in SUBSET (1 .. m + 1) |->
                     IF m + 1 \in S THEN Does(o, F[S \ {m + 1}], q[m + 1]) ELSE F[S]]
  <2>2. ASSUME NEW S \in SUBSET (1 .. m + 1)
        PROVE  G[S] = IF S = {} THEN s ELSE Does(o, G[S \ {Largest(S)}], q[Largest(S)])
    <3>1. CASE m + 1 \in S
      <4>1. Largest(S) = m + 1 /\ S # {}
        <5>1. \A x \in S : x \in Int /\ m + 1 >= x
          OBVIOUS
        <5>2. \A x \in S : (\A z \in S : x >= z) => x = m + 1
          BY <3>1, <5>1
        <5> QED  BY <3>1, <5>1, <5>2
      <4>2. m + 1 \notin S \ {m + 1} /\ S \ {m + 1} \in SUBSET (1 .. m + 1)
        OBVIOUS
      <4>3. G[S \ {m + 1}] = F[S \ {m + 1}]
        BY <4>2
      <4> QED  BY <3>1, <4>1, <4>3
    <3>2. CASE m + 1 \notin S
      <4>1. S \in SUBSET (1 .. m)
        BY <3>2
      <4>2. F[S] = IF S = {} THEN s ELSE Does(o, F[S \ {Largest(S)}], q[Largest(S)])
        BY <2>1, <4>1 DEF Fold
      <4>3. G[S] = F[S]
        BY <3>2
      <4>4. m + 1 \notin S \ {Largest(S)} /\ S \ {Largest(S)} \in SUBSET (1 .. m + 1)
        BY <3>2
      <4>5. G[S \ {Largest(S)}] = F[S \ {Largest(S)}]
        BY <4>4
      <4> QED  BY <4>2, <4>3, <4>5
    <3> QED  BY <3>1, <3>2
  <2>3. Fold(G, o, s, q, m + 1)
    <3>1. G = [S \in SUBSET (1 .. m + 1) |-> G[S]]
      OBVIOUS
    <3> HIDE DEF G
    <3> QED  BY <2>2, <3>1 DEF Fold
  <2> HIDE DEF G
  <2> QED  BY <2>3
<1> HIDE DEF K
<1>3. n \in K
  BY <1>1, <1>2, Upward
<1> QED  BY <1>3 DEF K

\* It goes through the members from the first.
LEMMA FoldTrail ==
    ASSUME NEW o, NEW s, NEW q, NEW n \in Nat, NEW F, Fold(F, o, s, q, n)
    PROVE  \E tr : Trail(tr, o, s, q, n) /\ tr[n] = F[1 .. n]
<1> DEFINE tr == [k \in 0 .. n |-> F[1 .. k]]
<1>1. tr[0] = s
  <2>1. tr[0] = F[1 .. 0] /\ 1 .. 0 = {} /\ 1 .. 0 \in SUBSET (1 .. n)
    OBVIOUS
  <2> QED  BY <2>1 DEF Fold
<1>2. ASSUME NEW k \in 1 .. n PROVE tr[k] = Does(o, tr[k - 1], q[k])
  <2> DEFINE S == 1 .. k
             last == CHOOSE x \in S : \A z \in S : x >= z
  <2>1. S \in SUBSET (1 .. n) /\ k \in S /\ \A z \in S : z \in Int /\ k >= z
    OBVIOUS
  <2>2. \A x \in S : (\A z \in S : x >= z) => x = k
    BY <2>1
  <2>3. last = k /\ S # {}
    BY <2>1, <2>2
  <2>4. S \ {k} = 1 .. k - 1
    OBVIOUS
  <2> HIDE DEF S
  <2>5. F[S] = Does(o, F[S \ {k}], q[k])
    BY <2>1, <2>3 DEF Fold
  <2>6. tr[k] = F[S] /\ tr[k - 1] = F[1 .. k - 1]
    BY DEF S
  <2> QED  BY <2>4, <2>5, <2>6
<1>3. tr[n] = F[1 .. n]
  OBVIOUS
<1> HIDE DEF tr
<1>4. Trail(tr, o, s, q, n)
  BY <1>1, <1>2 DEF Trail
<1> QED  BY <1>3, <1>4

LEMMA OpenTrail ==
    ASSUME NEW w, NEW b, NEW in
    PROVE  \E tr : /\ tr[0] = w /\ tr[Streams] = OpenAll(w, b, in)
                   /\ \A k \in 1 .. Streams : tr[k] = OpenStream(tr[k - 1], b, k, in)
<1> DEFINE o == [op |-> "open", b |-> b, in |-> in]
           q == [s \in 1 .. Streams |-> s]
           P(f) == f = [S \in SUBSET (1 .. Streams) |->
                          IF S = {} THEN w
                          ELSE LET k == CHOOSE x \in S : \A z \in S : x >= z
                               IN  OpenStream(f[S \ {k}], b, q[k], in)]
           F == CHOOSE f : P(f)
<1>1. ASSUME NEW v, NEW x PROVE Does(o, v, x) = OpenStream(v, b, x, in)
  BY DEF Does
<1>2. DOMAIN q = 1 .. Streams /\ Streams \in Nat
  BY Numbers
<1>3. OpenAll(w, b, in) = F[1 .. Streams]
  BY <1>2 DEF OpenAll, FoldLeft, MapThenFoldSet, Max
<1> HIDE DEF o, q
<1>4. ASSUME NEW f
      PROVE  Fold(f, o, w, q, Streams) <=> P(f)
  <2> DEFINE last(S) == CHOOSE x \in S : \A z \in S : x >= z
             G == [S \in SUBSET (1 .. Streams) |->
                     IF S = {} THEN w ELSE Does(o, f[S \ {last(S)}], q[last(S)])]
             H == [S \in SUBSET (1 .. Streams) |->
                     IF S = {} THEN w ELSE OpenStream(f[S \ {last(S)}], b, q[last(S)], in)]
  <2>1. ASSUME NEW S \in SUBSET (1 .. Streams) PROVE G[S] = H[S]
    <3>1. Does(o, f[S \ {last(S)}], q[last(S)]) = OpenStream(f[S \ {last(S)}], b, q[last(S)], in)
      BY <1>1
    <3> QED  BY <3>1
  <2>2. G = H
    <3>1. G = [S \in SUBSET (1 .. Streams) |-> G[S]] /\ H = [S \in SUBSET (1 .. Streams) |-> H[S]]
      OBVIOUS
    <3> HIDE DEF G, H
    <3> QED  BY <2>1, <3>1
  <2> QED  BY <2>2 DEF Fold
<1>5. \E f : P(f)
  <2>1. PICK f : Fold(f, o, w, q, Streams)
    BY <1>2, FoldExists
  <2> HIDE DEF P
  <2> QED  BY <1>4, <2>1
<1>6. P(F)
  BY <1>5
<1> HIDE DEF F, P
<1>7. PICK tr : Trail(tr, o, w, q, Streams) /\ tr[Streams] = F[1 .. Streams]
  BY <1>2, <1>4, <1>6, FoldTrail
<1>8. \A k \in 1 .. Streams : tr[k] = OpenStream(tr[k - 1], b, k, in)
  BY <1>1, <1>7 DEF Trail, q
<1> QED  BY <1>3, <1>7, <1>8 DEF Trail

LEMMA ConnectTrail ==
    ASSUME NEW w, NEW b, NEW in
    PROVE  \E tr : /\ tr[0] = w /\ tr[Streams] = ConnectAll(w, b, in)
                   /\ \A k \in 1 .. Streams : tr[k] = ConnectStream(tr[k - 1], b, k, in)
<1> DEFINE o == [op |-> "connect", b |-> b, in |-> in]
           q == [s \in 1 .. Streams |-> s]
           P(f) == f = [S \in SUBSET (1 .. Streams) |->
                          IF S = {} THEN w
                          ELSE LET k == CHOOSE x \in S : \A z \in S : x >= z
                               IN  ConnectStream(f[S \ {k}], b, q[k], in)]
           F == CHOOSE f : P(f)
<1>1. ASSUME NEW v, NEW x PROVE Does(o, v, x) = ConnectStream(v, b, x, in)
  BY DEF Does
<1>2. DOMAIN q = 1 .. Streams /\ Streams \in Nat
  BY Numbers
<1>3. ConnectAll(w, b, in) = F[1 .. Streams]
  BY <1>2 DEF ConnectAll, FoldLeft, MapThenFoldSet, Max
<1> HIDE DEF o, q
<1>4. ASSUME NEW f
      PROVE  Fold(f, o, w, q, Streams) <=> P(f)
  <2> DEFINE last(S) == CHOOSE x \in S : \A z \in S : x >= z
             G == [S \in SUBSET (1 .. Streams) |->
                     IF S = {} THEN w ELSE Does(o, f[S \ {last(S)}], q[last(S)])]
             H == [S \in SUBSET (1 .. Streams) |->
                     IF S = {} THEN w ELSE ConnectStream(f[S \ {last(S)}], b, q[last(S)], in)]
  <2>1. ASSUME NEW S \in SUBSET (1 .. Streams) PROVE G[S] = H[S]
    <3>1. Does(o, f[S \ {last(S)}], q[last(S)]) = ConnectStream(f[S \ {last(S)}], b, q[last(S)], in)
      BY <1>1
    <3> QED  BY <3>1
  <2>2. G = H
    <3>1. G = [S \in SUBSET (1 .. Streams) |-> G[S]] /\ H = [S \in SUBSET (1 .. Streams) |-> H[S]]
      OBVIOUS
    <3> HIDE DEF G, H
    <3> QED  BY <2>1, <3>1
  <2> QED  BY <2>2 DEF Fold
<1>5. \E f : P(f)
  <2>1. PICK f : Fold(f, o, w, q, Streams)
    BY <1>2, FoldExists
  <2> HIDE DEF P
  <2> QED  BY <1>4, <2>1
<1>6. P(F)
  BY <1>5
<1> HIDE DEF F, P
<1>7. PICK tr : Trail(tr, o, w, q, Streams) /\ tr[Streams] = F[1 .. Streams]
  BY <1>2, <1>4, <1>6, FoldTrail
<1>8. \A k \in 1 .. Streams : tr[k] = ConnectStream(tr[k - 1], b, k, in)
  BY <1>1, <1>7 DEF Trail, q
<1> QED  BY <1>3, <1>7, <1>8 DEF Trail

LEMMA ReadTrail ==
    ASSUME NEW w, NEW b, NEW in
    PROVE  \E tr : /\ tr[0] = w /\ tr[Streams] = ReadAll(w, b, in)
                   /\ \A k \in 1 .. Streams : tr[k] = ReadStream(tr[k - 1], b, k, in)
<1> DEFINE o == [op |-> "read", b |-> b, in |-> in]
           q == [s \in 1 .. Streams |-> s]
           P(f) == f = [S \in SUBSET (1 .. Streams) |->
                          IF S = {} THEN w
                          ELSE LET k == CHOOSE x \in S : \A z \in S : x >= z
                               IN  ReadStream(f[S \ {k}], b, q[k], in)]
           F == CHOOSE f : P(f)
<1>1. ASSUME NEW v, NEW x PROVE Does(o, v, x) = ReadStream(v, b, x, in)
  BY DEF Does
<1>2. DOMAIN q = 1 .. Streams /\ Streams \in Nat
  BY Numbers
<1>3. ReadAll(w, b, in) = F[1 .. Streams]
  BY <1>2 DEF ReadAll, FoldLeft, MapThenFoldSet, Max
<1> HIDE DEF o, q
<1>4. ASSUME NEW f
      PROVE  Fold(f, o, w, q, Streams) <=> P(f)
  <2> DEFINE last(S) == CHOOSE x \in S : \A z \in S : x >= z
             G == [S \in SUBSET (1 .. Streams) |->
                     IF S = {} THEN w ELSE Does(o, f[S \ {last(S)}], q[last(S)])]
             H == [S \in SUBSET (1 .. Streams) |->
                     IF S = {} THEN w ELSE ReadStream(f[S \ {last(S)}], b, q[last(S)], in)]
  <2>1. ASSUME NEW S \in SUBSET (1 .. Streams) PROVE G[S] = H[S]
    <3>1. Does(o, f[S \ {last(S)}], q[last(S)]) = ReadStream(f[S \ {last(S)}], b, q[last(S)], in)
      BY <1>1
    <3> QED  BY <3>1
  <2>2. G = H
    <3>1. G = [S \in SUBSET (1 .. Streams) |-> G[S]] /\ H = [S \in SUBSET (1 .. Streams) |-> H[S]]
      OBVIOUS
    <3> HIDE DEF G, H
    <3> QED  BY <2>1, <3>1
  <2> QED  BY <2>2 DEF Fold
<1>5. \E f : P(f)
  <2>1. PICK f : Fold(f, o, w, q, Streams)
    BY <1>2, FoldExists
  <2> HIDE DEF P
  <2> QED  BY <1>4, <2>1
<1>6. P(F)
  BY <1>5
<1> HIDE DEF F, P
<1>7. PICK tr : Trail(tr, o, w, q, Streams) /\ tr[Streams] = F[1 .. Streams]
  BY <1>2, <1>4, <1>6, FoldTrail
<1>8. \A k \in 1 .. Streams : tr[k] = ReadStream(tr[k - 1], b, k, in)
  BY <1>1, <1>7 DEF Trail, q
<1> QED  BY <1>3, <1>7, <1>8 DEF Trail

LEMMA FreeTrail ==
    ASSUME NEW w
    PROVE  \E tr : /\ tr[0] = w /\ tr[Len(DestroyOrder)] = FreeJobs(w)
                   /\ \A k \in 1 .. Len(DestroyOrder) : tr[k] = FreeJob(tr[k - 1], DestroyOrder[k])
<1> DEFINE o == [op |-> "free"]
           q == DestroyOrder
           P(f) == f = [S \in SUBSET (1 .. Len(DestroyOrder)) |->
                          IF S = {} THEN w
                          ELSE LET k == CHOOSE x \in S : \A z \in S : x >= z
                               IN  FreeJob(f[S \ {k}], q[k])]
           F == CHOOSE f : P(f)
<1>1. ASSUME NEW v, NEW x PROVE Does(o, v, x) = FreeJob(v, x)
  BY DEF Does
<1>2. DOMAIN q = 1 .. Len(DestroyOrder) /\ Len(DestroyOrder) \in Nat
  BY Numbers DEF DestroyOrder
<1>3. FreeJobs(w) = F[1 .. Len(DestroyOrder)]
  BY <1>2 DEF FreeJobs, FoldLeft, MapThenFoldSet, Max
<1> HIDE DEF o, q
<1>4. ASSUME NEW f
      PROVE  Fold(f, o, w, q, Len(DestroyOrder)) <=> P(f)
  <2> DEFINE last(S) == CHOOSE x \in S : \A z \in S : x >= z
             G == [S \in SUBSET (1 .. Len(DestroyOrder)) |->
                     IF S = {} THEN w ELSE Does(o, f[S \ {last(S)}], q[last(S)])]
             H == [S \in SUBSET (1 .. Len(DestroyOrder)) |->
                     IF S = {} THEN w ELSE FreeJob(f[S \ {last(S)}], q[last(S)])]
  <2>1. ASSUME NEW S \in SUBSET (1 .. Len(DestroyOrder)) PROVE G[S] = H[S]
    <3>1. Does(o, f[S \ {last(S)}], q[last(S)]) = FreeJob(f[S \ {last(S)}], q[last(S)])
      BY <1>1
    <3> QED  BY <3>1
  <2>2. G = H
    <3>1. G = [S \in SUBSET (1 .. Len(DestroyOrder)) |-> G[S]] /\ H = [S \in SUBSET (1 .. Len(DestroyOrder)) |-> H[S]]
      OBVIOUS
    <3> HIDE DEF G, H
    <3> QED  BY <2>1, <3>1
  <2> QED  BY <2>2 DEF Fold
<1>5. \E f : P(f)
  <2>1. PICK f : Fold(f, o, w, q, Len(DestroyOrder))
    BY <1>2, FoldExists
  <2> HIDE DEF P
  <2> QED  BY <1>4, <2>1
<1>6. P(F)
  BY <1>5
<1> HIDE DEF F, P
<1>7. PICK tr : Trail(tr, o, w, q, Len(DestroyOrder)) /\ tr[Len(DestroyOrder)] = F[1 .. Len(DestroyOrder)]
  BY <1>2, <1>4, <1>6, FoldTrail
<1>8. \A k \in 1 .. Len(DestroyOrder) : tr[k] = FreeJob(tr[k - 1], DestroyOrder[k])
  BY <1>1, <1>7 DEF Trail, q
<1> QED  BY <1>3, <1>7, <1>8 DEF Trail

\* Only the streams of b change, and to st.
Streamed(w, v, b, st) ==
    /\ DOMAIN v = DOMAIN w /\ v.slots = w.slots /\ v.fault = w.fault
    /\ DOMAIN v.mem = Block /\ \A a \in Block : a # b => v.mem[a] = w.mem[a]
    /\ v.mem[b] = [w.mem[b] EXCEPT !.streams = st] /\ DOMAIN st = 1 .. Streams
    /\ \A s \in 1 .. Streams :
          DOMAIN st[s] = {"fd", "up", "bytes"} /\ st[s].fd \in Descriptor \cup {Null}

LEMMA StreamsChange ==
    ASSUME NEW w, Firm(w), NEW b \in Block, NEW v, NEW st, Streamed(w, v, b, st)
    PROVE  /\ Only(w, v, b)
           /\ \A s \in Places : Fd(v.mem[b], s) = IF s = 0 THEN Fd(w.mem[b], 0) ELSE st[s].fd
           /\ v.mem[b].streams = st /\ v.mem[b].fd = w.mem[b].fd
           /\ v.mem[b].state = w.mem[b].state /\ v.mem[b].initiated = w.mem[b].initiated
<1>1. IsJob(w.mem[b]) /\ DOMAIN w.mem[b] = DOMAIN NoJob
  BY DEF Firm, Shape, IsJob
<1>2. /\ DOMAIN v.mem[b] = DOMAIN NoJob /\ v.mem[b].streams = st /\ v.mem[b].fd = w.mem[b].fd
      /\ v.mem[b].state = w.mem[b].state /\ v.mem[b].initiated = w.mem[b].initiated
      /\ v.mem[b].kind = w.mem[b].kind /\ v.mem[b].life = w.mem[b].life
      /\ v.mem[b].data = w.mem[b].data /\ v.mem[b].test = w.mem[b].test
      /\ v.mem[b].own = w.mem[b].own /\ v.mem[b].asked = w.mem[b].asked
  BY <1>1, NoJobDomain DEF Streamed
<1>3. \A s \in Places : Fd(v.mem[b], s) = IF s = 0 THEN Fd(w.mem[b], 0) ELSE st[s].fd
  BY <1>2 DEF Fd
<1>4. \A s \in Places : Fd(v.mem[b], s) \in Descriptor \cup {Null}
  BY <1>1, <1>3, Numbers DEF Places, IsJob, Streamed
<1>5. IsJob(v.mem[b])
  BY <1>1, <1>2, <1>4 DEF IsJob, Streamed
<1> QED  BY <1>2, <1>3, <1>5 DEF Only, Streamed

LEMMA OpenStreamHolds ==
    ASSUME NEW w, Firm(w), NEW b \in Block, w.mem[b].life = "live", NEW s \in 1 .. Streams, NEW in,
           w.mem[b].streams[s].fd = Null
    PROVE  LET v == OpenStream(w, b, s, in)
           IN  /\ Firm(v) /\ Kept(w, v) /\ DOMAIN v.mem = Block
               /\ \A a \in Block : a # b => v.mem[a] = w.mem[a]
               /\ v.mem[b].fd = w.mem[b].fd /\ v.mem[b].state = w.mem[b].state
               /\ v.mem[b].initiated = w.mem[b].initiated
               /\ \A r \in 1 .. Streams : r # s => v.mem[b].streams[r] = w.mem[b].streams[r]
<1> DEFINE v == OpenStream(w, b, s, in)
           d == NewDescriptor(w)
           st == [w.mem[b].streams EXCEPT ![s].fd = d]
<1>1. CASE in[s] = "failed" \/ ~HasDescriptor(w)
  <2>1. v = w
    BY <1>1 DEF OpenStream
  <2> QED  BY <2>1 DEF Kept, Firm, Shape
<1>2. CASE ~(in[s] = "failed" \/ ~HasDescriptor(w))
  <2>1. v = [Opened(w) EXCEPT !.mem[b].streams[s].fd = d]
    BY <1>2 DEF OpenStream
  <2>2. /\ DOMAIN w = {"mem", "slots", "open", "errno", "fault", "path"}
        /\ DOMAIN w.mem = Block /\ IsJob(w.mem[b]) /\ DOMAIN w.mem[b] = DOMAIN NoJob
        /\ DOMAIN w.mem[b].streams = 1 .. Streams
    BY DEF Firm, Shape, IsJob
  <2>3. d \in Descriptor \ w.open
    BY <1>2, NewDescriptorFacts
  <2> HIDE DEF d
  <2>4. /\ DOMAIN v = DOMAIN w /\ v.slots = w.slots /\ v.fault = w.fault /\ v.open = w.open \cup {d}
        /\ DOMAIN v.mem = Block /\ \A a \in Block : a # b => v.mem[a] = w.mem[a]
    BY <2>1, <2>2 DEF Opened, d
  <2>5. v.mem[b] = [w.mem[b] EXCEPT !.streams = st]
    BY <2>1, <2>2, NoJobDomain DEF Opened, d
  <2>6. DOMAIN st = 1 .. Streams /\ \A r \in 1 .. Streams : r # s => st[r] = w.mem[b].streams[r]
    BY <2>2
  <2>7. st[s] = [w.mem[b].streams[s] EXCEPT !.fd = d] /\ DOMAIN w.mem[b].streams[s] = {"fd", "up", "bytes"}
    BY <2>2 DEF IsJob
  <2>8. DOMAIN st[s] = {"fd", "up", "bytes"} /\ st[s].fd = d
    BY <2>7
  <2> HIDE DEF v, st
  <2>9. \A r \in 1 .. Streams :
           DOMAIN st[r] = {"fd", "up", "bytes"} /\ st[r].fd \in Descriptor \cup {Null}
    <3>1. ASSUME NEW r \in 1 .. Streams
          PROVE  /\ DOMAIN w.mem[b].streams[r] = {"fd", "up", "bytes"}
                 /\ w.mem[b].streams[r].fd \in Descriptor \cup {Null}
      <4>1. r \in Places /\ Fd(w.mem[b], r) = w.mem[b].streams[r].fd
        BY Numbers DEF Places, Fd
      <4> QED  BY <2>2, <4>1 DEF IsJob
    <3> QED  BY <2>3, <2>6, <2>8, <3>1
  <2>10. /\ Only(w, v, b)
         /\ \A r \in Places : Fd(v.mem[b], r) = IF r = 0 THEN Fd(w.mem[b], 0) ELSE st[r].fd
         /\ v.mem[b].streams = st /\ v.mem[b].fd = w.mem[b].fd
         /\ v.mem[b].state = w.mem[b].state /\ v.mem[b].initiated = w.mem[b].initiated
    <3>1. Streamed(w, v, b, st)
      BY <2>4, <2>5, <2>6, <2>9 DEF Streamed
    <3> QED  BY <3>1, StreamsChange
  <2>11. s \in Places /\ Fd(w.mem[b], s) = Null /\ Fd(v.mem[b], s) = d
    BY <2>8, <2>10, Numbers DEF Places, Fd
  <2>12. \A r \in Places : r # s => Fd(v.mem[b], r) = Fd(w.mem[b], r)
    BY <2>6, <2>10, Numbers DEF Places, Fd
  <2>13. Firm(v) /\ Kept(w, v)
    BY <2>3, <2>4, <2>10, <2>11, <2>12, Opening
  <2> QED  BY <2>4, <2>6, <2>10, <2>13 DEF v
<1> QED  BY <1>1, <1>2

\* While the streams are opened those that are still to come have no descriptor.
Half(w, v, b, k) ==
    /\ Firm(v) /\ Kept(w, v) /\ \A a \in Block : a # b => v.mem[a] = w.mem[a]
    /\ v.mem[b].fd = w.mem[b].fd /\ v.mem[b].state = w.mem[b].state
    /\ v.mem[b].initiated = w.mem[b].initiated
    /\ \A s \in 1 .. Streams : s > k => v.mem[b].streams[s].fd = Null

LEMMA OpenStreamsKeeps ==
    ASSUME NEW w, Sound(w), NEW b \in Block, w.mem[b].life = "live", w.mem[b].kind = "speed", NEW in
    PROVE  Keeps(w, OpenStreams(w, b, in))
<1> DEFINE u == OpenAll(w, b, in)
           v == [u EXCEPT !.mem[b].initiated = TRUE]
<1>1. ASSUME ~w.mem[b].initiated PROVE Keeps(w, v)
  <2>1. PICK tr : /\ tr[0] = w /\ tr[Streams] = u
                  /\ \A k \in 1 .. Streams : tr[k] = OpenStream(tr[k - 1], b, k, in)
    BY OpenTrail
  <2> HIDE DEF u
  <2> DEFINE S == {k \in Nat : k <= Streams => Half(w, tr[k], b, k)}
  <2>2. 0 \in S
    <3>1. Half(w, w, b, 0)
      BY <1>1 DEF Half, Sound, Kept, Waits, Unopened
    <3> QED  BY <2>1, <3>1
  <2>3. ASSUME NEW k \in Nat, k \in S PROVE k + 1 \in S
    <3> SUFFICES ASSUME k + 1 <= Streams PROVE Half(w, tr[k + 1], b, k + 1)
      OBVIOUS
    <3>1. Half(w, tr[k], b, k) /\ k + 1 \in 1 .. Streams /\ (k + 1) - 1 = k /\ k + 1 > k
      BY <2>3, Numbers
    <3>2. tr[k + 1] = OpenStream(tr[k], b, k + 1, in)
      BY <2>1, <3>1
    <3>3. tr[k].mem[b].life = "live" /\ tr[k].mem[b].streams[k + 1].fd = Null /\ Firm(tr[k])
      BY <3>1 DEF Half, Kept
    <3> DEFINE p == tr[k]
               n == k + 1
    <3> HIDE DEF p, n
    <3>4. /\ Firm(OpenStream(p, b, n, in)) /\ Kept(p, OpenStream(p, b, n, in))
          /\ \A a \in Block : a # b => OpenStream(p, b, n, in).mem[a] = p.mem[a]
          /\ OpenStream(p, b, n, in).mem[b].fd = p.mem[b].fd
          /\ OpenStream(p, b, n, in).mem[b].state = p.mem[b].state
          /\ OpenStream(p, b, n, in).mem[b].initiated = p.mem[b].initiated
          /\ \A r \in 1 .. Streams : r # n =>
                OpenStream(p, b, n, in).mem[b].streams[r] = p.mem[b].streams[r]
      <4>1. /\ Firm(p) /\ p.mem[b].life = "live" /\ n \in 1 .. Streams
            /\ p.mem[b].streams[n].fd = Null
        BY <3>1, <3>3 DEF p, n
      <4> QED  BY <4>1, OpenStreamHolds
    <3>5. tr[n] = OpenStream(p, b, n, in) /\ Half(w, p, b, k)
      BY <3>1, <3>2 DEF p, n
    <3>6. \A r \in 1 .. Streams : r > n => r > k /\ r # n
      BY DEF n
    <3>7. Half(w, tr[n], b, n)
      BY <3>4, <3>5, <3>6 DEF Half, Kept
    <3> QED  BY <3>7 DEF n
  <2> HIDE DEF S
  <2>4. Streams \in S
    BY <2>2, <2>3, Upward, Numbers
  <2>5. Half(w, u, b, Streams)
    BY <2>1, <2>4, Numbers DEF S
  <2>6. Firm(u) /\ DOMAIN u.mem = Block /\ IsJob(u.mem[b]) /\ DOMAIN u.mem[b] = DOMAIN NoJob
        /\ DOMAIN u = {"mem", "slots", "open", "errno", "fault", "path"}
    BY <2>5 DEF Half, Firm, Shape, IsJob
  <2>7. /\ DOMAIN v = DOMAIN u /\ v.slots = u.slots /\ v.fault = u.fault /\ v.open = u.open
        /\ DOMAIN v.mem = Block /\ (\A a \in Block : a # b => v.mem[a] = u.mem[a])
        /\ v.mem[b] = [u.mem[b] EXCEPT !.initiated = TRUE]
    BY <2>6
  <2> HIDE DEF v
  <2>8. /\ DOMAIN v.mem[b] = DOMAIN NoJob /\ v.mem[b].streams = u.mem[b].streams
        /\ v.mem[b].fd = u.mem[b].fd /\ v.mem[b].state = u.mem[b].state /\ v.mem[b].initiated
        /\ v.mem[b].kind = u.mem[b].kind /\ v.mem[b].life = u.mem[b].life
        /\ v.mem[b].data = u.mem[b].data /\ v.mem[b].test = u.mem[b].test
        /\ v.mem[b].own = u.mem[b].own /\ v.mem[b].asked = u.mem[b].asked
    BY <2>6, <2>7, NoJobDomain
  <2>9. \A s \in Places : Fd(v.mem[b], s) = Fd(u.mem[b], s)
    BY <2>8 DEF Fd
  <2>10. IsJob(v.mem[b])
    BY <2>6, <2>8, <2>9 DEF IsJob
  <2>11. Only(u, v, b)
    BY <2>7, <2>8, <2>10 DEF Only
  <2>12. Firm(v) /\ Kept(u, v)
    BY <2>6, <2>7, <2>9, <2>11, Noting
  <2>13. Unopened(v.mem[b])
    BY <2>5, <2>8, Domains DEF Half, Unopened, Kept
  <2>14. Waits(v)
    BY <2>5, <2>7, <2>13 DEF Waits, Sound, Half
  <2> QED  BY <2>5, <2>12, <2>14 DEF Keeps, Sound, Kept, Half
<1>2. Keeps(w, w)
  BY Stays
<1> HIDE DEF u, v
<1> QED  BY <1>1, <1>2 DEF OpenStreams, u, v

\* What is noted of the streams.
LEMMA StreamsNoted ==
    ASSUME NEW w, Sound(w), NEW b \in Block, NEW v, NEW st, Streamed(w, v, b, st),
           v.open = w.open, \A s \in 1 .. Streams : st[s].fd = w.mem[b].streams[s].fd
    PROVE  Keeps(w, v)
<1>1. /\ Only(w, v, b)
      /\ \A s \in Places : Fd(v.mem[b], s) = IF s = 0 THEN Fd(w.mem[b], 0) ELSE st[s].fd
      /\ v.mem[b].streams = st /\ v.mem[b].fd = w.mem[b].fd
      /\ v.mem[b].state = w.mem[b].state /\ v.mem[b].initiated = w.mem[b].initiated
  BY StreamsChange DEF Sound
<1>2. \A s \in Places : Fd(v.mem[b], s) = Fd(w.mem[b], s)
  BY <1>1, Numbers DEF Places, Fd
<1>3. Unopened(v.mem[b])
  BY <1>1, Domains DEF Unopened, Only
<1> QED  BY <1>1, <1>2, <1>3, Touching

\* A stream is closed.
LEMMA StreamShut ==
    ASSUME NEW w, Sound(w), NEW b \in Block, NEW v, NEW st, Streamed(w, v, b, st),
           NEW s \in 1 .. Streams, v.open = w.open \ {w.mem[b].streams[s].fd}, st[s].fd = Null,
           \A r \in 1 .. Streams : r # s => st[r].fd = w.mem[b].streams[r].fd
    PROVE  Keeps(w, v)
<1>1. /\ Only(w, v, b)
      /\ \A r \in Places : Fd(v.mem[b], r) = IF r = 0 THEN Fd(w.mem[b], 0) ELSE st[r].fd
      /\ v.mem[b].streams = st /\ v.mem[b].fd = w.mem[b].fd
      /\ v.mem[b].state = w.mem[b].state /\ v.mem[b].initiated = w.mem[b].initiated
  BY StreamsChange DEF Sound
<1>2. s \in Places /\ Fd(w.mem[b], s) = w.mem[b].streams[s].fd
  BY Numbers DEF Places, Fd
<1> DEFINE T == {s}
<1>3. \A r \in Places : Fd(v.mem[b], r) = IF r \in T THEN Null ELSE Fd(w.mem[b], r)
  BY <1>1, Numbers DEF Places, Fd
<1>4. T \in SUBSET Places /\ v.open = w.open \ {Fd(w.mem[b], r) : r \in T}
  BY <1>2
<1> HIDE DEF T
<1>5. Firm(v) /\ Kept(w, v)
  BY <1>1, <1>3, <1>4, Closing DEF Sound
<1>6. \A r \in 1 .. Streams : w.mem[b].streams[r].fd = Null => st[r].fd = Null
  OBVIOUS
<1>7. Unopened(v.mem[b])
  BY <1>1, <1>6, Domains DEF Unopened, Only
<1> QED  BY <1>1, <1>5, <1>7, WaitsOn DEF Keeps, Sound

LEMMA StreamsOf ==
    ASSUME NEW w, Sound(w), NEW b \in Block
    PROVE  /\ DOMAIN w.mem[b].streams = 1 .. Streams
           /\ \A s \in 1 .. Streams :
                 /\ DOMAIN w.mem[b].streams[s] = {"fd", "up", "bytes"}
                 /\ w.mem[b].streams[s].fd \in Descriptor \cup {Null}
<1>1. IsJob(w.mem[b])
  BY Domains
<1>2. \A s \in 1 .. Streams : s \in Places /\ Fd(w.mem[b], s) = w.mem[b].streams[s].fd
  BY Numbers DEF Places, Fd
<1> QED  BY <1>1, <1>2 DEF IsJob

\* What a step makes of one stream: z, with that descriptor or with none.
LEMMA StreamTurns ==
    ASSUME NEW w, Sound(w), NEW b \in Block, NEW s \in 1 .. Streams, NEW v, NEW z,
           DOMAIN v = DOMAIN w, v.slots = w.slots, v.fault = w.fault,
           v.mem = [w.mem EXCEPT ![b] = [w.mem[b] EXCEPT
                        !.streams = [w.mem[b].streams EXCEPT ![s] = z]]],
           DOMAIN z = {"fd", "up", "bytes"},
           \/ z.fd = w.mem[b].streams[s].fd /\ v.open = w.open
           \/ z.fd = Null /\ v.open = w.open \ {w.mem[b].streams[s].fd}
    PROVE  Keeps(w, v)
<1> DEFINE st == [w.mem[b].streams EXCEPT ![s] = z]
<1>1. DOMAIN st = 1 .. Streams /\ st[s] = z /\ \A r \in 1 .. Streams : r # s => st[r] = w.mem[b].streams[r]
  BY StreamsOf
<1>2. v.mem = [w.mem EXCEPT ![b] = [w.mem[b] EXCEPT !.streams = st]]
  OBVIOUS
<1> HIDE DEF st
<1>3. Streamed(w, v, b, st)
  <2>1. /\ DOMAIN v.mem = Block /\ (\A a \in Block : a # b => v.mem[a] = w.mem[a])
        /\ v.mem[b] = [w.mem[b] EXCEPT !.streams = st]
    BY <1>2, Domains
  <2>2. \A r \in 1 .. Streams : DOMAIN st[r] = {"fd", "up", "bytes"} /\ st[r].fd \in Descriptor \cup {Null}
    BY <1>1, StreamsOf
  <2> QED  BY <1>1, <2>1, <2>2 DEF Streamed
<1>4. CASE z.fd = w.mem[b].streams[s].fd /\ v.open = w.open
  BY <1>1, <1>3, <1>4, StreamsNoted
<1>5. CASE z.fd = Null /\ v.open = w.open \ {w.mem[b].streams[s].fd}
  <2>1. st[s].fd = Null /\ \A r \in 1 .. Streams : r # s => st[r].fd = w.mem[b].streams[r].fd
    BY <1>1, <1>5
  <2>2. v.open = w.open \ {w.mem[b].streams[s].fd}
    BY <1>5
  <2> QED  BY <1>3, <2>1, <2>2, StreamShut
<1> QED  BY <1>4, <1>5

LEMMA ConnectStreamKeeps ==
    ASSUME NEW w, Sound(w), NEW b \in Block, NEW s \in 1 .. Streams, NEW in
    PROVE  Keeps(w, ConnectStream(w, b, s, in))
<1> DEFINE stream == w.mem[b].streams[s]
           shut == [Closed(w, {stream.fd}) EXCEPT !.mem[b].streams[s].fd = Null]
           up == [w EXCEPT !.mem[b].streams[s].up = TRUE]
<1>1. /\ DOMAIN w = {"mem", "slots", "open", "errno", "fault", "path"} /\ DOMAIN w.mem = Block
      /\ DOMAIN w.mem[b] = DOMAIN NoJob /\ DOMAIN w.mem[b].streams = 1 .. Streams
      /\ DOMAIN stream = {"fd", "up", "bytes"}
  BY Domains, StreamsOf
<1>2. Keeps(w, shut)
  <2> DEFINE z == [stream EXCEPT !.fd = Null]
  <2>1. DOMAIN z = {"fd", "up", "bytes"} /\ z.fd = Null
    BY <1>1
  <2>2. /\ DOMAIN shut = DOMAIN w /\ shut.slots = w.slots /\ shut.fault = w.fault
        /\ shut.open = w.open \ {stream.fd}
    BY <1>1 DEF Closed
  <2>3. shut.mem = [w.mem EXCEPT ![b] = [w.mem[b] EXCEPT
                        !.streams = [w.mem[b].streams EXCEPT ![s] = z]]]
    BY <1>1, NoJobDomain DEF Closed
  <2> HIDE DEF z, shut
  <2> QED  BY <2>1, <2>2, <2>3, StreamTurns
<1>3. Keeps(w, up)
  <2> DEFINE z == [stream EXCEPT !.up = TRUE]
  <2>1. DOMAIN z = {"fd", "up", "bytes"} /\ z.fd = stream.fd
    BY <1>1
  <2>2. DOMAIN up = DOMAIN w /\ up.slots = w.slots /\ up.fault = w.fault /\ up.open = w.open
    BY <1>1
  <2>3. up.mem = [w.mem EXCEPT ![b] = [w.mem[b] EXCEPT
                        !.streams = [w.mem[b].streams EXCEPT ![s] = z]]]
    BY <1>1, NoJobDomain
  <2> HIDE DEF z, up
  <2> QED  BY <2>1, <2>2, <2>3, StreamTurns
<1>4. Keeps(w, w)
  BY Stays
<1> HIDE DEF shut, up
<1> QED  BY <1>2, <1>3, <1>4 DEF ConnectStream, shut, up

LEMMA ReadStreamKeeps ==
    ASSUME NEW w, Sound(w), NEW b \in Block, NEW s \in 1 .. Streams, NEW in
    PROVE  Keeps(w, ReadStream(w, b, s, in))
<1> DEFINE stream == w.mem[b].streams[s]
           shut == [Closed(w, {stream.fd})
                       EXCEPT !.mem[b].streams[s] = [@ EXCEPT !.fd = Null, !.up = FALSE]]
           read == [w EXCEPT !.mem[b].streams[s].bytes = TRUE]
<1>1. /\ DOMAIN w = {"mem", "slots", "open", "errno", "fault", "path"} /\ DOMAIN w.mem = Block
      /\ DOMAIN w.mem[b] = DOMAIN NoJob /\ DOMAIN w.mem[b].streams = 1 .. Streams
      /\ DOMAIN stream = {"fd", "up", "bytes"}
  BY Domains, StreamsOf
<1>2. Keeps(w, shut)
  <2> DEFINE z == [stream EXCEPT !.fd = Null, !.up = FALSE]
  <2>1. DOMAIN z = {"fd", "up", "bytes"} /\ z.fd = Null
    BY <1>1
  <2>2. /\ DOMAIN shut = DOMAIN w /\ shut.slots = w.slots /\ shut.fault = w.fault
        /\ shut.open = w.open \ {stream.fd}
    BY <1>1 DEF Closed
  <2>3. shut.mem = [w.mem EXCEPT ![b] = [w.mem[b] EXCEPT
                        !.streams = [w.mem[b].streams EXCEPT ![s] = z]]]
    BY <1>1, NoJobDomain DEF Closed
  <2> HIDE DEF z, shut
  <2> QED  BY <2>1, <2>2, <2>3, StreamTurns
<1>3. Keeps(w, read)
  <2> DEFINE z == [stream EXCEPT !.bytes = TRUE]
  <2>1. DOMAIN z = {"fd", "up", "bytes"} /\ z.fd = stream.fd
    BY <1>1
  <2>2. DOMAIN read = DOMAIN w /\ read.slots = w.slots /\ read.fault = w.fault /\ read.open = w.open
    BY <1>1
  <2>3. read.mem = [w.mem EXCEPT ![b] = [w.mem[b] EXCEPT
                        !.streams = [w.mem[b].streams EXCEPT ![s] = z]]]
    BY <1>1, NoJobDomain
  <2> HIDE DEF z, read
  <2> QED  BY <2>1, <2>2, <2>3, StreamTurns
<1>4. Keeps(w, w)
  BY Stays
<1> HIDE DEF shut, read
<1> QED  BY <1>2, <1>3, <1>4 DEF ReadStream, shut, read

\* What each member keeps all keep.
LEMMA Along ==
    ASSUME NEW w, Sound(w), NEW n \in Nat, NEW tr, tr[0] = w,
           \A k \in 1 .. n : Sound(tr[k - 1]) => Keeps(tr[k - 1], tr[k])
    PROVE  Keeps(w, tr[n])
<1> DEFINE S == {k \in Nat : k <= n => Keeps(w, tr[k])}
<1>1. 0 \in S
  BY Stays
<1>2. ASSUME NEW k \in Nat, k \in S PROVE k + 1 \in S
  <2> SUFFICES ASSUME k + 1 <= n PROVE Keeps(w, tr[k + 1])
    OBVIOUS
  <2>1. Keeps(w, tr[k]) /\ k + 1 \in 1 .. n /\ (k + 1) - 1 = k
    BY <1>2
  <2>2. Keeps(tr[k], tr[k + 1])
    BY <2>1 DEF Keeps
  <2> QED  BY <2>1, <2>2, Again
<1> HIDE DEF S
<1>3. n \in S
  BY <1>1, <1>2, Upward
<1> QED  BY <1>3 DEF S

LEMMA ConnectAllKeeps ==
    ASSUME NEW w, Sound(w), NEW b \in Block, NEW in
    PROVE  Keeps(w, ConnectAll(w, b, in))
<1>1. PICK tr : /\ tr[0] = w /\ tr[Streams] = ConnectAll(w, b, in)
                /\ \A k \in 1 .. Streams : tr[k] = ConnectStream(tr[k - 1], b, k, in)
  BY ConnectTrail
<1>2. \A k \in 1 .. Streams : Sound(tr[k - 1]) => Keeps(tr[k - 1], tr[k])
  BY <1>1, ConnectStreamKeeps
<1>3. Streams \in Nat
  BY Numbers
<1>4. Keeps(w, tr[Streams])
  BY <1>1, <1>2, <1>3, Along
<1> QED  BY <1>1, <1>4

LEMMA ReadAllKeeps ==
    ASSUME NEW w, Sound(w), NEW b \in Block, NEW in
    PROVE  Keeps(w, ReadAll(w, b, in))
<1>1. PICK tr : /\ tr[0] = w /\ tr[Streams] = ReadAll(w, b, in)
                /\ \A k \in 1 .. Streams : tr[k] = ReadStream(tr[k - 1], b, k, in)
  BY ReadTrail
<1>2. \A k \in 1 .. Streams : Sound(tr[k - 1]) => Keeps(tr[k - 1], tr[k])
  BY <1>1, ReadStreamKeeps
<1>3. Streams \in Nat
  BY Numbers
<1>4. Keeps(w, tr[Streams])
  BY <1>1, <1>2, <1>3, Along
<1> QED  BY <1>1, <1>4

LEMMA SpeedConnectKeeps ==
    ASSUME NEW w, Sound(w), NEW b \in Block, w.mem[b].life = "live", w.mem[b].kind = "speed", NEW in,
           NEW phase \in SpeedStates
    PROVE  Keeps(w, SpeedConnect(w, b, in, phase))
<1> DEFINE opened == OpenStreams(w, b, in)
           connected == ConnectAll(opened, b, in)
<1>1. Keeps(w, opened)
  BY OpenStreamsKeeps
<1> HIDE DEF opened
<1>2. Keeps(w, connected)
  BY <1>1, ConnectAllKeeps, Again DEF Keeps
<1>3. SpeedConnect(w, b, in, phase) \in {connected, Finish(connected, b), Goto(connected, b, phase)}
  BY DEF SpeedConnect, opened
<1> HIDE DEF connected
<1>4. connected.mem[b].life = "live" /\ Sound(connected)
  BY <1>2 DEF Keeps, Kept
<1>5. Keeps(connected, Finish(connected, b)) /\ Keeps(connected, Goto(connected, b, phase))
  <2>1. phase # "socket"
    BY DEF SpeedStates
  <2> QED  BY <1>4, <2>1, FinishKeeps, GotoKeeps
<1> QED  BY <1>2, <1>3, <1>5, Again

LEMMA DownKeeps ==
    ASSUME NEW w, Sound(w), NEW b \in Block, w.mem[b].life = "live", w.mem[b].kind = "speed", NEW in
    PROVE  Keeps(w, DownStep(w, b, in))
<1> DEFINE read == ReadAll(w, b, in)
           shut == CloseStreams(read, b)
           gone == Goto(shut, b, "ul_connect")
           v == [gone EXCEPT !.mem[b].initiated = FALSE]
<1>1. Keeps(w, read)
  BY ReadAllKeeps
<1>2. DownStep(w, b, in) = IF Over(read.mem[b]) THEN v ELSE read
  BY DEF DownStep
<1> HIDE DEF read
<1>3. Keeps(read, shut) /\ \A s \in 1 .. Streams : shut.mem[b].streams[s].fd = Null
  BY <1>1, CloseStreamsKeeps DEF Keeps
<1> HIDE DEF shut
<1>4. Keeps(shut, gone) /\ gone.mem[b].state = "ul_connect"
  BY <1>3, GotoKeeps DEF Keeps, SpeedStates
<1>5. \A s \in 1 .. Streams : gone.mem[b].streams[s].fd = Null
  <2>1. gone.mem[b] = [shut.mem[b] EXCEPT !.state = "ul_connect", !.late = FALSE]
    BY <1>3, Domains DEF Goto, Keeps
  <2>3. DOMAIN shut.mem[b] = DOMAIN NoJob
    BY <1>3, Domains DEF Keeps
  <2>2. gone.mem[b].streams = shut.mem[b].streams
    <3> HIDE DEF gone
    <3> QED  BY <2>1, <2>3, NoJobDomain
  <2> QED  BY <1>3, <2>2
<1> HIDE DEF gone
<1>6. Keeps(gone, v)
  <2>1. /\ DOMAIN v = DOMAIN gone /\ v.slots = gone.slots /\ v.fault = gone.fault /\ v.open = gone.open
        /\ DOMAIN v.mem = Block /\ (\A a \in Block : a # b => v.mem[a] = gone.mem[a])
        /\ v.mem[b] = [gone.mem[b] EXCEPT !.initiated = FALSE]
    BY <1>4, Domains DEF Keeps
  <2> HIDE DEF v
  <2>2. /\ DOMAIN v.mem[b] = DOMAIN NoJob /\ v.mem[b].streams = gone.mem[b].streams
        /\ v.mem[b].fd = gone.mem[b].fd /\ v.mem[b].state = gone.mem[b].state
        /\ v.mem[b].initiated = FALSE
        /\ v.mem[b].kind = gone.mem[b].kind /\ v.mem[b].life = gone.mem[b].life
        /\ v.mem[b].data = gone.mem[b].data /\ v.mem[b].test = gone.mem[b].test
        /\ v.mem[b].own = gone.mem[b].own /\ v.mem[b].asked = gone.mem[b].asked
    BY <1>4, <2>1, Domains, NoJobDomain DEF Keeps
  <2>3. \A s \in Places : Fd(v.mem[b], s) = Fd(gone.mem[b], s)
    BY <2>2 DEF Fd
  <2>4. IsJob(v.mem[b])
    BY <1>4, <2>2, <2>3, Domains DEF IsJob, Keeps
  <2>5. Only(gone, v, b)
    BY <2>1, <2>2, <2>4 DEF Only
  <2>6. Unopened(v.mem[b])
    BY <1>4, <1>5, <2>2 DEF Unopened
  <2> QED  BY <1>4, <2>1, <2>3, <2>5, <2>6, Touching DEF Keeps
<1>7. Keeps(w, v)
  BY <1>1, <1>3, <1>4, <1>6, Again
<1> HIDE DEF v
<1> QED  BY <1>1, <1>2, <1>7

LEMMA UpKeeps ==
    ASSUME NEW w, Sound(w), NEW b \in Block, w.mem[b].life = "live", w.mem[b].kind = "speed", NEW in
    PROVE  Keeps(w, UpStep(w, b, in))
<1> DEFINE old == w.mem[b].streams
           st == [s \in 1 .. Streams |->
                    IF old[s].up /\ in[s] = "data" THEN [old[s] EXCEPT !.bytes = TRUE] ELSE old[s]]
           written == [w EXCEPT !.mem[b].streams = st]
           told == Finish(written, b)
<1>1. Keeps(w, written)
  <2>1. \A s \in 1 .. Streams : DOMAIN st[s] = {"fd", "up", "bytes"} /\ st[s].fd = old[s].fd
    BY StreamsOf
  <2>2. DOMAIN st = 1 .. Streams
    OBVIOUS
  <2> HIDE DEF st
  <2>3. /\ DOMAIN written = DOMAIN w /\ written.slots = w.slots /\ written.fault = w.fault
        /\ written.open = w.open /\ DOMAIN written.mem = Block
        /\ (\A a \in Block : a # b => written.mem[a] = w.mem[a])
        /\ written.mem[b] = [w.mem[b] EXCEPT !.streams = st]
    BY Domains
  <2> HIDE DEF written
  <2>4. Streamed(w, written, b, st)
    BY <2>1, <2>2, <2>3, StreamsOf DEF Streamed
  <2> QED  BY <2>1, <2>3, <2>4, StreamsNoted
<1>2. UpStep(w, b, in) = IF Over(written.mem[b]) THEN CloseStreams(told, b) ELSE written
  BY DEF UpStep
<1> HIDE DEF written
<1>3. Keeps(written, told)
  BY <1>1, FinishKeeps DEF Keeps, Kept
<1> HIDE DEF told
<1>4. Keeps(told, CloseStreams(told, b))
  BY <1>3, CloseStreamsKeeps DEF Keeps
<1> QED  BY <1>1, <1>2, <1>3, <1>4, Again

LEMMA SpeedMoves ==
    ASSUME NEW w, Sound(w), NEW b \in Block, w.mem[b].life = "live", w.mem[b].kind = "speed", NEW in,
           w.mem[b].state # "done", \A a \in Speeds(w) : a = b
    PROVE  Moves(w, SpeedStep(w, b, in))
<1>1. w.mem[b].state \in SpeedStates
  BY Domains DEF IsJob
<1>2. CASE w.mem[b].state \in {"auto_connect", "auto_send", "auto_read", "auto_parse"}
  BY <1>2, AutoKeeps, KeepsMoves DEF SpeedStep
<1>3. CASE w.mem[b].state = "latency"
  BY <1>3, LatencyMoves DEF SpeedStep
<1>4. CASE w.mem[b].state = "dl_connect"
  <2>1. Keeps(w, SpeedConnect(w, b, in, "dl"))
    BY SpeedConnectKeeps DEF SpeedStates
  <2> QED  BY <1>4, <2>1, KeepsMoves DEF SpeedStep
<1>5. CASE w.mem[b].state = "ul_connect"
  <2>1. Keeps(w, SpeedConnect(w, b, in, "ul"))
    BY SpeedConnectKeeps DEF SpeedStates
  <2> QED  BY <1>5, <2>1, KeepsMoves DEF SpeedStep
<1>6. CASE w.mem[b].state = "dl"
  BY <1>6, DownKeeps, KeepsMoves DEF SpeedStep
<1>7. CASE w.mem[b].state = "ul"
  BY <1>7, UpKeeps, KeepsMoves DEF SpeedStep
<1> QED  BY <1>1, <1>2, <1>3, <1>4, <1>5, <1>6, <1>7 DEF SpeedStates

-------------------------------------------------------------------------------
(* The invariant *)

\* The jobs are sound; while a speed test is there nothing is called, and nothing
\* is there before the first call.
JobsInv ==
    /\ Sound(Now)
    /\ \E c \in Setups, n \in Nat : calls = [may |-> c.may, most |-> c.most, made |-> n]
    /\ Speeds(Now) # {} => calls.made >= calls.most
    /\ \A a, c \in Speeds(Now) : a = c
    /\ calls.made = 0 => \A slot \in Slots : slots[slot] = Null

LEMMA TurnFacts ==
    ASSUME NEW w, Sound(w), Turn(w)
    PROVE  Sound(Now)' /\ Speeds(Now)' = Speeds(w) /\ slots' = w.slots
<1>1. /\ mem' = w.mem /\ slots' = w.slots /\ open' = w.open
      /\ errno' = w.errno /\ fault' = w.fault /\ path' = w.path
  BY DEF Turn
<1>2. Shape(Now)'
  BY <1>1 DEF Sound, Firm, Shape, Now
<1>3. (Placed(Now) /\ Pointed(Now) /\ Lent(Now) /\ Waits(Now) /\ Now.fault = FALSE)'
  BY <1>1 DEF Sound, Firm, Placed, Pointed, Lent, Waits, Now
<1>4. Speeds(Now)' = Speeds(w)
  BY <1>1 DEF Speeds, Now
<1> QED  BY <1>1, <1>2, <1>3, <1>4 DEF Sound, Firm

LEMMA JobsBegin ==
    ASSUME JobsInit
    PROVE  JobsInv
<1>1. \A b \in Block : mem[b] = NoJob
  BY DEF JobsInit
<1>2. \A b \in Block, s \in Places : Fd(mem[b], s) = Null
  <2>1. ASSUME NEW s \in Places PROVE Fd(NoJob, s) = Null
    <3>1. s = 0 \/ s \in 1 .. Streams
      BY Numbers DEF Places
    <3> QED  BY <3>1, NoJobFacts DEF Fd
  <2> QED  BY <1>1, <2>1
<1>3. \A b \in Block : IsJob(mem[b]) /\ Unopened(mem[b]) /\ mem[b].life = "never"
  <2>1. IsJob(NoJob) /\ Unopened(NoJob)
    <3>1. ASSUME NEW s \in Places PROVE Fd(NoJob, s) = Null
      <4>1. s = 0 \/ s \in 1 .. Streams
        BY Numbers DEF Places
      <4> QED  BY <4>1, NoJobFacts DEF Fd
    <3> QED  BY <3>1, NoJobFacts DEF IsJob, Unopened
  <2> QED  BY <1>1, <2>1, NoJobFacts
<1>4. Shape(Now) /\ Waits(Now) /\ Now.fault = FALSE
  BY <1>3 DEF JobsInit, Shape, Waits, Now
<1>5. Placed(Now)
  BY <1>2, <1>3 DEF JobsInit, Placed, Now
<1>6. Pointed(Now) /\ Lent(Now)
  BY <1>3 DEF JobsInit, Pointed, Lent, Now
<1>7. Speeds(Now) = {}
  BY <1>3 DEF Speeds, Now
<1>8. PICK c \in Setups : calls = [may |-> c.may, most |-> c.most, made |-> 0]
  BY DEF JobsInit
<1>9. \E x \in Setups, n \in Nat : calls = [may |-> x.may, most |-> x.most, made |-> n]
  BY <1>8
<1>10. \A slot \in Slots : slots[slot] = Null
  BY DEF JobsInit
<1>11. Sound(Now)
  BY <1>4, <1>5, <1>6 DEF Sound, Firm
<1> QED  BY <1>7, <1>9, <1>10, <1>11 DEF JobsInv

\* Freeing all jobs, with no speed test among them.
LEMMA FreeingAll ==
    ASSUME NEW w, Sound(w), Speeds(w) = {}
    PROVE  Sound(FreeJobs(w)) /\ Speeds(FreeJobs(w)) = {}
<1> DEFINE n == Len(DestroyOrder)
<1>1. PICK tr : /\ tr[0] = w /\ tr[n] = FreeJobs(w)
                /\ \A k \in 1 .. n : tr[k] = FreeJob(tr[k - 1], DestroyOrder[k])
  BY FreeTrail
<1>2. n \in Nat /\ \A k \in 1 .. n : DestroyOrder[k] \in Slots
  BY DEF DestroyOrder, Slots, Jobs
<1>3. ASSUME NEW v, Sound(v), Speeds(v) = {}, NEW slot \in Slots
      PROVE  Sound(FreeJob(v, slot)) /\ Speeds(FreeJob(v, slot)) = {}
  <2>1. \A a \in Block : v.mem[a].life = "live" => v.mem[a].data # "test"
    BY <1>3 DEF Sound, Firm, Lent, Speeds
  <2>2. v.slots[slot] # Null => v.slots[slot] \in Block /\ v.mem[v.slots[slot]].life = "live"
    BY <1>3 DEF Sound, Firm, Shape, Pointed
  <2>3. Sound(FreeJob(v, slot)) /\ Fewer(v, FreeJob(v, slot))
    <3>1. v.slots[slot] # Null =>
             v.mem[v.slots[slot]].data # "test" /\ Unread(v, v.slots[slot])
      BY <2>1, <2>2 DEF Unread
    <3> QED  BY <1>3, <3>1, FreeJobFrees
  <2> QED  BY <1>3, <2>3, FewerMoves DEF Moves
<1> DEFINE S == {k \in Nat : k <= n => Sound(tr[k]) /\ Speeds(tr[k]) = {}}
<1> HIDE DEF n
<1>4. 0 \in S
  BY <1>1
<1>5. ASSUME NEW k \in Nat, k \in S PROVE k + 1 \in S
  <2> SUFFICES ASSUME k + 1 <= n PROVE Sound(tr[k + 1]) /\ Speeds(tr[k + 1]) = {}
    OBVIOUS
  <2>1. k + 1 \in 1 .. n /\ (k + 1) - 1 = k /\ Sound(tr[k]) /\ Speeds(tr[k]) = {}
    BY <1>2, <1>5
  <2>2. tr[k + 1] = FreeJob(tr[k], DestroyOrder[k + 1]) /\ DestroyOrder[k + 1] \in Slots
    BY <1>1, <1>2, <2>1
  <2> QED  BY <1>3, <2>1, <2>2
<1> HIDE DEF S
<1>6. n \in S
  BY <1>2, <1>4, <1>5, Upward
<1> QED  BY <1>1, <1>2, <1>6 DEF S

LEMMA CallStep ==
    ASSUME JobsInv, NEW kind \in Jobs \cup {"disconnect"}, NEW data \in {"null", "tag", "app"},
           NEW result \in {"ok", "failed", "auto"}, CallJob(kind, data, result)
    PROVE  JobsInv'
<1>1. PICK c \in Setups, n \in Nat : calls = [may |-> c.may, most |-> c.most, made |-> n]
  BY DEF JobsInv
<1>2. c.most \in Nat /\ n < c.most /\ <<kind, data>> \in c.may
  BY <1>1, CarefulCalls DEF CallJob
<1>3. calls' = [may |-> c.may, most |-> c.most, made |-> n + 1]
  BY <1>1 DEF CallJob
<1>4. Speeds(Now) = {} /\ Sound(Now)
  BY <1>1, <1>2 DEF JobsInv
<1>5. ASSUME NEW w, Sound(w), Turn(w), Speeds(w) = {} \/ n + 1 >= c.most,
             \A a, d \in Speeds(w) : a = d
      PROVE  JobsInv'
  <2>1. Sound(Now)' /\ Speeds(Now)' = Speeds(w)
    BY <1>5, TurnFacts
  <2>2. \E x \in Setups, m \in Nat : calls' = [may |-> x.may, most |-> x.most, made |-> m]
    BY <1>3
  <2>3. calls'.made = n + 1 /\ calls'.most = c.most /\ n + 1 # 0
    BY <1>3
  <2> QED  BY <1>5, <2>1, <2>2, <2>3 DEF JobsInv
<1>6. CASE kind = "disconnect"
  <2>1. Turn(FreeJobs(Now))
    BY <1>6 DEF CallJob
  <2>2. Sound(FreeJobs(Now)) /\ Speeds(FreeJobs(Now)) = {}
    BY <1>4, FreeingAll
  <2> QED  BY <1>5, <2>1, <2>2
<1>7. CASE kind \in Jobs
  <2> DEFINE w == StartFor(Now, kind, data, Null, result)
  <2>1. HasBlock(Now) /\ (result = "ok" => HasDescriptor(Now)) /\ Turn(w)
    BY <1>7 DEF CallJob, StartJob, Jobs
  <2>2. MayStart(Now, kind, data, Null)
    <3>1. /\ kind = "response" => data # "app"
          /\ kind \in {"trace", "loop", "scan", "whois"} => data = "null"
          /\ kind = "speed" => c.most <= 1
      BY <1>2, CarefulCalls
    <3>2. kind = "speed" => \A slot \in Slots : slots[slot] = Null
      BY <1>1, <1>2, <3>1 DEF JobsInv
    <3>3. Now.slots = slots /\ "response" \in Slots /\ Slot(kind) \in Slots
      BY <1>7 DEF Now, Slots, Jobs, Slot
    <3>4. \A a \in Block : Now.mem[a].life = "live" => Now.mem[a].data # "test"
      BY <1>4 DEF Sound, Firm, Lent, Speeds
    <3>5. Now.slots[Slot(kind)] # Null =>
             Now.slots[Slot(kind)] \in Block /\ Now.mem[Now.slots[Slot(kind)]].life = "live"
      BY <1>4, <3>3 DEF Sound, Firm, Shape, Pointed
    <3>6. Now.slots[Slot(kind)] # Null =>
             Now.mem[Now.slots[Slot(kind)]].data # "test" /\ Unread(Now, Now.slots[Slot(kind)])
      BY <3>4, <3>5 DEF Unread
    <3> QED  BY <1>4, <3>1, <3>2, <3>3, <3>6 DEF MayStart
  <2>3. /\ Sound(w) /\ (kind # "speed" => Moves(Now, w))
        /\ \A a, d \in Speeds(w) : a = d
    <3>1. data \in {"null", "tag", "app", "test"} /\ data # "test"
      OBVIOUS
    <3> QED  BY <1>4, <1>7, <2>1, <2>2, <3>1, StartKeepsSound
  <2> HIDE DEF w
  <2>4. Speeds(w) = {} \/ n + 1 >= c.most
    <3>1. kind = "speed" => c.most <= 1
      BY <1>2, CarefulCalls
    <3> QED  BY <1>2, <1>4, <2>3, <3>1 DEF Moves
  <2> QED  BY <1>5, <2>1, <2>3, <2>4
<1> QED  BY <1>6, <1>7

LEMMA StepMoves ==
    ASSUME NEW w, Sound(w), NEW slot \in Slots, w.slots[slot] # Null, NEW in,
           w.mem[w.slots[slot]].state # "done", \A a, c \in Speeds(w) : a = c
    PROVE  Moves(w, StepOf(w, w.slots[slot], in))
<1> DEFINE b == w.slots[slot]
<1>1. b \in Block /\ w.mem[b].life = "live" /\ w.mem[b].kind = slot
  BY DEF Sound, Firm, Shape, Pointed
<1>2. slot \in {"ping", "mtu", "frag", "response", "trace", "scan", "whois", "http", "speed"}
  BY DEF Slots, Jobs
<1>b. w.slots[slot] = b /\ w.mem[b].state # "done"
  OBVIOUS
<1> HIDE DEF b
<1>3. CASE slot = "ping"
  <2>1. Moves(w, PingStep(w, b, in))
    BY <1>1, <1>3, PingKeeps, KeepsMoves
  <2> QED  BY <1>1, <1>3, <1>b, <2>1 DEF StepOf
<1>4. CASE slot = "mtu"
  <2>1. Moves(w, MtuStep(w, b, in))
    BY <1>1, <1>4, MtuKeeps, KeepsMoves
  <2> QED  BY <1>1, <1>4, <1>b, <2>1 DEF StepOf
<1>5. CASE slot = "frag"
  <2>1. Moves(w, FragStep(w, b, in))
    BY <1>1, <1>5, FragKeeps, KeepsMoves
  <2> QED  BY <1>1, <1>5, <1>b, <2>1 DEF StepOf
<1>6. CASE slot = "response"
  <2>1. Moves(w, ResponseStep(w, b, in))
    BY <1>1, <1>6, ResponseKeeps, KeepsMoves
  <2> QED  BY <1>1, <1>6, <1>b, <2>1 DEF StepOf
<1>7. CASE slot = "trace"
  <2>1. Moves(w, TraceStep(w, b, in))
    BY <1>1, <1>7, TraceKeeps, KeepsMoves
  <2> QED  BY <1>1, <1>7, <1>b, <2>1 DEF StepOf
<1>8. CASE slot = "scan"
  <2>1. Moves(w, ScanStep(w, b, in))
    BY <1>1, <1>8, <1>b, ScanMoves
  <2> QED  BY <1>1, <1>8, <1>b, <2>1 DEF StepOf
<1>9. CASE slot = "whois"
  <2>1. Moves(w, WhoisStep(w, b, in))
    BY <1>1, <1>9, WhoisMoves
  <2> QED  BY <1>1, <1>9, <1>b, <2>1 DEF StepOf
<1>10. CASE slot = "http"
  <2>1. Moves(w, HttpStep(w, b, in))
    BY <1>1, <1>10, HttpKeeps, KeepsMoves
  <2> QED  BY <1>1, <1>10, <1>b, <2>1 DEF StepOf
<1>11. CASE slot = "speed"
  <2>1. \A a \in Speeds(w) : a = b
    BY <1>1, <1>11 DEF Speeds
  <2>2. Moves(w, SpeedStep(w, b, in))
    BY <1>1, <1>11, <1>b, <2>1, SpeedMoves
  <2> QED  BY <1>1, <1>11, <1>b, <2>2 DEF StepOf
<1> QED  BY <1>2, <1>3, <1>4, <1>5, <1>6, <1>7, <1>8, <1>9, <1>10, <1>11

\* The steps that are no calls.
LEMMA Onward ==
    ASSUME JobsInv, NEW w, Moves(Now, w), Turn(w), UNCHANGED calls,
           w.slots = slots \/ \E slot \in Slots : slots[slot] # Null
    PROVE  JobsInv'
<1>1. Sound(Now)' /\ Speeds(Now)' = Speeds(w) /\ slots' = w.slots
  BY TurnFacts DEF Moves
<1>2. Speeds(w) \subseteq Speeds(Now)
  BY DEF Moves
<1>3. calls.made = 0 => w.slots = slots
  BY DEF JobsInv
<1> QED  BY <1>1, <1>2, <1>3 DEF JobsInv

LEMMA JobStep ==
    ASSUME JobsInv, NEW slot \in Slots, ProcessJob(slot)
    PROVE  JobsInv'
<1> DEFINE b == slots[slot]
<1>1. b # Null /\ mem[b].state # "done" /\ UNCHANGED calls
  BY DEF ProcessJob, StepIn
<1>2. Sound(Now) /\ (\A a, c \in Speeds(Now) : a = c) /\ Now.slots[slot] = b /\ Now.mem = mem
  BY DEF JobsInv, Now
<1>3. Live(Now, b)
  BY <1>1, <1>2 DEF Live, Sound, Firm, Pointed
<1>4. PICK in : Turn(StepOf(Now, b, in))
  BY <1>3 DEF ProcessJob, StepIn
<1>5. Moves(Now, StepOf(Now, b, in))
  <2>1. Now.slots[slot] # Null /\ Now.mem[Now.slots[slot]].state # "done"
    BY <1>1, <1>2
  <2>2. Moves(Now, StepOf(Now, Now.slots[slot], in))
    BY <1>2, <2>1, StepMoves
  <2> QED  BY <1>2, <2>2
<1> QED  BY <1>1, <1>4, <1>5, Onward

LEMMA TimerStep ==
    ASSUME JobsInv, NEW slot \in Slots, Timer(slot)
    PROVE  JobsInv'
<1> DEFINE b == slots[slot]
           w == [Now EXCEPT !.mem[b].late = TRUE]
<1>1. Sound(Now) /\ b \in Block
  BY DEF JobsInv, Sound, Firm, Shape, Timer, Now
<1>2. Moves(Now, w)
  BY <1>1, NoteKeeps, KeepsMoves
<1>3. Turn(w) /\ UNCHANGED calls /\ w.slots = slots
  BY DEF Turn, Timer, Now
<1> QED  BY <1>2, <1>3, Onward

LEMMA ErrnoStep ==
    ASSUME JobsInv, OtherCode
    PROVE  JobsInv'
<1> DEFINE w == [Now EXCEPT !.errno = errno']
<1>1. (Sound(Now) /\ Speeds(Now) = Speeds(Now))
  BY DEF JobsInv
<1>2. mem' = mem /\ slots' = slots /\ open' = open /\ fault' = fault /\ calls' = calls /\ path' = path
  BY DEF OtherCode
<1>3. Sound(Now)' /\ Speeds(Now)' = Speeds(Now)
  BY <1>1, <1>2 DEF Sound, Firm, Shape, Placed, Pointed, Lent, Waits, Speeds, Now
<1> QED  BY <1>2, <1>3 DEF JobsInv

LEMMA JobsIdle ==
    ASSUME JobsInv, UNCHANGED jobs
    PROVE  JobsInv'
<1>1. /\ mem' = mem /\ slots' = slots /\ open' = open /\ errno' = errno /\ fault' = fault
      /\ calls' = calls /\ path' = path
  BY DEF jobs
<1>2. Now' = Now
  BY <1>1 DEF Now
<1>3. Sound(Now)' /\ Speeds(Now)' = Speeds(Now)
  BY <1>1 DEF JobsInv, Sound, Firm, Shape, Placed, Pointed, Lent, Waits, Speeds, Now
<1> QED  BY <1>1, <1>3 DEF JobsInv

\* Every context of a job is started by a call, is owned by its pointer until it is
\* freed, and holds its descriptors until it has closed them.
THEOREM JobsInvariant == JobsSpec => []JobsInv
<1>1. JobsInit => JobsInv
  BY JobsBegin
<1>2. JobsInv /\ [JobsNext]_jobs => JobsInv'
  <2> SUFFICES ASSUME JobsInv, [JobsNext]_jobs PROVE JobsInv'
    OBVIOUS
  <2>1. CASE \E kind \in Jobs \cup {"disconnect"}, data \in {"null", "tag", "app"},
                result \in {"ok", "failed", "auto"} : CallJob(kind, data, result)
    BY <2>1, CallStep
  <2>2. CASE \E slot \in Slots : ProcessJob(slot)
    BY <2>2, JobStep
  <2>3. CASE \E slot \in Slots : Timer(slot)
    BY <2>3, TimerStep
  <2>4. CASE OtherCode
    BY <2>4, ErrnoStep
  <2>5. CASE UNCHANGED jobs
    BY <2>5, JobsIdle
  <2> QED  BY <2>1, <2>2, <2>3, <2>4, <2>5 DEF JobsNext
<1> QED  BY <1>1, <1>2, PTL DEF JobsSpec

\* Owned: no descriptor of a diagnostic job leaks or is closed twice, none is
\* another's, and no context is used after it was freed (ProcessX, FreeX).
THEOREM OwnedTheorem == JobsSpec => []Owned
<1>1. JobsInv => Owned
  <2> SUFFICES ASSUME JobsInv PROVE Owned
    OBVIOUS
  <2>1. Sound(Now) /\ Now.mem = mem /\ Now.open = open /\ Now.fault = fault
    BY DEF JobsInv, Now
  <2>2. ~fault
    BY <2>1 DEF Sound, Firm
  <2>3. \A b \in Block : HeldBy(mem[b]) = {Fd(mem[b], s) : s \in Places} \ {Null}
    <3>1. ASSUME NEW b \in Block, NEW e
          PROVE  e \in HeldBy(mem[b]) <=> e \in {Fd(mem[b], s) : s \in Places} \ {Null}
      BY Numbers DEF HeldBy, Fd, Places
    <3> QED  BY <3>1
  <2>4. open = UNION {HeldBy(mem[b]) : b \in {b \in Block : mem[b].life = "live"}}
    <3>1. ASSUME NEW e
          PROVE  e \in open <=> \E b \in Block : mem[b].life = "live" /\ e \in HeldBy(mem[b])
      <4>1. e \in open <=> e # Null /\ \E b \in Block, s \in Places : Fd(mem[b], s) = e
        BY <2>1 DEF Sound, Firm, Placed
      <4>2. \A b \in Block, s \in Places : mem[b].life # "live" => Fd(mem[b], s) = Null
        BY <2>1 DEF Sound, Firm, Placed
      <4> QED  BY <2>3, <4>1, <4>2
    <3> QED  BY <3>1
  <2>5. ASSUME NEW a \in Block, NEW b \in Block, a # b
        PROVE  HeldBy(mem[a]) \cap HeldBy(mem[b]) = {}
    <3>1. \A s, r \in Places : Fd(mem[a], s) = Fd(mem[b], r) => Fd(mem[a], s) = Null
      BY <2>1, <2>5 DEF Sound, Firm, Placed
    <3> QED  BY <2>3, <3>1
  <2> QED  BY <2>2, <2>4, <2>5 DEF Owned
<1> QED  BY <1>1, JobsInvariant, PTL

===============================================================================
