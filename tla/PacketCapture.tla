--------------------------- MODULE PacketCapture ---------------------------
(***************************************************************************)
(* The packet sniffer of a session (kt_net.h, built with                   *)
(* KTERM_ENABLE_PACKETDIAG).  Two threads share a KTermPacketDiagContext:   *)
(* the capture thread runs pcap_loop and the packet handler, the logic      *)
(* thread starts, stops and asks, and drains the output once a frame.       *)
(*                                                                         *)
(* Every critical section of ctx->mutex is one step, because nothing else   *)
(* is read or written there; what a thread does without the mutex has steps *)
(* of its own.  libpcap is external: a capture without a count ends only by *)
(* pcap_breakloop or, when DeviceFails, with the device.                    *)
(***************************************************************************)
EXTENDS Integers, Sequences, FiniteSets, SequencesExt

CONSTANTS
    RING,           \* packets kept for packetdiag_detail (128)
    OUT_SIZE,       \* size of out_buf (65536)
    FLOW_MAX,       \* flows that are tracked (1024)
    Flows,          \* flow keys of the packets
    Counts,         \* values of count= ; 0 means no limit
    DeviceFails,    \* the capture may end with an error of the device
    MAX_STARTS,     \* bound: contexts that are ever created
    MAX_PACKETS     \* bound: packets that arrive

Ctx == 1 .. MAX_STARTS
None == 0

VARIABLES
    packetdiag,     \* net->packetdiag, a context or None
    ctx,            \* the contexts that have been allocated
    thread,         \* where the capture thread of each context is
    main,           \* what the logic thread is about to do
    probe,          \* net->mtu_probe is set
    arrived,        \* number of packets that have arrived
    seen            \* ghost: the packets each context has captured, in order

capture == <<packetdiag, ctx, thread, main, probe, arrived, seen>>

Packet == [id : 1 .. MAX_PACKETS, flow : Flows, fragment : BOOLEAN]

Unused ==
    [life |-> "none", handle |-> "none", mutex |-> "none", running |-> FALSE,
     paused |-> FALSE, count |-> 0, captured |-> 0, breaks |-> FALSE,
     ring |-> [i \in 0 .. RING - 1 |-> None], head |-> 0, total |-> 0,
     trigger |-> FALSE, flows |-> << >>, follow |-> 0,
     buf_head |-> 0, buf_tail |-> 0]

Idle == [at |-> "idle"]
Off == [at |-> "off"]
At(place, p) == [at |-> place, packet |-> p]

CaptureInit ==
    /\ packetdiag = None
    /\ ctx = [c \in Ctx |-> Unused]
    /\ thread = [c \in Ctx |-> Off]
    /\ main = Idle
    /\ probe = FALSE
    /\ arrived = 0
    /\ seen = [c \in Ctx |-> << >>]

-------------------------------------------------------------------------------
(* The output ring: of the characters only their number is kept *)

\* One character into the ring: the oldest is dropped when it is full.
Put(c) ==
    LET h == (c.buf_head + 1) % OUT_SIZE
    IN  [c EXCEPT !.buf_head = h, !.buf_tail = IF h = @ THEN (@ + 1) % OUT_SIZE ELSE @]

\* PacketDiag_WriteToBuffer: a message of two characters.
WriteToBuffer(c) == Put(Put(c))

Buffered(c) == (c.buf_head - c.buf_tail + OUT_SIZE) % OUT_SIZE

-------------------------------------------------------------------------------
(* The capture thread *)

\* pcap_loop hands a packet to the handler, which counts it; past the limit it
\* ends the loop instead.
ReceivePacket(c) ==
    /\ thread[c].at = "loop" /\ ~ctx[c].breaks
    /\ arrived < MAX_PACKETS
    /\ arrived' = arrived + 1
    /\ UNCHANGED <<packetdiag, main, probe>>
    /\ \E f \in Flows, frag \in BOOLEAN :
        LET p == [id |-> arrived + 1, flow |-> f, fragment |-> frag]
            over == ctx[c].count > 0 /\ ctx[c].captured + 1 > ctx[c].count
        IN  IF ~ctx[c].running \/ ctx[c].paused THEN UNCHANGED <<thread, ctx, seen>>
            ELSE IF over
            THEN ctx' = [ctx EXCEPT ![c].captured = @ + 1, ![c].breaks = TRUE]
                 /\ UNCHANGED <<thread, seen>>
            ELSE /\ thread' = [thread EXCEPT ![c] = At("store", p)]
                 /\ ctx' = [ctx EXCEPT ![c].captured = @ + 1]
                 /\ seen' = [seen EXCEPT ![c] = Append(@, p.id)]

\* The packet goes into the ring, under the mutex.  One that is too short or is
\* not IPv4 gets no further.
Store(c) ==
    /\ thread[c].at = "store"
    /\ LET p == thread[c].packet
       IN  /\ ctx' = [ctx EXCEPT ![c].ring[ctx[c].head] = p.id,
                                 ![c].head = (@ + 1) % RING, ![c].total = @ + 1]
           /\ \E next \in {[at |-> "loop"], At(IF p.fragment THEN "fragment" ELSE "stats", p)} :
                  thread' = [thread EXCEPT ![c] = next]
    /\ UNCHANGED <<packetdiag, main, probe, arrived, seen>>

\* A fragment asks for an MTU probe, unless one is asked for already.
Fragment(c) ==
    /\ thread[c].at = "fragment"
    /\ ctx' = [ctx EXCEPT ![c].trigger = TRUE]
    /\ thread' = [thread EXCEPT ![c].at = "stats"]
    /\ UNCHANGED <<packetdiag, main, probe, arrived, seen>>

\* The statistics and the table of flows, under the mutex; a flow's number is its
\* place in the table.  What a packet of the followed flow carries, if anything,
\* has a line of its own.
Stats(c) ==
    /\ thread[c].at = "stats"
    /\ LET f == thread[c].packet.flow
           flows == IF Contains(ctx[c].flows, f) \/ Len(ctx[c].flows) >= FLOW_MAX
                    THEN ctx[c].flows ELSE Append(ctx[c].flows, f)
           followed == ctx[c].follow \in DOMAIN flows /\ flows[ctx[c].follow] = f
       IN  /\ ctx' = [ctx EXCEPT ![c].flows = flows]
           /\ \E at \in {"write"} \cup (IF followed THEN {"stream"} ELSE {}) :
                  thread' = [thread EXCEPT ![c].at = at]
    /\ UNCHANGED <<packetdiag, main, probe, arrived, seen>>

WriteStream(c) ==
    /\ thread[c].at = "stream"
    /\ ctx' = [ctx EXCEPT ![c] = WriteToBuffer(@)]
    /\ thread' = [thread EXCEPT ![c].at = "write"]
    /\ UNCHANGED <<packetdiag, main, probe, arrived, seen>>

\* The line for the packet, under the mutex.
WriteLine(c) ==
    /\ thread[c].at = "write"
    /\ ctx' = [ctx EXCEPT ![c] = WriteToBuffer(@)]
    /\ thread' = [thread EXCEPT ![c] = [at |-> "loop"]]
    /\ UNCHANGED <<packetdiag, main, probe, arrived, seen>>

\* pcap_loop returns: broken off, with as many packets as it was asked for (it
\* is given count itself), or with an error.
LoopEnds(c) ==
    /\ thread[c].at = "loop"
    /\ \/ ctx[c].breaks
       \/ ctx[c].count > 0 /\ ctx[c].captured >= ctx[c].count
       \/ DeviceFails
    /\ thread' = [thread EXCEPT ![c] = [at |-> "ended"]]
    /\ UNCHANGED <<packetdiag, ctx, main, probe, arrived, seen>>

ClearRunning(c) ==
    /\ thread[c].at = "ended"
    /\ ctx' = [ctx EXCEPT ![c].running = FALSE]
    /\ thread' = [thread EXCEPT ![c] = [at |-> "notify"]]
    /\ UNCHANGED <<packetdiag, main, probe, arrived, seen>>

\* "Stopped", and the thread is at its end.
Notify(c) ==
    /\ thread[c].at = "notify"
    /\ ctx' = [ctx EXCEPT ![c] = WriteToBuffer(@)]
    /\ thread' = [thread EXCEPT ![c] = [at |-> "exited"]]
    /\ UNCHANGED <<packetdiag, main, probe, arrived, seen>>

Capture(c) ==
    \/ Store(c) \/ Fragment(c) \/ Stats(c) \/ WriteStream(c) \/ WriteLine(c)
    \/ LoopEnds(c) \/ ClearRunning(c) \/ Notify(c)

-------------------------------------------------------------------------------
(* The logic thread *)

\* Wrong variant: Stop does not wait for the thread.
StopUnjoined(then) ==
    LET c == packetdiag
    IN  IF ctx[c].running /\ ctx[c].handle = "open"
        THEN /\ ctx' = [ctx EXCEPT ![c].breaks = TRUE, ![c].mutex = "destroyed",
                                   ![c].running = FALSE, ![c].handle = "closed"]
             /\ main' = [at |-> then]
        ELSE /\ ctx' = [ctx EXCEPT ![c].handle = IF @ = "open" THEN "closed" ELSE @]
             /\ main' = [at |-> then]

\* KTerm_Net_PacketDiag_Stop: a running capture is broken off and waited for,
\* any other only has its handle closed.  The context stays.
Stop(then) ==
    LET c == packetdiag
    IN  IF ctx[c].running /\ ctx[c].handle = "open"
        THEN /\ ctx' = [ctx EXCEPT ![c].breaks = TRUE]
             /\ main' = [at |-> "join", then |-> then]
        ELSE /\ ctx' = [ctx EXCEPT ![c].handle = IF @ = "open" THEN "closed" ELSE @]
             /\ main' = [at |-> then]

\* pthread_join returns; the mutex goes, then the handle.
Joined ==
    /\ main.at = "join"
    /\ thread[packetdiag].at = "exited"
    /\ ctx' = [ctx EXCEPT ![packetdiag].mutex = "destroyed",
                          ![packetdiag].running = FALSE,
                          ![packetdiag].handle = "closed"]
    /\ main' = [at |-> main.then]
    /\ UNCHANGED <<packetdiag, thread, probe, arrived, seen>>

AskStop ==
    /\ main.at = "idle" /\ packetdiag # None
    /\ Stop("idle")
    /\ UNCHANGED <<packetdiag, thread, probe, arrived, seen>>

\* cancel_diag of the gateway, and DestroyContext.
AskCancel ==
    /\ main.at = "idle" /\ packetdiag # None
    /\ Stop("free")
    /\ UNCHANGED <<packetdiag, thread, probe, arrived, seen>>

\* KTerm_Net_FreePacketDiag
Free ==
    /\ main.at = "free"
    /\ ctx' = [ctx EXCEPT ![packetdiag].life = "freed", ![packetdiag].running = FALSE]
    /\ packetdiag' = None
    /\ main' = Idle
    /\ UNCHANGED <<thread, probe, arrived, seen>>

\* packetdiag and packetdiag_filter: a capture there is is stopped first.
AskStart ==
    /\ main.at = "idle"
    /\ \E c \in Ctx : ctx[c].life = "none"
    /\ IF packetdiag = None THEN main' = [at |-> "start"] /\ UNCHANGED ctx
       ELSE Stop("start")
    /\ UNCHANGED <<packetdiag, thread, probe, arrived, seen>>

\* A context of its own, without freeing the old one.  No device, a device that
\* does not open, a filter that does not compile and a thread that does not
\* start free it again.
Start ==
    /\ main.at = "start"
    /\ main' = Idle
    /\ \E c \in Ctx :
        /\ ctx[c].life = "none" /\ \A j \in Ctx : ctx[j].life = "none" => c <= j
        /\ \/ \E n \in Counts :
                 /\ packetdiag' = c
                 /\ ctx' = [ctx EXCEPT ![c] = WriteToBuffer(
                        [@ EXCEPT !.life = "live", !.handle = "open", !.mutex = "live",
                                  !.running = TRUE, !.count = n])]
                 /\ thread' = [thread EXCEPT ![c] = [at |-> "loop"]]
           \/ /\ packetdiag' = None
              /\ ctx' = [ctx EXCEPT ![c].life = "freed"]
              /\ UNCHANGED thread
    /\ UNCHANGED <<probe, arrived, seen>>

SetPaused ==
    /\ main.at = "idle" /\ packetdiag # None
    /\ \E b \in BOOLEAN : ctx' = [ctx EXCEPT ![packetdiag].paused = b]
    /\ UNCHANGED <<packetdiag, thread, main, probe, arrived, seen>>

\* KTerm_Net_PacketDiag_Follow, without the mutex: 0 follows no flow.
Follow ==
    /\ main.at = "idle" /\ packetdiag # None
    /\ \E f \in 0 .. FLOW_MAX : ctx' = [ctx EXCEPT ![packetdiag].follow = f]
    /\ UNCHANGED <<packetdiag, thread, main, probe, arrived, seen>>

\* KTerm_Net_ProcessPacketDiag, once a frame: everything in the buffer is
\* written to the session under the mutex; a probe that is asked for is started
\* unless one is under way, in which case the request is forgotten.
Frame ==
    /\ main.at = "idle" /\ packetdiag # None
    /\ LET c == ctx[packetdiag]
       IN  /\ Buffered(c) # 0 \/ c.trigger
           /\ ctx' = [ctx EXCEPT ![packetdiag].buf_tail = c.buf_head,
                                 ![packetdiag].trigger = FALSE]
           /\ probe' = (probe \/ c.trigger)
    /\ UNCHANGED <<packetdiag, thread, main, arrived, seen>>

\* The MTU probe comes to its end (see NetJobs).
ProbeEnds ==
    /\ probe
    /\ probe' = FALSE
    /\ UNCHANGED <<packetdiag, ctx, thread, main, arrived, seen>>

\* KTerm_Net_PacketDiag_GetDetail: the packet with a number, None if it is not
\* in the ring.
Detail(c, n) ==
    IF n < 0 \/ n >= c.total \/ (c.total > RING /\ n < c.total - RING) THEN None
    ELSE c.ring[(c.head - c.total + n) % RING]

\* KTerm_Net_PacketDiag_GetStatus
Status == IF packetdiag = None THEN "STOPPED" ELSE "RUNNING"

CaptureNext ==
    \/ \E c \in Ctx : ReceivePacket(c) \/ Capture(c)
    \/ Joined \/ AskStop \/ AskCancel \/ Free \/ AskStart \/ Start
    \/ SetPaused \/ Follow \/ Frame \/ ProbeEnds

CaptureSpec == CaptureInit /\ [][CaptureNext]_capture

\* The thread and a call that has begun go on.
CaptureFairSpec ==
    /\ CaptureSpec
    /\ \A c \in Ctx : WF_capture(Capture(c))
    /\ WF_capture(Joined) /\ WF_capture(Free) /\ WF_capture(Start)

-------------------------------------------------------------------------------
(* Properties *)

Running(c) == thread[c].at \notin {"off", "exited"}

\* What the capture thread uses is there as long as it runs: its context is not
\* freed, its mutex not destroyed and its handle not closed, whatever order
\* packetdiag, packetdiag_stop, packetdiag_filter and cancel_diag come in.  Holds
\* for captures without a count on a device that does not fail: only then is
\* every thread waited for.
ThreadOnLive ==
    \A c \in Ctx : Running(c) =>
        ctx[c].life = "live" /\ ctx[c].mutex = "live" /\ ctx[c].handle = "open"

\* packetdiag_detail answers with the packet of that number, counted from the
\* start of the capture, and answers for each of the last RING packets.
DetailIsNth ==
    \A c \in Ctx : ctx[c].life = "live" =>
        LET total == ctx[c].total
        IN  \A n \in 0 .. MAX_PACKETS :
                Detail(ctx[c], n) =
                    IF n < total /\ n >= total - RING THEN seen[c][n + 1] ELSE None

\* Stopping a capture comes to an end: the thread the frame loop waits for is
\* never itself waiting for the frame loop.
Joining == main.at = "join"
StopReturns == Joining ~> ~Joining

\* The two threads' hold on one capture: what the capture thread uses is there,
\* and what the frame loop reads of the ring is the packet it asks for.
CaptureSound == ThreadOnLive /\ DetailIsNth
=============================================================================
