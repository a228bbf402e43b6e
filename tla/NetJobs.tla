------------------------------- MODULE NetJobs -------------------------------
(***************************************************************************)
(* The diagnostic jobs of a network context (kt_net.h): extended ping, MTU *)
(* probe, fragmentation test, response time, traceroute, port scan, whois, *)
(* HTTP probe and speed test.  A job is a context behind a pointer of the   *)
(* KTermNetSession; KTerm_Net_ProcessSession gives each a step per frame.   *)
(* A step looks at the network once (the argument "in") and is an operator  *)
(* from one world to the next.  The code is that of the Linux build; a frame *)
(* is a step of one job here, the jobs of one frame in any order.           *)
(***************************************************************************)
EXTENDS Integers, Sequences, FiniteSets, SequencesExt

CONSTANTS
    Block,          \* contexts that can be allocated, 1 .. n
    Descriptor,     \* file descriptors
    SELECT_SIZE,    \* FD_SETSIZE: descriptors from here on do not fit an fd_set
    Streams,        \* num_streams of a speed test
    Count,          \* probes of a ping or response time
    Hops,           \* max_hops
    Ports,          \* the port list, invalid ports included
    MinSize, MaxSize, \* what an MTU probe is asked to search
    Mtu,            \* what the path carries
    Setups          \* what the application may call: pairs <<job, user data>>, and
                    \* how often it calls at most

\* Blocks and descriptors are numbers, of which 0 stands for none here.
ASSUME Numbers ==
    /\ Block \subseteq Nat \ {0} /\ Descriptor \subseteq Nat \ {0}
    /\ Streams \in Nat \ {0}

\* What the library leaves to the application: no data of its own for a response
\* time job, which frees it (3604); none at all, not even a tag, which is a part of
\* the context, for the jobs that free it at their end or when they cannot start
\* (2655, 2785, 3525); and nothing besides a speed test, whose state the latency
\* job frees too (3956).
ASSUME CarefulCalls ==
    \A c \in Setups :
        /\ c.most \in Nat
        /\ \A call \in c.may :
              /\ call[1] = "response" => call[2] # "app"
              /\ call[1] \in {"trace", "loop", "scan", "whois"} => call[2] = "null"
              /\ call[1] = "speed" => c.most <= 1

Null == 0
Jobs == {"ping", "mtu", "frag", "response", "trace", "loop", "scan", "whois",
         "http", "speed"}
Slots == Jobs \ {"loop"}
Slot(kind) == IF kind = "loop" THEN "trace" ELSE kind

VARIABLES
    mem,    \* the contexts, the freed ones included (ghost: told, cut, seen)
    slots,  \* the pointers of the KTermNetSession
    open,   \* descriptors that are open
    errno,  \* "again", or what some other call has left there
    fault,  \* ghost: memory has been freed twice or used after it was freed
    calls,  \* the calls the application may make, and how many it has made
    path    \* ICMP messages on their way: <<size, "reply" or "error", job>>

jobs == <<mem, slots, open, errno, fault, calls, path>>

\* The network context and what its jobs own, and that it becomes w.
Now == [mem |-> mem, slots |-> slots, open |-> open, errno |-> errno,
        fault |-> fault, path |-> path]
Turn(w) ==
    /\ mem' = w.mem /\ slots' = w.slots /\ open' = w.open
    /\ errno' = w.errno /\ fault' = w.fault /\ path' = w.path

NoJob ==
    [kind |-> "none", life |-> "never", state |-> "none", late |-> FALSE,
     fd |-> Null, data |-> "null", test |-> Null, own |-> FALSE, n |-> 0, got |-> 0,
     lo |-> 0, hi |-> 0, good |-> 0, size |-> 0, raw |-> FALSE, lost |-> FALSE,
     streams |-> [s \in 1 .. Streams |-> [fd |-> Null, up |-> FALSE, bytes |-> FALSE]],
     initiated |-> FALSE, asked |-> FALSE, latency |-> FALSE,
     told |-> 0, cut |-> FALSE, seen |-> << >>]

Live(w, b) == b # Null /\ w.mem[b].life = "live"

-------------------------------------------------------------------------------
(* Descriptors and memory *)

HasDescriptor(w) == w.open # Descriptor
NewDescriptor(w) == CHOOSE d \in Descriptor \ w.open : \A e \in Descriptor \ w.open : d <= e
Opened(w) == [w EXCEPT !.open = @ \cup {NewDescriptor(w)}]
Closed(w, fds) == [w EXCEPT !.open = @ \ fds]
HeldBy(c) == ({c.fd} \cup {c.streams[s].fd : s \in 1 .. Streams}) \ {Null}
High(c) == c.fd >= SELECT_SIZE

Goto(w, b, state) == [w EXCEPT !.mem[b].state = state, !.mem[b].late = FALSE]

OpenSocket(w, b) == [Opened(w) EXCEPT !.mem[b].fd = NewDescriptor(w)]
CloseProbe(w, b) == [Closed(w, {w.mem[b].fd}) EXCEPT !.mem[b].fd = Null]
CloseStreams(w, b) ==
    [Closed(w, {w.mem[b].streams[s].fd : s \in 1 .. Streams})
        EXCEPT !.mem[b].streams = NoJob.streams]

\* free(p): p is a context, the tag inside one, memory of the application, or the
\* speed test that a response time job reports to.
FreeBlock(w, b) ==
    IF Live(w, b)
    THEN [w EXCEPT !.mem[b] = [NoJob EXCEPT !.kind = w.mem[b].kind, !.life = "freed",
                                   !.told = w.mem[b].told, !.seen = w.mem[b].seen]]
    ELSE [w EXCEPT !.fault = TRUE]
FreeData(w, c) ==
    CASE c.data = "null" -> w
      [] c.data \in {"tag", "app"} -> [w EXCEPT !.fault = TRUE]
      [] c.data = "test" -> FreeBlock(w, c.test)

\* KTerm_Net_FreePingExt and its like; the test reads the context, freed or not.
FreeJob(w, slot) ==
    LET b == w.slots[slot]
        closed == Closed(w, HeldBy(w.mem[b]))
        data == IF w.mem[b].own THEN FreeData(closed, w.mem[b]) ELSE closed
    IN  IF b = Null THEN w
        ELSE [FreeBlock(data, b) EXCEPT !.mem[b].cut = TRUE, !.slots[slot] = Null]

\* DestroyContext frees the jobs in this order.
DestroyOrder == <<"trace", "response", "scan", "whois", "speed", "http", "mtu",
                  "frag", "ping">>
FreeJobs(w) == FoldLeft(FreeJob, w, DestroyOrder)

-------------------------------------------------------------------------------
(* Results for the application *)

\* The callback of a speed test's latency probe writes into the speed test.
LatencyCB(w, b) ==
    IF Live(w, b) THEN [w EXCEPT !.mem[b].latency = TRUE] ELSE [w EXCEPT !.fault = TRUE]

\* The last report of a job.
Report(w, b) ==
    LET told == [w EXCEPT !.mem[b].told = @ + 1]
    IN  IF w.mem[b].data = "test" THEN LatencyCB(told, w.mem[b].test) ELSE told
Finish(w, b) == Report(Goto(w, b, "done"), b)
\* A report on the way.
Seen(w, b, what) == [w EXCEPT !.mem[b].seen = Append(@, what)]

\* The end of a job that frees itself.
Retire(w, b) ==
    FreeBlock([FreeData(CloseProbe(w, b), w.mem[b])
                EXCEPT !.slots[w.mem[b].kind] = Null], b)

-------------------------------------------------------------------------------
(* Starting a job *)

HasBlock(w) == \E b \in Block : w.mem[b].life = "never"
NewBlock(w) == CHOOSE b \in Block :
    w.mem[b].life = "never" /\ \A a \in Block : w.mem[a].life = "never" => b <= a

\* What each start writes into the new context.  Data that is a tag is the tag of
\* the context itself.
PingExt(data) == [NoJob EXCEPT !.kind = "ping", !.data = data, !.state = "socket"]
MTUProbe(data) == [NoJob EXCEPT
    !.kind = "mtu", !.data = data, !.state = "socket", !.lo = MinSize, !.hi = MaxSize]
FragTest(data) == [NoJob EXCEPT !.kind = "frag", !.data = data, !.state = "socket"]
\* It owns its data whatever free_user_data says, and forgets its tag.
ResponseTime(data) == [NoJob EXCEPT
    !.kind = "response", !.data = IF data = "tag" THEN "null" ELSE data, !.own = TRUE,
    !.state = "send"]
TracerouteContinuous(data, continuous) == [NoJob EXCEPT
    !.kind = "trace", !.data = data, !.state = "send", !.n = 1, !.asked = continuous]
PortScan(data) == [NoJob EXCEPT !.kind = "scan", !.data = data, !.state = "next"]
Whois(data) == [NoJob EXCEPT !.kind = "whois", !.data = data, !.state = "connect"]
HttpProbe(data) == [NoJob EXCEPT !.kind = "http", !.data = data, !.state = "connect"]
Speedtest(data, auto) == [NoJob EXCEPT
    !.kind = "speed", !.data = data, !.state = IF auto THEN "auto_connect" ELSE "latency"]

Setup(kind, data, auto) ==
    CASE kind = "ping" -> PingExt(data)
      [] kind = "mtu" -> MTUProbe(data)
      [] kind = "frag" -> FragTest(data)
      [] kind = "response" -> ResponseTime(data)
      [] kind \in {"trace", "loop"} -> TracerouteContinuous(data, kind = "loop")
      [] kind = "scan" -> PortScan(data)
      [] kind = "whois" -> Whois(data)
      [] kind = "http" -> HttpProbe(data)
      [] kind = "speed" -> Speedtest(data, auto)

\* Jobs whose start opens a socket.
OpensAtOnce == {"response", "trace", "loop", "whois", "http"}

\* The job before it is freed, then the new one is set up.  A start that fails
\* frees it; KTerm_Net_Traceroute reports that and frees the user data too.
StartFor(w0, kind, data, test, result) ==
    LET w == FreeJob(w0, Slot(kind))
        b == NewBlock(w)
        made == [w EXCEPT
            !.mem[b] = [Setup(kind, data, result = "auto") EXCEPT !.life = "live", !.test = test],
            !.slots[Slot(kind)] = b]
        failed == [FreeBlock([made EXCEPT !.slots[Slot(kind)] = Null], b) EXCEPT !.mem[b].cut = TRUE]
    IN  CASE result = "auto" -> made
          [] result = "failed" ->
                IF Slot(kind) = "trace" THEN FreeData(Report(failed, b), made.mem[b]) ELSE failed
          [] result = "ok" /\ kind \in OpensAtOnce ->
                [OpenSocket(made, b) EXCEPT
                    !.errno = IF kind \in {"whois", "http"} THEN "other" ELSE @]
          [] result = "ok" /\ kind \notin OpensAtOnce -> made
StartJob(w, kind, data, result) == StartFor(w, kind, data, Null, result)

-------------------------------------------------------------------------------
(* The steps *)

\* ICMP: a message of the given size is sent, and perhaps answered; a router
\* answers one that is too large with an error.
Sent(w, b, size, answered) ==
    [w EXCEPT !.path = IF answered
                       THEN @ \cup {<<size, IF size <= Mtu THEN "reply" ELSE "error", b>>}
                       ELSE @,
              !.mem[b].lost = @ \/ ~answered]

\* ProcessPingExt: one probe at a time, the next one when it is due.
PingSend(w, b) ==
    LET c == w.mem[b]
    IN  CASE c.n >= Count -> Finish(w, b)
          [] c.n < Count /\ c.n > 0 /\ ~c.late -> w
          [] OTHER -> [Goto(w, b, "wait") EXCEPT !.mem[b].n = @ + 1]
PingWait(w, b, in) ==
    CASE in = "reply" -> [Goto(w, b, "send") EXCEPT !.mem[b].got = @ + 1]
      [] in = "nothing" /\ w.mem[b].late -> Goto(w, b, "send")
      [] OTHER -> w
PingStep(w, b, in) ==
    LET state == w.mem[b].state
    IN  CASE state = "socket" ->
                IF in = "failed" \/ ~HasDescriptor(w) THEN Finish(w, b)
                ELSE Goto(OpenSocket(w, b), b, "send")
          [] state = "send" -> PingSend(w, b)
          [] state = "wait" -> PingWait(w, b, in)
          [] OTHER -> w

\* ProcessResponseTime
ResponseStep(w, b, in) ==
    LET c == w.mem[b]
    IN  CASE c.state = "send" /\ c.n < Count /\ c.n > 0 /\ ~c.late -> w
          [] c.state = "send" /\ c.n < Count /\ (c.n = 0 \/ c.late) /\ in = "failed" ->
                Finish(w, b)
          [] OTHER -> PingStep(w, b, in)

\* Wrong variant: the next size to try is reported, not the last that was answered.
MtuSendOffByOne(w, b, in) ==
    LET c == w.mem[b]
        size == (c.lo + c.hi) \div 2
        cut == [w EXCEPT !.mem[b].size = size]
    IN  CASE c.lo > c.hi -> Finish([w EXCEPT !.mem[b].size = c.lo], b)
          [] c.lo <= c.hi /\ in = "too_large" /\ size > Mtu -> [cut EXCEPT !.mem[b].hi = size - 1]
          [] OTHER -> Goto(Sent(cut, b, size, in = "answered"), b, "wait")

\* ProcessMtuProbe: a search by halves for the largest size that is answered.
\* Whatever is received counts as the answer: on a raw socket errors too, and
\* what is meant for others.
MtuSend(w, b, in) ==
    LET c == w.mem[b]
        size == (c.lo + c.hi) \div 2
        cut == [w EXCEPT !.mem[b].size = size]
    IN  CASE c.lo > c.hi -> Finish([w EXCEPT !.mem[b].size = c.good], b)
          [] c.lo <= c.hi /\ in = "too_large" /\ size > Mtu -> [cut EXCEPT !.mem[b].hi = size - 1]
          [] OTHER -> Goto(Sent(cut, b, size, in = "answered"), b, "wait")
MtuStep(w, b, in) ==
    LET c == w.mem[b]
        received == {m \in w.path : c.raw \/ (m[2] = "reply" /\ m[3] = b)}
    IN  CASE c.state = "socket" ->
                IF in = "failed" \/ ~HasDescriptor(w) THEN Finish(w, b)
                ELSE [Goto(OpenSocket(w, b), b, "send") EXCEPT !.mem[b].raw = (in = "raw")]
          [] c.state = "send" -> MtuSend(w, b, in)
          [] c.state = "wait" /\ in = "reply" /\ received # {} ->
                LET m == CHOOSE m \in received : TRUE
                IN  [Goto(w, b, "send") EXCEPT !.path = @ \ {m},
                        !.mem[b].good = c.size, !.mem[b].lo = c.size + 1]
          [] c.state = "wait" /\ in = "nothing" /\ c.late ->
                [Goto(w, b, "send") EXCEPT !.mem[b].hi = c.size - 1,
                                           !.mem[b].lost = @ \/ received # {}]
          [] OTHER -> w

\* ProcessFragTest
FragStep(w, b, in) ==
    LET c == w.mem[b]
    IN  CASE c.state = "socket" ->
                IF in = "failed" \/ ~HasDescriptor(w) THEN Finish(w, b)
                ELSE Goto(OpenSocket(w, b), b, "send")
          [] c.state = "send" ->
                IF in = "too_large" THEN Finish(w, b) ELSE Goto(w, b, "wait")
          [] c.state = "wait" /\ (in = "reply" \/ (in = "nothing" /\ c.late)) -> Finish(w, b)
          [] OTHER -> w

\* ProcessTraceroute: reaching the last hop without an answer ends it silently.
NextRound(w, b) ==
    IF w.mem[b].asked THEN [Goto(w, b, "loop") EXCEPT !.mem[b].n = 1, !.mem[b].told = 0,
                                                         !.mem[b].seen = << >>]
    ELSE Goto(w, b, "done")
NextHop(w, b) == [Goto(Seen(w, b, w.mem[b].n), b, "send") EXCEPT !.mem[b].n = @ + 1]
TraceStep(w, b, in) ==
    LET c == w.mem[b]
    IN  CASE c.state = "send" ->
                IF c.n > Hops THEN NextRound(w, b) ELSE Goto(w, b, "wait")
          [] c.state = "wait" /\ in = "reached" ->
                NextRound(Report(Seen(w, b, c.n), b), b)
          [] c.state = "wait" /\ (in = "reply" \/ (in = "nothing" /\ c.late)) -> NextHop(w, b)
          [] c.state = "loop" /\ c.late -> Goto(w, b, "send")
          [] OTHER -> w

\* ProcessPortScan: ports that are no port numbers are skipped.
Valid(port) == port \in 1 .. 65535
NextPort(n) == SelectInSubSeq(Ports, n + 1, Len(Ports), Valid)
ScanStep(w, b, in) ==
    LET c == w.mem[b]
        next == NextPort(c.n)
        turn == [CloseProbe(w, b) EXCEPT !.mem[b].n = next]
        answer == Goto(CloseProbe(Seen(w, b, Ports[c.n]), b), b, "next")
    IN  CASE c.state = "next" /\ next = 0 -> Retire(w, b)
          [] c.state = "next" /\ next # 0 /\ (in = "failed" \/ ~HasDescriptor(turn)) ->
                Seen(turn, b, Ports[next])
          [] c.state = "next" /\ next # 0 /\ in # "failed" /\ HasDescriptor(turn) ->
                Goto(OpenSocket(turn, b), b, "connect")
          [] c.state = "connect" /\ High(c) -> FreeJob(Report(w, b), "scan")
          [] c.state = "connect" /\ ~High(c)
                /\ (in \in {"connected", "refused"} \/ (in = "nothing" /\ c.late)) -> answer
          [] OTHER -> w

\* ProcessWhois: only connecting is timed.
WhoisStep(w, b, in) ==
    LET c == w.mem[b]
        over == Retire(Finish(w, b), b)
    IN  CASE c.state = "connect" /\ High(c) -> Goto(w, b, "done")
          [] c.state = "connect" /\ ~High(c) /\ in = "connected" -> Goto(w, b, "send")
          [] c.state = "connect" /\ ~High(c)
                /\ (in \in {"refused", "failed"} \/ (in = "nothing" /\ c.late)) -> over
          [] c.state = "send" /\ in = "sent" -> Goto(w, b, "read")
          [] c.state \in {"send", "read"} /\ in = "failed" -> over
          [] c.state = "read" /\ in = "closed" -> over
          [] OTHER -> w

\* ProcessHttpProbe: after data has been read, too, errno decides whether the
\* read is taken for an error.
HttpOver(w, b) == CloseProbe(Finish(w, b), b)
HttpLate(w, b) == IF w.mem[b].late THEN HttpOver(w, b) ELSE w
HttpConnect(w, b, in) ==
    CASE High(w.mem[b]) -> Goto(w, b, "done")
      [] ~High(w.mem[b]) /\ in = "connected" -> Goto(w, b, "send")
      [] ~High(w.mem[b]) /\ in = "refused" -> HttpOver(w, b)
      [] ~High(w.mem[b]) /\ in = "nothing" -> HttpLate(w, b)
      [] OTHER -> w
HttpHead(w, b, in) ==
    CASE High(w.mem[b]) -> Goto(w, b, "done")
      [] ~High(w.mem[b]) /\ in = "data" -> Goto(w, b, "body")
      [] ~High(w.mem[b]) /\ in = "nothing" -> HttpLate(w, b)
      [] OTHER -> w
HttpBody(w, b, in) ==
    CASE in \in {"closed", "complete", "failed"} -> HttpOver(w, b)
      [] in = "nothing" -> [HttpLate(w, b) EXCEPT !.errno = "again"]
      [] in = "data" /\ w.errno = "other" -> HttpOver(w, b)
      [] in = "data" /\ w.errno # "other" -> HttpLate(w, b)
      [] OTHER -> w
HttpStep(w, b, in) ==
    LET state == w.mem[b].state
    IN  CASE state = "connect" -> HttpConnect(w, b, in)
          [] state = "send" -> IF in = "sent" THEN Goto(w, b, "head") ELSE HttpOver(w, b)
          [] state = "head" -> HttpHead(w, b, in)
          [] state = "body" -> HttpBody(w, b, in)
          [] OTHER -> w

-------------------------------------------------------------------------------
(* ProcessSpeedtest *)

\* State 0: find a server.  A failure ends the test silently.
AutoConnect(w, b, in) ==
    LET c == w.mem[b]
        ready == IF c.fd = Null THEN OpenSocket(w, b) ELSE w
        d == ready.mem[b]
    IN  CASE c.fd = Null /\ in = "default" -> Goto(w, b, "latency")
          [] c.fd = Null /\ in # "default" /\ (in = "failed" \/ ~HasDescriptor(w)) ->
                Goto(w, b, "done")
          [] OTHER ->
                IF High(d) \/ c.late THEN Goto(ready, b, "done")
                ELSE IF in = "connected" THEN Goto(ready, b, "auto_send") ELSE ready
AutoStep(w, b, in) ==
    LET c == w.mem[b]
    IN  CASE c.state = "auto_connect" -> AutoConnect(w, b, in)
          [] c.state = "auto_send" -> Goto(w, b, "auto_read")
          [] c.state = "auto_read" -> IF in = "closed" \/ c.late THEN Goto(w, b, "auto_parse") ELSE w
          [] c.state = "auto_parse" ->
                Goto(CloseProbe(w, b), b, IF in = "failed" THEN "done" ELSE "latency")

\* State 1: a response time job of its own measures the latency.
LatencyStep(w, b, in) ==
    LET asked == [w EXCEPT !.mem[b].asked = TRUE]
        started ==
            IF w.mem[b].asked THEN w
            ELSE IF in = "failed" \/ ~HasBlock(w) \/ ~HasDescriptor(w)
                 THEN [FreeJob(asked, "response") EXCEPT !.mem[b].latency = TRUE]
                 ELSE StartFor(asked, "response", "test", b, "ok")
    IN  IF started.mem[b].latency THEN Goto(started, b, "dl_connect") ELSE started

OpenStream(w, b, s, in) ==
    IF in[s] = "failed" \/ ~HasDescriptor(w) THEN w
    ELSE [Opened(w) EXCEPT !.mem[b].streams[s].fd = NewDescriptor(w)]

OpenAll(w, b, in) ==
    FoldLeft(LAMBDA v, s : OpenStream(v, b, s, in), w, [s \in 1 .. Streams |-> s])

\* Wrong variant: streams are opened while others are still connecting.
OpenStreamsAgain(w, b, in) ==
    LET c == w.mem[b]
    IN  IF (\E s \in 1 .. Streams : c.streams[s].up) \/ c.streams[1].fd # Null
        THEN w
        ELSE [OpenAll(w, b, in) EXCEPT !.mem[b].initiated = TRUE]

\* One socket for each stream, once in a phase.
OpenStreams(w, b, in) ==
    LET c == w.mem[b]
    IN  IF c.initiated \/ (\E s \in 1 .. Streams : c.streams[s].up) \/ c.streams[1].fd # Null
        THEN w
        ELSE [OpenAll(w, b, in) EXCEPT !.mem[b].initiated = TRUE]

\* What select says of a stream that is connecting.
ConnectStream(w, b, s, in) ==
    LET stream == w.mem[b].streams[s]
    IN  CASE stream.fd = Null \/ stream.up -> w
          [] stream.fd >= SELECT_SIZE \/ (stream.fd # Null /\ ~stream.up /\ in[s] = "refused") ->
                [Closed(w, {stream.fd}) EXCEPT !.mem[b].streams[s].fd = Null]
          [] stream.fd \in 1 .. SELECT_SIZE - 1 /\ ~stream.up /\ in[s] = "connected" ->
                [w EXCEPT !.mem[b].streams[s].up = TRUE]
          [] OTHER -> w

ConnectAll(w, b, in) ==
    FoldLeft(LAMBDA v, s : ConnectStream(v, b, s, in), w, [s \in 1 .. Streams |-> s])

\* States 2 and 4: connect until all streams are up, for five seconds at most.
SpeedConnect(w, b, in, phase) ==
    LET connected == ConnectAll(OpenStreams(w, b, in), b, in)
        up == {s \in 1 .. Streams : connected.mem[b].streams[s].up}
    IN  CASE ~w.mem[b].late /\ up # 1 .. Streams -> connected
          [] w.mem[b].late /\ up = {} -> Finish(connected, b)
          [] OTHER -> Goto(connected, b, phase)

ReadStream(w, b, s, in) ==
    LET stream == w.mem[b].streams[s]
    IN  CASE stream.up /\ in[s] = "data" -> [w EXCEPT !.mem[b].streams[s].bytes = TRUE]
          [] stream.up /\ in[s] = "closed" ->
                [Closed(w, {stream.fd})
                    EXCEPT !.mem[b].streams[s] = [@ EXCEPT !.fd = Null, !.up = FALSE]]
          [] OTHER -> w

ReadAll(w, b, in) ==
    FoldLeft(LAMBDA v, s : ReadStream(v, b, s, in), w, [s \in 1 .. Streams |-> s])

\* States 3 and 5: transfer for as long as the test lasts or a stream is up.
Over(c) ==
    \/ c.late
    \/ /\ \A s \in 1 .. Streams : ~c.streams[s].up
       /\ \E s \in 1 .. Streams : c.streams[s].bytes
DownStep(w, b, in) ==
    LET read == ReadAll(w, b, in)
    IN  IF Over(read.mem[b])
        THEN [Goto(CloseStreams(read, b), b, "ul_connect") EXCEPT !.mem[b].initiated = FALSE]
        ELSE read
UpStep(w, b, in) ==
    LET written == [w EXCEPT !.mem[b].streams = [s \in 1 .. Streams |->
            IF @[s].up /\ in[s] = "data" THEN [@[s] EXCEPT !.bytes = TRUE] ELSE @[s]]]
    IN  IF Over(written.mem[b]) THEN CloseStreams(Finish(written, b), b) ELSE written

SpeedStep(w, b, in) ==
    LET c == w.mem[b]
    IN  CASE c.state \in {"auto_connect", "auto_send", "auto_read", "auto_parse"} ->
                AutoStep(w, b, in[1])
          [] c.state = "latency" -> LatencyStep(w, b, in[1])
          [] c.state = "dl_connect" -> SpeedConnect(w, b, in, "dl")
          [] c.state = "dl" -> DownStep(w, b, in)
          [] c.state = "ul_connect" -> SpeedConnect(w, b, in, "ul")
          [] c.state = "ul" -> UpStep(w, b, in)

-------------------------------------------------------------------------------
JobsInit ==
    /\ mem = [b \in Block |-> NoJob]
    /\ slots = [s \in Slots |-> Null]
    /\ open = {} /\ errno = "again" /\ fault = FALSE /\ path = {}
    /\ \E c \in Setups : calls = [may |-> c.may, most |-> c.most, made |-> 0]

\* The application starts a job or disconnects.
CallJob(kind, data, result) ==
    /\ calls.made < calls.most /\ <<kind, data>> \in calls.may
    /\ calls' = [calls EXCEPT !.made = @ + 1]
    /\ result = "auto" => kind = "speed"
    /\ IF kind = "disconnect" THEN result = "ok" /\ Turn(FreeJobs(Now))
       ELSE /\ HasBlock(Now)
            /\ result = "ok" => HasDescriptor(Now)
            /\ Turn(StartJob(Now, kind, data, result))

\* What a step may find, by the job and its state.
Findings(w, c) ==
    CASE c.kind = "speed" ->
            [1 .. Streams -> CASE c.state \in {"dl_connect", "ul_connect"} ->
                                    {"failed", "connected", "refused", "nothing"}
                               [] c.state \in {"dl", "ul"} -> {"data", "closed", "nothing"}
                               [] OTHER -> {"default", "connected", "closed", "failed", "nothing"}]
      [] c.kind = "mtu" ->
            CASE c.state = "socket" -> {"ok", "raw", "failed"}
              [] c.state = "send" -> {"answered", "unanswered", "too_large"}
              [] OTHER -> {"reply", "nothing"}
      [] c.kind \in {"ping", "response", "frag", "trace"} ->
            CASE c.state = "wait" -> {"nothing", "other", "reply", "reached"}
              [] OTHER -> {"ok", "failed", "too_large"}
      [] c.kind \in {"scan", "whois", "http"} ->
            {"ok", "failed", "connected", "refused", "nothing", "sent", "data",
             "complete", "closed"}

StepOf(w, b, in) ==
    CASE w.mem[b].kind = "ping" -> PingStep(w, b, in)
      [] w.mem[b].kind = "response" -> ResponseStep(w, b, in)
      [] w.mem[b].kind = "mtu" -> MtuStep(w, b, in)
      [] w.mem[b].kind = "frag" -> FragStep(w, b, in)
      [] w.mem[b].kind = "trace" -> TraceStep(w, b, in)
      [] w.mem[b].kind = "scan" -> ScanStep(w, b, in)
      [] w.mem[b].kind = "whois" -> WhoisStep(w, b, in)
      [] w.mem[b].kind = "http" -> HttpStep(w, b, in)
      [] w.mem[b].kind = "speed" -> SpeedStep(w, b, in)

\* A step of a job; a job that is done does nothing, and a pointer to a freed
\* context is used all the same.
StepIn(slot, Among(_)) ==
    LET b == slots[slot]
    IN  /\ b # Null /\ mem[b].state # "done"
        /\ IF Live(Now, b)
           THEN \E in \in Among(mem[b]) : Turn(StepOf(Now, b, in))
           ELSE Turn([Now EXCEPT !.fault = TRUE])
        /\ UNCHANGED calls
ProcessJob(slot) == StepIn(slot, LAMBDA c : Findings(Now, c))

\* A step to which the network has said nothing.
Silent(c) ==
    LET all == Findings(Now, c)
    IN  CASE c.kind = "speed" -> {[s \in 1 .. Streams |-> "nothing"]}
          [] c.kind # "speed" /\ "nothing" \in all -> {"nothing"}
          [] OTHER -> all
Quiet(slot) == StepIn(slot, Silent)

\* The time that a job's state waits for has passed.
Timer(slot) ==
    /\ slots[slot] # Null /\ mem[slots[slot]].state # "done" /\ ~mem[slots[slot]].late
    /\ mem' = [mem EXCEPT ![slots[slot]].late = TRUE]
    /\ UNCHANGED <<slots, open, errno, fault, calls, path>>

\* Some other call of the thread fails.
OtherCode ==
    /\ \E e \in {"again", "other"} : errno # e /\ errno' = e
    /\ UNCHANGED <<mem, slots, open, fault, calls, path>>

JobsNext ==
    \/ \E kind \in Jobs \cup {"disconnect"}, data \in {"null", "tag", "app"},
          result \in {"ok", "failed", "auto"} : CallJob(kind, data, result)
    \/ \E slot \in Slots : ProcessJob(slot)
    \/ \E slot \in Slots : Timer(slot)
    \/ OtherCode

JobsSpec == JobsInit /\ [][JobsNext]_jobs

\* Frames follow each other and time passes; the network need not answer.  (Each
\* frame is a step of every job: that some job gets a step is enough.)
JobsFairness ==
    /\ WF_jobs(\E slot \in Slots : Quiet(slot))
    /\ WF_jobs(\E slot \in Slots : Timer(slot))
JobsFairSpec == JobsSpec /\ JobsFairness

-------------------------------------------------------------------------------
(* Properties *)

\* Every descriptor that is open is held by one live context, and no context is
\* freed twice or used after it was freed.
Owned ==
    /\ ~fault
    /\ open = UNION {HeldBy(mem[b]) : b \in {b \in Block : mem[b].life = "live"}}
    /\ \A a, b \in Block : Live(Now, a) /\ Live(Now, b) /\ a # b =>
          HeldBy(mem[a]) \cap HeldBy(mem[b]) = {}

\* A job that has come to its end by itself has told so exactly once, and no job
\* tells it twice.  (Three jobs do not always tell: a traceroute that runs out
\* of hops, a port scan, a speed test that finds no server; nor does one whose
\* descriptor is too high.)
Ended(c) == (c.state = "done" \/ c.life = "freed") /\ ~c.cut
Tells == {"ping", "mtu", "frag", "response", "whois", "http"}
ToldOnce ==
    \A b \in Block :
        /\ mem[b].told <= 1
        /\ Ended(mem[b]) /\ mem[b].kind \in Tells /\ ~High(mem[b]) => mem[b].told = 1

\* A scan reports every valid port once and in order; a trace every hop.
InOrder ==
    \A b \in Block :
        LET expected == IF mem[b].kind = "scan" THEN SelectSeq(Ports, Valid)
                        ELSE [h \in 1 .. Hops |-> h]
        IN  mem[b].kind \in {"scan", "trace"} =>
              /\ IsPrefix(mem[b].seen, expected)
              /\ mem[b].kind = "scan" /\ Ended(mem[b]) => mem[b].seen = expected

\* The size an MTU probe reports gets through, however late or lost the answers
\* are; and if none was, it is the largest.  (On a raw socket an error counts as
\* an answer.)
LargestThatFits == IF Mtu < MaxSize THEN Mtu ELSE MaxSize
MtuFits ==
    \A b \in Block : mem[b].kind = "mtu" /\ mem[b].state = "done" /\ mem[b].lo > mem[b].hi
                        /\ ~mem[b].raw =>
        /\ mem[b].size <= Mtu
        /\ ~mem[b].lost /\ MinSize <= Mtu => mem[b].size = LargestThatFits

\* Every job comes to an end, except a continuous traceroute and a whois that
\* has connected: its server may keep it waiting for ever.
JobsPending ==
    \E b \in Block :
        /\ mem[b].life = "live" /\ mem[b].state # "done" /\ mem[b].kind # "whois"
        /\ ~(mem[b].kind = "trace" /\ mem[b].asked)
JobsEnd == JobsPending ~> ~JobsPending

\* Whatever a job does in its steps, it answers once, in order, and with what is
\* so: the path's largest packet for an MTU probe.
JobsAnswer == ToldOnce /\ InOrder /\ MtuFits
===============================================================================
