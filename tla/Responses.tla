------------------------------- MODULE Responses -------------------------------
(***************************************************************************)
(* What sessions answer to their hosts (kterm_impl.h): the response ring    *)
(* that KTerm_WriteInternal fills and KTerm_Update empties into the sink,   *)
(* and the flow control of DECXRLM, which pauses a host with XOFF while the *)
(* input queue of its session is full.                                      *)
(***************************************************************************)
EXTENDS Integers, Sequences, SequencesExt, FiniteSets

CONSTANTS
    Hosts,          \* one for each session, in the order KTerm_Update has them: 1 .. n
    Foreground,     \* active_session; it stays the same
    Limited,        \* the sessions with KTERM_MODE_DECXRLM
    Asks,           \* what each host sends: "text", "dsr" (answered to the session),
                    \* "enq" (answered to the session in the foreground)
    OUTPUT_SIZE,    \* KTERM_OUTPUT_PIPELINE_SIZE
    INPUT_SIZE,     \* KTERM_INPUT_PIPELINE_SIZE
    CHARS,          \* VTperformance.chars_per_frame
    BURST,          \* VTperformance.burst_threshold
    MaxQueued       \* what each host has under way at most

VARIABLES
    ring,       \* response_ring of each session: data, head, tail, overflow
    queue,      \* its input queue, as InputQueue shows it to be
    xoff,       \* its xoff_sent
    sink,       \* output_sink # NULL
    callback,   \* response_callback # NULL
    paused,     \* its host has been sent XOFF last
    owed,       \* ghost: the answers the host has still to get
    missed      \* ghost: the hosts whose answers nobody was there to take
answers == <<ring, queue, xoff, sink, callback, paused, owed, missed>>

Answer == <<"ESC [", "0 n">>

World ==
    [ring |-> ring, queue |-> queue, xoff |-> xoff, paused |-> paused, owed |-> owed, missed |-> missed]
Become(w) ==
    /\ ring' = w.ring
    /\ queue' = w.queue
    /\ xoff' = w.xoff
    /\ paused' = w.paused
    /\ owed' = w.owed
    /\ missed' = w.missed

-------------------------------------------------------------------------------
(* The ring *)

Contents(r) ==
    LET n == IF r.head <= r.tail THEN r.tail - r.head ELSE OUTPUT_SIZE - r.head + r.tail
    IN  [k \in 1 .. n |-> r.data[(r.head + k - 1) % OUTPUT_SIZE]]

FreeSpace(r) ==
    IF r.head <= r.tail THEN OUTPUT_SIZE - 1 - (r.tail - r.head) ELSE r.head - r.tail - 1

\* The two copies of KTerm_WriteInternal
Stored(r, bytes) ==
    LET chunk1 == IF Len(bytes) > OUTPUT_SIZE - r.tail THEN OUTPUT_SIZE - r.tail ELSE Len(bytes)
    IN  [k \in 0 .. OUTPUT_SIZE - 1 |->
            CASE k \in r.tail .. r.tail + chunk1 - 1 -> bytes[k - r.tail + 1]
              [] k < Len(bytes) - chunk1 -> bytes[chunk1 + k + 1]
              [] OTHER -> r.data[k]]

\* KTerm_WriteInternal: what does not fit is cut off.
Stuffed(r, bytes) ==
    LET len == IF Len(bytes) > FreeSpace(r) THEN FreeSpace(r) ELSE Len(bytes)
    IN  [data |-> Stored(r, SubSeq(bytes, 1, len)), head |-> r.head, tail |-> (r.tail + len) % OUTPUT_SIZE,
         overflow |-> r.overflow \/ len < Len(bytes)]
\* It writes to session "to" an answer that s owes its host.
Write(w, s, to, bytes) ==
    [w EXCEPT !.ring[to] = Stuffed(@, bytes), !.owed[s] = @ \o bytes]

\* The host reads what it is sent.
Pauses(before, bytes) ==
    \/ \E k \in DOMAIN bytes : bytes[k] = "XOFF" /\ \A j \in k + 1 .. Len(bytes) : bytes[j] # "XON"
    \/ before /\ \A k \in DOMAIN bytes : bytes[k] # "XON"
Deliver(w, s, bytes) ==
    [w EXCEPT !.paused[s] = Pauses(@, bytes),
              !.owed[s] = IF IsPrefix(bytes, @) THEN SubSeq(@, Len(bytes) + 1, Len(@)) ELSE <<"wrong">>]

\* To the sink or the callback, in two pieces when the ring wraps; or to nobody.
Flush(w, s, taken) ==
    LET r == w.ring[s]
        cells(from, to) == [k \in 1 .. to - from |-> r.data[from + k - 1]]
        first == cells(r.head, IF r.tail > r.head THEN r.tail ELSE OUTPUT_SIZE)
        second == IF r.tail > r.head THEN << >> ELSE cells(0, r.tail)
        told == IF taken THEN Deliver(Deliver(w, s, first), s, second)
                ELSE [w EXCEPT !.missed = @ \cup {s}]
    IN  IF r.head = r.tail THEN w ELSE [told EXCEPT !.ring[s].head = r.tail]

-------------------------------------------------------------------------------
(* KTerm_ProcessEventsInternal *)

Usage(n) == (n * 100) \div INPUT_SIZE
FlowControl(w, s) ==
    LET percent == Usage(Len(w.queue[s]))
    IN  IF s \notin Limited THEN w
        ELSE IF percent > 75 /\ ~w.xoff[s]
             THEN [Write(w, s, Foreground, <<"XOFF">>) EXCEPT !.xoff[s] = TRUE]
        ELSE IF percent < 25 /\ w.xoff[s]
             THEN [Write(w, s, Foreground, <<"XON">>) EXCEPT !.xoff[s] = FALSE]
        ELSE w

\* Wrong variant: every answer goes to the session in the foreground.
ProcessInForeground(w, s, c) == IF c = "text" THEN w ELSE Write(w, s, Foreground, Answer)

Process(w, s, c) ==
    CASE c = "text" -> w
      [] c = "dsr" -> Write(w, s, s, Answer)
      [] c = "enq" -> Write(w, s, Foreground, Answer)

\* What a frame takes of n bytes: a quota or, without time or with too many
\* operations waiting, nothing.
Quota(n) ==
    LET target == IF n > BURST THEN 2 * CHARS ELSE CHARS
    IN  IF n < target THEN n ELSE target
ProcessMany(w, s, n) ==
    FoldLeft(LAMBDA x, c : Process(x, s, c),
             [w EXCEPT !.queue[s] = SubSeq(@, n + 1, Len(@))], SubSeq(w.queue[s], 1, n))
ProcessEvents(w, s, busy) ==
    LET pending == Len(w.queue[s])
        flow == FlowControl(w, s)
    IN  IF pending = 0 THEN w ELSE IF busy THEN flow ELSE ProcessMany(flow, s, Quota(pending))

-------------------------------------------------------------------------------
AnswerInit ==
    /\ ring = [s \in Hosts |-> [data |-> [k \in 0 .. OUTPUT_SIZE - 1 |-> "none"],
                                head |-> 0, tail |-> 0, overflow |-> FALSE]]
    /\ queue = [s \in Hosts |-> << >>]
    /\ xoff = [s \in Hosts |-> FALSE]
    /\ sink = FALSE /\ callback = FALSE
    /\ paused = [s \in Hosts |-> FALSE]
    /\ owed = [s \in Hosts |-> << >>]
    /\ missed = {}

\* KTerm_PushInput for what the host sends; it heeds XOFF.
HostSends(s) ==
    /\ ~paused[s] /\ Len(queue[s]) < MaxQueued[s]
    /\ \E c \in Asks[s] : queue' = [queue EXCEPT ![s] = Append(@, c)]
    /\ UNCHANGED <<ring, xoff, sink, callback, paused, owed, missed>>

\* KTerm_Update: every session in turn answers and is flushed.
InOrder == [s \in 1 .. Cardinality(Hosts) |-> s]
UpdateSession(w, s, busy, taken) ==
    LET done == ProcessEvents(w, s, s \in busy)
    IN  IF taken THEN Flush(done, s, TRUE) ELSE done
UpdateSessions(w, busy, taken) == FoldLeft(LAMBDA x, s : UpdateSession(x, s, busy, taken), w, InOrder)
Update ==
    /\ \E busy \in SUBSET Hosts : Become(UpdateSessions(World, busy, sink \/ callback))
    /\ UNCHANGED <<sink, callback>>

\* KTerm_SetOutputSink empties the ring of the session in the foreground: into the
\* new sink, or what there was before.
SetOutputSink(new) ==
    /\ Become(Flush(World, Foreground, new \/ sink \/ callback))
    /\ sink' = new /\ UNCHANGED callback

SetResponseCallback(new) ==
    /\ callback' = new
    /\ UNCHANGED <<ring, queue, xoff, sink, paused, owed, missed>>

\* Nothing was cut off or thrown away of what s answered.
Whole(s) == ~ring[s].overflow /\ s \notin missed

\* Bound: nothing is looked at behind a loss.
AnswerNext ==
    /\ \A s \in Hosts : Whole(s)
    /\ \/ \E s \in Hosts : HostSends(s)
       \/ Update
       \/ \E new \in BOOLEAN : SetOutputSink(new) \/ SetResponseCallback(new)

AnswerSpec == AnswerInit /\ [][AnswerNext]_answers

-------------------------------------------------------------------------------
\* Unless its ring has overflowed, or was emptied when there was nobody to take the
\* answers, a session's host gets every answer it is owed, in order and whole,
\* however the ring wraps and whenever a sink is set; and a host that has been paused
\* is let go on: what would make the terminal send XON is in its queue, or XON is
\* under way.
HostServed ==
    \A s \in Hosts :
        Whole(s) =>
            /\ Contents(ring[s]) = owed[s]
            /\ paused[s] => "XON" \in ToSet(owed[s]) \/ (xoff[s] /\ queue[s] # << >>)
===============================================================================
