------------------------------ MODULE NetStream ------------------------------
(***************************************************************************)
(* What travels over a connection of kt_net.h: the transmit ring, partial  *)
(* writes and reads, the framed protocol (KTERM_NET_PROTO_FRAMED) and telnet *)
(* (KTERM_NET_PROTO_TELNET).  Both ends are K-Term: a server, whose output  *)
(* goes to a client that shows it, and a client.  TCP is a queue of bytes   *)
(* in each direction.                                                       *)
(*                                                                         *)
(* Bytes are numbers.  The length in a frame's header is one byte here (it  *)
(* has four), so a header has HeaderLen = 2 bytes.                          *)
(***************************************************************************)
EXTENDS Integers, Sequences, FiniteSets, SequencesExt

CONSTANTS
    NET_BUFFER_SIZE,    \* size of the transmit ring and of the frame buffer
    ChunkSize,          \* most bytes of one send or recv (1024)
    SB_MAX,             \* bytes of a subnegotiation that are kept (1024)
    Protocols,          \* protocols the ends may agree on: "raw", "framed", "telnet"
    Payloads,           \* what the server's terminal sends in one call
    Commands,           \* telnet commands the server's application starts with
    Answers,            \* on_telnet_command of each end, see Answer
    MaxSends            \* bound on the calls of the server's application

End == {"server", "client"}
Other(e) == IF e = "server" THEN "client" ELSE "server"

IAC == 255
DONT == 254
DO == 253
WONT == 252
WILL == 251
SB == 250
SE == 240
Verb == [will |-> WILL, wont |-> WONT, do |-> DO, dont |-> DONT]
ECHO == 1
NAWS == 31
NEW_ENVIRON == 39
PKT_DATA == 1
PKT_GATEWAY == 3
PKT_ATTACH == 4
HeaderLen == 2

VARIABLES
    protocol, \* the protocol of both ends, chosen once
    ends,   \* each end's KTermNetSession, the parts that concern the stream
    wire,   \* bytes each end has sent and the other has not read
    put,    \* ghost: what the server's terminal sent, with the session it is for
    aim,    \* ghost: the session it is for
    sends   \* calls of the server's application so far

vars == <<protocol, ends, wire, put, aim, sends>>

-------------------------------------------------------------------------------
(* The transmit ring holds NET_BUFFER_SIZE - 1 bytes; one more pushes the oldest
   out. *)

Queue(end, bytes) ==
    LET all == end.tx \o bytes
        excess == Len(all) - (NET_BUFFER_SIZE - 1)
    IN  IF excess <= 0 THEN [end EXCEPT !.tx = all]
        ELSE [end EXCEPT !.tx = SubSeq(all, excess + 1, Len(all)), !.lost = TRUE]

Escaped(data) ==
    FoldLeft(LAMBDA s, b : IF b = IAC THEN s \o <<IAC, IAC>> ELSE Append(s, b),
             << >>, data)

\* KTerm_Net_Sink: the terminal's output on a connection.
Sink(end, data) ==
    CASE protocol = "framed" -> Queue(end, <<PKT_DATA, Len(data)>> \o data)
      [] protocol = "telnet" -> Queue(end, Escaped(data))
      [] protocol = "raw" -> Queue(end, data)

SendPacket(end, type, payload) ==
    IF protocol = "framed" THEN Queue(end, <<type, Len(payload)>> \o payload) ELSE end

SendTelnetCommand(end, command, option) == Queue(end, <<IAC, command, option>>)

-------------------------------------------------------------------------------
(* What is done with a byte that is read; end is the one that reads it *)

\* The client's terminal shows the byte in the session the connection feeds.
Show(end, bytes) ==
    IF end.server THEN end
    ELSE [end EXCEPT !.got = @ \o [i \in 1 .. Len(bytes) |-> <<end.target, bytes[i]>>]]

\* A gateway frame arrives as a device control string of the terminal.
ESC == 27
DcsGate(payload) == <<ESC, 80>> \o payload \o <<ESC, 92>>

ProcessFrame(end, type, payload) ==
    CASE type = PKT_DATA -> Show(end, payload)
      [] type = PKT_GATEWAY -> Show(end, DcsGate(payload))
      [] type = PKT_ATTACH /\ payload[1] \in 0 .. 3 -> [end EXCEPT !.target = payload[1]]
      [] OTHER -> end

\* Wrong variant: the frame is complete one byte early.
FrameByteEarly(end, b) ==
    LET rx == Append(end.rx, b)
        need == IF end.need = 0 /\ Len(rx) >= HeaderLen THEN rx[2] ELSE end.need
    IN  IF need > 0 /\ Len(rx) >= HeaderLen + need - 1
        THEN [ProcessFrame(end, rx[1], SubSeq(rx, HeaderLen + 1, Len(rx)))
                EXCEPT !.rx = << >>, !.need = 0]
        ELSE [end EXCEPT !.rx = rx, !.need = need]

\* A byte of the framed protocol.  A length of 0 counts as not yet known.
FrameByte(end, b) ==
    LET rx == IF Len(end.rx) < NET_BUFFER_SIZE THEN Append(end.rx, b) ELSE end.rx
        need == IF end.need = 0 /\ Len(rx) >= HeaderLen THEN rx[2] ELSE end.need
    IN  IF need > NET_BUFFER_SIZE - HeaderLen THEN [end EXCEPT !.broken = TRUE]
        ELSE IF need > 0 /\ Len(rx) >= HeaderLen + need
        THEN [ProcessFrame(end, rx[1], SubSeq(rx, HeaderLen + 1, HeaderLen + need))
                EXCEPT !.rx = SubSeq(rx, HeaderLen + need + 1, Len(rx)), !.need = 0]
        ELSE [end EXCEPT !.rx = rx, !.need = need]

\* on_telnet_command: the commands it answers are handled, with those answers.
Answer(end, command, option) ==
    FoldLeft(LAMBDA v, c : SendTelnetCommand(v, c[1], c[2]), end,
             Answers[end.name][<<command, option>>])
Handles(end, command, option) == <<command, option>> \in DOMAIN Answers[end.name]

\* By default an offer or a request is refused, a refusal is accepted.
Default(end, command, option) ==
    CASE command = WILL -> SendTelnetCommand(end, DONT, option)
      [] command = DO -> SendTelnetCommand(end, WONT, option)
      [] OTHER -> end

Command(end, command, option) ==
    IF Handles(end, command, option) THEN Answer(end, command, option)
    ELSE Default(end, command, option)

SubByte(end, b) == IF Len(end.sb) < SB_MAX THEN [end EXCEPT !.sb = Append(@, b)] ELSE end

\* The end of a subnegotiation: NEW-ENVIRON SEND (1) is answered by default.
SubEnd(end) ==
    LET noted == IF Len(end.sb) > 1 THEN [end EXCEPT !.subs = Append(@, end.sb)] ELSE end
    IN  IF Len(end.sb) > 1 /\ end.sb[1] = NEW_ENVIRON /\ end.sb[2] = 1
        THEN Queue(noted, <<IAC, SB, NEW_ENVIRON, 0, 0, 1, IAC, SE>>)
        ELSE noted

To(end, state) == [end EXCEPT !.telnet = state]

\* A byte of the telnet protocol.
TelnetByte(end, b) ==
    CASE end.telnet = "normal" ->
            IF b = IAC THEN To(end, "iac") ELSE Show(end, <<b>>)
      [] end.telnet = "iac" ->
            CASE b = IAC -> To(Show(end, <<b>>), "normal")
              [] \E v \in DOMAIN Verb : Verb[v] = b ->
                    To(end, CHOOSE v \in DOMAIN Verb : Verb[v] = b)
              [] b = SB -> [To(end, "sb") EXCEPT !.sb = << >>]
              [] OTHER -> To(end, "normal")
      [] end.telnet \in DOMAIN Verb ->
            To(Command(end, Verb[end.telnet], b), "normal")
      [] end.telnet = "sb" ->
            IF b = IAC THEN To(end, "sb_iac") ELSE SubByte(end, b)
      [] end.telnet = "sb_iac" ->
            CASE b = SE -> To(SubEnd(end), "normal")
              [] b = IAC -> To(SubByte(end, b), "sb")
              [] OTHER -> To(end, "sb")

ByteRead(end, b) ==
    CASE protocol = "framed" -> FrameByte(end, b)
      [] protocol = "telnet" -> TelnetByte(end, b)
      [] protocol = "raw" -> Show(end, <<b>>)

-------------------------------------------------------------------------------
NewEnd(name) ==
    [name |-> name, server |-> name = "server", tx |-> << >>, lost |-> FALSE,
     rx |-> << >>, need |-> 0, broken |-> FALSE, telnet |-> "normal",
     sb |-> << >>, subs |-> << >>, target |-> 0, got |-> << >>]

Init ==
    /\ protocol \in Protocols
    /\ ends = [e \in End |-> NewEnd(e)]
    /\ wire = [e \in End |-> << >>]
    /\ put = << >> /\ aim = 0 /\ sends = 0

\* The server's application and terminal.
Sends == ~ends["server"].lost /\ sends < MaxSends /\ sends' = sends + 1

SendData(data) ==
    /\ Sends
    /\ ends' = [ends EXCEPT !["server"] = Sink(@, data)]
    /\ put' = put \o [i \in 1 .. Len(data) |-> <<aim, data[i]>>]
    /\ UNCHANGED <<protocol, wire, aim>>

SendGateway(data) ==
    /\ protocol = "framed" /\ Sends
    /\ ends' = [ends EXCEPT !["server"] = SendPacket(@, PKT_GATEWAY, data)]
    /\ put' = put \o [i \in 1 .. Len(DcsGate(data)) |-> <<aim, DcsGate(data)[i]>>]
    /\ UNCHANGED <<protocol, wire, aim>>

SendAttach(session) ==
    /\ protocol = "framed" /\ Sends
    /\ ends' = [ends EXCEPT !["server"] = SendPacket(@, PKT_ATTACH, <<session>>)]
    /\ aim' = session
    /\ UNCHANGED <<protocol, wire, put>>

SendCommand(command) ==
    /\ protocol = "telnet" /\ Sends
    /\ ends' = [ends EXCEPT !["server"] = SendTelnetCommand(@, command[1], command[2])]
    /\ UNCHANGED <<protocol, wire, put, aim>>

\* One send of at most ChunkSize bytes, of which TCP takes some; the tail of the
\* ring goes back by the rest.
Write(e) ==
    LET chunk == SubSeq(ends[e].tx, 1, IF Len(ends[e].tx) < ChunkSize
                                       THEN Len(ends[e].tx) ELSE ChunkSize)
    IN  /\ ~ends[e].broken
        /\ \E sent \in 1 .. Len(chunk) :
             /\ wire' = [wire EXCEPT ![e] = @ \o SubSeq(chunk, 1, sent)]
             /\ ends' = [ends EXCEPT ![e].tx = SubSeq(@, sent + 1, Len(@))]
        /\ UNCHANGED <<protocol, put, aim, sends>>

\* One recv, of any length up to ChunkSize, parsed byte by byte.
Read(e) ==
    LET sent == wire[Other(e)]
    IN  /\ ~ends[e].broken
        /\ \E n \in 1 .. (IF Len(sent) < ChunkSize THEN Len(sent) ELSE ChunkSize) :
             /\ ends' = [ends EXCEPT ![e] = FoldLeft(ByteRead, @, SubSeq(sent, 1, n))]
             /\ wire' = [wire EXCEPT ![Other(e)] = SubSeq(sent, n + 1, Len(sent))]
        /\ UNCHANGED <<protocol, put, aim, sends>>

Next ==
    \/ \E data \in Payloads : SendData(data) \/ SendGateway(data)
    \/ \E session \in 0 .. 1 : SendAttach(session)
    \/ \E command \in Commands : SendCommand(command)
    \/ \E e \in End : Write(e) \/ Read(e)

Spec == Init /\ [][Next]_vars

\* Both ends call KTerm_Net_Process for ever and TCP delivers.
Fairness == \A e \in End : WF_vars(Write(e)) /\ WF_vars(Read(e))
FairSpec == Spec /\ Fairness

-------------------------------------------------------------------------------
(* Properties *)

Quiet == \A e \in End : ends[e].tx = << >> /\ wire[e] = << >>

\* Whatever a read or a write splits, the client shows what the server's
\* terminal sent, byte for byte, in order, each in the session it was meant for;
\* and nothing is left behind once the connection is quiet.  (A ring that has
\* overflowed has lost something.)
Transparent ==
    ~ends["server"].lost =>
        /\ IsPrefix(ends["client"].got, put)
        /\ Quiet => ends["client"].got = put

\* The ends do not answer each other's answers for ever.  (An end that has met a
\* frame too large to be one reads no more.)
Pending == ~Quiet /\ \A e \in End : ~ends[e].broken
NegotiationEnds == Pending ~> ~Pending

===============================================================================
