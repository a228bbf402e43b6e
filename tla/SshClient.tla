------------------------------ MODULE SshClient ------------------------------
(***************************************************************************)
(* The transport of the SSH client (ssh_client.c, built without libssh):    *)
(* the handshake that KTerm_Net_Process polls, packets assembled from the   *)
(* stream, the output buffer with its partial writes, and reconnection in   *)
(* durable mode.  The server and the network are external; the server is    *)
(* the one of tests/mock_ssh_server.py, with what else a server may do      *)
(* switched on by Server.                                                   *)
(*                                                                         *)
(* A packet is two cells of the stream, so that it can be cut.  What is in  *)
(* flight arrives in pieces of any length, in order.                        *)
(***************************************************************************)
EXTENDS Integers, Sequences, FiniteSets, SequencesExt

CONSTANTS
    OUT_SIZE,       \* cells of out_buf (64 KB)
    IN_SIZE,        \* cells of in_buf and hs_rx_buf (4 KB)
    VersionMax,     \* cells the read of the version line takes (255 bytes)
    Server,         \* what the server does besides answering, see Habit
    Durable,        \* --durable
    MaxData,        \* bound on the packets of data the server sends
    MaxTyped,       \* bound on the packets of data the user sends
    MaxConnections  \* bound on the connections of a run

\* A server may send its KEXINIT behind its version line, refuse the password or
\* the exec channel or the command, close the connection, or have it reset.
Habit == {"eager", "refuses", "closes", "resets"}

VARIABLES
    ssh,            \* MySSHContext
    link,           \* the connection as kt_net.h sees it
    toServer, toClient,     \* cells in flight
    server,         \* the server's side of the connection
    sent, shown,    \* data the server has sent, data handed to the session
    typed           \* number of packets of data the user has sent

vars == <<ssh, link, toServer, toClient, server, sent, shown, typed>>

Msg(type, arg) == [type |-> type, arg |-> arg]
Cell(m, part) == [type |-> m.type, arg |-> m.arg, part |-> part]
Packet(m) == <<Cell(m, 1), Cell(m, 2)>>
Version == <<Cell(Msg("version", 0), 0)>>

Exec == 1
Shell == 0

FreshServer ==
    [open |-> TRUE, reset |-> FALSE, part |-> << >>, log |-> << >>,
     kex |-> FALSE, broken |-> FALSE]

Init ==
    /\ ssh = [state |-> "INIT", hs |-> << >>, in |-> << >>, out |-> << >>,
              alert |-> FALSE, fingerprint |-> FALSE]
    /\ link = [state |-> "HANDSHAKE", number |-> 1]
    /\ toServer = << >> /\ toClient = << >>
    /\ server = FreshServer
    /\ sent = << >> /\ shown = << >>
    /\ typed = 0

-------------------------------------------------------------------------------
(* Output *)

\* Wrong variant: a packet is written past what waits.
SendPacketDirect(out, m, k) ==
    [ok |-> TRUE, out |-> out \o SubSeq(Packet(m), (IF k < 2 THEN k ELSE 2) + 1, 2),
     wire |-> SubSeq(Packet(m), 1, IF k < 2 THEN k ELSE 2)]

\* send_packet: the kernel takes k cells.  What waits goes first; what does not
\* fit behind it after a second of trying is refused whole.
SendPacket(out, m, k) ==
    LET flushed == SubSeq(out, 1, IF k < Len(out) THEN k ELSE Len(out))
        left == SubSeq(out, Len(flushed) + 1, Len(out))
        rest == k - Len(flushed)
        direct == IF rest > 2 THEN 2 ELSE rest
    IN  IF left # << >>
        THEN IF Len(left) + 2 > OUT_SIZE
             THEN [ok |-> FALSE, out |-> left, wire |-> flushed]
             ELSE [ok |-> TRUE, out |-> left \o Packet(m), wire |-> flushed]
        ELSE [ok |-> TRUE, out |-> SubSeq(Packet(m), direct + 1, 2),
              wire |-> flushed \o SubSeq(Packet(m), 1, direct)]

\* flush_ssh_queue, at the end of every frame.
FlushQueue ==
    /\ ssh.out # << >> /\ link.state # "ERROR"
    /\ \E k \in 1 .. Len(ssh.out) :
          /\ toServer' = toServer \o SubSeq(ssh.out, 1, k)
          /\ ssh' = [ssh EXCEPT !.out = SubSeq(@, k + 1, Len(@))]
    /\ UNCHANGED <<link, toClient, server, sent, shown, typed>>

\* The kernel takes all of what is sent, or any part of it.
Taken == 0 .. Len(ssh.out) + 2

-------------------------------------------------------------------------------
(* Input *)

Space(buffer) == IN_SIZE - Len(buffer)
\* What recv may find: none of what is in flight, some, or all.
Arriving(buffer) ==
    0 .. (IF Len(toClient) < Space(buffer) THEN Len(toClient) ELSE Space(buffer))

\* A complete packet is at the front of the buffer.  The second half of a packet
\* taken for the start of one announces a length that never comes.
Complete(buffer) == Len(buffer) >= 2 /\ buffer[1].part = 1
FirstMsg(buffer) == Msg(buffer[1].type, buffer[1].arg)
Behind(buffer) == SubSeq(buffer, 3, Len(buffer))

Nothing == Msg("none", 0)

WaitStates == {"WAIT_KEX_INIT", "WAIT_NEW_KEYS", "WAIT_SERVICE_ACCEPT",
               "WAIT_AUTH_SUCCESS", "WAIT_EXEC_OPEN", "WAIT_EXEC_RESULT",
               "WAIT_CHANNEL_OPEN"}

\* read_next_handshake_packet, after its recv
NextPacket(buffer) ==
    IF Complete(buffer) THEN [msg |-> FirstMsg(buffer), rest |-> Behind(buffer)]
    ELSE [msg |-> Nothing, rest |-> buffer]

-------------------------------------------------------------------------------
(* The handshake, one call of my_ssh_handshake per frame *)

InState(s) == link.state = "HANDSHAKE" /\ ssh.state = s
Elsewhere == UNCHANGED <<server, sent, shown, typed>>

\* The version line goes out with send, ahead of what out_buf may hold.
SendVersion ==
    /\ InState("INIT")
    /\ toServer' = toServer \o Version
    /\ ssh' = [ssh EXCEPT !.state = "VERSION_EXCHANGE"]
    /\ UNCHANGED <<link, toClient>> /\ Elsewhere

\* recv == 0 before the version line: the only place where the handshake notices
\* that the server has closed.
VersionClosed ==
    /\ InState("VERSION_EXCHANGE")
    /\ toClient = << >> /\ ~server.open /\ ~server.reset
    /\ link' = [link EXCEPT !.state = "ERROR"]
    /\ UNCHANGED <<ssh, toServer, toClient>> /\ Elsewhere

\* The version line, with whatever has come behind it.
ReadVersion ==
    /\ InState("VERSION_EXCHANGE")
    /\ \E k \in 1 .. VersionMax :
          /\ k <= Len(toClient)
          /\ toClient' = SubSeq(toClient, k + 1, Len(toClient))
    /\ ssh' = [ssh EXCEPT !.state = "KEX_INIT"]
    /\ UNCHANGED <<link, toServer>> /\ Elsewhere

\* A state that sends one packet and goes on to the next.
SendStep(from, m, to) ==
    /\ InState(from)
    /\ \E k \in Taken :
          LET r == SendPacket(ssh.out, m, k)
          IN  /\ toServer' = toServer \o r.wire
              /\ ssh' = [ssh EXCEPT !.out = r.out, !.state = to]
    /\ UNCHANGED <<link, toClient>> /\ Elsewhere

SendKexInit == SendStep("KEX_INIT", Msg("KEXINIT", 0), "WAIT_KEX_INIT")
SendNewKeys == SendStep("NEW_KEYS", Msg("NEWKEYS", 0), "WAIT_NEW_KEYS")
SendService == SendStep("SERVICE_REQUEST", Msg("SERVICE_REQUEST", 0), "WAIT_SERVICE_ACCEPT")
SendPassword == SendStep("USERAUTH_PASSWORD", Msg("USERAUTH_REQUEST", 0), "WAIT_AUTH_SUCCESS")
OpenExec == SendStep("CHANNEL_OPEN_EXEC", Msg("CHANNEL_OPEN", Exec), "WAIT_EXEC_OPEN")
SendExec == SendStep("SEND_EXEC_CMD", Msg("exec", Exec), "WAIT_EXEC_RESULT")
OpenShell == SendStep("CHANNEL_OPEN", Msg("CHANNEL_OPEN", Shell), "WAIT_CHANNEL_OPEN")

\* A state that reads the next packet.  After(type) is the state it leads to;
\* a packet that means nothing in this state is thrown away.
WaitStep(from, After(_)) ==
    /\ InState(from)
    /\ \E k \in Arriving(ssh.hs) :
          LET r == NextPacket(ssh.hs \o SubSeq(toClient, 1, k))
              to == IF r.msg = Nothing THEN from ELSE After(r.msg.type)
          IN  /\ toClient' = SubSeq(toClient, k + 1, Len(toClient))
              /\ IF to = "failed"
                 THEN /\ ssh' = [ssh EXCEPT !.hs = r.rest]
                      /\ link' = [link EXCEPT !.state = "ERROR"]
                 ELSE /\ ssh' = [ssh EXCEPT !.hs = r.rest, !.state = to]
                      /\ UNCHANGED link
    /\ UNCHANGED toServer /\ Elsewhere

WaitKexInit == WaitStep("WAIT_KEX_INIT",
    LAMBDA t : IF t = "KEXINIT" THEN "CHECK_HOSTKEY" ELSE "WAIT_KEX_INIT")
WaitNewKeys == WaitStep("WAIT_NEW_KEYS",
    LAMBDA t : IF t = "NEWKEYS" THEN "SERVICE_REQUEST" ELSE "WAIT_NEW_KEYS")
WaitService == WaitStep("WAIT_SERVICE_ACCEPT",
    LAMBDA t : IF t = "SERVICE_ACCEPT" THEN "USERAUTH_PUBKEY_PROBE" ELSE "WAIT_SERVICE_ACCEPT")
WaitAuth == WaitStep("WAIT_AUTH_SUCCESS",
    LAMBDA t : CASE t = "USERAUTH_SUCCESS" -> "CHANNEL_OPEN_EXEC"
                 [] t = "USERAUTH_FAILURE" -> "failed"
                 [] OTHER -> "WAIT_AUTH_SUCCESS")
WaitExecOpen == WaitStep("WAIT_EXEC_OPEN",
    LAMBDA t : CASE t = "OPEN_CONFIRMATION" -> "SEND_EXEC_CMD"
                 [] t = "OPEN_FAILURE" -> "CHANNEL_OPEN"
                 [] OTHER -> "WAIT_EXEC_OPEN")
WaitShellOpen == WaitStep("WAIT_CHANNEL_OPEN",
    LAMBDA t : IF t = "OPEN_CONFIRMATION" THEN "PTY_REQ" ELSE "WAIT_CHANNEL_OPEN")

\* The end of the command is answered with a close of its channel.
WaitExecResult ==
    /\ InState("WAIT_EXEC_RESULT")
    /\ \E k \in Arriving(ssh.hs), j \in Taken :
          LET r == NextPacket(ssh.hs \o SubSeq(toClient, 1, k))
              done == r.msg.type \in {"CHANNEL_CLOSE", "CHANNEL_EOF"}
              s == SendPacket(ssh.out, Msg("CHANNEL_CLOSE", Exec), j)
          IN  /\ toClient' = SubSeq(toClient, k + 1, Len(toClient))
              /\ toServer' = IF done THEN toServer \o s.wire ELSE toServer
              /\ ssh' = [ssh EXCEPT !.hs = r.rest,
                     !.out = IF done THEN s.out ELSE @,
                     !.state = IF done \/ r.msg.type = "CHANNEL_FAILURE"
                               THEN "CHANNEL_OPEN" ELSE @]
    /\ UNCHANGED link /\ Elsewhere

\* The first look raises the alert; the one after it has been answered goes on.
CheckHostKey ==
    /\ InState("CHECK_HOSTKEY") /\ ~ssh.alert
    /\ ssh' = IF ~ssh.fingerprint
              THEN [ssh EXCEPT !.alert = TRUE, !.fingerprint = TRUE]
              ELSE [ssh EXCEPT !.state = "NEW_KEYS"]
    /\ UNCHANGED <<link, toServer, toClient>> /\ Elsewhere

\* The main loop answers for the user, in the next frame.
AcceptHostKey ==
    /\ ssh.alert
    /\ ssh' = [ssh EXCEPT !.alert = FALSE]
    /\ UNCHANGED <<link, toServer, toClient>> /\ Elsewhere

SkipPubkey ==
    /\ InState("USERAUTH_PUBKEY_PROBE")
    /\ ssh' = [ssh EXCEPT !.state = "USERAUTH_PASSWORD"]
    /\ UNCHANGED <<link, toServer, toClient>> /\ Elsewhere

\* The terminal and its TERM, two packets in one call.
RequestPty ==
    /\ InState("PTY_REQ")
    /\ \E j, k \in Taken :
          LET r == SendPacket(ssh.out, Msg("pty-req", Shell), j)
              s == SendPacket(r.out, Msg("env", Shell), k)
          IN  /\ toServer' = toServer \o r.wire \o s.wire
              /\ ssh' = [ssh EXCEPT !.out = s.out, !.state = "SHELL"]
    /\ UNCHANGED <<link, toClient>> /\ Elsewhere

\* The shell ends the handshake; its reply and that of the terminal are not
\* waited for.
RequestShell ==
    /\ InState("SHELL")
    /\ \E k \in Taken :
          LET r == SendPacket(ssh.out, Msg("shell", Shell), k)
          IN  /\ toServer' = toServer \o r.wire
              /\ ssh' = [ssh EXCEPT !.out = r.out, !.state = "READY"]
    /\ link' = [link EXCEPT !.state = "CONNECTED"]
    /\ UNCHANGED toClient /\ Elsewhere

Handshake ==
    \/ SendVersion \/ ReadVersion \/ VersionClosed
    \/ SendKexInit \/ WaitKexInit \/ CheckHostKey \/ SendNewKeys \/ WaitNewKeys
    \/ SendService \/ WaitService \/ SkipPubkey \/ SendPassword \/ WaitAuth
    \/ OpenExec \/ WaitExecOpen \/ SendExec \/ WaitExecResult
    \/ OpenShell \/ WaitShellOpen \/ RequestPty \/ RequestShell

-------------------------------------------------------------------------------
(* The connection after the handshake *)

\* Of the packets at the front those that are not data are skipped.
Skipped(buffer) ==
    LET other(i) == 2 * i + 2 <= Len(buffer) /\ buffer[2 * i + 1].part = 1
                        /\ buffer[2 * i + 1].type # "DATA"
    IN  CHOOSE n \in 0 .. Len(buffer) \div 2 :
            ~other(n) /\ \A i \in 0 .. n - 1 : other(i)

\* my_ssh_read hands over one packet of data and keeps what is behind it.
Unpack(buffer) ==
    LET b == SubSeq(buffer, 2 * Skipped(buffer) + 1, Len(buffer))
    IN  IF Complete(b) THEN [data |-> <<FirstMsg(b).arg>>, rest |-> Behind(b)]
        ELSE [data |-> << >>, rest |-> b]

\* my_ssh_read, once per frame.  Without new bytes recv fails with EAGAIN, and
\* packets that are complete in in_buf are not looked at.  At the end of the
\* stream, or with in_buf full, recv returns 0: the packets are looked at, and
\* the end is not reported.
Read ==
    /\ link.state = "CONNECTED" /\ ~server.reset
    /\ \E k \in Arriving(ssh.in) :
          LET r == Unpack(ssh.in \o SubSeq(toClient, 1, k))
              zero == Space(ssh.in) = 0 \/ (toClient = << >> /\ ~server.open)
          IN  /\ k >= 1 \/ zero
              /\ toClient' = SubSeq(toClient, k + 1, Len(toClient))
              /\ ssh' = [ssh EXCEPT !.in = r.rest]
              /\ shown' = shown \o r.data
    /\ UNCHANGED <<link, toServer, server, sent, typed>>

\* recv fails because the connection was reset: "Read Error".
ReadFails ==
    /\ link.state = "CONNECTED" /\ server.reset
    /\ link' = [link EXCEPT !.state = "ERROR"]
    /\ UNCHANGED <<ssh, toServer, toClient, server, sent, shown, typed>>

\* my_ssh_write, the window-change of the main loop and the action of a trigger.
\* A packet that is refused is not reported to anyone.
Write ==
    /\ link.state = "CONNECTED" /\ typed < MaxTyped
    /\ typed' = typed + 1
    /\ \E type \in {"DATA", "window-change"}, k \in Taken :
          LET r == SendPacket(ssh.out, Msg(type, Shell), k)
          IN  /\ toServer' = toServer \o r.wire
              /\ ssh' = [ssh EXCEPT !.out = r.out]
    /\ UNCHANGED <<link, toClient, server, sent, shown>>

\* The main loop in durable mode: the handshake starts again on a new connection;
\* the buffers keep what they hold.
Reconnect ==
    /\ Durable /\ link.state = "ERROR" /\ link.number < MaxConnections
    /\ link' = [state |-> "HANDSHAKE", number |-> link.number + 1]
    /\ ssh' = [ssh EXCEPT !.state = "INIT"]
    /\ server' = FreshServer
    /\ toServer' = << >> /\ toClient' = << >>
    /\ sent' = << >> /\ shown' = << >>
    /\ UNCHANGED typed

-------------------------------------------------------------------------------
(* The server *)

Send(ms) == toClient' = toClient \o FlattenSeq([i \in DOMAIN ms |-> Packet(ms[i])])

Reply(type) == <<Msg(type, 0)>>

\* The answers a server may give.
Answers(m) ==
    CASE m.type = "KEXINIT" -> {IF server.kex THEN << >> ELSE Reply("KEXINIT")}
      [] m.type = "NEWKEYS" -> {Reply("NEWKEYS")}
      [] m.type = "SERVICE_REQUEST" -> {Reply("SERVICE_ACCEPT")}
      [] m.type = "USERAUTH_REQUEST" ->
            {Reply("USERAUTH_SUCCESS")}
            \cup IF "refuses" \in Server THEN {Reply("USERAUTH_FAILURE")} ELSE {}
      [] m.type = "CHANNEL_OPEN" ->
            {Reply("OPEN_CONFIRMATION")}
            \cup IF "refuses" \in Server /\ m.arg = Exec THEN {Reply("OPEN_FAILURE")} ELSE {}
      [] m.type = "exec" ->
            {Reply("CHANNEL_SUCCESS") \o Reply("exit-status") \o Reply("CHANNEL_CLOSE")}
            \cup IF "refuses" \in Server THEN {Reply("CHANNEL_FAILURE")} ELSE {}
      [] m.type \in {"pty-req", "shell"} -> {Reply("CHANNEL_SUCCESS")}
      [] m.type = "DATA" ->
            {IF Len(sent) < MaxData THEN <<Msg("DATA", Len(sent) + 1)>> ELSE << >>}
      [] OTHER -> {<< >>}

DataIn(ms) == LET d == SelectSeq(ms, LAMBDA m : m.type = "DATA")
              IN  [i \in DOMAIN d |-> d[i].arg]

\* What is no packet ends the connection.
GivesUp == [server EXCEPT !.broken = TRUE, !.open = FALSE]

\* One cell reaches the server: the version line first, then packets.
ServerReceives ==
    /\ server.open /\ toServer # << >>
    /\ toServer' = Tail(toServer)
    /\ LET c == Head(toServer)
           m == Msg(c.type, c.arg)
       IN  CASE c.part = 0 ->
                  IF server.part = << >> /\ server.log = << >>
                  THEN /\ server' = [server EXCEPT !.kex = "eager" \in Server,
                                                   !.log = <<m>>]
                       /\ toClient' = toClient \o Version
                            \o IF "eager" \in Server THEN Packet(Msg("KEXINIT", 0)) ELSE << >>
                       /\ UNCHANGED sent
                  ELSE server' = GivesUp /\ UNCHANGED <<toClient, sent>>
             [] c.part = 1 ->
                  /\ server' = IF server.part = << >> /\ server.log # << >>
                               THEN [server EXCEPT !.part = <<m>>] ELSE GivesUp
                  /\ UNCHANGED <<toClient, sent>>
             [] OTHER ->
                  IF server.part = <<m>>
                  THEN \E a \in Answers(m) :
                          /\ server' = [server EXCEPT !.part = << >>, !.log = Append(@, m)]
                          /\ Send(a)
                          /\ sent' = sent \o DataIn(a)
                  ELSE server' = GivesUp /\ UNCHANGED <<toClient, sent>>
    /\ UNCHANGED <<ssh, link, shown, typed>>

\* Output of the shell.
ServerSends ==
    /\ server.open /\ Contains(server.log, Msg("shell", Shell))
    /\ Len(sent) < MaxData
    /\ Send(<<Msg("DATA", Len(sent) + 1)>>)
    /\ sent' = Append(sent, Len(sent) + 1)
    /\ UNCHANGED <<ssh, link, toServer, server, shown, typed>>

ServerEnds ==
    /\ server.open
    /\ \/ /\ "closes" \in Server
          /\ server' = [server EXCEPT !.open = FALSE]
          /\ UNCHANGED toClient
       \/ /\ "resets" \in Server
          /\ server' = [server EXCEPT !.open = FALSE, !.reset = TRUE]
          /\ toClient' = << >>
    /\ UNCHANGED <<ssh, link, toServer, sent, shown, typed>>

Next ==
    \/ Handshake \/ AcceptHostKey \/ FlushQueue
    \/ Read \/ ReadFails \/ Write \/ Reconnect
    \/ ServerReceives \/ ServerSends \/ ServerEnds

Spec == Init /\ [][Next]_vars

\* The main loop runs frame after frame, and the server answers what it receives.
Fairness ==
    /\ WF_vars(Handshake) /\ WF_vars(AcceptHostKey) /\ WF_vars(FlushQueue)
    /\ WF_vars(Read) /\ WF_vars(ReadFails) /\ WF_vars(Reconnect)
    /\ WF_vars(ServerReceives)

FairSpec == Spec /\ Fairness

-------------------------------------------------------------------------------
(* Properties *)

Login == <<Msg("version", 0), Msg("KEXINIT", 0), Msg("NEWKEYS", 0),
           Msg("SERVICE_REQUEST", 0), Msg("USERAUTH_REQUEST", 0), Msg("CHANNEL_OPEN", Exec)>>
Terminfo == {<<Msg("exec", Exec), Msg("CHANNEL_CLOSE", Exec)>>, <<Msg("exec", Exec)>>, << >>}
ShellRequests == <<Msg("CHANNEL_OPEN", Shell), Msg("pty-req", Shell), Msg("env", Shell),
                   Msg("shell", Shell)>>

\* Whatever pieces the kernel takes, the server sees whole packets, and the
\* requests of the protocol in their order, each once; data and window changes
\* come only behind them.  Only the first connection: a reconnection sends what the
\* old one has left in out_buf, and reads on behind what it has left in hs_rx_buf.
RequestsInOrder == link.number = 1 =>
    /\ ~server.broken
    /\ \E t \in Terminfo :
          LET requests == Login \o t \o ShellRequests
          IN  \/ IsPrefix(server.log, requests)
              \/ /\ IsPrefix(requests, server.log)
                 /\ \A i \in Len(requests) + 1 .. Len(server.log) :
                        server.log[i].type \in {"DATA", "window-change"}

\* What the server has sent is what the session has been given, followed by what
\* is in in_buf and what is in flight: no packet is skipped, doubled or overtaken
\* by another, however they arrive.
NothingSkipped ==
    LET waiting == SelectSeq(ssh.in \o toClient, LAMBDA c : c.part = 1)
        halved == ssh.in # << >> /\ ssh.in[1].part = 2
    IN  link.state = "CONNECTED" /\ link.number = 1 /\ ~server.reset =>
            ~halved /\ sent = shown \o DataIn(waiting)

\* Client and server never both wait: while the server is there and neither end
\* has anything in flight or held back, the handshake does not wait for a packet
\* that it has not already got, whatever the pieces its packets came in.
NeverBothWait ==
    (link.state = "HANDSHAKE" /\ link.number = 1 /\ server.open
        /\ toServer = << >> /\ toClient = << >> /\ ssh.out = << >>) =>
            /\ ssh.state # "VERSION_EXCHANGE"
            /\ ssh.state \in WaitStates => Complete(ssh.hs)

\* In durable mode a connection that the server closes is replaced by a new one.
Reconnects == (~server.open /\ link.number = 1) ~> link.number = 2

\* Both directions of the first connection: the server reads the requests in
\* order, the session is given all that the server has sent, and neither side
\* waits for what the other has no reason to send.
BothStreamsWhole == RequestsInOrder /\ NothingSkipped /\ NeverBothWait
=============================================================================
