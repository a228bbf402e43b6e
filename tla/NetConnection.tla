---------------------------- MODULE NetConnection ----------------------------
(***************************************************************************)
(* The network context of one session (kt_net.h): connecting with retries  *)
(* and a timeout, listening, the security handshake, the login of a server, *)
(* and the end of a connection, together with what the callbacks of the     *)
(* application do in the middle of it.  KTerm_Net_Process runs on the logic *)
(* thread, so a step is a whole call; its callbacks run inside it, which is *)
(* why a call is an operator from one World to the next.                    *)
(*                                                                         *)
(* The transmit ring and the protocols on the stream are in NetStream.  The *)
(* code is the one built without libssh.                                    *)
(***************************************************************************)
EXTENDS Integers, Sequences, FiniteSets, SequencesExt

CONSTANTS
    FD,             \* descriptor numbers of the process
    FD_SETSIZE,     \* descriptors from here on do not fit an fd_set
    MAX_RETRIES,    \* max_retries
    Configurations, \* sets of options, see Option
    Policies,       \* what the application does in its callbacks, functions from
                    \* Callback to Reactions; an on_disconnect that disconnects
                    \* would recurse without end
    AUTH_MAX,       \* characters the login buffer takes (63)
    LoginBytes,     \* what a peer sends while it logs in
    MaxChunk,       \* bound on the bytes of one read during the login
    MaxCalls        \* bound on the calls the application makes by itself

Invalid == -1
Reactions == {"none", "connect", "disconnect"}
\* auto_reconnect; the hooks of KTermNetSecurity are set; on_auth is set; the
\* protocol is KTERM_NET_PROTO_FRAMED or _TELNET; char is signed, as on x86.
Option == {"reconnect", "secure", "login", "framed", "telnet", "signed"}
Callback == {"on_connect", "on_error", "on_data", "on_disconnect"}

VARIABLES
    net,        \* the KTermNetSession behind session->user_data
    os,         \* the descriptors: who has opened them
    conf,       \* what the application has set up, once and for all
    app         \* ghost: the policy, and what the application has been told

connection == <<net, os, conf, app>>

State == {"DISCONNECTED", "RESOLVING", "CONNECTING", "LISTENING", "HANDSHAKE",
          "AUTH", "CONNECTED", "ERROR"}

NoContext ==
    [open |-> FALSE, state |-> "DISCONNECTED", fd |-> Invalid,
     listener |-> Invalid, server |-> FALSE, retries |-> 0, late |-> FALSE,
     auth |-> "none", user |-> << >>, input |-> << >>, telnet |-> "normal"]

World == [net |-> net, os |-> os, app |-> app]
Become(w) == net' = w.net /\ os' = w.os /\ app' = w.app /\ UNCHANGED conf

AutoReconnects == "reconnect" \in conf
Secure == "secure" \in conf
HasLogin == "login" \in conf

\* Code that goes on with the context after a callback: if the callback has
\* freed it, it reads freed memory.
Then(w, Continue(_)) ==
    IF w.net.open THEN Continue(w) ELSE [w EXCEPT !.app.stale = TRUE]

-------------------------------------------------------------------------------
(* Descriptors.  The operating system gives out the lowest free number. *)

HasFd(w) == \E d \in FD : w.os[d] = "free"
NewFd(w) == CHOOSE d \in FD :
    w.os[d] = "free" /\ \A e \in FD : w.os[e] = "free" => d <= e

\* close(d); closing what another part of the program has opened is recorded.
Close(w, d) ==
    IF d = Invalid \/ w.os[d] = "free" THEN w
    ELSE [w EXCEPT !.os[d] = "free",
                   !.app.stray = @ \/ w.os[d] = "other"]

CloseSocket(w) == [Close(w, w.net.fd) EXCEPT !.net.fd = Invalid]
CloseListener(w) == [Close(w, w.net.listener) EXCEPT !.net.listener = Invalid]

-------------------------------------------------------------------------------
(* Calls of the application, from outside or from a callback *)

CreateContext(w) ==
    IF w.net.open THEN w ELSE [w EXCEPT !.net = [NoContext EXCEPT !.open = TRUE]]

Connect(w0) ==
    LET w == CloseSocket(CreateContext(w0))
    IN  [w EXCEPT !.net.state = "RESOLVING", !.net.server = FALSE,
                  !.net.telnet = "normal", !.net.late = FALSE, !.net.retries = 0,
                  !.app.up = FALSE, !.app.ends = 0]

DestroyContext(w) ==
    IF ~w.net.open THEN w
    ELSE [CloseListener(CloseSocket(w)) EXCEPT !.net = NoContext]

OnDisconnect(w) ==
    LET told == [w EXCEPT !.app.up = FALSE, !.app.ends = @ + 1]
    IN  IF w.app.policy["on_disconnect"] = "connect" THEN Connect(told) ELSE told

Disconnect(w) ==
    DestroyContext(IF w.net.open /\ w.net.state = "CONNECTED"
                   THEN OnDisconnect(w) ELSE w)

React(w, callback) ==
    CASE w.app.policy[callback] = "none" -> w
      [] w.app.policy[callback] = "connect" -> Connect(w)
      [] w.app.policy[callback] = "disconnect" -> Disconnect(w)

OnConnect(w) ==
    React([w EXCEPT !.app.up = TRUE, !.app.twice = @ \/ w.app.up], "on_connect")
OnError(w) ==
    React([w EXCEPT !.app.up = FALSE, !.app.ends = @ + 1], "on_error")
OnData(w) == React(w, "on_data")

\* Wrong variant: a retry that is not counted.
TriggerErrorUncounted(w) ==
    IF w.net.state \in {"CONNECTING", "RESOLVING"} /\ AutoReconnects
            /\ w.net.retries < MAX_RETRIES
    THEN [CloseSocket(w) EXCEPT !.net.state = "RESOLVING", !.net.late = FALSE]
    ELSE OnError([w EXCEPT !.net.state = "ERROR"])

\* Connecting is tried again max_retries times; otherwise the error is final.
TriggerError(w) ==
    IF w.net.state \in {"CONNECTING", "RESOLVING"} /\ AutoReconnects
            /\ w.net.retries < MAX_RETRIES
    THEN [CloseSocket(w) EXCEPT !.net.retries = @ + 1,
                                !.net.state = "RESOLVING", !.net.late = FALSE]
    ELSE OnError([w EXCEPT !.net.state = "ERROR"])

\* Wrong variant: the application is not told.
FailSilently(w) == CloseSocket([w EXCEPT !.net.state = "ERROR"])

\* TriggerError; CLOSE_SOCKET(net->socket_fd); net->socket_fd = INVALID_SOCKET
Fail(w) == Then(TriggerError(w), CloseSocket)

Listen(w0, result) ==
    LET w == CloseSocket(CloseListener(CreateContext(w0)))
        reset == [w EXCEPT !.net.auth = "none", !.net.server = TRUE,
                           !.net.telnet = "normal",
                           !.app.up = FALSE, !.app.ends = 0]
    IN  IF result = "no_socket" \/ ~HasFd(reset) THEN TriggerError(reset)
        ELSE LET d == NewFd(reset)
                 bound == [reset EXCEPT !.os[d] = "net", !.net.listener = d]
             IN  IF result = "in_use" THEN Then(TriggerError(bound), CloseListener)
                 ELSE [bound EXCEPT !.net.state = "LISTENING"]

-------------------------------------------------------------------------------
(* KTerm_Net_ProcessSession: one step of the state machine, then a write and a
   read if the connection is up or logging in. *)

\* The socket is connected: secure it first if there is a handshake.
Established(w) ==
    IF Secure THEN [w EXCEPT !.net.state = "HANDSHAKE"]
    ELSE OnConnect([w EXCEPT !.net.state = "CONNECTED"])

ResolveStep(w, result) ==
    IF result = "dns_failed" \/ ~HasFd(w) THEN TriggerError(w)
    ELSE LET d == NewFd(w)
             opened == [w EXCEPT !.os[d] = "net", !.net.fd = d]
         IN  CASE result = "connected" -> Established(opened)
               [] result = "in_progress" -> [opened EXCEPT !.net.state = "CONNECTING"]
               [] result = "refused" -> Fail(opened)

ConnectStep(w, result) ==
    CASE w.net.late \/ w.net.fd >= FD_SETSIZE -> Fail(w)
      [] result = "in_progress" -> w
      [] result = "connected" -> Established(w)
      [] result = "refused" -> Fail(w)

\* A client is accepted.  A login is refused unless the connection is secure.
AcceptStep(w, result) ==
    IF result = "nobody" \/ ~HasFd(w) THEN w
    ELSE LET d == NewFd(w)
             accepted == [CloseSocket(w) EXCEPT !.os[d] = "net", !.net.fd = d]
         IN  CASE ~HasLogin ->
                      OnConnect([accepted EXCEPT !.net.state = "CONNECTED"])
               [] HasLogin /\ ~Secure -> Fail(accepted)
               [] HasLogin /\ Secure ->
                      [accepted EXCEPT !.net.state = "AUTH", !.net.auth = "user",
                                       !.net.input = << >>]

HandshakeStep(w, result) ==
    CASE result = "again" -> w
      [] result = "connected" -> OnConnect([w EXCEPT !.net.state = "CONNECTED"])
      [] result = "failed" -> TriggerError(w)

\* The only name and the only password are <<"a">>.
Accepted(user, password) == user = <<"a">> /\ password = <<"a">>

\* The end of a line of the login.
LoginLine(w) ==
    CASE w.net.input = << >> -> w
      [] w.net.input # << >> /\ w.net.auth = "user" ->
            [w EXCEPT !.net.user = w.net.input, !.net.auth = "pass",
                      !.net.input = << >>]
      [] w.net.input # << >> /\ w.net.auth = "pass" ->
            IF Accepted(w.net.user, w.net.input)
            THEN OnConnect([w EXCEPT !.net.state = "CONNECTED"])
            ELSE CloseSocket([w EXCEPT !.net.state = "DISCONNECTED"])
      [] OTHER -> w

\* A byte of the login.  Where char is signed c == KTERM_TELNET_IAC is never
\* true, and telnet commands are taken for typed characters.
LoginByte(w0, byte) ==
    Then(w0, LAMBDA w :
        CASE conf \cap {"telnet", "signed"} = {"telnet"} /\ w.net.telnet = "normal" /\ byte = "iac" ->
                [w EXCEPT !.net.telnet = "iac"]
          [] w.net.telnet # "normal" ->
                [w EXCEPT !.net.telnet =
                    IF w.net.telnet = "iac" /\ byte = "do" THEN "do" ELSE "normal"]
          [] byte = "eol" -> LoginLine(w)
          [] byte = "bs" ->
                IF w.net.input = << >> THEN w ELSE [w EXCEPT !.net.input = Front(@)]
          [] OTHER ->
                IF Len(w.net.input) < AUTH_MAX
                THEN [w EXCEPT !.net.input = Append(@, byte)] ELSE w)

Login(w, bytes) == FoldLeft(LoginByte, w, bytes)

\* What is read: bytes, the end of the stream, nothing yet, an error.  A read
\* from a socket that the write before it has closed is an error (EBADF).
Receive(w, read) ==
    CASE w.net.fd = Invalid \/ read.kind = "error" -> Fail(w)
      [] w.net.fd # Invalid /\ read.kind = "data" /\ w.net.state = "AUTH" ->
            Login(w, read.bytes)
      [] w.net.fd # Invalid /\ read.kind = "data" /\ w.net.state # "AUTH" ->
            Then(OnData(w), LAMBDA v : v)
      [] w.net.fd # Invalid /\ read.kind = "too_large" ->
            Then(TriggerError(w), LAMBDA v : Close(v, v.net.fd))
      [] w.net.fd # Invalid /\ read.kind = "closed" ->
            Then(OnDisconnect([w EXCEPT !.net.state = "DISCONNECTED"]), CloseSocket)
      [] OTHER -> w

\* Is there something to write to and to read from?
Transfers(w) ==
    w.net.open /\ w.net.state \in {"CONNECTED", "AUTH"} /\ w.net.fd # Invalid

\* 1. write what is queued, 2. read.
Transfer(w, written, read) ==
    Then(IF written = "failed" THEN Fail(w) ELSE w, LAMBDA v : Receive(v, read))

-------------------------------------------------------------------------------
ConnectionInit ==
    /\ conf \in Configurations
    /\ net = NoContext
    /\ os = [d \in FD |-> "free"]
    /\ \E p \in Policies :
          app = [policy |-> p, up |-> FALSE, ends |-> 0, twice |-> FALSE,
                 stale |-> FALSE, stray |-> FALSE, calls |-> 0]

\* The application calls the API between two frames.
Call(w) ==
    /\ app.calls < MaxCalls
    /\ Become([w EXCEPT !.app.calls = app.calls + 1])

CallConnect == Call(Connect(World))
CallListen == \E result \in {"ok", "no_socket", "in_use"} : Call(Listen(World, result))
CallDisconnect == net.open /\ Call(Disconnect(World))

\* What a read may give.  A security layer reports the end of the stream as no
\* data or as an error; what the bytes are matters only to the login.
Reads(w) ==
    [kind : {"again", "error"} \cup (IF Secure THEN {} ELSE {"closed"})
                \cup (IF "framed" \in conf THEN {"too_large"} ELSE {}),
     bytes : {<< >>}]
        \cup [kind : {"data"},
              bytes : IF w.net.state = "AUTH"
                      THEN SeqOf(LoginBytes, MaxChunk) \ {<< >>} ELSE {<< >>}]

\* A failed resolution returns after the callback; the other steps look at
\* net->state once more.
ReturnsAtOnce(result) == result = "dns_failed"

\* One call of KTerm_Net_ProcessSession in the given state: Step(w, result)
\* and, when the connection is then up, a write and a read.
Process(state, results, Step(_, _)) ==
    /\ net.open /\ net.state = state
    /\ \E result \in results :
          LET w == Step(World, result)
          IN  IF Transfers(w)
              THEN \E written \in {"ok", "failed"}, read \in Reads(w) :
                      Become(Transfer(w, written, read))
              ELSE Become(IF ReturnsAtOnce(result) THEN w ELSE Then(w, LAMBDA v : v))

Resolving ==
    Process("RESOLVING", {"dns_failed", "connected", "in_progress", "refused"}, ResolveStep)
Connecting ==
    Process("CONNECTING", {"in_progress", "connected", "refused"}, ConnectStep)
Listening == Process("LISTENING", {"nobody", "client"}, AcceptStep)
Handshaking == Process("HANDSHAKE", {"again", "connected", "failed"}, HandshakeStep)
Authenticating == Process("AUTH", {"none"}, LAMBDA w, result : w)
Connected == Process("CONNECTED", {"none"}, LAMBDA w, result : w)

ProcessSession ==
    Resolving \/ Connecting \/ Listening \/ Handshaking \/ Authenticating \/ Connected

\* More than ten seconds have passed since connect_start_time.
Timeout ==
    /\ net.state = "CONNECTING" /\ ~net.late
    /\ net' = [net EXCEPT !.late = TRUE]
    /\ UNCHANGED <<os, conf, app>>

\* Another part of the program opens and closes descriptors.
OtherOpens ==
    /\ HasFd(World) /\ \A d \in FD : os[d] # "other"
    /\ os' = [os EXCEPT ![NewFd(World)] = "other"]
    /\ UNCHANGED <<net, conf, app>>
OtherCloses ==
    /\ \E d \in FD : os[d] = "other" /\ os' = [os EXCEPT ![d] = "free"]
    /\ UNCHANGED <<net, conf, app>>

ConnectionNext ==
    \/ CallConnect \/ CallListen \/ CallDisconnect
    \/ ProcessSession \/ Timeout
    \/ OtherOpens \/ OtherCloses

ConnectionSpec == ConnectionInit /\ [][ConnectionNext]_connection

\* KTerm_Update is called for ever and time passes; a resolution returns, but the
\* peer need not answer.
Unanswered == Process("CONNECTING", {"in_progress"}, ConnectStep)
ConnectionFairness == WF_connection(Resolving) /\ WF_connection(Unanswered) /\ WF_connection(Timeout)
ConnectionFairSpec == ConnectionSpec /\ ConnectionFairness

-------------------------------------------------------------------------------
(* Properties *)

\* A descriptor that the context holds is open and its own, each open one is
\* held, and no close ever hits a descriptor of another part of the program.
DescriptorsOwned ==
    /\ ~app.stray
    /\ {d \in FD : os[d] = "net"} = {net.fd, net.listener} \ {Invalid}
    /\ net.fd = net.listener => net.fd = Invalid

\* Whoever has been told that the connection is up, and not that it has ended,
\* has a connection; and it is not told so twice.
NeverSilent ==
    /\ app.up => net.state = "CONNECTED" /\ net.fd # Invalid
    /\ ~app.twice

\* What the context holds of the network's sockets is what the application has been
\* told: nothing is leaked or closed for another, and no connection ends silently.
ToldWhatIsHeld == DescriptorsOwned /\ NeverSilent

\* No code goes on with a context that a callback has freed.
ContextInUse == ~app.stale

\* Connecting comes to an end, whatever the network does: the timeout and the
\* number of retries bound it.  (An application that connects again from its
\* callbacks does so within the call that ended the last attempt.)
ConnectionPending ==
    /\ net.state \in {"RESOLVING", "CONNECTING"}
    /\ \A c \in Callback : app.policy[c] # "connect"
Settles == ConnectionPending ~> ~ConnectionPending

===============================================================================
