------------------------------ MODULE MCNetwork ------------------------------
(***************************************************************************)
(* One instance for TLC of the parts that live around a network context:   *)
(* the connection, the stream on it, its diagnostic jobs, its packet        *)
(* capture, and the SSH client that secures it and looks at what it reads.  *)
(* They share no variable, so they are checked side by side: part says      *)
(* which of them this behaviour is about, and the others stay as they were  *)
(* created.  Those that are proved about (the connection, the jobs and the   *)
(* capture) are here under their own names; the others are instances.       *)
(***************************************************************************)
EXTENDS NetConnection, PacketCapture, NetJobs, TLC

CONSTANTS
    Parts,      \* the parts a run is about
    MaxSends,   \* calls the application makes to send
    Durable     \* the SSH client reconnects

VARIABLES
    part,
    protocol, ends, wire, put, aim, sends,                  \* NetStream
    ssh, link, toServer, toClient, server, sent, shown, typed, \* SshClient
    stream, pos, g, out, triggers, window, scan      \* SshData

streams == <<protocol, ends, wire, put, aim, sends>>
client == <<ssh, link, toServer, toClient, server, sent, shown, typed>>
data == <<stream, pos, g, out, triggers, window, scan>>
vars == <<part, connection, streams, jobs, capture, client, data>>

-------------------------------------------------------------------------------
(* The instances *)

\* What the application does in its callbacks.
Passive == [c \in {"on_connect", "on_error", "on_data", "on_disconnect"} |-> "none"]
Calm == {Passive, [Passive EXCEPT !["on_disconnect"] = "connect"]}
DisconnectsOnData == {[Passive EXCEPT !["on_data"] = "disconnect"]}

\* A client that answers a telnet offer, as the example client does.
TelnetClient ==
    [server |-> << >>,
     client |-> <<251, 1>> :> <<<<253, 1>>>> @@ <<252, 1>> :> <<<<254, 1>>>>]
Stream == INSTANCE NetStream WITH
    NET_BUFFER_SIZE <- 10, ChunkSize <- 4, SB_MAX <- 3,
    Protocols <- {"raw", "framed", "telnet"},
    Payloads <- {<<7>>, <<255, 7>>}, Commands <- {<<251, 1>>, <<253, 31>>},
    Answers <- TelnetClient

\* Jobs with and without user data, next to each other and cut off.
CutOff == <<"disconnect", "null">>
JobSetups ==
    {[may |-> {<<k, "null">>, <<k, "tag">>, CutOff}, most |-> 2] :
        k \in {"ping", "mtu", "frag", "http", "response"}}
    \cup {[may |-> {<<k, "null">>, CutOff}, most |-> 2] : k \in {"trace", "loop", "scan", "whois"}}
    \cup {[may |-> {<<"speed", "tag">>}, most |-> 1]}
Scanned == <<22, 0, 80>>

Client == INSTANCE SshClient WITH
    OUT_SIZE <- 6, IN_SIZE <- 6, VersionMax <- 2, Server <- {"closes", "resets", "refuses"},
    MaxData <- 1, MaxTyped <- 1, MaxConnections <- 2

\* Text with prefixes that turn out to be none, two graphics, text behind them;
\* and the words among which the triggers look.
Pictures ==
    {<<"a", "e", "_", "G", "q", "e", "\\", "a">>,
     <<"e", "e", "_", "G", "a", "e", "e", "\\", "e", "P", "q", "e", "\\", "a">>,
     <<"e", "P", "a", "e", "[", "a">>}
Data == INSTANCE SshData WITH
    Streams <- Pictures \cup [1 .. 7 -> {"a", "b"}],
    Patterns <- <<<<"a", "b", "a", "a">>, <<"a", "b", "b">>, <<"b", "b">>>>,
    MAX_TRIGGERS <- 3, WINDOW <- 7, MaxChunk <- 3

-------------------------------------------------------------------------------
\* A part that does not run has one initial state.
Init ==
    /\ part \in Parts
    /\ ConnectionInit
    /\ part # "connection" => conf = {"signed"} /\ (Passive \in Policies => app.policy = Passive)
    /\ Stream!Init /\ (part # "stream" => protocol = "raw")
    /\ JobsInit /\ (part # "jobs" => calls.most = 1)
    /\ CaptureInit
    /\ Client!Init
    /\ Data!Init /\ (part # "data" => stream = <<"e", "P", "a", "e", "[", "a">>)

Next ==
    \/ /\ part = "connection" /\ ConnectionNext
       /\ UNCHANGED <<part, streams, jobs, capture, client, data>>
    \/ /\ part = "stream" /\ Stream!Next
       /\ UNCHANGED <<part, connection, jobs, capture, client, data>>
    \/ /\ part = "jobs" /\ JobsNext
       /\ UNCHANGED <<part, connection, streams, capture, client, data>>
    \/ /\ part = "capture" /\ CaptureNext
       /\ UNCHANGED <<part, connection, streams, jobs, client, data>>
    \/ /\ part = "client" /\ Client!Next
       /\ UNCHANGED <<part, connection, streams, jobs, capture, data>>
    \/ /\ part = "data" /\ Data!Next
       /\ UNCHANGED <<part, connection, streams, jobs, capture, client>>

\* Each part's fairness, while it runs.
Fairness ==
    /\ WF_connection(part = "connection" /\ Resolving)
    /\ WF_connection(part = "connection" /\ Unanswered)
    /\ WF_connection(part = "connection" /\ Timeout)
    /\ \A e \in {"server", "client"} :
          /\ WF_streams(part = "stream" /\ Stream!Write(e))
          /\ WF_streams(part = "stream" /\ Stream!Read(e))
    /\ WF_jobs(part = "jobs" /\ \E slot \in Slots : Quiet(slot))
    /\ WF_jobs(part = "jobs" /\ \E slot \in Slots : Timer(slot))
    /\ \A c \in Ctx : WF_capture(part = "capture" /\ Capture(c))
    /\ WF_capture(part = "capture" /\ Joined)
    /\ WF_capture(part = "capture" /\ Free)
    /\ WF_capture(part = "capture" /\ Start)

ClientFairness ==
    /\ WF_client(part = "client" /\ Client!Handshake)
    /\ WF_client(part = "client" /\ Client!AcceptHostKey)
    /\ WF_client(part = "client" /\ Client!FlushQueue)
    /\ WF_client(part = "client" /\ Client!Read)
    /\ WF_client(part = "client" /\ Client!ReadFails)
    /\ WF_client(part = "client" /\ Client!Reconnect)
    /\ WF_client(part = "client" /\ Client!ServerReceives)

Spec == Init /\ [][Next]_vars /\ Fairness
ClientSpec == Init /\ [][Next]_vars /\ ClientFairness

-------------------------------------------------------------------------------
(* The properties of the instances; each is stated and explained in its module. *)

Transparent == Stream!Transparent

BothStreamsWhole == Client!BothStreamsWhole
Reconnects == part = "client" => Client!Reconnects

StreamSeenWhole == Data!StreamSeenWhole

\* Whatever a part has begun comes to an end: an attempt to connect, the bytes of
\* a negotiation, a job, the wait for a capture thread.
Pending ==
    \/ part = "connection" /\ ConnectionPending
    \/ part = "stream" /\ Stream!Pending
    \/ part = "jobs" /\ JobsPending
    \/ part = "capture" /\ Joining
EverythingEnds == Pending ~> ~Pending
===============================================================================
