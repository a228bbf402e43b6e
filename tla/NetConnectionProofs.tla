------------------------- MODULE NetConnectionProofs -------------------------
(***************************************************************************)
(* What a network context holds is what it has opened, and what the         *)
(* application has been told: whatever the network answers, whoever else    *)
(* opens descriptors, and whatever the callbacks do, as long as             *)
(* on_disconnect does not disconnect.                                       *)
(***************************************************************************)
EXTENDS NetConnection, WellFoundedInduction, TLAPS

\* Descriptors are numbers from 0 on; the bounds are those of arrays and loops.
Sizes ==
    /\ FD \subseteq Nat /\ MAX_RETRIES \in Nat /\ AUTH_MAX \in Nat
    /\ MaxChunk \in Nat /\ MaxCalls \in Nat

\* An on_disconnect that disconnects calls itself.
Callers ==
    Policies \subseteq {p \in [Callback -> Reactions] : p["on_disconnect"] # "disconnect"}

\* "Packet too large" closes the descriptor and keeps its number.
NoFrames == \A c \in Configurations : "framed" \notin c

\* The login goes on with the bytes behind the line that decides it.
OneByteLogins == \A c \in Configurations : {"secure", "login"} \subseteq c => MaxChunk <= 1

\* No callback disconnects.
NobodyDisconnects == \A p \in Policies : \A c \in Callback : p[c] # "disconnect"

-------------------------------------------------------------------------------
(* The inductive invariant *)

Descriptor == FD \union {Invalid}
Line == {l \in Seq(LoginBytes) : Len(l) <= AUTH_MAX}

Context ==
    [open : BOOLEAN, state : State, fd : Descriptor, listener : Descriptor,
     server : BOOLEAN, retries : 0 .. MAX_RETRIES, late : BOOLEAN,
     auth : {"none", "user", "pass"}, user : Line, input : Line,
     telnet : {"normal", "iac", "do"}]

Told ==
    [policy : Policies, up : BOOLEAN, ends : Nat, twice : BOOLEAN, stale : BOOLEAN,
     stray : BOOLEAN, calls : Nat]

OsStates == [FD -> {"free", "net", "other"}]
Worlds == [net : Context, os : OsStates, app : Told]

\* Each descriptor of the context is its own, and each of the network's is held.
Held(w) ==
    /\ ~w.app.stray
    /\ \A d \in FD : w.os[d] = "net" <=> d = w.net.fd \/ d = w.net.listener
    /\ w.net.fd = w.net.listener => w.net.fd = Invalid
    /\ ~w.net.open => w.net = NoContext

\* A resolution opens a socket, so there is none yet; and there is a login only
\* where the application has set one up.
Ready(w) ==
    /\ w.net.state = "RESOLVING" => w.net.fd = Invalid
    /\ w.net.state = "AUTH" => HasLogin /\ Secure

\* What has been told is so, and there is a socket wherever one is used.
Calm(w) ==
    /\ w.app.up => w.net.state = "CONNECTED"
    /\ ~w.app.twice
    /\ w.net.state \in {"CONNECTING", "HANDSHAKE", "AUTH", "CONNECTED"} => w.net.fd # Invalid

Good(w) == w \in Worlds /\ Held(w) /\ Ready(w)

IInv ==
    /\ conf \in Configurations
    /\ Good(World)
    /\ OneByteLogins => Calm(World)
    /\ NobodyDisconnects => ~app.stale

-------------------------------------------------------------------------------
(* Numbers *)

LEMMA Lowest ==
    ASSUME NEW S, S \subseteq Nat, S # {}
    PROVE  \E d \in S : \A e \in S : d <= e
<1> DEFINE R == {ss \in Nat \X Nat : ss[1] < ss[2]}
<1>1. IsWellFoundedOn(R, Nat)
  <2>1. R = OpToRel(<, Nat)
    BY DEF OpToRel
  <2> QED  BY <2>1, NatLessThanWellFounded
<1>2. PICK d \in S : \A e \in S : ~(<<e, d>> \in R)
  <2> HIDE DEF R
  <2> QED  BY <1>1, WFMin
<1>3. ASSUME NEW e \in S PROVE d <= e
  <2>1. d \in Nat /\ e \in Nat /\ ~(e < d)
    BY <1>2
  <2> QED  BY <2>1
<1> QED  BY <1>3

LEMMA NewFdFacts ==
    ASSUME Sizes, NEW w, HasFd(w)
    PROVE  NewFd(w) \in FD /\ w.os[NewFd(w)] = "free"
<1> DEFINE S == {d \in FD : w.os[d] = "free"}
<1>1. S \subseteq Nat /\ S # {}
  BY DEF Sizes, HasFd
<1>2. \E d \in S : \A e \in S : d <= e
  <2> HIDE DEF S
  <2> QED  BY <1>1, Lowest
<1> QED  BY <1>2 DEF NewFd

LEMMA NoInvalid == ASSUME Sizes PROVE Invalid \notin FD
BY DEF Sizes, Invalid

-------------------------------------------------------------------------------
(* Descriptors *)

LEMMA NoContextFacts ==
    ASSUME Sizes
    PROVE  /\ NoContext \in Context /\ ~NoContext.open /\ NoContext.state = "DISCONNECTED"
           /\ NoContext.fd = Invalid /\ NoContext.listener = Invalid
BY DEF Sizes, NoContext, Context, State, Descriptor, Line, Invalid

LEMMA WorldIs ==
    ASSUME NEW w \in Worlds
    PROVE  \E n \in Context, o \in OsStates, a \in Told :
              w = [net |-> n, os |-> o, app |-> a]
<1>1. w = [net |-> w.net, os |-> w.os, app |-> w.app]
  BY DEF Worlds
<1> QED  BY <1>1 DEF Worlds

LEMMA CloseSocketFacts ==
    ASSUME Sizes, NEW w \in Worlds, Held(w)
    PROVE  /\ CloseSocket(w) \in Worlds /\ Held(CloseSocket(w))
           /\ CloseSocket(w).net = [w.net EXCEPT !.fd = Invalid]
           /\ CloseSocket(w).app = w.app
<1> DEFINE x == CloseSocket(w)
<1>1. CASE w.net.fd = Invalid
  <2>1. x = w /\ w.net = [w.net EXCEPT !.fd = Invalid]
    BY <1>1 DEF CloseSocket, Close, Worlds, Context
  <2> QED  BY <2>1
<1>2. CASE w.net.fd # Invalid
  <2>0. PICK n \in Context, o \in OsStates, a \in Told :
           w = [net |-> n, os |-> o, app |-> a]
    BY WorldIs
  <2>1. n.fd \in FD /\ o[n.fd] = "net" /\ n.open /\ a.stray = FALSE
    BY <1>2, <2>0, NoContextFacts DEF Held, Context, Descriptor, Told
  <2>2. Close(w, n.fd) = [w EXCEPT !.os[n.fd] = "free", !.app.stray = FALSE]
    BY <1>2, <2>0, <2>1 DEF Close
  <2>3. x \in [net : {[n EXCEPT !.fd = Invalid]}, os : {[o EXCEPT ![n.fd] = "free"]},
               app : {[a EXCEPT !.stray = FALSE]}]
    BY <2>0, <2>2 DEF CloseSocket
  <2>4. [a EXCEPT !.stray = FALSE] = a
    BY <2>1 DEF Told
  <2>5. x \in Worlds
    <3>1. [n EXCEPT !.fd = Invalid] \in Context
      BY DEF Context, Descriptor
    <3>2. [o EXCEPT ![n.fd] = "free"] \in OsStates
      BY DEF OsStates
    <3> QED  BY <2>3, <2>4, <3>1, <3>2 DEF Worlds
  <2> HIDE DEF x
  <2>6. Held(x)
    BY <2>0, <2>1, <2>3, <2>4, <2>5, NoInvalid DEF Held, Context, OsStates
  <2> QED  BY <2>0, <2>3, <2>4, <2>5, <2>6 DEF x
<1> QED  BY <1>1, <1>2

LEMMA CloseListenerFacts ==
    ASSUME Sizes, NEW w \in Worlds, Held(w)
    PROVE  /\ CloseListener(w) \in Worlds /\ Held(CloseListener(w))
           /\ CloseListener(w).net = [w.net EXCEPT !.listener = Invalid]
           /\ CloseListener(w).app = w.app
<1> DEFINE x == CloseListener(w)
<1>1. CASE w.net.listener = Invalid
  <2>1. x = w /\ w.net = [w.net EXCEPT !.listener = Invalid]
    BY <1>1 DEF CloseListener, Close, Worlds, Context
  <2> QED  BY <2>1
<1>2. CASE w.net.listener # Invalid
  <2>0. PICK n \in Context, o \in OsStates, a \in Told :
           w = [net |-> n, os |-> o, app |-> a]
    BY WorldIs
  <2>1. n.listener \in FD /\ o[n.listener] = "net" /\ n.open /\ a.stray = FALSE
    BY <1>2, <2>0, NoContextFacts DEF Held, Context, Descriptor, Told
  <2>2. Close(w, n.listener) = [w EXCEPT !.os[n.listener] = "free", !.app.stray = FALSE]
    BY <1>2, <2>0, <2>1 DEF Close
  <2>3. x \in [net : {[n EXCEPT !.listener = Invalid]}, os : {[o EXCEPT ![n.listener] = "free"]},
               app : {[a EXCEPT !.stray = FALSE]}]
    BY <2>0, <2>2 DEF CloseListener
  <2>4. [a EXCEPT !.stray = FALSE] = a
    BY <2>1 DEF Told
  <2>5. x \in Worlds
    <3>1. [n EXCEPT !.listener = Invalid] \in Context
      BY DEF Context, Descriptor
    <3>2. [o EXCEPT ![n.listener] = "free"] \in OsStates
      BY DEF OsStates
    <3> QED  BY <2>3, <2>4, <3>1, <3>2 DEF Worlds
  <2> HIDE DEF x
  <2>6. Held(x)
    BY <2>0, <2>1, <2>3, <2>4, <2>5, NoInvalid DEF Held, Context, OsStates
  <2> QED  BY <2>0, <2>3, <2>4, <2>5, <2>6 DEF x
<1> QED  BY <1>1, <1>2

LEMMA HeldSame ==
    ASSUME NEW w \in Worlds, NEW x \in Worlds, Held(w), x.net.open, x.os = w.os,
           x.net.fd = w.net.fd, x.net.listener = w.net.listener,
           x.app.stray = w.app.stray
    PROVE  Held(x)
BY DEF Held

-------------------------------------------------------------------------------
(* Calls of the application *)

LEMMA CreateContextFacts ==
    ASSUME Sizes, NEW w \in Worlds, Held(w)
    PROVE  /\ CreateContext(w) \in Worlds /\ Held(CreateContext(w))
           /\ CreateContext(w).net.open /\ CreateContext(w).app = w.app
           /\ CreateContext(w).net.fd = w.net.fd
           /\ CreateContext(w).net.state = w.net.state
<1> DEFINE x == CreateContext(w)
           fresh == [NoContext EXCEPT !.open = TRUE]
<1>1. CASE w.net.open
  BY <1>1 DEF CreateContext
<1>2. CASE ~w.net.open
  <2>0. PICK n \in Context, o \in OsStates, a \in Told :
           w = [net |-> n, os |-> o, app |-> a]
    BY WorldIs
  <2>1. fresh \in Context /\ fresh.open /\ fresh.state = "DISCONNECTED"
        /\ fresh.fd = Invalid /\ fresh.listener = Invalid
    <3>1. NoContext \in Context
      BY NoContextFacts
    <3>2. fresh = [NoContext EXCEPT !.open = TRUE]
      OBVIOUS
    <3> QED  BY <3>1, NoContextFacts DEF Context
  <2>2. n = NoContext
    BY <1>2, <2>0 DEF Held
  <2> HIDE DEF fresh
  <2>3. x \in [net : {fresh}, os : {o}, app : {a}]
    BY <1>2, <2>0 DEF CreateContext, fresh
  <2>4. x \in Worlds
    BY <2>1, <2>3 DEF Worlds
  <2> HIDE DEF x
  <2>5. Held(x)
    BY <2>0, <2>1, <2>2, <2>3, NoContextFacts DEF Held
  <2> QED  BY <2>0, <2>1, <2>2, <2>3, <2>4, <2>5, NoContextFacts DEF x
<1> QED  BY <1>1, <1>2

\* A new attempt to connect: whatever was connected is over.
LEMMA ConnectFacts ==
    ASSUME Sizes, NEW w \in Worlds, Held(w)
    PROVE  /\ Connect(w) \in Worlds /\ Held(Connect(w))
           /\ Connect(w).net.open /\ Connect(w).net.state = "RESOLVING"
           /\ Connect(w).net.fd = Invalid /\ ~Connect(w).app.up
           /\ Connect(w).app.twice = w.app.twice /\ Connect(w).app.stale = w.app.stale
<1> DEFINE y == CloseSocket(CreateContext(w))
           x == Connect(w)
<1>1. y \in Worlds /\ Held(y) /\ y.net.open /\ y.app = w.app /\ y.net.fd = Invalid
  <2> DEFINE z == CreateContext(w)
  <2>1. z \in Worlds /\ Held(z) /\ z.net.open /\ z.app = w.app
    BY CreateContextFacts
  <2> HIDE DEF z
  <2>2. z.net \in Context
    BY <2>1 DEF Worlds
  <2>3. y = CloseSocket(z)
    BY DEF z
  <2> HIDE DEF y
  <2> QED  BY <2>1, <2>2, <2>3, CloseSocketFacts DEF Context
<1>2. x = [y EXCEPT !.net.state = "RESOLVING", !.net.server = FALSE,
                    !.net.telnet = "normal", !.net.late = FALSE, !.net.retries = 0,
                    !.app.up = FALSE, !.app.ends = 0]
  BY DEF Connect
<1> HIDE DEF x, y
<1>3. PICK n \in Context, o \in OsStates, a \in Told : y = [net |-> n, os |-> o, app |-> a]
  BY <1>1, WorldIs
<1> DEFINE m == [n EXCEPT !.state = "RESOLVING", !.server = FALSE, !.telnet = "normal",
                          !.late = FALSE, !.retries = 0]
           b == [a EXCEPT !.up = FALSE, !.ends = 0]
<1>4. x \in [net : {m}, os : {o}, app : {b}]
  BY <1>2, <1>3
<1>5. m \in Context /\ m.state = "RESOLVING" /\ m.fd = n.fd /\ m.listener = n.listener
      /\ m.open = n.open
  <2>1. 0 \in 0 .. MAX_RETRIES /\ "RESOLVING" \in State
    BY DEF Sizes, State
  <2> QED  BY <2>1 DEF Context
<1>6. b \in Told /\ b.up = FALSE /\ b.twice = a.twice /\ b.stale = a.stale
      /\ b.stray = a.stray
  BY DEF Told
<1> HIDE DEF m, b
<1>7. x \in Worlds
  BY <1>4, <1>5, <1>6 DEF Worlds
<1>8. Held(x)
  BY <1>1, <1>3, <1>4, <1>5, <1>6, <1>7, HeldSame
<1> QED  BY <1>1, <1>3, <1>4, <1>5, <1>6, <1>7, <1>8 DEF x

LEMMA DestroyContextFacts ==
    ASSUME Sizes, NEW w \in Worlds, Held(w)
    PROVE  /\ DestroyContext(w) \in Worlds /\ Held(DestroyContext(w))
           /\ DestroyContext(w).net = NoContext /\ DestroyContext(w).app = w.app
<1> DEFINE x == DestroyContext(w)
<1>1. CASE ~w.net.open
  BY <1>1 DEF DestroyContext, Held
<1>2. CASE w.net.open
  <2> DEFINE s == CloseSocket(w)
             y == CloseListener(s)
  <2>1. s \in Worlds /\ Held(s) /\ s.app = w.app /\ s.net = [w.net EXCEPT !.fd = Invalid]
    BY CloseSocketFacts
  <2> HIDE DEF s
  <2>2. /\ y \in Worlds /\ Held(y) /\ y.app = w.app
        /\ y.net = [s.net EXCEPT !.listener = Invalid]
    BY <2>1, CloseListenerFacts
  <2>3. y.net.fd = Invalid /\ y.net.listener = Invalid
    BY <2>1, <2>2 DEF Worlds, Context
  <2>4. x = [y EXCEPT !.net = NoContext]
    BY <1>2 DEF DestroyContext, s
  <2> HIDE DEF x, y
  <2>5. PICK n \in Context, o \in OsStates, a \in Told :
           y = [net |-> n, os |-> o, app |-> a]
    BY <2>2, WorldIs
  <2>6. x = [net |-> NoContext, os |-> o, app |-> a]
    BY <2>4, <2>5
  <2>7. x \in Worlds
    BY <2>6, NoContextFacts DEF Worlds
  <2>8. Held(x)
    BY <2>2, <2>3, <2>5, <2>6, <2>7, NoContextFacts DEF Held
  <2> QED  BY <2>2, <2>5, <2>6, <2>7, <2>8 DEF x
<1> QED  BY <1>1, <1>2

\* What an application is told of changes nothing but what it has been told.
LEMMA ToldOf ==
    ASSUME NEW w \in Worlds, Held(w), NEW x, NEW b \in Told,
           x \in [net : {w.net}, os : {w.os}, app : {b}], b.stray = w.app.stray
    PROVE  x \in Worlds /\ Held(x) /\ x.net = w.net /\ x.app = b
<1>1. x.net = w.net /\ x.os = w.os /\ x.app = b
  OBVIOUS
<1>2. x \in Worlds
  BY DEF Worlds
<1> QED  BY <1>1, <1>2 DEF Held

\* The end of what the application uses, and what it may do about it.
LEMMA OnDisconnectFacts ==
    ASSUME Sizes, NEW w \in Worlds, Held(w)
    PROVE  LET x == OnDisconnect(w)
           IN  /\ x \in Worlds /\ Held(x) /\ ~x.app.up
               /\ x.app.twice = w.app.twice /\ x.app.stale = w.app.stale
               /\ \/ x.net = w.net
                  \/ x.net.open /\ x.net.state = "RESOLVING" /\ x.net.fd = Invalid
<1> DEFINE y == [w EXCEPT !.app.up = FALSE, !.app.ends = @ + 1]
           b == [w.app EXCEPT !.up = FALSE, !.ends = @ + 1]
<1>1. /\ b \in Told /\ ~b.up /\ b.stray = w.app.stray /\ b.twice = w.app.twice
      /\ b.stale = w.app.stale
  <2>1. w.app \in Told /\ w.app.ends + 1 \in Nat
    BY DEF Worlds, Told
  <2> QED  BY <2>1 DEF Told
<1>2. y \in [net : {w.net}, os : {w.os}, app : {b}]
  <2>1. PICK n \in Context, o \in OsStates, a \in Told :
           w = [net |-> n, os |-> o, app |-> a]
    BY WorldIs
  <2> QED  BY <2>1
<1> HIDE DEF b, y
<1>3. y \in Worlds /\ Held(y) /\ y.net = w.net /\ y.app = b
  BY <1>1, <1>2, ToldOf
<1>4. OnDisconnect(w) = Connect(y) \/ OnDisconnect(w) = y
  BY DEF OnDisconnect, y
<1> QED  BY <1>1, <1>3, <1>4, ConnectFacts

LEMMA DisconnectFacts ==
    ASSUME Sizes, NEW w \in Worlds, Held(w)
    PROVE  LET x == Disconnect(w)
           IN  /\ x \in Worlds /\ Held(x) /\ x.net = NoContext
               /\ x.app.twice = w.app.twice /\ x.app.stale = w.app.stale
               /\ x.app.up => w.app.up /\ w.net.state # "CONNECTED"
<1> DEFINE y == IF w.net.open /\ w.net.state = "CONNECTED" THEN OnDisconnect(w) ELSE w
<1>1. /\ y \in Worlds /\ Held(y) /\ y.app.twice = w.app.twice
      /\ y.app.stale = w.app.stale
      /\ y.app.up => w.app.up /\ w.net.state # "CONNECTED"
  <2>1. CASE w.net.open /\ w.net.state = "CONNECTED"
    BY <2>1, OnDisconnectFacts
  <2>2. CASE ~w.net.open
    BY <2>2, NoContextFacts DEF Held
  <2>3. CASE w.net.state # "CONNECTED"
    BY <2>3
  <2> QED  BY <2>1, <2>2, <2>3
<1>2. Disconnect(w) = DestroyContext(y)
  BY DEF Disconnect
<1> HIDE DEF y
<1> QED  BY <1>1, <1>2, DestroyContextFacts

\* Outcome(w, x): w is left as x, and what the callbacks of the application have
\* done is a change of what it has been told, a new attempt or the end.
Outcome(w, x) ==
    /\ x \in Worlds /\ Held(x)
    /\ ~w.app.twice => ~x.app.twice
    /\ NobodyDisconnects => x.app.stale = w.app.stale
    /\ \/ x.net = w.net
       \/ x.net.open /\ x.net.state = "RESOLVING" /\ x.net.fd = Invalid /\ ~x.app.up
       \/ x.net = NoContext /\ ~NobodyDisconnects

LEMMA ReactFacts ==
    ASSUME Sizes, Callers, NEW w \in Worlds, Held(w), NEW callback \in Callback
    PROVE  LET x == React(w, callback)
           IN  /\ Outcome(w, x)
               /\ (w.app.up => w.net.state = "CONNECTED") =>
                      (x.app.up => x.net.state = "CONNECTED")
<1> DEFINE does == w.app.policy[callback]
<1>1. w.app.policy \in Policies /\ does \in Reactions
  BY DEF Worlds, Told, Callers
<1> HIDE DEF does
<1>2. CASE does = "none"
  BY <1>2 DEF React, Outcome, does
<1>3. CASE does = "connect"
  <2>1. React(w, callback) = Connect(w)
    BY <1>3 DEF React, does
  <2> QED  BY <2>1, ConnectFacts DEF Outcome
<1>4. CASE does = "disconnect"
  <2>1. React(w, callback) = Disconnect(w)
    BY <1>4 DEF React, does
  <2>2. ~NobodyDisconnects
    BY <1>1, <1>4 DEF NobodyDisconnects, does
  <2> QED  BY <2>1, <2>2, DisconnectFacts DEF Outcome
<1> QED  BY <1>1, <1>2, <1>3, <1>4 DEF Reactions

\* A context in use stays in use as long as no callback disconnects.
Alive(w, x) ==
    NobodyDisconnects => x.app.stale = w.app.stale /\ (w.net.open => x.net.open)

\* The two things an application is told of a connection.
LEMMA OnConnectFacts ==
    ASSUME Sizes, Callers, NEW w \in Worlds, Held(w), w.net.state = "CONNECTED"
    PROVE  /\ Good(OnConnect(w)) /\ Alive(w, OnConnect(w))
           /\ ~w.app.up /\ ~w.app.twice /\ w.net.fd # Invalid => Calm(OnConnect(w))
<1> DEFINE y == [w EXCEPT !.app.up = TRUE, !.app.twice = @ \/ w.app.up]
           b == [w.app EXCEPT !.up = TRUE, !.twice = @ \/ w.app.up]
           x == OnConnect(w)
<1>1. /\ b \in Told /\ b.up = TRUE /\ b.stray = w.app.stray /\ b.stale = w.app.stale
      /\ b.twice = (w.app.twice \/ w.app.up)
  <2>1. w.app \in Told /\ (w.app.twice \/ w.app.up) \in BOOLEAN
    BY DEF Worlds, Told
  <2> QED  BY <2>1 DEF Told
<1>2. y \in [net : {w.net}, os : {w.os}, app : {b}]
  <2>1. PICK n \in Context, o \in OsStates, a \in Told :
           w = [net |-> n, os |-> o, app |-> a]
    BY WorldIs
  <2> QED  BY <2>1
<1> HIDE DEF b, y
<1>3. y \in Worlds /\ Held(y) /\ y.net = w.net /\ y.app = b
  BY <1>1, <1>2, ToldOf
<1>4. x = React(y, "on_connect") /\ "on_connect" \in Callback
  BY DEF OnConnect, y, Callback
<1> HIDE DEF x
<1>5. Outcome(y, x) /\ (x.app.up => x.net.state = "CONNECTED")
  BY <1>3, <1>4, ReactFacts
<1>6. Good(x)
  BY <1>3, <1>5, NoContextFacts DEF Outcome, Good, Ready
<1>7. Alive(w, x)
  BY <1>1, <1>3, <1>5 DEF Outcome, Alive
<1>8. ASSUME ~w.app.up, ~w.app.twice, w.net.fd # Invalid PROVE Calm(x)
  <2>1. ~y.app.twice
    BY <1>1, <1>3, <1>8
  <2> QED  BY <1>3, <1>5, <1>8, <2>1, NoContextFacts DEF Outcome, Calm
<1> QED  BY <1>6, <1>7, <1>8 DEF x

Over == {"ERROR", "RESOLVING", "DISCONNECTED"}

LEMMA OnErrorFacts ==
    ASSUME Sizes, Callers, NEW w \in Worlds, Held(w), w.net.state = "ERROR"
    PROVE  LET x == OnError(w)
           IN  /\ Good(x) /\ Alive(w, x) /\ x.net.state \in Over
               /\ ~w.app.twice => Calm(x) /\ ~x.app.up
<1> DEFINE y == [w EXCEPT !.app.up = FALSE, !.app.ends = @ + 1]
           b == [w.app EXCEPT !.up = FALSE, !.ends = @ + 1]
           x == OnError(w)
<1>1. /\ b \in Told /\ b.up = FALSE /\ b.stray = w.app.stray /\ b.stale = w.app.stale
      /\ b.twice = w.app.twice
  <2>1. w.app \in Told /\ w.app.ends + 1 \in Nat
    BY DEF Worlds, Told
  <2> QED  BY <2>1 DEF Told
<1>2. y \in [net : {w.net}, os : {w.os}, app : {b}]
  <2>1. PICK n \in Context, o \in OsStates, a \in Told :
           w = [net |-> n, os |-> o, app |-> a]
    BY WorldIs
  <2> QED  BY <2>1
<1> HIDE DEF b, y
<1>3. y \in Worlds /\ Held(y) /\ y.net = w.net /\ y.app = b
  BY <1>1, <1>2, ToldOf
<1>4. x = React(y, "on_error") /\ "on_error" \in Callback
  BY DEF OnError, y, Callback
<1> HIDE DEF x
<1>5. Outcome(y, x) /\ (x.app.up => x.net.state = "CONNECTED")
  BY <1>1, <1>3, <1>4, ReactFacts
<1>6. x.net.state \in Over
  BY <1>3, <1>5, NoContextFacts DEF Outcome, Over
<1>7. Good(x)
  BY <1>3, <1>5, NoContextFacts DEF Outcome, Good, Ready
<1>8. Alive(w, x)
  BY <1>1, <1>3, <1>5 DEF Outcome, Alive
<1>9. ASSUME ~w.app.twice PROVE Calm(x) /\ ~x.app.up
  BY <1>1, <1>3, <1>5, <1>6, <1>9 DEF Outcome, Calm, Over
<1> QED  BY <1>6, <1>7, <1>8, <1>9 DEF x

-------------------------------------------------------------------------------
(* Errors *)

Honest(w) == (w.app.up => w.net.state = "CONNECTED") /\ ~w.app.twice

\* With a new state, and late or not, the context holds what it held.
LEMMA StateChange ==
    ASSUME NEW w \in Worlds, Held(w), w.net.open, NEW x, NEW m \in Context,
           m.fd = w.net.fd, m.listener = w.net.listener, m.open = w.net.open,
           x \in [net : {m}, os : {w.os}, app : {w.app}]
    PROVE  x \in Worlds /\ Held(x) /\ x.net = m /\ x.app = w.app
<1>1. x.net = m /\ x.os = w.os /\ x.app = w.app
  OBVIOUS
<1>2. x \in Worlds
  BY DEF Worlds
<1> QED  BY <1>1, <1>2 DEF Held

LEMMA GotoFacts ==
    ASSUME NEW w \in Worlds, Held(w), w.net.open, NEW state \in State
    PROVE  LET x == [w EXCEPT !.net.state = state]
           IN  /\ x \in Worlds /\ Held(x) /\ x.app = w.app
               /\ x.net = [w.net EXCEPT !.state = state] /\ x.net.state = state
               /\ x.net.open /\ x.net.fd = w.net.fd
<1> DEFINE x == [w EXCEPT !.net.state = state]
           m == [w.net EXCEPT !.state = state]
<1>1. w.net \in Context
  BY DEF Worlds
<1>2. m \in Context /\ m.fd = w.net.fd /\ m.listener = w.net.listener
      /\ m.open = w.net.open /\ m.state = state
  BY <1>1 DEF Context
<1>3. x \in [net : {m}, os : {w.os}, app : {w.app}]
  <2>1. PICK n \in Context, o \in OsStates, a \in Told :
           w = [net |-> n, os |-> o, app |-> a]
    BY WorldIs
  <2> QED  BY <2>1
<1> HIDE DEF x, m
<1>4. x \in Worlds /\ Held(x) /\ x.net = m /\ x.app = w.app
  BY <1>2, <1>3, StateChange
<1> QED  BY <1>2, <1>4 DEF x, m

LEMMA TriggerErrorFacts ==
    ASSUME Sizes, Callers, NEW w \in Worlds, Held(w), w.net.open
    PROVE  LET x == TriggerError(w)
           IN  /\ Good(x) /\ Alive(w, x) /\ x.net.state \in Over
               /\ Honest(w) => Calm(x) /\ ~x.app.up
<1> DEFINE x == TriggerError(w)
           Again == /\ w.net.state \in {"CONNECTING", "RESOLVING"} /\ AutoReconnects
                    /\ w.net.retries < MAX_RETRIES
<1>1. CASE Again
  <2> DEFINE y == CloseSocket(w)
             m == [y.net EXCEPT !.retries = @ + 1, !.state = "RESOLVING", !.late = FALSE]
  <2>1. y \in Worlds /\ Held(y) /\ y.app = w.app /\ y.net = [w.net EXCEPT !.fd = Invalid]
    BY CloseSocketFacts
  <2>2. x = [y EXCEPT !.net.retries = @ + 1, !.net.state = "RESOLVING", !.net.late = FALSE]
    BY <1>1 DEF TriggerError
  <2> HIDE DEF x, y
  <2>3. /\ y.net \in Context /\ y.net.open /\ y.net.fd = Invalid
        /\ y.net.retries + 1 \in 0 .. MAX_RETRIES /\ "RESOLVING" \in State
    <3>1. w.net \in Context /\ y.net \in Context
      BY <2>1 DEF Worlds
    <3>2. y.net.open /\ y.net.fd = Invalid /\ y.net.retries = w.net.retries
      BY <2>1, <3>1 DEF Context
    <3>3. w.net.retries \in 0 .. MAX_RETRIES
      BY <3>1 DEF Context
    <3> QED  BY <1>1, <3>1, <3>2, <3>3 DEF Sizes, State
  <2>4. /\ m \in Context /\ m.fd = y.net.fd /\ m.listener = y.net.listener
        /\ m.open = y.net.open /\ m.state = "RESOLVING"
    BY <2>3 DEF Context
  <2>5. x \in [net : {m}, os : {y.os}, app : {y.app}]
    <3>1. PICK n \in Context, o \in OsStates, a \in Told :
             y = [net |-> n, os |-> o, app |-> a]
      BY <2>1, WorldIs
    <3> QED  BY <2>2, <3>1
  <2> HIDE DEF m
  <2>6. x \in Worlds /\ Held(x) /\ x.net = m /\ x.app = w.app
    BY <2>1, <2>3, <2>4, <2>5, StateChange
  <2>7. Good(x) /\ Alive(w, x) /\ x.net.state \in Over
    BY <2>3, <2>4, <2>6 DEF Good, Ready, Alive, Over
  <2>8. ASSUME Honest(w) PROVE Calm(x) /\ ~x.app.up
    BY <1>1, <2>4, <2>6, <2>8 DEF Honest, Calm
  <2> QED  BY <2>7, <2>8 DEF x
<1>2. CASE ~Again
  <2> DEFINE y == [w EXCEPT !.net.state = "ERROR"]
  <2>1. x = OnError(y)
    BY <1>2 DEF TriggerError
  <2>2. "ERROR" \in State
    BY DEF State
  <2>3. y \in Worlds /\ Held(y) /\ y.app = w.app /\ y.net.state = "ERROR" /\ y.net.open
    BY <2>2, GotoFacts
  <2> HIDE DEF x, y
  <2>4. /\ Good(x) /\ Alive(y, x) /\ x.net.state \in Over
        /\ ~y.app.twice => Calm(x) /\ ~x.app.up
    BY <2>1, <2>3, OnErrorFacts
  <2> QED  BY <2>3, <2>4 DEF Alive, Honest, x
<1> QED  BY <1>1, <1>2

\* Code that goes on without a context.
LEMMA StaleFacts ==
    ASSUME Sizes, NEW y, Good(y), ~y.net.open, NEW x, x = [y EXCEPT !.app.stale = TRUE]
    PROVE  /\ Good(x) /\ x.net = NoContext /\ x.app.up = y.app.up
           /\ x.app.twice = y.app.twice
<1> DEFINE b == [y.app EXCEPT !.stale = TRUE]
<1>1. y \in Worlds /\ Held(y) /\ y.net = NoContext
  BY DEF Good, Held
<1>2. b \in Told /\ b.stray = y.app.stray /\ b.up = y.app.up /\ b.twice = y.app.twice
  <2>1. y.app \in Told
    BY <1>1 DEF Worlds
  <2> QED  BY <2>1 DEF Told
<1>3. x \in [net : {y.net}, os : {y.os}, app : {b}]
  <2>1. PICK n \in Context, o \in OsStates, a \in Told :
           y = [net |-> n, os |-> o, app |-> a]
    BY <1>1, WorldIs
  <2> QED  BY <2>1
<1> HIDE DEF b
<1>4. x \in Worlds /\ Held(x) /\ x.net = y.net /\ x.app = b
  BY <1>1, <1>2, <1>3, ToldOf
<1> QED  BY <1>1, <1>2, <1>4, NoContextFacts DEF Good, Ready

\* A context that is closed has no socket to close.
LEMMA FailFacts ==
    ASSUME Sizes, Callers, NEW w \in Worlds, Held(w), w.net.open
    PROVE  LET x == Fail(w)
           IN  /\ Good(x) /\ Alive(w, x) /\ x.net.state \in Over
               /\ Honest(w) => Calm(x) /\ ~x.app.up
<1> DEFINE y == TriggerError(w)
           x == Fail(w)
<1>1. /\ Good(y) /\ Alive(w, y) /\ y.net.state \in Over
      /\ Honest(w) => Calm(y) /\ ~y.app.up
  BY TriggerErrorFacts
<1>2. x = Then(y, CloseSocket)
  BY DEF Fail
<1> HIDE DEF x, y
<1>3. CASE y.net.open
  <2>1. x = CloseSocket(y)
    BY <1>2, <1>3 DEF Then
  <2>2. x \in Worlds /\ Held(x) /\ x.net = [y.net EXCEPT !.fd = Invalid] /\ x.app = y.app
    BY <1>1, <2>1, CloseSocketFacts DEF Good
  <2>3. x.net.state = y.net.state /\ x.net.fd = Invalid /\ x.net.open
    BY <1>1, <1>3, <2>2 DEF Good, Worlds, Context
  <2>4. Good(x) /\ Alive(w, x) /\ x.net.state \in Over
    BY <1>1, <1>3, <2>2, <2>3 DEF Good, Ready, Alive
  <2>5. Honest(w) => Calm(x) /\ ~x.app.up
    BY <1>1, <2>2, <2>3 DEF Calm, Over
  <2> QED  BY <2>4, <2>5 DEF x
<1>4. CASE ~y.net.open
  <2>1. x = [y EXCEPT !.app.stale = TRUE]
    BY <1>2, <1>4 DEF Then
  <2>2. ASSUME NobodyDisconnects PROVE FALSE
    BY <1>1, <1>4, <2>2 DEF Alive
  <2>3. Good(x) /\ x.net = NoContext /\ x.app.up = y.app.up /\ x.app.twice = y.app.twice
    BY <1>1, <1>4, <2>1, StaleFacts
  <2>4. Alive(w, x) /\ x.net.state \in Over
    BY <2>2, <2>3, NoContextFacts DEF Alive, Over
  <2>5. Honest(w) => Calm(x) /\ ~x.app.up
    BY <1>1, <2>3, NoContextFacts DEF Calm
  <2> QED  BY <2>3, <2>4, <2>5 DEF x
<1> QED  BY <1>3, <1>4

-------------------------------------------------------------------------------
(* Steps of a connection *)

\* Where a step leaves a context that is in use, and what it leaves of what the
\* application has been told.
Leads(w, x) == Good(x) /\ Alive(w, x) /\ (Calm(w) => Calm(x))

LEMMA LeadsOn ==
    ASSUME NEW w, NEW y, NEW x, Leads(w, y), Leads(y, x)
    PROVE  Leads(w, x)
BY DEF Leads, Alive

LEMMA LeadsNowhere == ASSUME NEW w, Good(w) PROVE Leads(w, w)
BY DEF Leads, Alive

LEMMA StaleLeads ==
    ASSUME Sizes, NEW w, w.net.open, NEW y, Leads(w, y), ~y.net.open,
           NEW x, x = [y EXCEPT !.app.stale = TRUE]
    PROVE  Leads(w, x)
<1>1. ASSUME NobodyDisconnects PROVE FALSE
  BY <1>1 DEF Leads, Alive
<1>2. Good(x) /\ x.net = NoContext /\ x.app.up = y.app.up /\ x.app.twice = y.app.twice
  BY StaleFacts DEF Leads
<1>3. y.net = NoContext
  BY DEF Leads, Good, Held
<1> QED  BY <1>1, <1>2, <1>3 DEF Leads, Alive, Calm

LEMMA FailLeads ==
    ASSUME Sizes, Callers, NEW w, Good(w), w.net.open
    PROVE  Leads(w, Fail(w)) /\ Leads(w, TriggerError(w))
BY FailFacts, TriggerErrorFacts DEF Good, Leads, Honest, Calm

\* A socket that is opened is the context's.
LEMMA OpenedFacts ==
    ASSUME Sizes, NEW w \in Worlds, Held(w), w.net.open, w.net.fd = Invalid,
           NEW d \in FD, w.os[d] = "free"
    PROVE  LET x == [w EXCEPT !.os[d] = "net", !.net.fd = d]
           IN  /\ x \in Worlds /\ Held(x) /\ x.app = w.app
               /\ x.net = [w.net EXCEPT !.fd = d] /\ x.net.fd = d /\ x.net.open
               /\ x.net.state = w.net.state
<1> DEFINE x == [w EXCEPT !.os[d] = "net", !.net.fd = d]
           m == [w.net EXCEPT !.fd = d]
           o == [w.os EXCEPT ![d] = "net"]
<1>1. w.net \in Context /\ w.os \in OsStates
  BY DEF Worlds
<1>2. /\ m \in Context /\ m.fd = d /\ m.listener = w.net.listener /\ m.open
      /\ m.state = w.net.state
  BY <1>1 DEF Context, Descriptor
<1>3. x \in [net : {m}, os : {o}, app : {w.app}]
  <2>1. PICK n \in Context, oo \in OsStates, a \in Told :
           w = [net |-> n, os |-> oo, app |-> a]
    BY WorldIs
  <2> QED  BY <2>1
<1>4. o \in OsStates /\ \A e \in FD : o[e] = IF e = d THEN "net" ELSE w.os[e]
  BY <1>1 DEF OsStates
<1> HIDE DEF x, m, o
<1>5. x.net = m /\ x.os = o /\ x.app = w.app
  BY <1>3
<1>6. x \in Worlds
  BY <1>2, <1>3, <1>4 DEF Worlds
<1>7. w.net.listener # d
  BY NoInvalid DEF Held
<1>8. Held(x)
  BY <1>2, <1>4, <1>5, <1>7, NoInvalid DEF Held
<1> QED  BY <1>2, <1>5, <1>6, <1>8 DEF x, m

LEMMA EstablishedFacts ==
    ASSUME Sizes, Callers, NEW w \in Worlds, Held(w), w.net.open
    PROVE  LET x == Established(w)
           IN  /\ Good(x) /\ Alive(w, x)
               /\ ~w.app.up /\ ~w.app.twice /\ w.net.fd # Invalid => Calm(x)
<1> DEFINE x == Established(w)
<1>1. CASE Secure
  <2>1. x = [w EXCEPT !.net.state = "HANDSHAKE"] /\ "HANDSHAKE" \in State
    BY <1>1 DEF Established, State
  <2>2. /\ x \in Worlds /\ Held(x) /\ x.app = w.app /\ x.net.state = "HANDSHAKE"
        /\ x.net.open /\ x.net.fd = w.net.fd
    BY <2>1, GotoFacts
  <2> HIDE DEF x
  <2> QED  BY <2>2 DEF Good, Ready, Alive, Calm, x
<1>2. CASE ~Secure
  <2> DEFINE y == [w EXCEPT !.net.state = "CONNECTED"]
  <2>1. x = OnConnect(y) /\ "CONNECTED" \in State
    BY <1>2 DEF Established, State
  <2>2. /\ y \in Worlds /\ Held(y) /\ y.app = w.app /\ y.net.state = "CONNECTED"
        /\ y.net.open /\ y.net.fd = w.net.fd
    BY <2>1, GotoFacts
  <2> HIDE DEF x, y
  <2>3. /\ Good(x) /\ Alive(y, x)
        /\ ~y.app.up /\ ~y.app.twice /\ y.net.fd # Invalid => Calm(x)
    BY <2>1, <2>2, OnConnectFacts
  <2> QED  BY <2>2, <2>3 DEF Alive, x
<1> QED  BY <1>1, <1>2

LEMMA ConnectedFacts ==
    ASSUME Sizes, Callers, NEW w \in Worlds, Held(w), w.net.open
    PROVE  LET x == OnConnect([w EXCEPT !.net.state = "CONNECTED"])
           IN  /\ Good(x) /\ Alive(w, x)
               /\ ~w.app.up /\ ~w.app.twice /\ w.net.fd # Invalid => Calm(x)
<1> DEFINE y == [w EXCEPT !.net.state = "CONNECTED"]
           x == OnConnect(y)
<1>1. "CONNECTED" \in State
  BY DEF State
<1>2. /\ y \in Worlds /\ Held(y) /\ y.app = w.app /\ y.net.state = "CONNECTED"
      /\ y.net.open /\ y.net.fd = w.net.fd
  BY <1>1, GotoFacts
<1> HIDE DEF y
<1>3. /\ Good(x) /\ Alive(y, x)
      /\ ~y.app.up /\ ~y.app.twice /\ y.net.fd # Invalid => Calm(x)
  BY <1>2, OnConnectFacts
<1> QED  BY <1>2, <1>3 DEF Alive, y

LEMMA ResolveLeads ==
    ASSUME Sizes, Callers, NEW w, Good(w), w.net.open, w.net.state = "RESOLVING",
           NEW result \in {"dns_failed", "connected", "in_progress", "refused"}
    PROVE  Leads(w, ResolveStep(w, result))
<1> DEFINE d == NewFd(w)
           y == [w EXCEPT !.os[d] = "net", !.net.fd = d]
           x == ResolveStep(w, result)
<1>1. CASE result = "dns_failed" \/ ~HasFd(w)
  BY <1>1, FailLeads DEF ResolveStep
<1>2. CASE ~(result = "dns_failed" \/ ~HasFd(w))
  <2>1. w \in Worlds /\ Held(w) /\ w.net.fd = Invalid
    BY DEF Good, Ready
  <2>2. d \in FD /\ w.os[d] = "free"
    BY <1>2, NewFdFacts
  <2>3. /\ y \in Worlds /\ Held(y) /\ y.app = w.app /\ y.net.open /\ y.net.fd = d
        /\ y.net.state = "RESOLVING"
    <3> HIDE DEF d
    <3> QED  BY <2>1, <2>2, OpenedFacts
  <2>4. d # Invalid
    BY <2>2, NoInvalid
  <2>5. /\ result = "connected" => x = Established(y)
        /\ result = "in_progress" => x = [y EXCEPT !.net.state = "CONNECTING"]
        /\ result = "refused" => x = Fail(y)
    BY <1>2 DEF ResolveStep
  <2>6. Calm(w) => Honest(y) /\ ~y.app.up
    BY <2>3 DEF Calm, Honest
  <2> HIDE DEF d, x, y
  <2>7. CASE result = "connected"
    BY <2>3, <2>4, <2>5, <2>6, <2>7, EstablishedFacts DEF Leads, Alive, Honest, x
  <2>8. CASE result = "in_progress"
    <3>1. "CONNECTING" \in State /\ x = [y EXCEPT !.net.state = "CONNECTING"]
      BY <2>5, <2>8 DEF State
    <3>2. /\ x \in Worlds /\ Held(x) /\ x.app = y.app /\ x.net.state = "CONNECTING"
          /\ x.net.open /\ x.net.fd = d
      BY <2>3, <3>1, GotoFacts
    <3> QED  BY <2>3, <2>4, <2>6, <3>2 DEF Leads, Good, Ready, Alive, Calm, Honest, x
  <2>9. CASE result = "refused"
    BY <2>3, <2>5, <2>6, <2>9, FailFacts DEF Leads, Alive, x
  <2> QED  BY <1>2, <2>7, <2>8, <2>9
<1> QED  BY <1>1, <1>2

LEMMA ConnectLeads ==
    ASSUME Sizes, Callers, NEW w, Good(w), w.net.open, w.net.state = "CONNECTING",
           NEW result \in {"in_progress", "connected", "refused"}
    PROVE  Leads(w, ConnectStep(w, result))
<1> DEFINE x == ConnectStep(w, result)
<1>1. x \in {Fail(w), w, Established(w)}
  BY DEF ConnectStep
<1>2. Leads(w, Fail(w)) /\ Leads(w, w)
  BY FailLeads, LeadsNowhere
<1>3. Leads(w, Established(w))
  <2>1. Calm(w) => ~w.app.up /\ ~w.app.twice /\ w.net.fd # Invalid
    BY DEF Calm
  <2> QED  BY <2>1, EstablishedFacts DEF Leads, Good
<1> QED  BY <1>1, <1>2, <1>3

LEMMA HandshakeLeads ==
    ASSUME Sizes, Callers, NEW w, Good(w), w.net.open, w.net.state = "HANDSHAKE",
           NEW result \in {"again", "connected", "failed"}
    PROVE  Leads(w, HandshakeStep(w, result))
<1> DEFINE y == OnConnect([w EXCEPT !.net.state = "CONNECTED"])
<1>1. HandshakeStep(w, result) \in {TriggerError(w), w, y}
  BY DEF HandshakeStep
<1>2. Leads(w, TriggerError(w)) /\ Leads(w, w)
  BY FailLeads, LeadsNowhere
<1>3. Leads(w, y)
  <2>1. Calm(w) => ~w.app.up /\ ~w.app.twice /\ w.net.fd # Invalid
    BY DEF Calm
  <2> QED  BY <2>1, ConnectedFacts DEF Leads, Good
<1> HIDE DEF y
<1> QED  BY <1>1, <1>2, <1>3

LEMMA AcceptLeads ==
    ASSUME Sizes, Callers, NEW w, Good(w), w.net.open, w.net.state = "LISTENING",
           NEW result \in {"nobody", "client"}
    PROVE  Leads(w, AcceptStep(w, result))
<1> DEFINE d == NewFd(w)
           s == CloseSocket(w)
           y == [s EXCEPT !.os[d] = "net", !.net.fd = d]
           x == AcceptStep(w, result)
<1>1. CASE result = "nobody" \/ ~HasFd(w)
  BY <1>1, LeadsNowhere DEF AcceptStep
<1>2. CASE ~(result = "nobody" \/ ~HasFd(w))
  <2>1. w \in Worlds /\ Held(w)
    BY DEF Good
  <2>2. d \in FD /\ w.os[d] = "free" /\ d # Invalid
    BY <1>2, NewFdFacts, NoInvalid
  <2>3. /\ s \in Worlds /\ Held(s) /\ s.app = w.app /\ s.net.open /\ s.net.fd = Invalid
        /\ s.net.state = "LISTENING" /\ s.net.listener = w.net.listener
    <3>1. s \in Worlds /\ Held(s) /\ s.app = w.app /\ s.net = [w.net EXCEPT !.fd = Invalid]
      BY <2>1, CloseSocketFacts
    <3> HIDE DEF s
    <3> QED  BY <2>1, <3>1 DEF Worlds, Context
  <2>4. s.os[d] = "free"
    <3>1. w.os \in OsStates
      BY <2>1 DEF Worlds
    <3> HIDE DEF d
    <3>2. s.os \in OsStates
      BY <2>3 DEF Worlds
    <3>3. s.os = w.os \/ s.os = [w.os EXCEPT ![w.net.fd] = "free"]
      <4>1. PICK n \in Context, o \in OsStates, a \in Told :
               w = [net |-> n, os |-> o, app |-> a]
        BY <2>1, WorldIs
      <4> QED  BY <4>1 DEF CloseSocket, Close
    <3> HIDE DEF s
    <3> QED  BY <2>2, <3>1, <3>3 DEF OsStates
  <2>5. /\ y \in Worlds /\ Held(y) /\ y.app = w.app /\ y.net.open /\ y.net.fd = d
        /\ y.net.state = "LISTENING"
    <3> HIDE DEF d, s
    <3> QED  BY <2>2, <2>3, <2>4, OpenedFacts
  <2>6. Calm(w) => Honest(y) /\ ~y.app.up
    BY <2>5 DEF Calm, Honest
  <2>7. x = CASE ~HasLogin -> OnConnect([y EXCEPT !.net.state = "CONNECTED"])
              [] HasLogin /\ ~Secure -> Fail(y)
              [] HasLogin /\ Secure -> [y EXCEPT !.net.state = "AUTH", !.net.auth = "user",
                                                 !.net.input = << >>]
    BY <1>2 DEF AcceptStep
  <2> HIDE DEF d, s, x, y
  <2>8. CASE ~HasLogin
    <3>1. x = OnConnect([y EXCEPT !.net.state = "CONNECTED"])
      BY <2>7, <2>8
    <3> QED  BY <2>2, <2>5, <2>6, <3>1, ConnectedFacts DEF Leads, Alive, Honest, x
  <2>9. CASE HasLogin /\ ~Secure
    <3>1. x = Fail(y)
      BY <2>7, <2>9
    <3> QED  BY <2>5, <2>6, <3>1, FailFacts DEF Leads, Alive, x
  <2>10. CASE HasLogin /\ Secure
    <3> DEFINE m == [y.net EXCEPT !.state = "AUTH", !.auth = "user", !.input = << >>]
    <3>1. x \in [net : {m}, os : {y.os}, app : {y.app}]
      <4>1. PICK n \in Context, o \in OsStates, a \in Told :
               y = [net |-> n, os |-> o, app |-> a]
        BY <2>5, WorldIs
      <4> QED  BY <2>7, <2>10, <4>1
    <3>2. y.net \in Context /\ "AUTH" \in State /\ << >> \in Line
      BY <2>5 DEF Worlds, State, Line, Sizes
    <3>3. /\ m \in Context /\ m.fd = y.net.fd /\ m.listener = y.net.listener
          /\ m.open = y.net.open /\ m.state = "AUTH"
      BY <3>2 DEF Context
    <3> HIDE DEF m
    <3>4. x \in Worlds /\ Held(x) /\ x.net = m /\ x.app = y.app
      BY <2>5, <3>1, <3>3, StateChange
    <3> QED  BY <2>2, <2>5, <2>6, <2>10, <3>3, <3>4
             DEF Leads, Good, Ready, Alive, Calm, Honest, x
  <2> QED  BY <2>8, <2>9, <2>10
<1> QED  BY <1>1, <1>2

-------------------------------------------------------------------------------
(* The login *)

\* With other contents, the connection is what it was.
LEMMA EditLeads ==
    ASSUME NEW w, Good(w), w.net.open, NEW x, NEW m \in Context,
           m.fd = w.net.fd, m.listener = w.net.listener, m.open = w.net.open,
           m.state = w.net.state, x \in [net : {m}, os : {w.os}, app : {w.app}]
    PROVE  Leads(w, x)
<1>1. x \in Worlds /\ Held(x) /\ x.net = m /\ x.app = w.app
  BY StateChange DEF Good
<1> QED  BY <1>1 DEF Leads, Good, Ready, Alive, Calm

\* From here on, what a byte of the login leads to if the login is not yet decided.
Undecided(w, x) == Good(x) /\ Alive(w, x) /\ (w.net.state = "AUTH" => Leads(w, x))

LEMMA LeadsUndecided == ASSUME NEW w, NEW x, Leads(w, x) PROVE Undecided(w, x)
BY DEF Leads, Undecided

LEMMA RejectedFacts ==
    ASSUME Sizes, NEW w, Good(w), w.net.open
    PROVE  Undecided(w, CloseSocket([w EXCEPT !.net.state = "DISCONNECTED"]))
<1> DEFINE y == [w EXCEPT !.net.state = "DISCONNECTED"]
           x == CloseSocket(y)
<1>1. "DISCONNECTED" \in State
  BY DEF State
<1>2. /\ y \in Worlds /\ Held(y) /\ y.app = w.app /\ y.net.state = "DISCONNECTED"
      /\ y.net.open
  BY <1>1, GotoFacts DEF Good
<1> HIDE DEF y
<1>3. x \in Worlds /\ Held(x) /\ x.app = y.app /\ x.net = [y.net EXCEPT !.fd = Invalid]
  BY <1>2, CloseSocketFacts
<1>4. x.net.state = "DISCONNECTED" /\ x.net.open
  BY <1>2, <1>3 DEF Worlds, Context
<1> HIDE DEF x
<1>5. Undecided(w, x)
  BY <1>2, <1>3, <1>4 DEF Undecided, Leads, Good, Ready, Alive, Calm
<1> QED  BY <1>5 DEF x, y

LEMMA LoginLineFacts ==
    ASSUME Sizes, Callers, NEW w, Good(w), w.net.open
    PROVE  Undecided(w, LoginLine(w))
<1> DEFINE x == LoginLine(w)
           y == OnConnect([w EXCEPT !.net.state = "CONNECTED"])
           z == CloseSocket([w EXCEPT !.net.state = "DISCONNECTED"])
           u == [w EXCEPT !.net.user = w.net.input, !.net.auth = "pass", !.net.input = << >>]
<1>1. x \in {w, u, y, z}
  BY DEF LoginLine
<1>2. Undecided(w, w)
  BY LeadsNowhere, LeadsUndecided
<1>3. Undecided(w, u)
  <2> DEFINE m == [w.net EXCEPT !.user = w.net.input, !.auth = "pass", !.input = << >>]
  <2>1. u \in [net : {m}, os : {w.os}, app : {w.app}]
    <3>1. PICK n \in Context, o \in OsStates, a \in Told :
             w = [net |-> n, os |-> o, app |-> a]
      BY WorldIs DEF Good
    <3> QED  BY <3>1
  <2>2. w.net \in Context /\ << >> \in Line /\ w.net.input \in Line
    BY DEF Good, Worlds, Line, Sizes, Context
  <2>3. /\ m \in Context /\ m.fd = w.net.fd /\ m.listener = w.net.listener
        /\ m.open = w.net.open /\ m.state = w.net.state
    BY <2>2 DEF Context
  <2> HIDE DEF u, m
  <2> QED  BY <2>1, <2>3, EditLeads, LeadsUndecided
<1>4. Undecided(w, y)
  <2>1. w.net.state = "AUTH" /\ Calm(w) => ~w.app.up /\ ~w.app.twice /\ w.net.fd # Invalid
    BY DEF Calm
  <2> HIDE DEF y
  <2>2. /\ Good(y) /\ Alive(w, y)
        /\ ~w.app.up /\ ~w.app.twice /\ w.net.fd # Invalid => Calm(y)
    BY ConnectedFacts DEF Good, y
  <2> QED  BY <2>1, <2>2 DEF Undecided, Leads
<1>5. Undecided(w, z)
  BY RejectedFacts
<1> HIDE DEF x, y, z, u
<1> QED  BY <1>1, <1>2, <1>3, <1>4, <1>5 DEF x

LEMMA LoginByteFacts ==
    ASSUME Sizes, Callers, NEW w, Good(w), w.net.open, NEW byte \in LoginBytes
    PROVE  Undecided(w, LoginByte(w, byte))
<1> DEFINE x == LoginByte(w, byte)
           Next1 == IF w.net.telnet = "iac" /\ byte = "do" THEN "do" ELSE "normal"
           t == [w EXCEPT !.net.telnet = Next1]
           i == [w EXCEPT !.net.telnet = "iac"]
           f == [w EXCEPT !.net.input = Front(@)]
           a == [w EXCEPT !.net.input = Append(@, byte)]
<1>1. \/ x = LoginLine(w) \/ x = w \/ x = t \/ x = i
      \/ x = f /\ w.net.input # << >>
      \/ x = a /\ Len(w.net.input) < AUTH_MAX
  BY DEF LoginByte, Then
<1>2. PICK n \in Context, o \in OsStates, p \in Told :
         w = [net |-> n, os |-> o, app |-> p]
  BY WorldIs DEF Good
<1>3. ASSUME NEW y, NEW telnet \in {"normal", "iac", "do"}, y = [w EXCEPT !.net.telnet = telnet]
      PROVE  Undecided(w, y)
  <2> DEFINE m == [n EXCEPT !.telnet = telnet]
  <2>1. y \in [net : {m}, os : {w.os}, app : {w.app}]
    BY <1>2, <1>3
  <2>2. /\ m \in Context /\ m.fd = n.fd /\ m.listener = n.listener
        /\ m.open = n.open /\ m.state = n.state
    BY DEF Context
  <2> HIDE DEF m
  <2> QED  BY <1>2, <2>1, <2>2, EditLeads, LeadsUndecided
<1>4. ASSUME NEW y, NEW line \in Line, y = [w EXCEPT !.net.input = line]
      PROVE  Undecided(w, y)
  <2> DEFINE m == [n EXCEPT !.input = line]
  <2>1. y \in [net : {m}, os : {w.os}, app : {w.app}]
    BY <1>2, <1>4
  <2>2. /\ m \in Context /\ m.fd = n.fd /\ m.listener = n.listener
        /\ m.open = n.open /\ m.state = n.state
    BY DEF Context
  <2> HIDE DEF m
  <2> QED  BY <1>2, <2>1, <2>2, EditLeads, LeadsUndecided
<1>5. n.input \in Seq(LoginBytes) /\ Len(n.input) <= AUTH_MAX /\ AUTH_MAX \in Nat
  BY DEF Context, Line, Sizes
<1>6. CASE x = f /\ w.net.input # << >>
  <2>1. Front(n.input) \in Line
    BY <1>2, <1>5, <1>6 DEF Line, Front
  <2>2. f = [w EXCEPT !.net.input = Front(n.input)]
    BY <1>2
  <2> HIDE DEF x, f
  <2> QED  BY <1>4, <1>6, <2>1, <2>2 DEF x
<1>7. CASE x = a /\ Len(w.net.input) < AUTH_MAX
  <2>1. Append(n.input, byte) \in Line
    BY <1>2, <1>5, <1>7 DEF Line
  <2>2. a = [w EXCEPT !.net.input = Append(n.input, byte)]
    BY <1>2
  <2> HIDE DEF x, a
  <2> QED  BY <1>4, <1>7, <2>1, <2>2 DEF x
<1>8. Undecided(w, t) /\ Undecided(w, i)
  <2>1. Next1 \in {"normal", "iac", "do"}
    OBVIOUS
  <2> HIDE DEF Next1
  <2> QED  BY <1>3, <2>1
<1>9. Undecided(w, w) /\ Undecided(w, LoginLine(w))
  BY LeadsNowhere, LeadsUndecided, LoginLineFacts
<1> HIDE DEF x, t, i, f, a
<1> QED  BY <1>1, <1>6, <1>7, <1>8, <1>9 DEF x

\* Induction, on a set of numbers.
LEMMA Upward ==
    ASSUME NEW S, 0 \in S, \A n \in Nat : n \in S => n + 1 \in S
    PROVE  Nat \subseteq S
<1> DEFINE R == {ss \in Nat \X Nat : ss[1] < ss[2]}
           T == Nat \ S
<1>1. IsWellFoundedOn(R, Nat)
  <2>1. R = OpToRel(<, Nat)
    BY DEF OpToRel
  <2> QED  BY <2>1, NatLessThanWellFounded
<1>2. ASSUME T # {} PROVE FALSE
  <2>1. PICK n \in T : \A m \in T : ~(<<m, n>> \in R)
    <3>1. T \subseteq Nat
      OBVIOUS
    <3> HIDE DEF R, T
    <3> QED  BY <1>1, <1>2, <3>1, WFMin
  <2>2. n \in Nat /\ n # 0 /\ n \notin S
    BY <2>1
  <2>3. n - 1 \in Nat /\ n - 1 < n /\ (n - 1) + 1 = n
    BY <2>2
  <2>4. <<n - 1, n>> \in R
    BY <2>2, <2>3
  <2>5. n - 1 \notin T
    BY <2>1, <2>4
  <2> QED  BY <2>2, <2>3, <2>5
<1> QED  BY <1>2

\* tr[k] is what the first k bytes of q make of s.
Trail(tr, s, q) == tr[0] = s /\ \A k \in 1 .. Len(q) : tr[k] = LoginByte(tr[k - 1], q[k])

\* The recursion by which FoldLeft goes through n bytes.
Fold(F, s, q, n) ==
    F = [S \in SUBSET (1 .. n) |->
            IF S = {} THEN s
            ELSE LET k == CHOOSE x \in S : \A z \in S : x >= z
                 IN  LoginByte(F[S \ {k}], q[k])]

\* That recursion has a solution for any number of bytes.
LEMMA FoldExists ==
    ASSUME NEW s, NEW q, NEW n \in Nat
    PROVE  \E F : Fold(F, s, q, n)
<1> DEFINE K == {m \in Nat : \E F : Fold(F, s, q, m)}
           Largest(S) == CHOOSE x \in S : \A z \in S : x >= z
<1>1. 0 \in K
  <2> DEFINE F == [S \in SUBSET (1 .. 0) |-> s]
  <2>1. \A S \in SUBSET (1 .. 0) : S = {}
    OBVIOUS
  <2>2. Fold(F, s, q, 0)
    BY <2>1 DEF Fold
  <2> QED  BY <2>2
<1>2. ASSUME NEW m \in Nat, m \in K PROVE m + 1 \in K
  <2>1. PICK F : Fold(F, s, q, m)
    BY <1>2
  <2> DEFINE G == [S \in SUBSET (1 .. m + 1) |->
                     IF m + 1 \in S THEN LoginByte(F[S \ {m + 1}], q[m + 1]) ELSE F[S]]
  <2>2. ASSUME NEW S \in SUBSET (1 .. m + 1)
        PROVE  G[S] = IF S = {} THEN s ELSE LoginByte(G[S \ {Largest(S)}], q[Largest(S)])
    <3>1. CASE m + 1 \in S
      <4>1. Largest(S) = m + 1 /\ S # {}
        <5>1. \A x \in S : x \in Int /\ m + 1 >= x
          OBVIOUS
        <5>2. \A x \in S : (\A z \in S : x >= z) => x = m + 1
          BY <3>1, <5>1
        <5> QED  BY <3>1, <5>1, <5>2
      <4>2. m + 1 \notin S \ {m + 1} /\ S \ {m + 1} \in SUBSET (1 .. m + 1)
        OBVIOUS
      <4>3. G[S \ {m + 1}] = F[S \ {m + 1}]
        BY <4>2
      <4> QED  BY <3>1, <4>1, <4>3
    <3>2. CASE m + 1 \notin S
      <4>1. S \in SUBSET (1 .. m)
        BY <3>2
      <4>2. F[S] = IF S = {} THEN s ELSE LoginByte(F[S \ {Largest(S)}], q[Largest(S)])
        BY <2>1, <4>1 DEF Fold
      <4>3. G[S] = F[S]
        BY <3>2
      <4>4. m + 1 \notin S \ {Largest(S)} /\ S \ {Largest(S)} \in SUBSET (1 .. m + 1)
        BY <3>2
      <4>5. G[S \ {Largest(S)}] = F[S \ {Largest(S)}]
        BY <4>4
      <4> QED  BY <4>2, <4>3, <4>5
    <3> QED  BY <3>1, <3>2
  <2>3. Fold(G, s, q, m + 1)
    <3>1. G = [S \in SUBSET (1 .. m + 1) |-> G[S]]
      OBVIOUS
    <3> HIDE DEF G
    <3> QED  BY <2>2, <3>1 DEF Fold
  <2> HIDE DEF G
  <2> QED  BY <2>3
<1> HIDE DEF K
<1>3. n \in K
  BY <1>1, <1>2, Upward
<1> QED  BY <1>3 DEF K

\* FoldLeft goes through the bytes from the first.
LEMMA FoldTrail ==
    ASSUME NEW s, NEW q \in Seq(LoginBytes)
    PROVE  \E tr : Trail(tr, s, q) /\ FoldLeft(LoginByte, s, q) = tr[Len(q)]
<1> DEFINE n == Len(q)
           F == CHOOSE f : Fold(f, s, q, n)
           tr == [k \in 0 .. n |-> F[1 .. k]]
<1>1. n \in Nat /\ DOMAIN q = 1 .. n
  OBVIOUS
<1>2. FoldLeft(LoginByte, s, q) = F[1 .. n]
  BY <1>1 DEF FoldLeft, MapThenFoldSet, Fold, Max
<1>3. Fold(F, s, q, n)
  BY <1>1, FoldExists
<1> HIDE DEF F
<1>4. tr[0] = s
  <2>1. tr[0] = F[1 .. 0] /\ 1 .. 0 = {} /\ 1 .. 0 \in SUBSET (1 .. n)
    BY <1>1
  <2> QED  BY <1>3, <2>1 DEF Fold
<1>5. ASSUME NEW k \in 1 .. n PROVE tr[k] = LoginByte(tr[k - 1], q[k])
  <2> DEFINE S == 1 .. k
             last == CHOOSE x \in S : \A z \in S : x >= z
  <2>1. S \in SUBSET (1 .. n) /\ k \in S /\ \A z \in S : z \in Int /\ k >= z
    BY <1>1
  <2>2. \A x \in S : (\A z \in S : x >= z) => x = k
    BY <2>1
  <2>3. last = k /\ S # {}
    BY <2>1, <2>2
  <2>4. S \ {k} = 1 .. k - 1
    BY <1>1
  <2> HIDE DEF S
  <2>5. F[S] = LoginByte(F[S \ {k}], q[k])
    BY <1>3, <2>1, <2>3 DEF Fold
  <2>6. tr[k] = F[S] /\ tr[k - 1] = F[1 .. k - 1]
    BY <1>1 DEF S
  <2> QED  BY <2>4, <2>5, <2>6
<1>6. tr[n] = F[1 .. n]
  BY <1>1
<1> HIDE DEF tr
<1>7. Trail(tr, s, q)
  BY <1>4, <1>5 DEF Trail
<1> QED  BY <1>2, <1>6, <1>7

LEMMA LoginFacts ==
    ASSUME Sizes, Callers, NEW w, Good(w), w.net.open, NEW bytes \in Seq(LoginBytes)
    PROVE  /\ Good(Login(w, bytes)) /\ Alive(w, Login(w, bytes))
           /\ w.net.state = "AUTH" /\ Len(bytes) <= 1 => Leads(w, Login(w, bytes))
<1>1. PICK tr : Trail(tr, w, bytes) /\ Login(w, bytes) = tr[Len(bytes)]
  BY FoldTrail DEF Login
<1>2. Len(bytes) \in Nat /\ \A k \in 1 .. Len(bytes) : bytes[k] \in LoginBytes
  OBVIOUS
<1> DEFINE Reached == {k \in Nat : k <= Len(bytes) => Good(tr[k]) /\ Alive(w, tr[k])}
<1>3. 0 \in Reached
  BY <1>1 DEF Trail, Alive
<1>4. ASSUME NEW k \in Nat, k \in Reached PROVE k + 1 \in Reached
  <2> SUFFICES ASSUME k + 1 <= Len(bytes) PROVE Good(tr[k + 1]) /\ Alive(w, tr[k + 1])
    OBVIOUS
  <2> DEFINE y == tr[k]
             b == bytes[k + 1]
             x == tr[k + 1]
  <2>1. Good(y) /\ Alive(w, y) /\ k + 1 \in 1 .. Len(bytes) /\ (k + 1) - 1 = k
    BY <1>2, <1>4
  <2>2. x = LoginByte(y, b) /\ b \in LoginBytes
    BY <1>1, <1>2, <2>1 DEF Trail
  <2> HIDE DEF x, y, b
  <2>3. CASE y.net.open
    <3>1. Undecided(y, x)
      BY <2>1, <2>2, <2>3, LoginByteFacts
    <3> QED  BY <2>1, <3>1 DEF Undecided, Alive, x
  <2>4. CASE ~y.net.open
    <3>1. x = [y EXCEPT !.app.stale = TRUE]
      BY <2>2, <2>4 DEF LoginByte, Then
    <3>2. Good(x)
      BY <2>1, <2>4, <3>1, StaleFacts
    <3>3. Alive(w, x)
      BY <2>1, <2>4 DEF Alive
    <3> QED  BY <3>2, <3>3 DEF x
  <2> QED  BY <2>3, <2>4
<1>5. Len(bytes) \in Reached
  <2> HIDE DEF Reached
  <2> QED  BY <1>2, <1>3, <1>4, Upward
<1>6. ASSUME w.net.state = "AUTH", Len(bytes) <= 1 PROVE Leads(w, tr[Len(bytes)])
  <2>1. CASE Len(bytes) = 0
    BY <1>1, <2>1, LeadsNowhere DEF Trail
  <2>2. CASE Len(bytes) = 1
    <3>1. 1 \in 1 .. Len(bytes) /\ 1 - 1 = 0
      BY <2>2
    <3>2. tr[1] = LoginByte(w, bytes[1]) /\ bytes[1] \in LoginBytes
      BY <1>1, <1>2, <3>1 DEF Trail
    <3> QED  BY <1>6, <2>2, <3>2, LoginByteFacts DEF Undecided
  <2>3. Len(bytes) = 0 \/ Len(bytes) = 1
    <3>1. \A n \in Nat : n <= 1 => n = 0 \/ n = 1
      OBVIOUS
    <3>2. Len(bytes) \in Nat
      OBVIOUS
    <3> HIDE DEF Reached
    <3> QED  BY ONLY <1>6, <3>1, <3>2
  <2> HIDE DEF Reached
  <2> QED  BY <2>1, <2>2, <2>3
<1> QED  BY <1>1, <1>2, <1>5, <1>6

-------------------------------------------------------------------------------
(* What is read and written *)

\* What a read may give: no frame is too large, and the bytes are those of a peer
\* that logs in.
ReadOf(read) ==
    /\ read.kind # "too_large"
    /\ read.bytes \in Seq(LoginBytes)

\* Where the login ends with the bytes that are read.
Short(w, read) == w.net.state = "AUTH" => Len(read.bytes) <= 1

\* What a call leads to: with short reads also of what the application is told.
Comes(w, x, short) == Good(x) /\ Alive(w, x) /\ (short => Leads(w, x))

LEMMA LeadsComes == ASSUME NEW w, NEW x, NEW short, Leads(w, x) PROVE Comes(w, x, short)
BY DEF Leads, Comes

\* Then, with nothing more to do.
LEMMA ThenFacts ==
    ASSUME Sizes, NEW w, w.net.open, NEW y, NEW short, Comes(w, y, short)
    PROVE  Comes(w, Then(y, LAMBDA v : v), short)
<1> DEFINE x == Then(y, LAMBDA v : v)
<1>1. CASE y.net.open
  BY <1>1 DEF Then
<1>2. CASE ~y.net.open
  <2>1. x = [y EXCEPT !.app.stale = TRUE]
    BY <1>2 DEF Then
  <2> HIDE DEF x
  <2>2. Good(x)
    BY <1>2, <2>1, StaleFacts DEF Comes
  <2>3. Alive(w, x)
    BY <1>2 DEF Comes, Alive
  <2>4. short => Leads(w, x)
    BY <1>2, <2>1, StaleLeads DEF Comes
  <2> QED  BY <2>2, <2>3, <2>4 DEF Comes, x
<1> QED  BY <1>1, <1>2

\* The application reads, and may end or begin a connection.
LEMMA OnDataLeads ==
    ASSUME Sizes, Callers, NEW w, Good(w), w.net.open
    PROVE  Leads(w, OnData(w))
<1>1. "on_data" \in Callback
  BY DEF Callback
<1> DEFINE x == OnData(w)
<1>2. /\ Outcome(w, x)
      /\ (w.app.up => w.net.state = "CONNECTED") => (x.app.up => x.net.state = "CONNECTED")
  BY <1>1, ReactFacts DEF OnData, Good
<1> HIDE DEF x
<1>3. Good(x)
  BY <1>2, NoContextFacts DEF Outcome, Good, Ready
<1>4. Alive(w, x)
  BY <1>2 DEF Outcome, Alive
<1>5. ASSUME Calm(w) PROVE Calm(x)
  BY <1>2, <1>5, NoContextFacts DEF Outcome, Calm
<1> QED  BY <1>3, <1>4, <1>5 DEF Leads, x

\* The end of the stream.
LEMMA ClosedLeads ==
    ASSUME Sizes, NEW w, Good(w), w.net.open
    PROVE  Leads(w, Then(OnDisconnect([w EXCEPT !.net.state = "DISCONNECTED"]), CloseSocket))
<1> DEFINE y == [w EXCEPT !.net.state = "DISCONNECTED"]
           z == OnDisconnect(y)
           x == Then(z, CloseSocket)
<1>1. "DISCONNECTED" \in State
  BY DEF State
<1>2. /\ y \in Worlds /\ Held(y) /\ y.app = w.app /\ y.net.state = "DISCONNECTED"
      /\ y.net.open
  BY <1>1, GotoFacts DEF Good
<1> HIDE DEF y
<1>3. /\ z \in Worlds /\ Held(z) /\ ~z.app.up
      /\ z.app.twice = w.app.twice /\ z.app.stale = w.app.stale
      /\ z.net.open /\ z.net.state \in {"DISCONNECTED", "RESOLVING"}
  BY <1>2, OnDisconnectFacts
<1> HIDE DEF z
<1>4. x = CloseSocket(z)
  BY <1>3 DEF Then
<1> HIDE DEF x
<1>5. x \in Worlds /\ Held(x) /\ x.app = z.app /\ x.net = [z.net EXCEPT !.fd = Invalid]
  BY <1>3, <1>4, CloseSocketFacts
<1>6. x.net.fd = Invalid /\ x.net.state = z.net.state /\ x.net.open
  BY <1>3, <1>5 DEF Worlds, Context
<1>7. Leads(w, x)
  BY <1>3, <1>5, <1>6 DEF Leads, Good, Ready, Alive, Calm
<1> QED  BY <1>7 DEF x, y, z

LEMMA ReceiveFacts ==
    ASSUME Sizes, Callers, NEW w, Good(w), w.net.open, NEW read, ReadOf(read)
    PROVE  Comes(w, Receive(w, read), Short(w, read))
<1> DEFINE x == Receive(w, read)
           z == Then(OnDisconnect([w EXCEPT !.net.state = "DISCONNECTED"]), CloseSocket)
           u == Then(OnData(w), LAMBDA v : v)
<1>1. \/ x = Fail(w) \/ x = u \/ x = z \/ x = w
      \/ x = Login(w, read.bytes) /\ w.net.state = "AUTH"
  <2> HIDE DEF u, z
  <2>1. Receive(w, read) =
          CASE w.net.fd = Invalid \/ read.kind = "error" -> Fail(w)
            [] w.net.fd # Invalid /\ read.kind = "data" /\ w.net.state = "AUTH" ->
                  Login(w, read.bytes)
            [] w.net.fd # Invalid /\ read.kind = "data" /\ w.net.state # "AUTH" -> u
            [] w.net.fd # Invalid /\ read.kind = "too_large" ->
                  Then(TriggerError(w), LAMBDA v : Close(v, v.net.fd))
            [] w.net.fd # Invalid /\ read.kind = "closed" -> z
            [] OTHER -> w
    BY DEF Receive, u, z
  <2>2. read.kind # "too_large"
    BY DEF ReadOf
  <2> QED  BY <2>1, <2>2
<1> HIDE DEF x
<1>2. Comes(w, Fail(w), Short(w, read)) /\ Comes(w, w, Short(w, read))
  BY FailLeads, LeadsNowhere, LeadsComes
<1>3. Comes(w, u, Short(w, read))
  BY OnDataLeads, LeadsComes, ThenFacts
<1>4. Comes(w, z, Short(w, read))
  BY ClosedLeads, LeadsComes
<1>5. CASE x = Login(w, read.bytes) /\ w.net.state = "AUTH"
  <2>1. read.bytes \in Seq(LoginBytes)
    BY DEF ReadOf
  <2>2. Comes(w, Login(w, read.bytes), Short(w, read))
    BY <1>5, <2>1, LoginFacts DEF Comes, Short
  <2> QED  BY <1>5, <2>2 DEF x
<1> HIDE DEF z, u
<1> QED  BY <1>1, <1>2, <1>3, <1>4, <1>5 DEF x

LEMMA TransferFacts ==
    ASSUME Sizes, Callers, NEW w, Good(w), w.net.open, NEW read, ReadOf(read), NEW written
    PROVE  Comes(w, Transfer(w, written, read), Short(w, read))
<1> DEFINE y == IF written = "failed" THEN Fail(w) ELSE w
           x == Transfer(w, written, read)
<1>1. Leads(w, y)
  BY FailLeads, LeadsNowhere
<1>2. y.net.open /\ Short(w, read) => Short(y, read)
  <2>1. CASE written = "failed"
    <3>1. y.net.state \in Over
      BY <2>1, FailFacts DEF Good
    <3> QED  BY <3>1 DEF Over, Short
  <2>2. CASE written # "failed"
    BY <2>2
  <2> QED  BY <2>1, <2>2
<1>3. x = Then(y, LAMBDA v : Receive(v, read))
  BY DEF Transfer
<1> HIDE DEF x, y
<1>4. CASE y.net.open
  <2>1. x = Receive(y, read)
    BY <1>3, <1>4 DEF Then
  <2>2. Comes(y, x, Short(y, read))
    BY <1>1, <1>4, <2>1, ReceiveFacts DEF Leads
  <2> QED  BY <1>1, <1>2, <1>4, <2>2, LeadsOn DEF Comes, Leads, Alive, x
<1>5. CASE ~y.net.open
  <2>1. x = [y EXCEPT !.app.stale = TRUE]
    BY <1>3, <1>5 DEF Then
  <2> QED  BY <1>1, <1>5, <2>1, StaleLeads, LeadsComes DEF x
<1> QED  BY <1>4, <1>5

-------------------------------------------------------------------------------
(* Listening *)

\* What is left of a context that is about to listen: no socket and no listener.
LEMMA ResetFacts ==
    ASSUME Sizes, NEW w0 \in Worlds, Held(w0)
    PROVE  LET w == CloseSocket(CloseListener(CreateContext(w0)))
               x == [w EXCEPT !.net.auth = "none", !.net.server = TRUE,
                              !.net.telnet = "normal", !.app.up = FALSE, !.app.ends = 0]
           IN  /\ x \in Worlds /\ Held(x) /\ x.net.open
               /\ x.net.fd = Invalid /\ x.net.listener = Invalid
               /\ ~x.app.up /\ x.app.twice = w0.app.twice /\ x.app.stale = w0.app.stale
<1> DEFINE c == CreateContext(w0)
           l == CloseListener(c)
           w == CloseSocket(l)
           x == [w EXCEPT !.net.auth = "none", !.net.server = TRUE,
                          !.net.telnet = "normal", !.app.up = FALSE, !.app.ends = 0]
<1>1. c \in Worlds /\ Held(c) /\ c.net.open /\ c.app = w0.app
  BY CreateContextFacts
<1> HIDE DEF c
<1>2. l \in Worlds /\ Held(l) /\ l.net = [c.net EXCEPT !.listener = Invalid] /\ l.app = c.app
  BY <1>1, CloseListenerFacts
<1>3. l.net.open /\ l.net.listener = Invalid
  BY <1>1, <1>2 DEF Worlds, Context
<1> HIDE DEF l
<1>4. w \in Worlds /\ Held(w) /\ w.net = [l.net EXCEPT !.fd = Invalid] /\ w.app = l.app
  BY <1>2, CloseSocketFacts
<1>5. w.net.open /\ w.net.listener = Invalid /\ w.net.fd = Invalid
  BY <1>2, <1>3, <1>4 DEF Worlds, Context
<1> HIDE DEF w
<1>6. PICK n \in Context, o \in OsStates, a \in Told : w = [net |-> n, os |-> o, app |-> a]
  BY <1>4, WorldIs
<1> DEFINE m == [n EXCEPT !.auth = "none", !.server = TRUE, !.telnet = "normal"]
           b == [a EXCEPT !.up = FALSE, !.ends = 0]
<1>7. x \in [net : {m}, os : {o}, app : {b}]
  BY <1>6
<1>8. m \in Context /\ m.fd = n.fd /\ m.listener = n.listener /\ m.open = n.open
  BY DEF Context
<1>9. b \in Told /\ b.up = FALSE /\ b.twice = a.twice /\ b.stale = a.stale
      /\ b.stray = a.stray
  BY DEF Told
<1> HIDE DEF x, m, b
<1>10. x.net = m /\ x.os = o /\ x.app = b /\ x \in Worlds
  BY <1>7, <1>8, <1>9 DEF Worlds
<1>11. Held(x)
  BY <1>4, <1>5, <1>6, <1>8, <1>9, <1>10, HeldSame
<1>12. w.app = w0.app /\ w.app = a /\ w.net = n
  BY <1>1, <1>2, <1>4, <1>6
<1>13. /\ x \in Worlds /\ Held(x) /\ x.net.open
       /\ x.net.fd = Invalid /\ x.net.listener = Invalid
       /\ ~x.app.up /\ x.app.twice = w0.app.twice /\ x.app.stale = w0.app.stale
  BY <1>5, <1>8, <1>9, <1>10, <1>11, <1>12
<1> QED  BY <1>13 DEF x, w, l, c

\* A listener that is opened is the context's.
LEMMA BoundFacts ==
    ASSUME Sizes, NEW w \in Worlds, Held(w), w.net.open, w.net.listener = Invalid,
           w.net.fd = Invalid, NEW d \in FD, w.os[d] = "free"
    PROVE  LET x == [w EXCEPT !.os[d] = "net", !.net.listener = d]
           IN  /\ x \in Worlds /\ Held(x) /\ x.app = w.app /\ x.net.open
               /\ x.net.fd = Invalid
<1> DEFINE x == [w EXCEPT !.os[d] = "net", !.net.listener = d]
           m == [w.net EXCEPT !.listener = d]
           o == [w.os EXCEPT ![d] = "net"]
<1>1. w.net \in Context /\ w.os \in OsStates
  BY DEF Worlds
<1>2. m \in Context /\ m.listener = d /\ m.fd = Invalid /\ m.open
  BY <1>1 DEF Context, Descriptor
<1>3. x \in [net : {m}, os : {o}, app : {w.app}]
  <2>1. PICK n \in Context, oo \in OsStates, a \in Told :
           w = [net |-> n, os |-> oo, app |-> a]
    BY WorldIs
  <2> QED  BY <2>1
<1>4. o \in OsStates /\ \A e \in FD : o[e] = IF e = d THEN "net" ELSE w.os[e]
  BY <1>1 DEF OsStates
<1> HIDE DEF x, m, o
<1>5. x.net = m /\ x.os = o /\ x.app = w.app
  BY <1>3
<1>6. x \in Worlds
  BY <1>2, <1>3, <1>4 DEF Worlds
<1>7. Held(x)
  BY <1>2, <1>4, <1>5, NoInvalid DEF Held
<1> QED  BY <1>2, <1>5, <1>6, <1>7 DEF x

LEMMA ListenFacts ==
    ASSUME Sizes, Callers, NEW w \in Worlds, Held(w), NEW result \in {"ok", "no_socket", "in_use"}
    PROVE  LET x == Listen(w, result)
           IN  /\ Good(x) /\ (NobodyDisconnects => x.app.stale = w.app.stale)
               /\ ~w.app.twice => Calm(x)
<1> DEFINE reset == [CloseSocket(CloseListener(CreateContext(w)))
                        EXCEPT !.net.auth = "none", !.net.server = TRUE,
                               !.net.telnet = "normal", !.app.up = FALSE, !.app.ends = 0]
           d == NewFd(reset)
           bound == [reset EXCEPT !.os[d] = "net", !.net.listener = d]
           x == Listen(w, result)
<1>1. x = IF result = "no_socket" \/ ~HasFd(reset) THEN TriggerError(reset)
          ELSE IF result = "in_use" THEN Then(TriggerError(bound), CloseListener)
          ELSE [bound EXCEPT !.net.state = "LISTENING"]
  BY DEF Listen
<1>2. /\ reset \in Worlds /\ Held(reset) /\ reset.net.open
      /\ reset.net.fd = Invalid /\ reset.net.listener = Invalid
      /\ ~reset.app.up /\ reset.app.twice = w.app.twice /\ reset.app.stale = w.app.stale
  BY ResetFacts
<1> HIDE DEF reset
<1>3. CASE result = "no_socket" \/ ~HasFd(reset)
  <2>1. x = TriggerError(reset)
    BY <1>1, <1>3
  <2> HIDE DEF x, d, bound
  <2>2. /\ Good(x) /\ Alive(reset, x) /\ (Honest(reset) => Calm(x))
    BY <1>2, <2>1, TriggerErrorFacts
  <2> QED  BY <1>2, <2>2 DEF Alive, Honest, x
<1>4. CASE ~(result = "no_socket" \/ ~HasFd(reset))
  <2>1. d \in FD /\ reset.os[d] = "free"
    BY <1>4, NewFdFacts
  <2> HIDE DEF d
  <2>2. bound \in Worlds /\ Held(bound) /\ bound.app = reset.app /\ bound.net.open
        /\ bound.net.fd = Invalid
    BY <1>2, <2>1, BoundFacts
  <2> HIDE DEF bound, x
  <2>3. CASE result # "in_use"
    <3>1. x = [bound EXCEPT !.net.state = "LISTENING"] /\ "LISTENING" \in State
      BY <1>1, <1>4, <2>3 DEF State
    <3>2. /\ x \in Worlds /\ Held(x) /\ x.app = bound.app /\ x.net.state = "LISTENING"
      BY <2>2, <3>1, GotoFacts
    <3> QED  BY <1>2, <2>2, <3>2 DEF Good, Ready, Calm, x
  <2>4. CASE result = "in_use"
    <3> DEFINE y == TriggerError(bound)
    <3>1. x = Then(y, CloseListener)
      BY <1>1, <1>4, <2>4
    <3>2. /\ Good(y) /\ Alive(bound, y) /\ y.net.state \in Over
          /\ Honest(bound) => Calm(y) /\ ~y.app.up
      BY <2>2, TriggerErrorFacts
    <3> HIDE DEF y
    <3>3. CASE y.net.open
      <4>1. x = CloseListener(y)
        BY <3>1, <3>3 DEF Then
      <4>2. x \in Worlds /\ Held(x) /\ x.net = [y.net EXCEPT !.listener = Invalid]
            /\ x.app = y.app
        BY <3>2, <4>1, CloseListenerFacts DEF Good
      <4>3. x.net.state = y.net.state /\ x.net.fd = y.net.fd
        BY <3>2, <4>2 DEF Good, Worlds, Context
      <4>4. Good(x)
        BY <3>2, <4>2, <4>3 DEF Good, Ready
      <4>5. NobodyDisconnects => x.app.stale = w.app.stale
        BY <1>2, <2>2, <3>2, <4>2 DEF Alive
      <4>6. ~w.app.twice => Calm(x)
        BY <1>2, <2>2, <3>2, <4>2, <4>3 DEF Calm, Honest
      <4> QED  BY <4>4, <4>5, <4>6 DEF x
    <3>4. CASE ~y.net.open
      <4>1. x = [y EXCEPT !.app.stale = TRUE]
        BY <3>1, <3>4 DEF Then
      <4>2. Good(x) /\ x.net = NoContext /\ x.app.up = y.app.up /\ x.app.twice = y.app.twice
        BY <3>2, <3>4, <4>1, StaleFacts
      <4>3. ~NobodyDisconnects
        BY <2>2, <3>2, <3>4 DEF Alive
      <4>4. ~w.app.twice => Calm(x)
        BY <1>2, <2>2, <3>2, <4>2, NoContextFacts DEF Calm, Honest
      <4> QED  BY <4>2, <4>3, <4>4 DEF x
    <3> QED  BY <3>3, <3>4
  <2> QED  BY <2>3, <2>4
<1> QED  BY <1>3, <1>4

-------------------------------------------------------------------------------
(* The inductive invariant holds, and what follows from it *)

\* What a step may lead to.
Keeps(x) ==
    /\ Good(x)
    /\ OneByteLogins /\ Calm(World) => Calm(x)
    /\ NobodyDisconnects => x.app.stale = app.stale

LEMMA BecomeKeeps ==
    ASSUME IInv, NEW x, Keeps(x), Become(x)
    PROVE  IInv'
<1>1. net' = x.net /\ os' = x.os /\ app' = x.app /\ conf' = conf
  BY DEF Become
<1>2. x = [net |-> x.net, os |-> x.os, app |-> x.app]
  BY DEF Keeps, Good, Worlds
<1>3. World' = x
  BY <1>1, <1>2 DEF World
<1>4. Good(World)'
  BY <1>1, <1>3 DEF Keeps, Good, Held, Ready, HasLogin, Secure
<1>5. (OneByteLogins => Calm(World))'
  BY <1>3 DEF IInv, Keeps, Calm, OneByteLogins
<1>6. (NobodyDisconnects => ~app.stale)'
  BY <1>1 DEF IInv, Keeps, NobodyDisconnects
<1> QED  BY <1>1, <1>4, <1>5, <1>6 DEF IInv

\* A call of the application is counted.
LEMMA CallKeeps ==
    ASSUME IInv, NEW x, Keeps(x), Call(x)
    PROVE  IInv'
<1> DEFINE y == [x EXCEPT !.app.calls = app.calls + 1]
           b == [x.app EXCEPT !.calls = app.calls + 1]
<1>1. x \in Worlds /\ Held(x) /\ app.calls + 1 \in Nat
  BY DEF Keeps, IInv, Good, Worlds, World, Told
<1>2. /\ b \in Told /\ b.stray = x.app.stray /\ b.up = x.app.up /\ b.twice = x.app.twice
      /\ b.stale = x.app.stale
  BY <1>1 DEF Worlds, Told
<1>3. y \in [net : {x.net}, os : {x.os}, app : {b}]
  <2>1. PICK n \in Context, o \in OsStates, a \in Told :
           x = [net |-> n, os |-> o, app |-> a]
    BY <1>1, WorldIs
  <2> QED  BY <2>1
<1>4. Become(y)
  BY DEF Call
<1> HIDE DEF b, y
<1>5. y \in Worlds /\ Held(y) /\ y.net = x.net /\ y.app = b
  BY <1>1, <1>2, <1>3, ToldOf
<1>6. Keeps(y)
  BY <1>2, <1>5 DEF Keeps, Good, Ready, Calm
<1> QED  BY <1>4, <1>6, BecomeKeeps

LEMMA InitInvariant ==
    ASSUME Sizes, ConnectionInit PROVE IInv
<1>1. PICK p \in Policies :
         app = [policy |-> p, up |-> FALSE, ends |-> 0, twice |-> FALSE,
                stale |-> FALSE, stray |-> FALSE, calls |-> 0]
  BY DEF ConnectionInit
<1>2. app \in Told /\ ~app.stray /\ ~app.up /\ ~app.twice /\ ~app.stale
  BY <1>1 DEF Told
<1>3. os \in OsStates /\ net = NoContext /\ \A d \in FD : os[d] = "free"
  BY DEF ConnectionInit, OsStates
<1>4. World.net = net /\ World.os = os /\ World.app = app
  BY DEF World
<1>5. World \in Worlds
  BY <1>2, <1>3, NoContextFacts DEF World, Worlds
<1>6. Held(World)
  BY <1>2, <1>3, <1>4, NoContextFacts, NoInvalid DEF Held
<1> QED  BY <1>2, <1>3, <1>4, <1>5, <1>6, NoContextFacts DEF ConnectionInit, IInv, Good, Ready, Calm

\* After a step of the state machine: a write and a read, or nothing more.
LEMMA ProcessKeeps ==
    ASSUME Sizes, Callers, NoFrames, IInv, net.open, NEW w, Leads(World, w), NEW result,
           IF Transfers(w)
           THEN \E written \in {"ok", "failed"}, read \in Reads(w) :
                   Become(Transfer(w, written, read))
           ELSE Become(IF ReturnsAtOnce(result) THEN w ELSE Then(w, LAMBDA v : v))
    PROVE  IInv'
<1>1. World.net.open /\ Good(World) /\ conf \in Configurations /\ World.app = app
  BY DEF IInv, World
<1>2. ASSUME NEW x, Leads(World, x) PROVE Keeps(x)
  BY <1>1, <1>2 DEF Leads, Keeps, Alive
<1>3. CASE Transfers(w)
  <2>1. PICK written \in {"ok", "failed"}, read \in Reads(w) :
           Become(Transfer(w, written, read))
    BY <1>3
  <2> DEFINE x == Transfer(w, written, read)
  <2>2. "framed" \notin conf
    BY <1>1 DEF NoFrames
  <2>3. \/ read.kind \in {"again", "error", "closed"} /\ read.bytes = << >>
        \/ read.kind = "data" /\ read.bytes = << >>
        \/ read.kind = "data" /\ read.bytes \in SeqOf(LoginBytes, MaxChunk)
    BY <2>2 DEF Reads
  <2>4. /\ SeqOf(LoginBytes, MaxChunk) \subseteq Seq(LoginBytes)
        /\ \A s \in SeqOf(LoginBytes, MaxChunk) : Len(s) <= MaxChunk
    BY DEF SeqOf, Sizes
  <2>5. ReadOf(read)
    <3>1. << >> \in Seq(LoginBytes)
      OBVIOUS
    <3>2. read.kind # "too_large"
      BY <2>3
    <3>3. read.bytes \in Seq(LoginBytes)
      <4> HIDE DEF x
      <4> QED  BY <2>3, <2>4, <3>1, Zenon
    <3> QED  BY <3>2, <3>3 DEF ReadOf
  <2>6. OneByteLogins => Short(w, read)
    <3> SUFFICES ASSUME OneByteLogins, w.net.state = "AUTH" PROVE Len(read.bytes) <= 1
      BY DEF Short
    <3>1. HasLogin /\ Secure
      BY DEF Leads, Good, Ready
    <3>2. {"secure", "login"} \subseteq conf
      BY <3>1 DEF HasLogin, Secure
    <3>3. MaxChunk <= 1
      BY <1>1, <3>2 DEF OneByteLogins
    <3>4. CASE read.bytes = << >>
      BY <3>4
    <3>5. CASE read.bytes \in SeqOf(LoginBytes, MaxChunk)
      <4>1. Len(read.bytes) \in Nat /\ Len(read.bytes) <= MaxChunk /\ MaxChunk \in Nat
        BY <2>4, <3>5 DEF Sizes
      <4> QED  BY <3>3, <4>1
    <3> QED  BY <2>3, <3>4, <3>5
  <2>7. w.net.open /\ Good(w)
    BY <1>3 DEF Transfers, Leads
  <2>8. Comes(w, x, Short(w, read))
    BY <2>5, <2>7, TransferFacts
  <2> HIDE DEF x
  <2>9. Keeps(x)
    BY <1>1, <2>6, <2>7, <2>8 DEF Comes, Leads, Keeps, Alive
  <2> QED  BY <2>1, <2>9, BecomeKeeps DEF x
<1>4. CASE ~Transfers(w)
  <2>1. Become(w) \/ Become(Then(w, LAMBDA v : v))
    BY <1>4
  <2>2. Leads(World, Then(w, LAMBDA v : v))
    <3> DEFINE x == Then(w, LAMBDA v : v)
    <3>1. x = w \/ (~w.net.open /\ x = [w EXCEPT !.app.stale = TRUE])
      BY DEF Then
    <3> HIDE DEF x
    <3> QED  BY <1>1, <3>1, StaleLeads DEF x
  <2> QED  BY <1>2, <2>1, <2>2, BecomeKeeps
<1> QED  BY <1>3, <1>4

LEMMA StepKeeps ==
    ASSUME Sizes, Callers, NoFrames, IInv, [ConnectionNext]_connection
    PROVE  IInv'
<1>1. World.net = net /\ World.os = os /\ World.app = app
  BY DEF World
<1>2. World \in Worlds /\ Held(World) /\ Good(World)
  BY DEF IInv, Good
<1>3. ASSUME NEW x, Leads(World, x) PROVE Keeps(x) \/ ~net.open
  BY <1>1, <1>3 DEF Leads, Keeps, Alive
<1>4. CASE CallConnect
  <2> DEFINE x == Connect(World)
  <2>1. /\ x \in Worlds /\ Held(x) /\ x.net.open /\ x.net.state = "RESOLVING"
        /\ x.net.fd = Invalid /\ ~x.app.up
        /\ x.app.twice = app.twice /\ x.app.stale = app.stale
    BY <1>1, <1>2, ConnectFacts
  <2>2. Call(x)
    BY <1>4 DEF CallConnect
  <2> HIDE DEF x
  <2>3. Keeps(x)
    BY <1>1, <2>1 DEF Keeps, Good, Ready, Calm
  <2> QED  BY <2>2, <2>3, CallKeeps
<1>5. CASE CallListen
  <2>1. PICK result \in {"ok", "no_socket", "in_use"} : Call(Listen(World, result))
    BY <1>5 DEF CallListen
  <2> DEFINE x == Listen(World, result)
  <2>2. /\ Good(x) /\ (NobodyDisconnects => x.app.stale = World.app.stale)
        /\ ~World.app.twice => Calm(x)
    BY <1>2, ListenFacts
  <2> HIDE DEF x
  <2>3. Keeps(x)
    BY <1>1, <2>2 DEF Keeps, Calm
  <2> QED  BY <2>1, <2>3, CallKeeps DEF x
<1>6. CASE CallDisconnect
  <2> DEFINE x == Disconnect(World)
  <2>1. /\ x \in Worlds /\ Held(x) /\ x.net = NoContext
        /\ x.app.twice = World.app.twice /\ x.app.stale = World.app.stale
        /\ x.app.up => World.app.up /\ World.net.state # "CONNECTED"
    BY <1>2, DisconnectFacts
  <2>2. Call(x)
    BY <1>6 DEF CallDisconnect
  <2> HIDE DEF x
  <2>3. Keeps(x)
    BY <1>1, <2>1, NoContextFacts DEF Keeps, Good, Ready, Calm
  <2> QED  BY <2>2, <2>3, CallKeeps
<1>7. CASE ProcessSession
  <2>1. CASE Resolving
    <3>1. PICK result \in {"dns_failed", "connected", "in_progress", "refused"} :
             LET w == ResolveStep(World, result)
             IN  IF Transfers(w)
                 THEN \E written \in {"ok", "failed"}, read \in Reads(w) :
                         Become(Transfer(w, written, read))
                 ELSE Become(IF ReturnsAtOnce(result) THEN w ELSE Then(w, LAMBDA v : v))
      BY <2>1 DEF Resolving, Process
    <3>2. net.open /\ net.state = "RESOLVING"
      BY <2>1 DEF Resolving, Process
    <3>3. Leads(World, ResolveStep(World, result))
      BY <1>1, <1>2, <3>2, ResolveLeads
    <3> QED  BY <3>1, <3>2, <3>3, ProcessKeeps
  <2>2. CASE Connecting
    <3>1. PICK result \in {"in_progress", "connected", "refused"} :
             LET w == ConnectStep(World, result)
             IN  IF Transfers(w)
                 THEN \E written \in {"ok", "failed"}, read \in Reads(w) :
                         Become(Transfer(w, written, read))
                 ELSE Become(IF ReturnsAtOnce(result) THEN w ELSE Then(w, LAMBDA v : v))
      BY <2>2 DEF Connecting, Process
    <3>2. net.open /\ net.state = "CONNECTING"
      BY <2>2 DEF Connecting, Process
    <3>3. Leads(World, ConnectStep(World, result))
      BY <1>1, <1>2, <3>2, ConnectLeads
    <3> QED  BY <3>1, <3>2, <3>3, ProcessKeeps
  <2>3. CASE Listening
    <3>1. PICK result \in {"nobody", "client"} :
             LET w == AcceptStep(World, result)
             IN  IF Transfers(w)
                 THEN \E written \in {"ok", "failed"}, read \in Reads(w) :
                         Become(Transfer(w, written, read))
                 ELSE Become(IF ReturnsAtOnce(result) THEN w ELSE Then(w, LAMBDA v : v))
      BY <2>3 DEF Listening, Process
    <3>2. net.open /\ net.state = "LISTENING"
      BY <2>3 DEF Listening, Process
    <3>3. Leads(World, AcceptStep(World, result))
      BY <1>1, <1>2, <3>2, AcceptLeads
    <3> QED  BY <3>1, <3>2, <3>3, ProcessKeeps
  <2>4. CASE Handshaking
    <3>1. PICK result \in {"again", "connected", "failed"} :
             LET w == HandshakeStep(World, result)
             IN  IF Transfers(w)
                 THEN \E written \in {"ok", "failed"}, read \in Reads(w) :
                         Become(Transfer(w, written, read))
                 ELSE Become(IF ReturnsAtOnce(result) THEN w ELSE Then(w, LAMBDA v : v))
      BY <2>4 DEF Handshaking, Process
    <3>2. net.open /\ net.state = "HANDSHAKE"
      BY <2>4 DEF Handshaking, Process
    <3>3. Leads(World, HandshakeStep(World, result))
      BY <1>1, <1>2, <3>2, HandshakeLeads
    <3> QED  BY <3>1, <3>2, <3>3, ProcessKeeps
  <2>5. CASE Authenticating \/ Connected
    <3>1. \E result \in {"none"} :
             IF Transfers(World)
             THEN \E written \in {"ok", "failed"}, read \in Reads(World) :
                     Become(Transfer(World, written, read))
             ELSE Become(IF ReturnsAtOnce(result) THEN World
                         ELSE Then(World, LAMBDA v : v))
      BY <2>5 DEF Authenticating, Connected, Process
    <3>2. net.open
      BY <2>5 DEF Authenticating, Connected, Process
    <3>3. Leads(World, World)
      BY <1>2, LeadsNowhere
    <3> QED  BY <3>1, <3>2, <3>3, ProcessKeeps
  <2> QED  BY <1>7, <2>1, <2>2, <2>3, <2>4, <2>5 DEF ProcessSession
<1>8. CASE Timeout
  <2> DEFINE m == [net EXCEPT !.late = TRUE]
             x == [net |-> m, os |-> os, app |-> app]
  <2>1. net \in Context
    BY <1>1, <1>2 DEF Worlds
  <2>2. net.open
    BY <1>1, <1>2, <1>8, NoContextFacts DEF Timeout, Held
  <2>3. /\ m \in Context /\ m.fd = net.fd /\ m.listener = net.listener
        /\ m.open = net.open /\ m.state = net.state
    BY <2>1 DEF Context
  <2>4. x \in [net : {m}, os : {World.os}, app : {World.app}]
    BY <1>1
  <2>5. Become(x)
    BY <1>8 DEF Timeout, Become
  <2> HIDE DEF x, m
  <2>6. Leads(World, x)
    BY <1>1, <1>2, <2>2, <2>3, <2>4, EditLeads
  <2> QED  BY <1>3, <2>2, <2>5, <2>6, BecomeKeeps
<1>9. ASSUME NEW d \in FD, NEW by \in {"free", "other"}, os[d] # "net",
             os' = [os EXCEPT ![d] = by], UNCHANGED <<net, conf, app>>
      PROVE  IInv'
  <2> DEFINE o == [os EXCEPT ![d] = by]
             x == [net |-> net, os |-> o, app |-> app]
  <2>1. net \in Context /\ os \in OsStates /\ app \in Told
    BY <1>1, <1>2 DEF Worlds
  <2>2. o \in OsStates /\ \A e \in FD : o[e] = IF e = d THEN by ELSE os[e]
    BY <2>1 DEF OsStates
  <2>3. Become(x)
    BY <1>9 DEF Become
  <2> HIDE DEF o
  <2>4. x \in Worlds /\ x.net = net /\ x.os = o /\ x.app = app
    BY <2>1, <2>2 DEF Worlds
  <2> HIDE DEF x
  <2>5. Held(x)
    <3>1. Held(World) /\ by # "net"
      BY <1>2
    <3> QED  BY <1>1, <1>9, <2>2, <2>4, <3>1 DEF Held
  <2>6. Keeps(x)
    BY <1>1, <1>2, <2>4, <2>5 DEF Keeps, Good, Ready, Calm
  <2> QED  BY <2>3, <2>6, BecomeKeeps
<1>10. CASE OtherOpens
  <2>1. NewFd(World) \in FD /\ os[NewFd(World)] = "free"
    BY <1>1, <1>10, NewFdFacts DEF OtherOpens
  <2> QED  BY <1>9, <1>10, <2>1 DEF OtherOpens
<1>11. CASE OtherCloses
  BY <1>9, <1>11 DEF OtherCloses
<1>12. CASE UNCHANGED connection
  <2>1. Become(World)
    BY <1>1, <1>12 DEF connection, Become
  <2>2. Keeps(World)
    BY <1>1, <1>2 DEF Keeps
  <2> QED  BY <2>1, <2>2, BecomeKeeps
<1> QED  BY <1>4, <1>5, <1>6, <1>7, <1>8, <1>10, <1>11, <1>12 DEF ConnectionNext

\* The context is one that the code can be in; each of its descriptors is its own;
\* a resolution has none yet.  With one byte at a time while a peer logs in, what
\* the application has been told is so; and with callbacks that do not disconnect
\* nothing is used that has been freed.
THEOREM ConnectionInvariant ==
    ASSUME Sizes, Callers, NoFrames
    PROVE  ConnectionSpec => []IInv
<1>1. ConnectionInit => IInv
  BY InitInvariant
<1>2. IInv /\ [ConnectionNext]_connection => IInv'
  BY StepKeeps
<1> QED  BY <1>1, <1>2, PTL DEF ConnectionSpec

\* Nothing is leaked, nothing is closed twice, and nothing that another part of the
\* program has opened is closed: CLOSE_SOCKET and the fields it resets, whatever
\* the callbacks do and however many bytes come with the line of a login.
THEOREM DescriptorsTheorem ==
    ASSUME Sizes, Callers, NoFrames
    PROVE  ConnectionSpec => []DescriptorsOwned
<1>1. IInv => DescriptorsOwned
  <2> SUFFICES ASSUME IInv PROVE DescriptorsOwned
    OBVIOUS
  <2>1. World.net = net /\ World.os = os /\ World.app = app
    BY DEF World
  <2>2. net.fd \in FD \union {Invalid} /\ net.listener \in FD \union {Invalid}
    BY <2>1 DEF IInv, Good, Worlds, Context, Descriptor
  <2>3. Held(World)
    BY DEF IInv, Good
  <2> QED  BY <2>1, <2>2, <2>3, NoInvalid DEF DescriptorsOwned, Held
<1> QED  BY <1>1, ConnectionInvariant, PTL

\* And no connection ends silently: where the login takes one byte at a time,
\* whoever has been told that it is connected has a connection or is told of its
\* end.
THEOREM ToldTheorem ==
    ASSUME Sizes, Callers, NoFrames, OneByteLogins
    PROVE  ConnectionSpec => []ToldWhatIsHeld
<1>1. IInv => NeverSilent
  <2> SUFFICES ASSUME IInv PROVE NeverSilent
    OBVIOUS
  <2>1. World.net = net /\ World.os = os /\ World.app = app
    BY DEF World
  <2>2. Calm(World)
    BY DEF IInv
  <2> QED  BY <2>1, <2>2 DEF NeverSilent, Calm
<1>2. DescriptorsOwned /\ NeverSilent => ToldWhatIsHeld
  BY DEF ToldWhatIsHeld
<1> QED  BY <1>1, <1>2, ConnectionInvariant, DescriptorsTheorem, PTL

\* Where no callback disconnects, no code goes on with a context that is freed.
THEOREM InUseTheorem ==
    ASSUME Sizes, Callers, NoFrames, NobodyDisconnects
    PROVE  ConnectionSpec => []ContextInUse
<1>1. IInv => ContextInUse
  BY DEF IInv, ContextInUse
<1> QED  BY <1>1, ConnectionInvariant, PTL

===============================================================================
