------------------------------- MODULE VtParser -------------------------------
(***************************************************************************)
(* The byte-level state machine of kterm_impl.h: KTerm_ProcessChar and the *)
(* handler of each parse state, for sessions that are parsed in turn.  What *)
(* a command does is left out; what it is given is not.  Printer controller *)
(* mode, which is looked at before the parse state, is in PrinterMode.      *)
(*                                                                         *)
(* A step is one byte.  Its handlers call each other, so they are operators *)
(* from a World to the next.                                               *)
(***************************************************************************)
EXTENDS Integers, Sequences, SequencesExt

CONSTANTS
    Session,
    First,          \* the session with index 0
    Inputs,         \* what sessions may be sent: functions to sets of bytes
    BUF,            \* bytes the escape buffer takes (MAX_COMMAND_BUFFER - 1)
    Features,       \* subset of {"sixel", "regis", "vt52"}
    Target,         \* the session each of the graphics protocols draws in, or None
    ForeignEscapes  \* a session in the background uses escapes that are handled
                    \* with GET_SESSION, the session in the foreground

None == "none"

VARIABLES
    parser,     \* per session: parse_state, saved_parse_state, escape_buffer,
                \* and KTERM_MODE_VT52
    input,      \* the one of Inputs this behaviour is about
    expect,     \* expect_param, a static variable of KTerm_ProcessVT52Char
    active,     \* active_session
    heard,      \* ghost, per session: the bytes from the last ESC on, and those
                \* from the ESC before it up to the last one
    done        \* ghost: the command dispatched last

vars == <<input, parser, expect, active, heard, done>>

\* A final byte of CSI that stands for no command of its own: SGR, for example.
Control == {"ESC", "BEL", "CAN"}
Intermediate == {"SP", "#", "%", "(", "$"}
Param == {"1", "?", "=", "<"}
Final == {"A", "h", "l", "G", "P", "X", "Y", "[", "\\", "]", "_", "c", "m", "p", "q"}

\* The introducers of KTerm_ProcessEscapeChar; "X" stands for SOS and PM.
Introduced == [c \in {"[", "]", "P", "_", "X"} |->
    CASE c = "[" -> "CSI" [] c = "]" -> "OSC" [] c = "P" -> "DCS"
      [] c = "_" -> "APC" [] c = "X" -> "SOS"]
States == {"NORMAL", "ESCAPE", "CSI", "OSC", "DCS", "APC", "SOS", "ST", "SIXEL", "SIXEL_ST",
           "REGIS", "KITTY", "TEKTRONIX", "VT52", "CHARSET", "HASH", "PERCENT", "nF"}
Command(kind, s, buf, bytes) == [kind |-> kind, session |-> s, buf |-> buf, heard |-> bytes]
Nothing == Command("nothing", First, << >>, << >>)

World == [p |-> parser, expect |-> expect, active |-> active, done |-> Nothing]
Become(w) ==
    /\ parser' = w.p
    /\ expect' = w.expect
    /\ active' = w.active
    /\ done' = w.done

-------------------------------------------------------------------------------
(* Moves of the parser; h is what the session has heard, this byte included. *)

Goto(w, s, state) == [w EXCEPT !.p[s].state = state]
Restart(w, s, state) == [w EXCEPT !.p[s].state = state, !.p[s].buf = << >>]
Collect(w, s, c) == [w EXCEPT !.p[s].buf = Append(@, c)]
Full(w, s) == Len(w.p[s].buf) >= BUF

\* KTerm_DispatchSequence, and what ClearCSIParams or the reset of escape_pos leave.
Dispatch(w, s, kind, bytes) ==
    IF kind = "KITTY" THEN w
    ELSE [w EXCEPT !.done = Command(kind, s, w.p[s].buf, bytes)]

\* Wrong variant: the string that ends is taken for the kind the last one was of.
AwaitSTStale(w, s, kind) == [w EXCEPT !.p[s].state = "ST"]

\* An ESC may end a string: whether it is ST shows with the next byte.
AwaitST(w, s, kind) == [w EXCEPT !.p[s].saved = kind, !.p[s].state = "ST"]

\* The session whose parse state a graphics protocol's handler works on.
Drawn(s, protocol) == IF Target[protocol] = None THEN s ELSE Target[protocol]

-------------------------------------------------------------------------------
(* The handlers *)

ControlChar(w, s, c) ==
    CASE c = "CAN" -> Restart(w, s, "NORMAL")
      [] c = "ESC" -> Restart(w, s, IF w.p[s].vt52 THEN "VT52" ELSE "ESCAPE")
      [] OTHER -> w

NormalChar(w, s, c) == IF c \in Control THEN ControlChar(w, s, c) ELSE w

\* RIS: KTerm_Init resets every session.
Reset(w) == [w EXCEPT !.active = First, !.p = [s \in Session |->
    [state |-> "NORMAL", saved |-> w.p[s].saved, buf |-> << >>, vt52 |-> FALSE]]]

EscapeChar(w, s, c) ==
    CASE c \in DOMAIN Introduced -> Restart(w, s, Introduced[c])
      [] c = "(" -> [w EXCEPT !.p[s].state = "CHARSET", !.p[s].buf = <<"(">>]
      [] c = "#" -> Goto(w, s, "HASH")
      [] c = "%" -> Goto(w, s, "PERCENT")
      [] c = "SP" -> Goto(w, s, "nF")
      [] c = "\\" -> Goto(w, s, "NORMAL")
      [] c = "c" -> Reset(w)
      [] c = "<" /\ "vt52" \in Features -> Goto(w, w.active, "VT52")
      [] OTHER -> Goto(w, w.active, "NORMAL")

CSIChar(w, s, c, bytes) ==
    LET buf == w.p[s].buf
        afterSpace == buf # << >> /\ buf[Len(buf)] = "SP"
        final == c \in Final \/ (c = "=" /\ afterSpace)
        \* CSI ? 38 h enters Tektronix mode and CSI ? 2 l VT52 mode; one digit
        \* stands for either.
        mode == buf = <<"?", "1">> /\ c \in {"h", "l"}
        \* KTerm_ExecuteCSICommand
        executed ==
            LET d == Dispatch(w, s, "CSI", bytes)
            IN  IF ~mode THEN d
                ELSE IF c = "h" THEN Goto(d, s, "TEKTRONIX")
                ELSE [d EXCEPT !.p[s].vt52 = TRUE,
                               !.p[s].state = IF "vt52" \in Features THEN "VT52" ELSE @]
    IN  IF final THEN Restart(executed, s, "NORMAL")
        ELSE IF c \in Intermediate \cup Param /\ ~Full(w, s) THEN Collect(w, s, c)
        ELSE Restart(w, s, "NORMAL")

\* OSC, APC, PM and SOS, and DCS but for what starts a graphic.  Only OSC and DCS
\* end at BEL; a byte that does not fit ends the string and is lost.
StringChar(w, s, c, bytes) ==
    LET kind == w.p[s].state
        ended(d) == Restart(Dispatch(d, s, kind, bytes), s, "NORMAL")
    IN  CASE Full(w, s) -> ended(w)
          [] c = "ESC" /\ ~Full(w, s) -> AwaitST(w, s, kind)
          [] c = "BEL" /\ kind \in {"OSC", "DCS"} /\ ~Full(w, s) -> ended(w)
          [] OTHER -> Collect(w, s, c)

\* 'q' after parameters and intermediates starts a Sixel image, but not "$q"
\* (DECRQSS); 'p' starts ReGIS.
DCSChar(w, s, c, bytes) ==
    LET buf == w.p[s].buf
        isHeader == \A k \in 1 .. Len(buf) : buf[k] \in Intermediate \cup Param
        isDecrqss == buf # << >> /\ buf[Len(buf)] = "$"
        begun == Dispatch(w, s, "DCS", bytes)
    IN  CASE ~Full(w, s) /\ c = "q" /\ "sixel" \in Features /\ ~isDecrqss /\ isHeader ->
                Restart(begun, s, "SIXEL")
          [] ~Full(w, s) /\ c = "p" /\ "regis" \in Features /\ isHeader ->
                Restart(begun, s, "REGIS")
          [] OTHER -> StringChar(w, s, c, bytes)

\* 'G' right after APC starts a Kitty command.
APCChar(w, s, c, bytes) ==
    IF c = "G" /\ w.p[s].buf = << >> THEN Goto(w, s, "KITTY") ELSE StringChar(w, s, c, bytes)

StringTerminator(w, s, c, bytes) ==
    LET d == Restart(Dispatch(w, s, w.p[s].saved, bytes), s, "NORMAL")
    IN  IF c = "\\" THEN d ELSE EscapeChar(Goto(d, s, "ESCAPE"), s, c)

SixelSTChar(w, s, c) == IF c = "\\" THEN Goto(w, s, "NORMAL") ELSE EscapeChar(w, s, c)

\* KTerm_ProcessSixelChar, ProcessReGISChar and KTerm_ProcessKittyChar leave at ESC;
\* the first moves the session that is parsed, the others the one drawn in.
GraphicChar(w, s, c) ==
    IF c # "ESC" THEN w
    ELSE CASE w.p[s].state = "SIXEL" -> Goto(w, s, "SIXEL_ST")
           [] w.p[s].state = "REGIS" -> Goto(w, Drawn(s, "regis"), "ESCAPE")
           [] w.p[s].state = "KITTY" -> AwaitST(w, Drawn(s, "kitty"), "KITTY")

TektronixChar(w, s, c) ==
    LET t == Drawn(s, "tektronix")
    IN  CASE c = "ESC" -> Goto(w, t, IF w.p[t].vt52 THEN "VT52" ELSE "ESCAPE")
          [] c \in Control \ {"ESC"} -> ControlChar(w, t, c)
          [] OTHER -> w

\* "Y" takes two parameters, whatever they are.
VT52Char(w, s, c) ==
    CASE ~w.expect /\ c = "Y" -> [w EXCEPT !.expect = TRUE, !.p[s].buf = << >>]
      [] ~w.expect /\ c = "<" -> [Goto(w, s, "NORMAL") EXCEPT !.p[s].vt52 = FALSE]
      [] ~w.expect /\ c \notin {"Y", "<"} -> Goto(w, s, "NORMAL")
      [] w.expect /\ w.p[s].buf = << >> -> [w EXCEPT !.p[s].buf = <<c>>]
      [] w.expect /\ w.p[s].buf # << >> -> [Goto(w, s, "NORMAL") EXCEPT !.expect = FALSE]

\* KTerm_ProcessCharsetCommand and KTerm_ProcessnFChar collect intermediates.
CharsetChar(w, s, c) ==
    LET d == IF Len(w.p[s].buf) <= BUF THEN Collect(w, s, c) ELSE w
    IN  IF c \in Intermediate THEN d ELSE Restart(d, s, "NORMAL")
nFChar(w, s, c) == IF c \in Intermediate THEN w ELSE Goto(w, s, "NORMAL")

\* KTerm_ProcessChar
ProcessChar(w, s, c) ==
    LET state == w.p[s].state
        sofar == Append(heard[s].now, c)
    IN  CASE state = "NORMAL" -> NormalChar(w, s, c)
          [] state = "ESCAPE" -> EscapeChar(w, s, c)
          [] state = "CSI" -> CSIChar(w, s, c, sofar)
          [] state \in {"OSC", "SOS"} -> StringChar(w, s, c, sofar)
          [] state = "APC" -> APCChar(w, s, c, sofar)
          [] state = "DCS" -> DCSChar(w, s, c, sofar)
          [] state = "ST" -> StringTerminator(w, s, c, heard[s].before)
          [] state = "SIXEL_ST" -> SixelSTChar(w, s, c)
          [] state \in {"SIXEL", "REGIS", "KITTY"} -> GraphicChar(w, s, c)
          [] state = "TEKTRONIX" -> TektronixChar(w, s, c)
          [] state = "VT52" -> VT52Char(w, s, c)
          [] state = "CHARSET" -> CharsetChar(w, s, c)
          [] state = "nF" -> nFChar(w, s, c)
          [] state = "HASH" -> Goto(w, s, "NORMAL")
          [] state = "PERCENT" -> Goto(w, w.active, "NORMAL")

-------------------------------------------------------------------------------
Init ==
    /\ parser = [s \in Session |-> [state |-> "NORMAL", saved |-> "NORMAL",
                                    buf |-> << >>, vt52 |-> FALSE]]
    /\ input \in Inputs
    /\ expect = FALSE
    /\ active = First
    /\ heard = [s \in Session |-> [now |-> << >>, before |-> << >>]]
    /\ done = Nothing

\* Bytes handled with GET_SESSION: "=", ">", "<" and unknown ones after ESC, and
\* what follows ESC %.
Foreign(s, c) ==
    \/ parser[s].state = "PERCENT"
    \/ /\ parser[s].state \in {"ESCAPE", "ST", "SIXEL_ST"}
       /\ c \notin DOMAIN Introduced \cup {"(", "#", "%", "SP", "\\", "c"}

\* What a session has heard with this byte.  Nothing but the length of a command
\* is kept of it.
Hears(s, c) ==
    LET now == heard[s].now
    IN  IF c = "ESC" THEN [now |-> <<c>>, before |-> now]
        ELSE [heard[s] EXCEPT !.now =
                 IF now = << >> \/ Len(now) > BUF + 2 THEN now ELSE Append(now, c)]

\* A session that is back in the normal state has nothing to remember.
Receive(s) ==
    \E c \in input[s] :
        /\ s # active /\ ~ForeignEscapes => ~Foreign(s, c)
        /\ LET h == Hears(s, c)
               w == ProcessChar(World, s, c)
               state == w.p[s].state
           IN  /\ Become(w)
               /\ heard' = [heard EXCEPT ![s] =
                     [now |-> IF state = "NORMAL" THEN << >> ELSE h.now,
                      before |-> IF state = "ST" THEN h.before ELSE << >>]]
              /\ UNCHANGED input

\* KTerm_SetActiveSession
SetActive(s) ==
    /\ active' = s
    /\ done' = Nothing
    /\ UNCHANGED <<input, parser, expect, heard>>

Next == \E s \in Session : Receive(s) \/ SetActive(s)

Spec == Init /\ [][Next]_vars

-------------------------------------------------------------------------------
\* A command that is executed is given the bytes that came between its introducer
\* and its end, and no others, whatever came before, wherever a string was cut off
\* or grew too long, and whatever other sessions were sent in between.
ExecutesWhatItHeard ==
    done # Nothing =>
        \E c \in DOMAIN Introduced :
            LET command == <<"ESC", c>> \o done.buf
            IN  /\ Introduced[c] = done.kind
                /\ done.heard = command \/ Front(done.heard) = command

\* However a session in the foreground got there, two string terminators bring its
\* parser back to normal text: an application that takes over can start afresh.
Feed(w, s, bytes) ==
    LET step(x, c) == ProcessChar(x, s, c) IN FoldLeft(step, w, bytes)
Resynchronises ==
    Feed(World, active, <<"ESC", "\\", "ESC", "\\">>).p[active].state = "NORMAL"

\* The parser follows its host: it neither executes what it has not heard nor stays
\* in a sequence that its host has ended.
FollowsItsHost == ExecutesWhatItHeard /\ Resynchronises
===============================================================================
