------------------------------- MODULE Pointer -------------------------------
(***************************************************************************)
(* The mouse: once a frame the adapter of the window library looks at where *)
(* the pointer is, which buttons are down and how far the wheel was turned, *)
(* and tells the session under the pointer what has changed.  The session   *)
(* reports it in the mode its host asked for; what is not reported scrolls, *)
(* selects text, and moves the focus between the halves of a split screen.  *)
(*                                                                         *)
(* The two hosts decode reports as xterm's control sequences define them.   *)
(***************************************************************************)
EXTENDS Integers, Sequences, FiniteSets

CONSTANTS
    Half,           \* split_row: the last row of the upper half
    Cells,          \* cells the pointer is moved to, <<x, y>>
    Buttons,        \* 0 left, 1 middle, 2 right
    Wheel,          \* how far the wheel is turned in a frame
    Modes,          \* mouse modes a host may ask for, [mode, sgr, locator, alternate]
    SCROLLBACK,     \* lines a view can be scrolled back
    MaxFrames

VARIABLES
    pos, down,      \* the pointer and its buttons, as the window library tells them
    active,         \* the session with the focus
    split,          \* the screen is split between the two sessions
    s,              \* the sessions
    host,           \* what each host believes, and what it heard wrongly
    clipboard,      \* the selection that was copied last
    frames

vars == <<pos, down, active, split, s, host, clipboard, frames>>
Halves == {1, 2}
Nowhere == <<-1, -1>>

-------------------------------------------------------------------------------
(* Reports. *)

\* An event: button, is_release, is_drag, wheel_delta and the cell.
Event(at, b, release, drag, wheel) ==
    [at |-> at, button |-> b, release |-> release, drag |-> drag, wheel |-> wheel]

Tracking(u) == u.mode # "off"
Extended(u) == u.sgr \/ u.mode = "pixel"

\* What is written: in the extended form a code, the cell and M or m; in the old
\* form a code that is 3 for every release, and the cell.
Code(u, e) ==
    IF Extended(u)
    THEN IF e.wheel # 0 THEN (IF e.wheel > 0 THEN 64 ELSE 65) - 32
         ELSE e.button + (IF e.drag THEN 32 ELSE 0)
    ELSE IF e.wheel # 0 THEN (IF e.wheel > 0 THEN 64 ELSE 65)
         ELSE IF e.release THEN 3 ELSE e.button

\* What a host makes of it.
Hear(u, h, e) ==
    LET code == Code(u, e)
        told == [h EXCEPT !.at = e.at]
    IN CASE code >= 64 -> [told EXCEPT !.turned = TRUE]
         [] code \in 32 .. 63 ->
                [told EXCEPT !.amiss = @ \cup (IF code - 32 \in h.down THEN {} ELSE {"wheel"})]
         [] code = 3 -> [told EXCEPT !.down = {}]
         [] Extended(u) /\ e.release -> [told EXCEPT !.down = @ \ {code}]
         [] OTHER -> [told EXCEPT !.down = @ \cup {code}]

\* What happened is not what it is told: a turned wheel is a drag of a button
\* that is up, a movement is a press, one release is that of all buttons.
Amiss(u, e) ==
    (IF e.wheel # 0 /\ Extended(u) THEN {"wheel"} ELSE {}) \cup
    (IF e.wheel = 0 /\ ~e.release /\ ~e.drag /\ e.button \notin u.buttons THEN {"hover"} ELSE {}) \cup
    (IF e.release /\ ~Extended(u) /\ u.buttons # {} THEN {"release"} ELSE {})

-------------------------------------------------------------------------------
(* KTerm_ProcessEvent with a mouse event for session x; r holds what it may     *)
(* change.  The report goes to the host of the active session.                 *)

Arrows(h) == [h EXCEPT !.turned = TRUE]
MaxOf(a, b) == IF a < b THEN b ELSE a
MinOf(a, b) == IF a < b THEN a ELSE b
MouseEvent(r, x, e) ==
    LET u == r.s[x]
        seen == [r EXCEPT !.s[x].at = e.at]
        heard == Hear(u, r.host[r.active], e)
    IN IF Tracking(u)
       THEN [seen EXCEPT !.host[r.active] =
                [heard EXCEPT !.amiss = @ \cup Amiss(u, e) \cup (IF r.active = x THEN {} ELSE {"other"})],
                         !.host[x].amiss = IF r.active = x THEN heard.amiss \cup Amiss(u, e)
                                           ELSE @ \cup {"other"}]
       ELSE IF e.wheel = 0 THEN seen
       ELSE IF u.alternate THEN [seen EXCEPT !.host[x] = Arrows(@)]
       ELSE [seen EXCEPT !.s[x].view = MinOf(MaxOf(@ + 3 * e.wheel, 0), SCROLLBACK)]

-------------------------------------------------------------------------------
(* KTermSit_UpdateMouse, after the pointer moved to p with buttons B down and   *)
(* the wheel turned by w.                                                      *)

Over(p) == IF ~split THEN active ELSE IF p[2] <= Half THEN 1 ELSE 2
Local(p) == IF split /\ p[2] > Half THEN <<p[1], p[2] - (Half + 1)>> ELSE p

\* The first button pressed or held, as a drag names one.
Held(B) == CHOOSE b \in B : \A c \in B : b <= c

\* Wrong variant: the session remembers only what it pressed.
ButtonPressed(r, x, at, B, b) ==
    IF (b \in B) = (b \in r.s[x].buttons) THEN r
    ELSE LET v == [r EXCEPT !.s[x].buttons = IF b \in B THEN @ \cup {b} ELSE @, !.sent = TRUE]
         IN MouseEvent(v, x, Event(at, b, b \notin B, FALSE, 0))
\* Button b is told if it is not as the session last saw it.
Button(r, x, at, B, b) ==
    IF (b \in B) = (b \in r.s[x].buttons) THEN r
    ELSE LET v == [r EXCEPT !.s[x].buttons = IF b \in B THEN @ \cup {b} ELSE @ \ {b}, !.sent = TRUE]
         IN MouseEvent(v, x, Event(at, b, b \notin B, FALSE, 0))
ButtonsOf(r, x, at, B) ==
    LET f[b \in -1 .. 2] == IF b = -1 THEN r ELSE Button(f[b - 1], x, at, B, b) IN f[2]

Motion(r, x, at, B) ==
    IF r.sent \/ at = r.s[x].last THEN r
    ELSE IF B # {} THEN MouseEvent(r, x, Event(at, Held(B), FALSE, TRUE, 0))
    ELSE IF r.s[x].mode = "any" THEN MouseEvent(r, x, Event(at, 0, FALSE, FALSE, 0))
    ELSE r

\* Pressing the left button begins a selection, letting go of it copies it, from
\* the session that is active.
Select(u, at, B) ==
    CASE 0 \in B \ down -> [u EXCEPT !.selection = [dragging |-> TRUE, from |-> at, to |-> at]]
      [] 0 \in B \cap down /\ u.selection.dragging -> [u EXCEPT !.selection.to = at]
      [] 0 \in down \ B /\ u.selection.dragging -> [u EXCEPT !.selection.dragging = FALSE]
      [] OTHER -> u

\* What is copied, if anything was ever selected there.
Copied(x, selection) ==
    IF selection.from = Nowhere THEN clipboard ELSE <<x, selection.from, selection.to>>

Frame ==
    \E p \in Cells, B \in SUBSET Buttons, w \in Wheel :
        LET x == Over(p)
            at == Local(p)
            now == IF 0 \in B \ down THEN x ELSE active
            r0 == [s |-> s, host |-> host, active |-> now, sent |-> w # 0]
            r1 == IF w # 0 THEN MouseEvent(r0, x, Event(at, 0, FALSE, FALSE, w)) ELSE r0
            r2 == Motion(ButtonsOf(r1, x, at, B), x, at, B)
            u == Select([r2.s[x] EXCEPT !.last = at], at, B)
        IN /\ s' = [r2.s EXCEPT ![x] = u]
           /\ host' = r2.host
           /\ active' = now
           /\ clipboard' = IF 0 \in down \ B /\ s[x].selection.dragging
                           THEN Copied(now, s'[now].selection) ELSE clipboard
           /\ pos' = p /\ down' = B
           /\ UNCHANGED split

\* The focus moves by a command of the prefix key as well.
OtherActive == active' = 3 - active /\ UNCHANGED <<pos, down, split, s, host, clipboard>>

\* DECSSDT splits the screen and ends the split.
SetSplitScreen ==
    split' = ~split /\ UNCHANGED <<pos, down, active, s, host, clipboard>>

Init ==
    /\ pos \in Cells /\ down = {} /\ active = 1
    /\ split \in BOOLEAN
    /\ \E m \in [Halves -> Modes] :
        s = [x \in Halves |->
                [mode |-> m[x].mode, sgr |-> m[x].sgr, locator |-> m[x].locator,
                 alternate |-> m[x].alternate, buttons |-> {}, last |-> <<0, 0>>, at |-> Nowhere,
                 view |-> 0, selection |-> [dragging |-> FALSE, from |-> Nowhere, to |-> Nowhere]]]
    /\ host = [x \in Halves |-> [down |-> {}, at |-> Nowhere, turned |-> FALSE, amiss |-> {}]]
    /\ clipboard = <<>>
    /\ frames = 0

Next ==
    /\ frames < MaxFrames /\ frames' = frames + 1
    /\ Frame \/ OtherActive \/ SetSplitScreen
Spec == Init /\ [][Next]_vars

-------------------------------------------------------------------------------
(* DECRQLP: buttons, row and column as they are reported.                      *)

DECRQLP(x) ==
    LET row == s[x].at[2] + 1 - (IF split /\ active = 2 THEN Half + 1 ELSE 0)
    IN <<s[x].buttons, MaxOf(row, 1), MaxOf(s[x].at[1] + 1, 1)>>

\* While the pointer is over a session whose host tracks it, that host knows which
\* buttons are down, and where they are held - for all that has been told, unless
\* it was told amiss in one of four ways: the wheel as a drag (SGR), a movement in
\* mode 1003 as a press, one of several releases (old form), or to the other host,
\* which is the active session's.  While the lower half has the focus, every
\* locator report is off by the height of the upper half.
PointerTold ==
    \A x \in Halves :
        x = Over(pos) /\ Tracking(s[x]) /\ frames > 0 /\ host[x].amiss = {} =>
            \/ s[x].buttons # down      \* nothing was looked at since the focus or the split changed
            \/ /\ host[x].down = down
               /\ down # {} /\ s[x].last = Local(pos) =>
                    /\ host[x].at = Local(pos)
                    /\ ~(split /\ active = 2) /\ s[x].locator =>
                            DECRQLP(x) = <<down, Local(pos)[2] + 1, Local(pos)[1] + 1>>
===============================================================================
