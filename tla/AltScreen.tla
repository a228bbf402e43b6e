------------------------------ MODULE AltScreen ------------------------------
(***************************************************************************)
(* The two screen buffers of a session.  The main one is a ring of the      *)
(* screen's rows and the scrollback, the alternate one has the screen's     *)
(* rows only; DECSET 47, 1047 and 1049 exchange the two at once, while what *)
(* was printed waits in the operation queue for the end of the frame.       *)
(* Also what else goes to the buffers directly: ED, a change of the         *)
(* terminal's size, and the state KTerm_SerializeSession stores and         *)
(* KTerm_DeserializeSession puts back.                                      *)
(*                                                                         *)
(* The grid is one column wide; the session is the active one and fills the *)
(* window.  Beyond the end of a buffer everything can be read, and what is  *)
(* written there does not come back.                                        *)
(***************************************************************************)
EXTENDS Integers, Sequences

CONSTANTS
    Heights,            \* heights the window can have
    SCROLLBACK,         \* MAX_SCROLLBACK_LINES
    Char, Blank, Junk,  \* what a cell holds, and what lies behind a buffer
    Calm,               \* what is only done at the start of a frame: "swap", "erase",
                        \* and, on the main screen, "resize" and "store"
    MaxInput            \* instructions and calls in one behaviour

VARIABLES
    term,       \* term->height
    s,          \* the session
    queue,      \* op_queue
    stored,     \* the state KTerm_SerializeSession stored
    text,       \* ghost: the two screens as they were written
    input       \* instructions and calls so far

vars == <<term, s, queue, stored, text, input>>
MinOf(a, b) == IF a < b THEN a ELSE b
MaxOf(a, b) == IF a < b THEN b ELSE a

-------------------------------------------------------------------------------
(* The buffer that is shown, and the one that is not. *)

At(buffer, i) == IF i \in DOMAIN buffer THEN buffer[i] ELSE Junk
Put(buffer, I, c) == [i \in DOMAIN buffer |-> IF i \in I THEN c ELSE buffer[i]]
AtRest(what) == what \in Calm => queue = << >>
Blanks(n) == [i \in 0 .. n - 1 |-> Blank]

\* GetActiveScreenRow.
ActiveRow(r) == (s.head + r) % s.buffer_height

\* The rows of the screen, and of a main screen the history above them.
Shown == [r \in (IF s.alt THEN 0 ELSE -SCROLLBACK) .. s.rows - 1 |-> At(s.screen, ActiveRow(r))]
Main == [r \in -SCROLLBACK .. s.rows - 1 |->
            IF s.alt THEN At(s.other, (s.other_head + r) % (term + SCROLLBACK)) ELSE Shown[r]]

-------------------------------------------------------------------------------
(* What is written; the text follows at once. *)

\* A screen, or the rows of it down to one, moved up.
Up(t) == [r \in DOMAIN t |-> IF r + 1 \in DOMAIN t THEN t[r + 1] ELSE Blank]
UpTo(t, bottom) ==
    [r \in DOMAIN t |-> IF r \in 0 .. bottom
                         THEN IF r < bottom /\ r + 1 \in DOMAIN t THEN t[r + 1] ELSE Blank
                         ELSE t[r]]
Written(t, R, c) == [r \in DOMAIN t |-> IF r \in R THEN c ELSE t[r]]

Screen(change(_)) ==
    IF s.alt THEN [text EXCEPT !.alt = change(@)] ELSE [text EXCEPT !.main = change(@)]

\* KTerm_ProcessNormalChar: the cell waits in the queue.
PrintChar(c) ==
    /\ queue' = Append(queue, [type |-> "set_cell", y |-> s.y, c |-> c])
    /\ LET change(t) == Written(t, {s.y}, c) IN text' = Screen(change)
    /\ UNCHANGED <<term, s, stored>>

\* LF: at the bottom the screen scrolls; while the screen is about to be resized
\* that is a part of it only.
LineFeed ==
    /\ IF s.y = s.rows - 1
       THEN /\ queue' = Append(queue, [type |-> "scroll_region", bottom |-> s.y])
            /\ LET change(t) == IF 1 + s.y \in DOMAIN t \/ s.y \notin DOMAIN t
                                THEN UpTo(t, s.y) ELSE Up(t)
               IN text' = Screen(change)
            /\ UNCHANGED s
       ELSE s' = [s EXCEPT !.y = @ + 1] /\ UNCHANGED <<queue, text>>
    /\ UNCHANGED <<term, stored>>

\* ED: 2 clears the screen, 3 the whole buffer that is shown.
EraseDisplay(n) ==
    LET screen == {ActiveRow(r) : r \in 0 .. s.rows - 1}
        change(t) == Written(t, IF n = 3 THEN DOMAIN t ELSE 0 .. s.rows - 1, Blank)
    IN /\ AtRest("erase")
       /\ s' = [s EXCEPT !.screen =
                    Put(@, IF n = 3 THEN 0 .. s.buffer_height - 1 ELSE screen, Blank)]
       /\ text' = Screen(change)
       /\ UNCHANGED <<term, queue, stored>>

-------------------------------------------------------------------------------
(* Exchanging the buffers. *)

\* Wrong variant: each buffer goes on at the other one's first row.
SwapKeepingHead(x) ==
    [x EXCEPT !.screen = x.other, !.other = x.screen,
              !.alt = ~@,
              !.buffer_height = IF x.alt THEN term + SCROLLBACK ELSE term]

\* KTerm_SwapScreenBuffer.  The height of the buffer is the window's, not what
\* was allocated.
Swap(x) ==
    [x EXCEPT !.screen = x.other, !.other = x.screen,
              !.head = x.other_head, !.other_head = x.head,
              !.alt = ~@,
              !.buffer_height = IF x.alt THEN term + SCROLLBACK ELSE term]

\* SwitchScreenBuffer swaps in any case, and again if that was not asked for.
SwitchScreenBuffer(x, enable) == IF Swap(x).alt = enable THEN Swap(x) ELSE Swap(Swap(x))

SaveCursor(x) == [x EXCEPT !.saved_y = x.y]
RestoreCursor(x) == [x EXCEPT !.y = IF x.saved_y >= 0 THEN x.saved_y ELSE @]

\* DECSET 1049 does not clear the alternate screen, for ExecuteED takes the 1049
\* as its own parameter: what is written on begins with what was left there.
Enter ==
    /\ AtRest("swap")
    /\ s' = [SwitchScreenBuffer(SaveCursor(s), TRUE) EXCEPT !.y = 0]
    /\ text' = [text EXCEPT
                   !.alt = [r \in 0 .. s.rows - 1 |-> At(s'.screen, (s'.head + r) % s'.buffer_height)]]
    /\ UNCHANGED <<term, queue, stored>>

Leave ==
    /\ AtRest("swap")
    /\ s' = RestoreCursor(SwitchScreenBuffer(s, FALSE))
    /\ UNCHANGED <<term, queue, stored, text>>

\* DECSET 47 and 1047, without 1041.
SwitchOnly(enable) ==
    /\ AtRest("swap")
    /\ s' = SwitchScreenBuffer(s, enable)
    /\ text' = IF enable
               THEN [text EXCEPT !.alt =
                        [r \in 0 .. s.rows - 1 |-> At(s'.screen, (s'.head + r) % s'.buffer_height)]]
               ELSE text
    /\ UNCHANGED <<term, queue, stored>>

-------------------------------------------------------------------------------
(* The frame. *)

\* KTerm_ApplyScrollOp: a full screen scrolls by moving the head; the row behind
\* the screen, in the alternate buffer the first one, is cleared.
Roll(x) ==
    [x EXCEPT !.screen = Put(@, {(x.head + x.rows) % x.buffer_height}, Blank),
              !.head = (@ + 1) % x.buffer_height]

\* Any other region is copied row by row.
Copy(x, bottom) ==
    LET row(r) == (x.head + r) % x.buffer_height
    IN [x EXCEPT !.screen =
            [i \in DOMAIN @ |->
                IF \E r \in 0 .. bottom : row(r) = i
                THEN LET r == CHOOSE r \in 0 .. bottom : row(r) = i
                     IN IF r < bottom THEN At(@, row(r + 1)) ELSE Blank
                ELSE @[i]]]

\* KTerm_ApplyResizeOp: two new buffers, the rows of the one that is shown copied
\* to the top of the first.
ApplyResize(x, rows) ==
    IF rows = x.rows THEN x
    ELSE [x EXCEPT
            !.rows = rows, !.buffer_height = rows + SCROLLBACK,
            !.screen = [i \in 0 .. rows + SCROLLBACK - 1 |->
                           IF i < MinOf(rows, x.rows)
                           THEN At(x.screen, (x.head + i) % x.buffer_height) ELSE Blank],
            !.other = Blanks(rows),
            !.head = 0, !.other_head = 0,
            !.y = MinOf(@, rows - 1)]

Apply(x, op) ==
    CASE op.type = "set_cell" ->
            IF op.y < x.rows
            THEN [x EXCEPT !.screen = Put(@, {(x.head + op.y) % x.buffer_height}, op.c)]
            ELSE x
      [] op.type = "scroll_region" -> IF op.bottom = x.rows - 1 THEN Roll(x) ELSE Copy(x, op.bottom)
      [] op.type = "resize_grid" -> ApplyResize(x, op.rows)

\* KTerm_FlushOps.
Flush ==
    /\ queue # << >>
    /\ LET after[i \in 0 .. Len(queue)] == IF i = 0 THEN s ELSE Apply(after[i - 1], queue[i])
       IN s' = after[Len(queue)]
    /\ queue' = << >>
    /\ UNCHANGED <<term, stored, text, input>>

-------------------------------------------------------------------------------
(* The application. *)

\* KTerm_Resize: the session follows with the queue.  The history is not kept.
ResizeTo(height) ==
    /\ height # term
    /\ AtRest("resize") /\ ("resize" \in Calm => ~s.alt)
    /\ term' = height
    /\ queue' = Append(queue, [type |-> "resize_grid", rows |-> height])
    /\ text' = [text EXCEPT !.main =
                   [r \in -SCROLLBACK .. height - 1 |->
                       IF r \in 0 .. s.rows - 1 /\ r \in DOMAIN @ THEN @[r] ELSE Blank]]
    /\ UNCHANGED <<s, stored>>

Serialize ==
    /\ stored = << >>
    /\ AtRest("store") /\ ("store" \in Calm => ~s.alt)
    /\ stored' = <<[s |-> s, part |-> [i \in 0 .. s.rows - 1 |-> At(s.other, i)], main |-> text.main]>>
    /\ UNCHANGED <<term, s, queue, text>>

\* KTerm_DeserializeSession: of the buffer that is not shown only the first rows
\* are stored, and neither its head nor which of the two is shown.
Deserialize ==
    /\ stored # << >>
    /\ AtRest("store") /\ ("store" \in Calm => ~s.alt)
    /\ LET old == stored[1].s
       IN /\ old.rows = s.rows
          /\ s' = [s EXCEPT
                     !.buffer_height = old.buffer_height, !.head = old.head, !.y = old.y,
                     !.screen = [i \in DOMAIN @ |-> IF i < old.buffer_height
                                                    THEN At(old.screen, i) ELSE @[i]],
                     !.other = [i \in DOMAIN @ |-> IF i < old.rows
                                                   THEN stored[1].part[i] ELSE @[i]]]
    /\ text' = [text EXCEPT !.main = stored[1].main]
    /\ UNCHANGED <<term, queue, stored>>

-------------------------------------------------------------------------------
\* KTerm_InitSession.
Init ==
    /\ term \in Heights
    /\ s = [rows |-> term, alt |-> FALSE, buffer_height |-> term + SCROLLBACK,
            screen |-> Blanks(term + SCROLLBACK), other |-> Blanks(term),
            head |-> 0, other_head |-> 0, y |-> 0, saved_y |-> -1]
    /\ queue = << >> /\ stored = << >> /\ input = 0
    /\ text = [main |-> [r \in -SCROLLBACK .. term - 1 |-> Blank],
               alt |-> [r \in 0 .. term - 1 |-> Blank]]

Instruction ==
    \/ \E c \in Char : PrintChar(c)
    \/ LineFeed
    \/ \E n \in {2, 3} : EraseDisplay(n)
    \/ Enter \/ Leave
    \/ \E enable \in BOOLEAN : SwitchOnly(enable)
    \/ \E height \in Heights : ResizeTo(height)
    \/ Serialize \/ Deserialize

Next ==
    \/ input < MaxInput /\ input' = input + 1 /\ Instruction
    \/ Flush

Spec == Init /\ [][Next]_vars

-------------------------------------------------------------------------------
\* Leaving the alternate screen restores the original one, its content and its
\* scrollback: whenever nothing waits in the queue, the main buffer, shown or put
\* aside, holds what was written to the main screen, and the screen that is shown
\* what was written to it.
RestoresScreen ==
    queue = << >> =>
        /\ Main = text.main
        /\ s.alt => Shown = text.alt
===============================================================================
