------------------------------- MODULE Cursor -------------------------------
(***************************************************************************)
(* The cursor of a session, the margins it moves in, its tab stops and the  *)
(* fields it skips in forms mode, under every instruction that moves it: by *)
(* printing, by control and escape sequences, by VT52 commands, by keys in  *)
(* direct mode, by a dump of another session's input, and by a resize,      *)
(* which waits in the operation queue for the end of the frame.             *)
(*                                                                         *)
(* The session is the active one.  The terminal keeps its size, a session   *)
(* may be smaller: it is in a pane.  What an instruction reads from a cell  *)
(* is whether it is protected; erasing, filling and scrolling may leave any *)
(* of Forms protected, which is chosen at the end of a frame.               *)
(***************************************************************************)
EXTENDS Integers

CONSTANTS
    W, H,           \* term->width, term->height
    Sizes,          \* sizes a session can have
    Forms,          \* sets of protected cells, <<x, y>>
    N,              \* parameters of instructions
    TAB,            \* tab_stops.default_width
    Families,       \* the kinds of instruction a behaviour may use, see Instruction
    MaxInput        \* instructions in one behaviour

VARIABLES
    s,          \* the session
    may,        \* the family of this behaviour
    input       \* instructions so far

vars == <<s, may, input>>
MinOf(a, b) == IF a < b THEN a ELSE b
MaxOf(a, b) == IF a < b THEN b ELSE a
Clamp(n, low, high) == MaxOf(low, MinOf(n, high))

-------------------------------------------------------------------------------
(* The grid. *)

Cells(t) == (0 .. t.cols - 1) \X (0 .. t.rows - 1)
At(t, x, y) == [t EXCEPT !.x = x, !.y = y]
Home(t) == At(t, 0, 0)

\* Where a margin's instruction leaves the cursor.
OriginHome(t) == IF t.origin THEN At(t, t.left, t.top) ELSE Home(t)

\* The cells in the order in which forms mode goes through them.
Index(t, c) == c[2] * t.cols + c[1]
Cell(t, i) == <<i % t.cols, i \div t.cols>>
Size(t) == t.cols * t.rows

-------------------------------------------------------------------------------
(* Forms mode. *)

IsCellProtected(t) == <<t.x, t.y>> \in t.protected \cap Cells(t)

\* The first of a set of cells, in the order of the screen.
FirstOf(t, C) == CHOOSE c \in C : \A d \in C : Index(t, c) <= Index(t, d)

AdvanceCursorSkipProtect(t) ==
    IF t.x + 1 < t.cols THEN At(t, t.x + 1, t.y)
    ELSE At(t, 0, IF t.y + 1 < t.rows THEN t.y + 1 ELSE 0)
RetreatCursorSkipProtect(t) ==
    IF t.x > 0 THEN At(t, t.x - 1, t.y)
    ELSE At(t, t.cols - 1, IF t.y > 0 THEN t.y - 1 ELSE t.rows - 1)

\* KTerm_GoHome.
GoHome(t) ==
    LET free == Cells(t) \ t.protected
        line == {c \in free : c[2] = t.y}
    IN CASE t.home = "absolute" -> Home(t)
         [] t.home = "last_focused" -> At(t, t.focus[1], t.focus[2])
         [] t.home = "first" -> IF free = {} THEN Home(t)
                                ELSE At(t, FirstOf(t, free)[1], FirstOf(t, free)[2])
         [] t.home = "first_line" -> At(t, IF line = {} THEN 0 ELSE FirstOf(t, line)[1], t.y)

\* On to the next cell that is not protected; home if there is none.
ResolveProtectionForward(t) ==
    IF ~t.skip \/ ~IsCellProtected(t) THEN t
    ELSE LET free == Cells(t) \ t.protected
             steps(c) == (Index(t, c) - Index(t, <<t.x, t.y>>)) % Size(t)
             c == CHOOSE c \in free : \A d \in free : steps(c) <= steps(d)
         IN IF free = {} THEN GoHome(t) ELSE At(t, c[1], c[2])
ResolveProtectionBackward(t) ==
    IF ~t.skip \/ ~IsCellProtected(t) THEN t
    ELSE LET free == Cells(t) \ t.protected
             steps(c) == (Index(t, <<t.x, t.y>>) - Index(t, c)) % Size(t)
             c == CHOOSE c \in free : \A d \in free : steps(c) <= steps(d)
         IN IF free = {} THEN Home(t) ELSE At(t, c[1], c[2])

\* Over n cells that are not protected.
Forward(t, n) ==
    LET f[i \in 0 .. n] == IF i = 0 THEN t
                           ELSE ResolveProtectionForward(AdvanceCursorSkipProtect(f[i - 1]))
    IN f[n]
Backward(t, n) ==
    LET f[i \in 0 .. n] == IF i = 0 THEN t
                           ELSE ResolveProtectionBackward(RetreatCursorSkipProtect(f[i - 1]))
    IN f[n]

-------------------------------------------------------------------------------
(* Printing. *)

\* A line down, and the region scrolls if it ends there.
Down(t) == [t EXCEPT !.y = IF @ + 1 > t.bottom THEN t.bottom ELSE @ + 1]

\* Where the next character goes.
Wrapped(t, width) ==
    IF t.wrap
    THEN IF t.x + width - 1 > t.right THEN Down([t EXCEPT !.x = t.left]) ELSE t
    ELSE [t EXCEPT !.x = MinOf(@, t.right)]

\* A character that is inserted at a place that is no cell reaches for it all the
\* same.
Drawn(t, width) ==
    [t EXCEPT !.x = @ + width, !.lost = @ \/ <<t.x, t.y>> \notin Cells(t)]
ProcessNormalChar(width) ==
    LET t == Drawn(Wrapped(s, width), width)
    IN s' = IF width = 0 THEN [t EXCEPT !.x = @ + 1] ELSE t

\* A byte that cannot continue a UTF-8 character: the replacement character, and
\* no wrapping.
InvalidUtf8 == s' = Drawn(s, 1)

\* REP.
Repeat(n, width) ==
    LET f[i \in 0 .. n] == IF i = 0 THEN s ELSE Drawn(Wrapped(f[i - 1], width), width)
    IN s' = f[n]

-------------------------------------------------------------------------------
(* Control characters and escape sequences. *)

BS == s' = IF s.skip THEN ResolveProtectionBackward(RetreatCursorSkipProtect(s))
           ELSE [s EXCEPT !.x = IF @ > s.left THEN @ - 1 ELSE @]

NextTabStop(t, x) ==
    LET next == {i \in t.tabs : x < i /\ i < t.cols}
    IN IF next = {} THEN t.cols - 1 ELSE CHOOSE i \in next : \A j \in next : i <= j
PreviousTabStop(t, x) ==
    LET before == {i \in t.tabs : i < x}
    IN IF before # {} THEN CHOOSE i \in before : \A j \in before : j <= i
       ELSE IF x <= 0 THEN 0 ELSE ((x - 1) \div TAB) * TAB

HT == s' = IF s.skip THEN ResolveProtectionForward(AdvanceCursorSkipProtect(s))
           ELSE [s EXCEPT !.x = MinOf(NextTabStop(s, @), s.right)]
CHT(n) ==
    LET f[i \in 0 .. n] == IF i = 0 THEN s.x ELSE NextTabStop(s, f[i - 1])
    IN s' = [s EXCEPT !.x = MinOf(f[n], W - 1)]
CBT(n) ==
    LET f[i \in 0 .. n] == IF i = 0 THEN s.x ELSE PreviousTabStop(s, f[i - 1])
    IN s' = [s EXCEPT !.x = f[n]]

LF(newline) == s' = IF newline THEN [Down(s) EXCEPT !.x = s.left] ELSE Down(s)
CR == s' = [s EXCEPT !.x = s.left]
IND == s' = Down(s)
NEL == s' = [Down(s) EXCEPT !.x = s.left]
RI == s' = [s EXCEPT !.y = IF @ - 1 < s.top THEN s.top ELSE @ - 1]

\* HTS, TBC and CTC; 5 W sets the stops that a terminal begins with, as far as
\* the session reaches.
Stops(n) == {i \in 0 .. n - 1 : i > 0 /\ i % TAB = 0}
HTS == s' = [s EXCEPT !.tabs = IF s.x < s.cols THEN @ \cup {s.x} ELSE @]
TBC == s' = [s EXCEPT !.tabs = @ \ {s.x}]
ClearAllTabStops == s' = [s EXCEPT !.tabs = {}]
DECST8C == s' = [s EXCEPT !.tabs = Stops(MinOf(s.cols, W))]

-------------------------------------------------------------------------------
(* Control sequences. *)

CUU(n) ==
    s' = ResolveProtectionForward([s EXCEPT !.y = MaxOf(@ - n, IF s.origin THEN s.top ELSE 0)])
CUD(n) ==
    s' = ResolveProtectionForward(
            [s EXCEPT !.y = MinOf(@ + n, IF s.origin THEN s.bottom ELSE s.rows - 1)])
CUF(n) == s' = IF s.skip THEN Forward(s, n) ELSE [s EXCEPT !.x = MinOf(@ + n, s.cols - 1)]
CUB(n) == s' = IF s.skip THEN Backward(s, n) ELSE [s EXCEPT !.x = MaxOf(@ - n, 0)]
CNL(n) == s' = ResolveProtectionForward(At(s, s.left, MinOf(s.y + n, s.rows - 1)))
CPL(n) == s' = ResolveProtectionForward(At(s, s.left, MaxOf(s.y - n, 0)))
CHA(n) == s' = ResolveProtectionForward([s EXCEPT !.x = Clamp(n - 1, 0, s.cols - 1)])

\* Wrong variant: counted from the margins, and not kept on the page.
CUPUnclamped(row, col) ==
    LET y == row - 1 + IF s.origin THEN s.top ELSE 0
        x == col - 1 + IF s.origin THEN s.left ELSE 0
    IN s' = ResolveProtectionForward(At(s, Clamp(x, 0, s.cols - 1), y))

CUP(row, col) ==
    LET y == Clamp(row - 1 + IF s.origin THEN s.top ELSE 0, 0, s.rows - 1)
        x == Clamp(col - 1 + IF s.origin THEN s.left ELSE 0, 0, s.cols - 1)
    IN s' = ResolveProtectionForward(
               IF s.origin THEN At(s, Clamp(x, s.left, s.right), Clamp(y, s.top, s.bottom))
               ELSE At(s, x, y))
VPA(n) ==
    s' = [s EXCEPT !.y = IF s.origin THEN Clamp(n - 1 + s.top, s.top, s.bottom)
                         ELSE Clamp(n - 1, 0, s.rows - 1)]

\* These two are measured by the terminal.
HPR(n) == s' = [s EXCEPT !.x = MinOf(@ + n, W - 1)]
VPR(n) == s' = [s EXCEPT !.y = MinOf(@ + n, H - 1)]

-------------------------------------------------------------------------------
(* Margins and modes. *)

DECSTBM(top, bottom) ==
    /\ 1 <= top /\ top <= bottom /\ bottom <= s.rows
    /\ s' = OriginHome([s EXCEPT !.top = top - 1, !.bottom = bottom - 1])
DECSLRM(left, right) ==
    /\ 1 <= left /\ left <= right /\ right <= s.cols
    /\ s' = OriginHome([s EXCEPT !.left = left - 1, !.right = right - 1])
NoDECLRMM == s' = [s EXCEPT !.left = 0, !.right = W - 1]
DECOM(enable) == s' = OriginHome([s EXCEPT !.origin = enable])
DECAWM(enable) == s' = [s EXCEPT !.wrap = enable]

\* DECSTR; and DECALN, whose cells are not of interest here.
DECSTR ==
    s' = Home([s EXCEPT !.wrap = TRUE, !.origin = FALSE, !.saved = << >>, !.tabs = Stops(W),
                        !.top = 0, !.bottom = H - 1, !.left = 0, !.right = W - 1])
DECALN == s' = Home(s)

SaveCursor == s' = [s EXCEPT !.saved = <<[x |-> s.x, y |-> s.y, origin |-> s.origin, wrap |-> s.wrap]>>]
RestoreCursor ==
    /\ s.saved # << >>
    /\ s' = [s EXCEPT !.x = s.saved[1].x, !.y = s.saved[1].y,
                      !.origin = s.saved[1].origin, !.wrap = s.saved[1].wrap]

-------------------------------------------------------------------------------
(* VT52, the end of a Sixel image, keys in direct mode, and the dump. *)

VT52Down == s' = [s EXCEPT !.y = IF @ < H - 1 THEN @ + 1 ELSE @]
VT52Right == s' = [s EXCEPT !.x = IF @ < W - 1 THEN @ + 1 ELSE @]
VT52Up == s' = [s EXCEPT !.y = MaxOf(@ - 1, 0)]
VT52Left == s' = [s EXCEPT !.x = MaxOf(@ - 1, 0)]
VT52Address(row, col) == s' = At(s, Clamp(col - 1, 0, W - 1), Clamp(row - 1, 0, H - 1))

\* Below the image, or to its right.
SixelEnd(n) ==
    \/ s' = [s EXCEPT !.x = 0, !.y = MinOf(MinOf(n, s.bottom), H - 1)]
    \/ s' = [s EXCEPT !.x = MinOf(n, W - 1)]

\* Enter, and a character in the last column: a line down, the last line scrolls.
NewLine(t) == At(t, 0, MinOf(t.y + 1, t.rows - 1))
Type(t) == IF t.x + 1 >= t.cols THEN NewLine(t) ELSE At(t, t.x + 1, t.y)
KeyBackspace ==
    s' = IF s.x > 0 THEN At(s, s.x - 1, s.y)
         ELSE IF s.y > 0 THEN At(s, s.cols - 1, s.y - 1) ELSE s
KeyDirect ==
    \/ s' = Type(s) \/ s' = NewLine(s) \/ KeyBackspace
    \/ s' = [s EXCEPT !.x = MaxOf(@ - 1, 0)]
    \/ s' = [s EXCEPT !.x = IF @ < s.cols - 1 THEN @ + 1 ELSE @]
    \/ s' = [s EXCEPT !.y = MaxOf(@ - 1, 0)]
    \/ s' = [s EXCEPT !.y = IF @ < s.rows - 1 THEN @ + 1 ELSE @]

\* KTerm_ProcessEventsInternal writes another session's input here.
RawDump == \/ s' = Home(s) \/ s' = Type(s)

-------------------------------------------------------------------------------
(* The frame. *)

\* KTerm_ResizeSession, which a pane's change of size calls: the queue is told.
Resize(size) ==
    /\ s.pending = << >>
    /\ s' = [s EXCEPT !.pending = <<size>>]

\* DECSCPP and DECCOLM, with and without DECNCSM.
DECSCPP(cols) ==
    /\ s.pending = << >>
    /\ LET t == [s EXCEPT !.pending = <<<<cols, s.rows>>>>]
       IN \/ s' = t
          \/ s' = Home([t EXCEPT !.top = 0, !.bottom = s.rows - 1, !.left = 0, !.right = cols - 1])

\* KTerm_ApplyResizeOp.
ApplyResize(t, size) ==
    IF size = <<t.cols, t.rows>> THEN t
    ELSE [t EXCEPT !.cols = size[1], !.rows = size[2],
                   !.x = MinOf(@, size[1] - 1), !.y = MinOf(@, size[2] - 1),
                   !.left = 0, !.right = size[1] - 1, !.top = 0, !.bottom = size[2] - 1]

\* KTerm_Update: the last place that was not protected, and what was queued.
Frame ==
    /\ LET t == IF IsCellProtected(s) THEN s ELSE [s EXCEPT !.focus = <<s.x, s.y>>]
           r == IF t.pending = << >> THEN t
                ELSE [ApplyResize(t, t.pending[1]) EXCEPT !.pending = << >>]
       IN \E form \in Forms : s' = [r EXCEPT !.protected = IF may = "forms" THEN form ELSE @]
    /\ UNCHANGED <<may, input>>

\* EXT;SKIP_PROTECT and HOME_MODE of the gateway.
SetForms == \E skip \in BOOLEAN, home \in {"absolute", "last_focused", "first", "first_line"} :
                s' = [s EXCEPT !.skip = skip, !.home = home]

-------------------------------------------------------------------------------
Init ==
    /\ \E size \in Sizes :
          s = [cols |-> size[1], rows |-> size[2], x |-> 0, y |-> 0, lost |-> FALSE,
               top |-> 0, bottom |-> size[2] - 1, left |-> 0, right |-> size[1] - 1,
               origin |-> FALSE, wrap |-> TRUE, skip |-> FALSE, home |-> "absolute",
               protected |-> {}, focus |-> <<0, 0>>, saved |-> << >>, tabs |-> Stops(W),
               pending |-> << >>]
    /\ may \in Families
    /\ input = 0

Always ==
    \/ ProcessNormalChar(1)
    \/ \E row, col \in N : CUP(row, col)
    \/ \E size \in Sizes : Resize(size)
Text ==
    \/ ProcessNormalChar(0) \/ ProcessNormalChar(2) \/ InvalidUtf8 \/ (\E n \in N, width \in {0, 1, 2} : Repeat(n, width))
    \/ BS \/ (\E newline \in BOOLEAN : LF(newline)) \/ CR \/ IND \/ NEL \/ RI
    \/ \E enable \in BOOLEAN : DECAWM(enable)
Moves ==
    \/ \E n \in N : CUU(n) \/ CUD(n) \/ CUF(n) \/ CUB(n) \/ CNL(n) \/ CPL(n) \/ CHA(n)
    \/ \E n \in N : VPA(n) \/ HPR(n) \/ VPR(n)
    \/ SaveCursor \/ RestoreCursor
Margins ==
    \/ \E a, b \in N : DECSTBM(a, b) \/ DECSLRM(a, b)
    \/ NoDECLRMM \/ DECSTR \/ DECALN
    \/ \E enable \in BOOLEAN : DECOM(enable)
    \/ \E size \in Sizes : DECSCPP(size[1])
Tabs == HT \/ (\E n \in N : CHT(n) \/ CBT(n)) \/ HTS \/ TBC \/ ClearAllTabStops \/ DECST8C
Other ==
    \/ VT52Up \/ VT52Down \/ VT52Left \/ VT52Right
    \/ \E row, col \in N : VT52Address(row, col)
    \/ \E n \in N : SixelEnd(n)
    \/ KeyDirect \/ RawDump

Instruction ==
    \/ Always
    \/ may = "text" /\ Text
    \/ may \in {"moves", "forms"} /\ Moves
    \/ may \in {"text", "moves", "tabs", "other"} /\ Margins
    \/ may = "tabs" /\ Tabs
    \/ may = "other" /\ Other
    \/ may = "forms" /\ (SetForms \/ BS \/ HT)

Next ==
    \/ /\ input < MaxInput /\ input' = input + 1 /\ ~s.lost
       /\ Instruction /\ UNCHANGED may
    \/ Frame

Spec == Init /\ [][Next]_vars

-------------------------------------------------------------------------------
\* The cursor, in front of the column behind the last one at most, and its margins
\* are within a page of a given size.
Within(t, cols, rows) ==
    /\ t.x \in 0 .. cols /\ t.y \in 0 .. rows - 1
    /\ 0 <= t.top /\ t.top <= t.bottom /\ t.bottom < rows
    /\ 0 <= t.left /\ t.left <= t.right /\ t.right < cols
OnGrid(t) == Within(t, t.cols, t.rows) /\ ~t.lost

\* The cursor and its margins leave the grid in four ways only, each of them in
\* one step: a character of two columns, a combining one, or the sign for an
\* invalid one, behind the last column; a place that was saved or focused before the session became
\* smaller; an instruction that is measured by the terminal, in a session that is
\* smaller; and margins for a width the queue will bring.  No other
\* character is drawn where there is no cell.
Beyond ==
    /\ s'.x = s'.cols + 1 \/ s'.lost
    /\ s'.lost => s.x = s.cols
    /\ OnGrid([s' EXCEPT !.x = 0, !.lost = FALSE])
Stale ==
    /\ \/ <<s'.x, s'.y>> = s.focus
       \/ s.saved # << >> /\ <<s'.x, s'.y>> = <<s.saved[1].x, s.saved[1].y>>
    /\ <<s'.x, s'.y>> \notin Cells(s) /\ OnGrid(Home(s'))
ByTerminal ==
    /\ <<s.cols, s.rows>> # <<W, H>>
    /\ ~s'.lost /\ Within(s', MaxOf(s.cols, W), MaxOf(s.rows, H))
Queued == s'.pending # << >> /\ ~s'.lost /\ Within(s', s'.pending[1][1], s'.rows)

LeavesGridOnly == [][OnGrid(s) => OnGrid(s') \/ Beyond \/ Stale \/ ByTerminal \/ Queued]_vars
===============================================================================
