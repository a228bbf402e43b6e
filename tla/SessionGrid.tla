------------------------------ MODULE SessionGrid ------------------------------
(***************************************************************************)
(* The grid of a session and the operation queue between the parser and it. *)
(* A frame of KTerm_Update takes the sessions in turn: bytes are popped and *)
(* parsed, instructions move the cursor at once and queue what they do to   *)
(* the cells, KTerm_FlushOps applies the queue, and at the end the          *)
(* compositor copies the rows marked dirty.                                 *)
(*                                                                         *)
(* The grid is one column wide.  A cell is a member of Char or Blank; there *)
(* are no protected cells, origin mode is off, autowrap on.  One step of    *)
(* the parser stands for the byte that completes an instruction.            *)
(***************************************************************************)
EXTENDS Integers, Sequences, SequencesExt, FiniteSets

CONSTANTS
    N,                  \* sessions 1 .. N
    Heights,            \* heights a session can have
    SCROLLBACK,         \* MAX_SCROLLBACK_LINES
    Char, Blank,        \* what a cell can hold
    OP_QUEUE_SIZE,      \* slots of an operation queue
    Reserve,            \* slots the backpressure leaves free: 100
    MaxOpsPerFlush,     \* config.max_ops_per_flush, 0 for no limit
    CharsPerFrame,      \* target_chars
    Counts,             \* parameters of IL, DL, SU and SD
    Repeats,            \* parameters of REP
    Wheel,              \* lines by which the view is scrolled, up or down
    Repertoire,         \* the instructions that arrive
    FullScroll,         \* may the whole screen scroll up?
    OverDelete          \* may DL be asked for more lines than there are?

Instructions == {"print", "lf", "ind", "ri", "cr", "cup", "decstbm", "il", "dl",
                 "su", "sd", "ed", "rep", "resize"}

ASSUME HeightsAssumption == Heights # {} /\ Heights \subseteq Nat \ {0}
ASSUME CellAssumption == Blank \notin Char
ASSUME SizesAssumption ==
    /\ {N, SCROLLBACK, OP_QUEUE_SIZE, CharsPerFrame} \subseteq Nat \ {0}
    /\ {Reserve, MaxOpsPerFlush} \subseteq Nat /\ Reserve < OP_QUEUE_SIZE
ASSUME ParametersAssumption == Counts \union Repeats \union Wheel \subseteq Nat \ {0}
ASSUME RepertoireAssumption == Repertoire \subseteq Instructions
ASSUME LimitsAssumption == {FullScroll, OverDelete} \subseteq BOOLEAN

VARIABLES
    sess,       \* the sessions
    active,     \* term->active_session
    turn,       \* session KTerm_Update is at; 0 between frames, N + 1 in Prepare
    budget,     \* target_chars - chars_processed, less what is in the chunk
    chunk,      \* bytes popped and not yet parsed
    shown       \* what the compositor has of each session's rows

vars == <<sess, active, turn, budget, chunk, shown>>

Sessions == 1 .. N
MinOf(a, b) == IF a < b THEN a ELSE b

-------------------------------------------------------------------------------
(* Rows of the ring. *)

Height(s) == s.rows + SCROLLBACK

\* GetActiveScreenRow and, with the user's scroll position, GetScreenRow.
ActiveRow(s, r) == (s.head + r) % Height(s)
ViewRow(s, r) == (s.head + r - s.view) % Height(s)

\* The cells of the active screen and the history above it.
Text(s) == [r \in -SCROLLBACK .. s.rows - 1 |-> s.ring[ActiveRow(s, r)]]

\* Rows R get the content f[r], and those on the screen are marked dirty.
Write(s, R, f) ==
    [s EXCEPT
        !.ring = [i \in DOMAIN s.ring |->
                    IF \E r \in R : ActiveRow(s, r) = i
                    THEN f[CHOOSE r \in R : ActiveRow(s, r) = i] ELSE s.ring[i]],
        !.dirty = @ \union {r \in R : r >= 0 /\ r < s.rows}]

\* Rows R receive what lies d rows from them, as long as that is in S.
Shift(s, R, S, d) ==
    Write(s, R, [r \in R |-> IF r + d \in S THEN s.ring[ActiveRow(s, r + d)] ELSE Blank])

-------------------------------------------------------------------------------
(* Operations, and what KTerm_FlushOps makes of them. *)

SetCell(r, c) == [type |-> "set_cell", y |-> r, c |-> c]
ScrollRegion(t, b, dy) == [type |-> "scroll_region", top |-> t, bottom |-> b, dy |-> dy]
InsertLines(t, b, n) == [type |-> "insert_lines", top |-> t, bottom |-> b, n |-> n]
DeleteLines(t, b, n) == [type |-> "delete_lines", top |-> t, bottom |-> b, n |-> n]
ResizeGrid(h) == [type |-> "resize_grid", rows |-> h]

IsFullScroll(s, op) ==
    op.type = "scroll_region" /\ op.dy > 0 /\ op.top = 0 /\ op.bottom = s.rows - 1

\* Wrong variant: the row that comes in from the ring keeps its old content.
RollUnclear(s, n) ==
    [s EXCEPT !.head = (@ + n) % Height(s),
              !.view = IF @ > 0 THEN @ + n ELSE @]

\* The whole screen moves up: the head moves on, into rows that are cleared.
\* No row is marked dirty, and nothing keeps the view inside the ring.
Roll(s, n) ==
    [s EXCEPT
        !.ring = [i \in DOMAIN @ |->
                    IF \E k \in 0 .. n - 1 : i = (s.head + s.rows + k) % Height(s)
                    THEN Blank ELSE @[i]],
        !.head = (@ + n) % Height(s),
        !.view = IF @ > 0 THEN @ + n ELSE @]

\* KTerm_ApplyScrollOp.
ApplyScroll(s, op) ==
    LET region == op.top .. op.bottom
    IN IF IsFullScroll(s, op) THEN Roll(s, op.dy) ELSE Shift(s, region, region, op.dy)

\* KTerm_ApplyVerticalOp.  Deleting clears the last n rows down to the bottom,
\* also those of them that lie above the region.
ApplyInsert(s, op) ==
    LET region == op.top .. MinOf(op.bottom, s.rows - 1)
    IN Shift(s, region, region, -op.n)

ApplyDelete(s, op) ==
    LET end == MinOf(op.bottom, s.rows - 1)
    IN Shift(s, MinOf(op.top, end - op.n + 1) .. end, op.top .. end, op.n)

\* KTerm_ApplyResizeOp.  The screen is copied from its top; the history is not,
\* for history_rows_populated does not count what the queue scrolls off.
ApplyResize(s, op) ==
    IF op.rows = s.rows THEN s
    ELSE [s EXCEPT
            !.rows = op.rows,
            !.ring = [i \in 0 .. op.rows + SCROLLBACK - 1 |->
                        IF i < MinOf(s.rows, op.rows) THEN @[ActiveRow(s, i)] ELSE Blank],
            !.head = 0, !.view = 0,
            !.dirty = 0 .. op.rows - 1,
            !.y = MinOf(@, op.rows - 1), !.x = 0,
            !.top = 0, !.bottom = op.rows - 1]

Apply(s, op) ==
    CASE op.type = "set_cell" -> Write(s, {op.y}, [r \in {op.y} |-> op.c])
      [] op.type = "scroll_region" -> ApplyScroll(s, op)
      [] op.type = "insert_lines" -> ApplyInsert(s, op)
      [] op.type = "delete_lines" -> ApplyDelete(s, op)
      [] op.type = "resize_grid" -> ApplyResize(s, op)

\* The session after its first n operations, which leave the queue and put
\* nothing into it, and after all of them.
Flushed(s, n) ==
    LET t == FoldLeft(Apply, s, SubSeq(s.queue, 1, n))
    IN [f \in DOMAIN s |->
           CASE f = "queue" -> SubSeq(s.queue, n + 1, Len(s.queue))
             [] f = "lost" -> s.lost
             [] OTHER -> t[f]]
Settled(s) == Flushed(s, Len(s.queue))

\* KTerm_QueueOp turns an operation away when the queue is full; its callers do
\* not look at what it returns.  The ghost field lost remembers.
QueueOp(s, op) ==
    IF Len(s.queue) >= OP_QUEUE_SIZE THEN [s EXCEPT !.lost = TRUE]
    ELSE [s EXCEPT !.queue = Append(@, op)]

-------------------------------------------------------------------------------
(* Instructions.  Each is given all sessions, for LF and RI queue their scroll
   to the active session and not to the one that is parsed. *)

\* One line down; past the bottom of the region the cursor stays there.
Down(s) == [s EXCEPT !.y = MinOf(@ + 1, s.bottom)]
AtBottom(s) == s.y + 1 > s.bottom
Scroll(s, n) == QueueOp(s, ScrollRegion(s.top, s.bottom, n))

\* KTerm_ProcessNormalChar: a character beyond the right margin wraps first.
PutChar(s, c) ==
    LET wrapped == IF AtBottom(s) THEN Scroll(Down(s), 1) ELSE Down(s)
        here == IF s.x > 0 THEN wrapped ELSE s
    IN [QueueOp(here, SetCell(here.y, c)) EXCEPT !.x = 1]

\* IND.
Index(s) == IF AtBottom(s) THEN Scroll(Down(s), 1) ELSE Down(s)

\* LF, VT, FF; and RI.
LineFeed(ss, s) ==
    LET moved == [ss EXCEPT ![s] = Down(@)]
    IN IF AtBottom(ss[s])
       THEN [moved EXCEPT ![active] =
                QueueOp(@, ScrollRegion(ss[s].top, ss[s].bottom, 1))]
       ELSE moved

ReverseIndex(ss, s) ==
    IF ss[s].y - 1 < ss[s].top
    THEN [[ss EXCEPT ![s].y = ss[s].top] EXCEPT ![active] =
             QueueOp(@, ScrollRegion(ss[s].top, ss[s].bottom, -1))]
    ELSE [ss EXCEPT ![s].y = @ - 1]

MoveTo(s, r) == [s EXCEPT !.y = r, !.x = 0]
SetMargins(s, t, b) == [MoveTo(s, 0) EXCEPT !.top = t, !.bottom = b]

\* KTerm_QueueInsertLines and KTerm_QueueDeleteLines.
InRegion(s) == s.y \in s.top .. s.bottom
InsertLine(s, n) == IF InRegion(s) THEN QueueOp(s, InsertLines(s.y, s.bottom, n)) ELSE s
DeleteLine(s, n) == IF InRegion(s) THEN QueueOp(s, DeleteLines(s.y, s.bottom, n)) ELSE s

\* ED clears the cells itself, and marks no row.
Erase(s, R) ==
    [Write(s, R, [r \in R |-> Blank]) EXCEPT !.dirty = s.dirty]
EraseBelow(s) == Erase(s, (s.y + s.x) .. s.rows - 1)
EraseAll(s) == Erase(s, 0 .. s.rows - 1)

\* REP prints the last character n times.  (Which character that is, is left
\* open.)
Repeat(s, c, n) == FoldLeft(LAMBDA t, i : PutChar(t, c), s, [i \in 1 .. n |-> i])

-------------------------------------------------------------------------------
(* A frame. *)

\* Wrong variant: the backpressure waits until the queue is full.
PopChunkEager(n) ==
    /\ turn \in Sessions /\ chunk = 0
    /\ n <= budget
    /\ Len(sess[turn].queue) < OP_QUEUE_SIZE
    /\ chunk' = n /\ budget' = budget - n
    /\ UNCHANGED <<sess, active, turn, shown>>

\* KTerm_ProcessEventsInternal pops when the queue has room in reserve.
PopChunk(n) ==
    /\ turn \in Sessions /\ chunk = 0
    /\ n <= budget
    /\ Len(sess[turn].queue) < OP_QUEUE_SIZE - Reserve
    /\ chunk' = n /\ budget' = budget - n
    /\ UNCHANGED <<sess, active, turn, shown>>

\* The next byte of the chunk makes ss of the sessions.
Parse(instruction, ss) ==
    /\ instruction \in Repertoire
    /\ sess' = ss
    /\ FullScroll \/ \A s \in Sessions : \A i \in DOMAIN ss[s].queue :
                        ~IsFullScroll(ss[s], ss[s].queue[i])
    /\ chunk' = chunk - 1
    /\ UNCHANGED <<active, turn, budget, shown>>

Own(new) == [sess EXCEPT ![turn] = new]
this == sess[turn]
Lines == 0 .. this.rows - 1

ParsePrint == \E c \in Char : Parse("print", Own(PutChar(this, c)))
ParseIND == Parse("ind", Own(Index(this)))
ParseLF == Parse("lf", LineFeed(sess, turn))
ParseRI == Parse("ri", ReverseIndex(sess, turn))
ParseCR == Parse("cr", Own([this EXCEPT !.x = 0]))
ParseCUP == \E r \in Lines : Parse("cup", Own(MoveTo(this, r)))
ParseDECSTBM == \E t, b \in Lines : t <= b /\ Parse("decstbm", Own(SetMargins(this, t, b)))
ParseIL == \E n \in Counts : Parse("il", Own(InsertLine(this, n)))
ParseDL ==
    \E n \in Counts :
        /\ OverDelete \/ n <= this.bottom - this.y + 1
        /\ Parse("dl", Own(DeleteLine(this, n)))
ParseSU == \E n \in Counts : Parse("su", Own(Scroll(this, n)))
ParseSD == \E n \in Counts : Parse("sd", Own(Scroll(this, -n)))
ParseED == Parse("ed", Own(EraseBelow(this))) \/ Parse("ed", Own(EraseAll(this)))
ParseREP == \E c \in Char, n \in Repeats : Parse("rep", Own(Repeat(this, c, n)))

\* Wrong variant: the operation that reaches the limit is not applied.
FlushOpsOffByOne ==
    LET s == sess[turn]
        n == IF MaxOpsPerFlush = 0 THEN Len(s.queue)
             ELSE MinOf(MaxOpsPerFlush - 1, Len(s.queue))
    IN sess' = [sess EXCEPT ![turn] = Flushed(s, n)]

\* KTerm_FlushOps on the session of this turn.
FlushOps ==
    LET s == sess[turn]
        n == IF MaxOpsPerFlush = 0 THEN Len(s.queue) ELSE MinOf(MaxOpsPerFlush, Len(s.queue))
    IN sess' = [sess EXCEPT ![turn] = Flushed(s, n)]

\* A session's turn ends when its input, its budget or its time is used up.
EndTurn ==
    /\ turn \in Sessions /\ chunk = 0
    /\ FlushOps
    /\ turn' = turn + 1
    /\ budget' = IF turn < N THEN CharsPerFrame ELSE 0
    /\ UNCHANGED <<active, chunk, shown>>

\* KTermCompositor_Prepare, as far as it concerns rows: the dirty ones are
\* copied, as the user's scroll position shows them.
Prepare ==
    /\ turn = N + 1
    /\ shown' = [s \in Sessions |->
                    [r \in 0 .. sess[s].rows - 1 |->
                        IF r \in sess[s].dirty THEN sess[s].ring[ViewRow(sess[s], r)]
                        ELSE shown[s][r]]]
    /\ sess' = [s \in Sessions |-> [sess[s] EXCEPT !.dirty = {}]]
    /\ turn' = 0
    /\ UNCHANGED <<active, budget, chunk>>

BeginFrame ==
    /\ turn = 0
    /\ turn' = 1 /\ budget' = CharsPerFrame
    /\ UNCHANGED <<sess, active, chunk, shown>>

\* KTerm_Resize between frames queues an operation (to one session here).  Its
\* throttle of 33 ms keeps resizes apart; here one at a time waits in a queue.
Resize(s, h) ==
    /\ "resize" \in Repertoire
    /\ turn = 0
    /\ \A i \in DOMAIN sess[s].queue : sess[s].queue[i].type # "resize_grid"
    /\ sess' = [sess EXCEPT ![s] = QueueOp(@, ResizeGrid(h))]
    /\ UNCHANGED <<active, turn, budget, chunk, shown>>

\* The mouse wheel moves the view within the history.
ScrollView(s, n) ==
    /\ turn = 0
    /\ sess' = [sess EXCEPT
                    ![s].view = IF @ + n < 0 THEN 0 ELSE MinOf(@ + n, SCROLLBACK),
                    ![s].dirty = 0 .. sess[s].rows - 1]
    /\ UNCHANGED <<active, turn, budget, chunk, shown>>

\* KTerm_InitSession.
NewSession(h) ==
    [rows |-> h, ring |-> [i \in 0 .. h + SCROLLBACK - 1 |-> Blank],
     head |-> 0, view |-> 0, y |-> 0, x |-> 0, top |-> 0, bottom |-> h - 1,
     dirty |-> 0 .. h - 1, queue |-> << >>, lost |-> FALSE]

Init ==
    /\ \E h \in Heights : sess = [s \in Sessions |-> NewSession(h)]
    /\ active \in Sessions
    /\ turn = 0 /\ budget = 0 /\ chunk = 0
    /\ shown = [s \in Sessions |-> [r \in 0 .. sess[s].rows - 1 |-> Blank]]

ParseByte ==
    /\ turn \in Sessions /\ chunk > 0
    /\ \/ ParsePrint \/ ParseIND \/ ParseLF \/ ParseRI \/ ParseCR \/ ParseCUP
       \/ ParseDECSTBM \/ ParseIL \/ ParseDL \/ ParseSU \/ ParseSD \/ ParseED \/ ParseREP

Frame == BeginFrame \/ (\E n \in 1 .. CharsPerFrame : PopChunk(n)) \/ EndTurn \/ Prepare
User ==
    \/ \E s \in Sessions, h \in Heights : Resize(s, h)
    \/ \E s \in Sessions, n \in Wheel : ScrollView(s, n) \/ ScrollView(s, -n)

Next == ParseByte \/ Frame \/ User

Spec == Init /\ [][Next]_vars

\* The embedding loop calls KTerm_Update for ever, and a call comes to its end.
FairSpec == Spec /\ WF_vars(ParseByte) /\ WF_vars(BeginFrame \/ EndTurn \/ Prepare)

-------------------------------------------------------------------------------
(* Properties *)

\* No operation is lost for want of room: what the backpressure holds in
\* reserve is enough for the bytes that are parsed without another look.
NothingLost == \A s \in Sessions : ~sess[s].lost

\* Backpressure ends: a session whose queue has no room but the reserve goes on
\* reading its input later.
ReadsAgain ==
    \A s \in Sessions :
        Len(sess[s].queue) >= OP_QUEUE_SIZE - Reserve
            ~> Len(sess[s].queue) < OP_QUEUE_SIZE - Reserve

\* Between frames the compositor has every row that is not marked dirty as the
\* user should see it.
ShownOrDirty ==
    turn = 0 =>
        \A s \in Sessions : \A r \in 0 .. sess[s].rows - 1 :
            r \in sess[s].dirty \/ shown[s][r] = sess[s].ring[ViewRow(sess[s], r)]

\* Input of one session changes no other session.
Isolated == [][\A s \in Sessions : turn \in Sessions \ {s} => sess'[s] = sess[s]]_vars

===============================================================================
