------------------------------- MODULE GridArea -------------------------------
(***************************************************************************)
(* Operations on rectangles of the grid: the control sequences of the VT420 *)
(* (DECFRA, DECERA, DECSERA, DECCARA, DECRARA, DECCRA; kterm_impl.h) and    *)
(* the gateway's EXT;grid commands (fill, fill_circle, fill_line, copy,     *)
(* move, stream; kt_gateway.h).  Some are applied at once; most put an      *)
(* operation into the queue, with its own way to say which cells it means.  *)
(*                                                                         *)
(* A cell is its character, its colour and its attributes.  Behind the      *)
(* screen's rows lie those of the scrollback.  The session is the active    *)
(* one and as large as the terminal, its queue is long enough, origin mode   *)
(* is off, and the ring's head does not move (SessionGrid is about that).     *)
(***************************************************************************)
EXTENDS Integers, Sequences, SequencesExt, FiniteSets

CONSTANTS
    W, H,           \* cols, rows
    SCROLLBACK,     \* rows of the ring behind the screen
    Screens,        \* what the ring holds at first
    Cursors,        \* where the cursor is
    Pens,           \* the renditions a host selects, records [fg, attr]
    Rects,          \* Pt; Pl; Pb; Pr of control sequences
    Sgr,            \* their renditions, sequences of numbers
    Boxes,          \* x; y; w; h of gateway commands
    Places,         \* where copies go, <<y, x>>
    Calm,           \* is what looks at the grid at once only done while the queue is empty?
    MaxInput        \* instructions in one behaviour

VARIABLES
    cells,      \* screen_buffer
    queue,      \* op_queue
    pen,        \* current_fg and current_attributes
    cursor,     \* the cursor, <<y, x>>
    ideal,      \* ghost: the screen as the instructions say
    input       \* instructions so far

vars == <<cells, queue, pen, cursor, ideal, input>>

MinOf(a, b) == IF a < b THEN a ELSE b
Ring == (0 .. H + SCROLLBACK - 1) \X (0 .. W - 1)
Screen == (0 .. H - 1) \X (0 .. W - 1)
Protected(c) == "protected" \in c.attr
Junk == [ch |-> "junk", fg |-> "junk", attr |-> {}]
All == {"ch", "fg", "flags"}

\* KTerm_ClearCell
Cleared == [ch |-> " ", fg |-> pen.fg, attr |-> pen.attr]

\* The cells GetActiveScreenCell finds for a rectangle: rows go round the ring.
Cells(r) ==
    {<<(r.y + i) % (H + SCROLLBACK), r.x + j>> :
        i \in 0 .. r.h - 1, j \in {k \in 0 .. r.w - 1 : r.x + k \in 0 .. W - 1}}

-------------------------------------------------------------------------------
(* The operations of KTerm_FlushOps. *)

Put(c, p, new, mask) ==
    [ch |-> IF "ch" \in mask THEN new.ch ELSE c[p].ch,
     fg |-> IF "fg" \in mask THEN new.fg ELSE c[p].fg,
     attr |-> IF "flags" \in mask THEN new.attr ELSE c[p].attr]

\* Wrong variant: protected cells are filled too.
ApplyFillAll(c, op) ==
    [p \in Ring |-> IF p \in Cells(op.rect) THEN Put(c, p, op.cell, op.mask) ELSE c[p]]

\* KTerm_ApplyFillRectOp, and KTerm_ApplyFillRectMaskedOp with a mask.
ApplyFill(c, op) ==
    [p \in Ring |-> IF p \in Cells(op.rect) /\ ~Protected(c[p])
                    THEN Put(c, p, op.cell, op.mask) ELSE c[p]]

\* KTerm_ApplySetAttrRectOp
ApplySetAttr(c, op) ==
    [p \in Ring |->
        IF p \notin Cells(op.rect) \/ Protected(c[p]) THEN c[p]
        ELSE LET set == (c[p].attr \ op.mask) \cup (op.values \cap op.mask)
             IN  [c[p] EXCEPT !.fg = IF op.fg = "none" THEN @ ELSE op.fg,
                              !.attr = (set \ op.xor) \cup (op.xor \ set)]]

\* KTerm_ApplyCopyRectOp: by way of a buffer; what is not read into it is junk.
Source(c, op, i, j) ==
    IF op.rect.y + i < H + SCROLLBACK /\ op.rect.x + j \in 0 .. W - 1
    THEN c[<<(op.rect.y + i) % (H + SCROLLBACK), op.rect.x + j>>] ELSE Junk
ApplyCopy(c, op) ==
    LET Free(d, p) == op.force \/ ~Protected(d[p])
        copied == [p \in Ring |->
            LET i == p[1] - op.dy  j == p[2] - op.dx
            IN  IF p \in Screen /\ i \in 0 .. op.rect.h - 1 /\ j \in 0 .. op.rect.w - 1 /\ Free(c, p)
                THEN Source(c, op, i, j) ELSE c[p]]
    IN  [p \in Ring |->
            IF /\ op.clear /\ p \in Screen /\ Free(copied, p)
               /\ p[1] - op.rect.y \in 0 .. op.rect.h - 1 /\ p[2] - op.rect.x \in 0 .. op.rect.w - 1
            THEN Cleared ELSE copied[p]]

ApplySetCell(c, op) == [p \in Ring |-> IF p \in Cells(op.rect) THEN op.cell ELSE c[p]]

Apply(c, op) ==
    CASE op.type = "fill" -> ApplyFill(c, op)
      [] op.type = "set_attr" -> ApplySetAttr(c, op)
      [] op.type = "copy" -> ApplyCopy(c, op)
      [] op.type = "set_cell" -> ApplySetCell(c, op)

Applied == FoldLeft(Apply, cells, queue)

\* KTerm_FlushOps at the end of a frame
FlushOps ==
    /\ queue # << >>
    /\ cells' = Applied
    /\ queue' = << >>
    /\ UNCHANGED <<pen, cursor, ideal, input>>

-------------------------------------------------------------------------------
(* What an instruction says, without a queue: change(p) in the cells of A. *)

Says(A, change(_)) == ideal' = [p \in Screen |-> IF p \in A THEN change(p) ELSE ideal[p]]
Open == {p \in Screen : ~Protected(ideal[p])}

Instruction ==
    /\ input < MaxInput /\ input' = input + 1
    /\ UNCHANGED cursor

-------------------------------------------------------------------------------
(* The control sequences. *)

Param(n, default) == IF n = 0 THEN default ELSE n

\* Four parameters, 1-based and inclusive, as a rectangle on the screen; it is
\* empty when the code returns without an effect.
Corners(n) ==
    [x |-> Param(n[2], 1) - 1, y |-> Param(n[1], 1) - 1,
     w |-> MinOf(Param(n[4], W), W) - Param(n[2], 1) + 1,
     h |-> MinOf(Param(n[3], H), H) - Param(n[1], 1) + 1]
Empty(r) == r.w <= 0 \/ r.h <= 0

\* The cells the parameters mean; an omitted one means the edge of the page.
Means(n) ==
    {p \in Screen : /\ p[1] + 1 >= n[1] /\ (n[3] = 0 \/ p[1] + 1 <= n[3])
                    /\ p[2] + 1 >= n[2] /\ (n[4] = 0 \/ p[2] + 1 <= n[4])}

Queued(r, op) ==
    /\ queue' = IF Empty(r) THEN queue ELSE Append(queue, op)
    /\ UNCHANGED <<cells, pen>>

\* CSI Pch; Pt; Pl; Pb; Pr $ x.  An omitted Pb or Pr is taken for 1.
DECFRA(n) ==
    LET new == [ch |-> "F", fg |-> pen.fg, attr |-> pen.attr] IN
    /\ Instruction /\ n[3] # 0 /\ n[4] # 0
    /\ Queued(Corners(n), [type |-> "fill", rect |-> Corners(n), cell |-> new, mask |-> All])
    /\ Says(Means(n) \cap Open, LAMBDA p : new)

\* CSI Pt; Pl; Pb; Pr $ z erases at once, protected or not.
DECERA(n) ==
    /\ Instruction /\ (Calm => queue = << >>)
    /\ cells' = [p \in Ring |-> IF p \in Cells(Corners(n)) THEN Cleared ELSE cells[p]]
    /\ UNCHANGED <<queue, pen>>
    /\ Says(Means(n), LAMBDA p : Cleared)

\* CSI Ps; Pt; Pl; Pb; Pr $ {: 0 the cells that are not protected, 1 all, 2 the others.
DECSERA(ps, n) ==
    LET Erases(c) == CASE ps = 0 -> ~Protected(c) [] ps = 1 -> TRUE [] ps = 2 -> Protected(c)
    IN  /\ Instruction /\ (Calm => queue = << >>)
        /\ cells' = [p \in Ring |-> IF p \in Cells(Corners(n)) /\ Erases(cells[p])
                                    THEN Cleared ELSE cells[p]]
        /\ UNCHANGED <<queue, pen>>
        /\ Says({p \in Means(n) : Erases(ideal[p])}, LAMBDA p : Cleared)

\* What DECCARA gathers from its renditions before it queues one operation.
Collect(acc, n) ==
    CASE n = 0 -> [mask |-> acc.mask \cup {"bold", "reverse"},
                   values |-> acc.values \ {"bold", "reverse"}, fg |-> "white"]
      [] n = 1 -> [acc EXCEPT !.mask = @ \cup {"bold"}, !.values = @ \cup {"bold"}]
      [] n = 7 -> [acc EXCEPT !.mask = @ \cup {"reverse"}, !.values = @ \cup {"reverse"}]
      [] n = 22 -> [acc EXCEPT !.mask = @ \cup {"bold"}, !.values = @ \ {"bold"}]
      [] n = 31 -> [acc EXCEPT !.fg = "red"]

\* One rendition after the other, as SGR has it.
Renders(c, n) ==
    CASE n = 0 -> [c EXCEPT !.attr = @ \ {"bold", "reverse"}, !.fg = "white"]
      [] n = 1 -> [c EXCEPT !.attr = @ \cup {"bold"}]
      [] n = 7 -> [c EXCEPT !.attr = @ \cup {"reverse"}]
      [] n = 22 -> [c EXCEPT !.attr = @ \ {"bold"}]
      [] n = 31 -> [c EXCEPT !.fg = "red"]

\* CSI Pt; Pl; Pb; Pr; Ps; ... $ r.  38 and 48 are left out: with them the loop
\* over the parameters goes back to an earlier one, and mostly never ends.
DECCARA(n, sgr) ==
    LET all == FoldLeft(Collect, [mask |-> {}, values |-> {}, fg |-> "none"], sgr) IN
    /\ Instruction
    /\ Queued(Corners(n), [type |-> "set_attr", rect |-> Corners(n), mask |-> all.mask,
                           values |-> all.values, xor |-> {}, fg |-> all.fg])
    /\ Says(Means(n) \cap Open, LAMBDA p : FoldLeft(Renders, ideal[p], sgr))

\* CSI Pt; Pl; Pb; Pr; Ps; ... $ t reverses the attributes that are named.
DECRARA(n, sgr) ==
    LET named == {a \in {"bold", "reverse"} :
                    \E i \in 1 .. Len(sgr) : sgr[i] = IF a = "bold" THEN 1 ELSE 7}
    IN  /\ Instruction
        /\ Queued(Corners(n), [type |-> "set_attr", rect |-> Corners(n), mask |-> {},
                               values |-> {}, xor |-> named, fg |-> "none"])
        /\ Says(Means(n) \cap Open,
                LAMBDA p : [ideal[p] EXCEPT !.attr = (@ \ named) \cup (named \ @)])

\* CSI Pts; Pls; Pbs; Prs; Pps; Ptd; Pld; Ppd $ v
DECCRA(n, t, l) ==
    LET r == Corners(n)
        From(p) == <<p[1] - (Param(t, 1) - 1) + r.y, p[2] - (Param(l, 1) - 1) + r.x>>
    IN  /\ Instruction /\ t >= 0 /\ l >= 0
        /\ Queued(r, [type |-> "copy", rect |-> r, dy |-> Param(t, 1) - 1, dx |-> Param(l, 1) - 1,
                      force |-> FALSE, clear |-> FALSE])
        /\ Says({p \in Open : From(p) \in Means(n)}, LAMBDA p : ideal[From(p)])

\* KTerm_InsertCharacterAtCursor in replace mode looks for a protected cell in
\* the grid and queues the character.
InsertCharacter ==
    LET new == [ch |-> "P", fg |-> pen.fg, attr |-> pen.attr] IN
    /\ Instruction /\ (Calm => queue = << >>)
    /\ queue' = IF Protected(cells[cursor]) THEN queue
                ELSE Append(queue, [type |-> "set_cell", cell |-> new,
                        rect |-> [y |-> cursor[1], x |-> cursor[2], w |-> 1, h |-> 1]])
    /\ UNCHANGED <<cells, pen>>
    /\ Says({cursor} \cap Open, LAMBDA p : new)

\* SGR and DECSCA.  What a move clears takes the rendition of the flush.
SelectPen ==
    /\ Instruction
    /\ \A i \in 1 .. Len(queue) : queue[i].type = "copy" => ~queue[i].clear
    /\ pen' \in Pens \ {pen}
    /\ UNCHANGED <<cells, queue, ideal>>

-------------------------------------------------------------------------------
(* The gateway's commands.  A coordinate is absolute, or relative to the
   cursor when it was written with a sign. *)

\* KTerm_ParseGridCoord
Coord(c, base) == IF c.relative THEN base + c.v ELSE c.v

\* KTerm_QueueGridOp: clipped to the screen; what is left is queued.
GridOp(x, y, w, h) ==
    LET x0 == IF x < 0 THEN 0 ELSE x
        y0 == IF y < 0 THEN 0 ELSE y
    IN  [x |-> x0, y |-> y0, w |-> MinOf(x + w, W) - x0, h |-> MinOf(y + h, H) - y0]

\* A command queues its rectangles, to be filled as mask says; it means the
\* cells of A.
Fills(rects, mask, A) ==
    LET new == [ch |-> "G", fg |-> pen.fg, attr |-> pen.attr]
        drawn == SelectSeq(rects, LAMBDA r : ~Empty(r))
    IN  /\ Instruction
        /\ queue' = queue \o [i \in 1 .. Len(drawn) |->
                        [type |-> "fill", rect |-> drawn[i], cell |-> new, mask |-> mask]]
        /\ Says(A \cap Open, LAMBDA p : Put(ideal, p, new, mask))
        /\ UNCHANGED <<cells, pen>>

\* w cells to the right of x, or to the left of it.
Stretch(x, w) == IF w < 0 THEN x + w .. x - 1 ELSE IF w = 0 THEN {x} ELSE x .. x + w - 1

\* fill; a negative size reaches to the other side, none counts for one.
Fill(b, mask) ==
    LET x == Coord(b.x, cursor[2])  y == Coord(b.y, cursor[1])
        Size(n) == IF n = 0 THEN 1 ELSE IF n < 0 THEN -n ELSE n
        x0 == IF b.w < 0 THEN x + b.w ELSE x
        y0 == IF b.h < 0 THEN y + b.h ELSE y
    IN  Fills(<<GridOp(x0, y0, Size(b.w), Size(b.h))>>, mask,
              {p \in Screen : p[1] \in Stretch(y, b.h) /\ p[2] \in Stretch(x, b.w)})

\* KTerm_Grid_FillCircle: the midpoint algorithm, spans for all eight octants.
\* It is followed as a function of the steps; x never falls below y twice.
Octant(radius) ==
    LET at[n \in 0 .. radius + 1] ==
            IF n = 0 THEN [x |-> radius, y |-> 0, err |-> 0]
            ELSE LET q == at[n - 1]
                     up == IF q.err <= 0 THEN [q EXCEPT !.y = @ + 1, !.err = @ + 2 * (q.y + 1) + 1] ELSE q
                 IN  IF up.err > 0 THEN [up EXCEPT !.x = @ - 1, !.err = @ - (2 * (up.x - 1) + 1)] ELSE up
    IN  SelectSeq([n \in 1 .. radius + 2 |-> at[n - 1]], LAMBDA q : q.x >= q.y)
Spans(cx, cy, q) ==
    <<GridOp(cx - q.x, cy + q.y, 2 * q.x + 1, 1)>>
    \o (IF q.y # 0 THEN <<GridOp(cx - q.x, cy - q.y, 2 * q.x + 1, 1)>> ELSE << >>)
    \o <<GridOp(cx - q.y, cy + q.x, 2 * q.y + 1, 1)>>
    \o (IF q.x # 0 THEN <<GridOp(cx - q.y, cy - q.x, 2 * q.y + 1, 1)>> ELSE << >>)

\* fill_circle draws a disc that is flattened towards the diagonals.
FillCircle(b, mask) ==
    LET x == Coord(b.x, cursor[2])  y == Coord(b.y, cursor[1])
        r == IF b.w < 0 THEN -b.w ELSE b.w
        rects == FoldLeft(LAMBDA s, q : s \o Spans(x, y, q), << >>, Octant(r))
        Abs(n) == IF n < 0 THEN -n ELSE n
        Disc(dy, dx) == dy * dy + dx * dx + 2 * MinOf(Abs(dy), Abs(dx)) <= r * r
    IN  Fills(rects, mask, {p \in Screen : Disc(p[1] - y, p[2] - x)})

\* Wrong variant: a wrapped line goes on in the column it began in.
RowsOfIndented(x, y, len) ==
    LET first == MinOf(len, W - x)
        more == (len - first + W - 1) \div W
    IN  [i \in 1 .. more + 1 |->
            IF i = 1 THEN GridOp(x, y, first, 1)
            ELSE GridOp(x, y + i - 1, MinOf(W, len - first - (i - 2) * W), 1)]

\* The rows of a line that wraps, down to the last row.
RowsOf(x, y, len) ==
    LET first == MinOf(len, W - x)
        more == (len - first + W - 1) \div W
    IN  [i \in 1 .. more + 1 |->
            IF i = 1 THEN GridOp(x, y, first, 1)
            ELSE GridOp(0, y + i - 1, MinOf(W, len - first - (i - 2) * W), 1)]

\* fill_line: KTerm_Grid_FillSpan.  A negative length turns the direction.
FillSpan(b, dir, wrap, mask) ==
    LET x == Coord(b.x, cursor[2])  y == Coord(b.y, cursor[1])
        len == IF b.w < 0 THEN -b.w ELSE b.w
        turned == [h |-> "l", l |-> "h", v |-> "u", u |-> "v"]
        d == IF b.w < 0 THEN turned[dir] ELSE dir
        \* a line that wraps may begin behind the last column
        y0 == IF x >= W THEN y + x \div W ELSE y
        x0 == IF x >= W THEN x % W ELSE x
        rects == CASE len = 0 -> << >>
                   [] len > 0 /\ d = "h" /\ wrap -> IF y0 < 0 THEN << >> ELSE RowsOf(x0, y0, len)
                   [] len > 0 /\ d = "h" /\ ~wrap -> <<GridOp(x, y, len, 1)>>
                   [] len > 0 /\ d = "v" -> <<GridOp(x, y, 1, len)>>
                   [] len > 0 /\ d = "l" -> <<GridOp(x - len + 1, y, len, 1)>>
                   [] len > 0 /\ d = "u" -> <<GridOp(x, y - len + 1, 1, len)>>
        \* how far a cell is along the line
        Far(p) == CASE d = "h" /\ wrap -> (p[1] - y) * W + p[2] - x
                    [] d = "h" /\ ~wrap -> IF p[1] = y THEN p[2] - x ELSE -1
                    [] d = "l" -> IF p[1] = y THEN x - p[2] ELSE -1
                    [] d = "v" -> IF p[2] = x THEN p[1] - y ELSE -1
                    [] d = "u" -> IF p[2] = x THEN y - p[1] ELSE -1
    IN  /\ wrap => x >= 0 /\ y >= 0
        /\ Fills(rects, mask, {p \in Screen : Far(p) \in 0 .. len - 1})

\* copy and move, from a source on the screen; mode 1 overwrites protected cells.
Copy(b, dy, dx, force, clear) ==
    LET x == Coord(b.x, cursor[2])  y == Coord(b.y, cursor[1])
        source == {p \in Screen : p[1] - y \in 0 .. b.h - 1 /\ p[2] - x \in 0 .. b.w - 1}
        From(p) == <<p[1] - dy + y, p[2] - dx + x>>
        copied == [p \in Screen |-> IF From(p) \in source /\ (force \/ p \in Open)
                                    THEN ideal[From(p)] ELSE ideal[p]]
    IN  /\ Instruction
        /\ b.w > 0 /\ b.h > 0 /\ Cardinality(source) = b.w * b.h
        /\ queue' = Append(queue, [type |-> "copy", rect |-> [x |-> x, y |-> y, w |-> b.w, h |-> b.h],
                                   dy |-> dy, dx |-> dx, force |-> force, clear |-> clear])
        /\ ideal' = [p \in Screen |->
                        IF clear /\ p \in source /\ (force \/ ~Protected(copied[p]))
                        THEN Cleared ELSE copied[p]]
        /\ UNCHANGED <<cells, pen>>

\* stream: what is queued is applied first; then a set_cell for every cell there
\* is data for.  The cells lie side by side on the screen.
Stream(b, data, mask) ==
    LET x == Coord(b.x, cursor[2])  y == Coord(b.y, cursor[1])
        flushed == Applied
        n == MinOf(Len(data), b.w * b.h)
        P(i) == <<y + ((i - 1) \div b.w), x + ((i - 1) % b.w)>>
        New(c, i) == Put(c, P(i), [ch |-> data[i], fg |-> pen.fg, attr |-> {}], mask)
    IN  /\ Instruction
        /\ b.w > 0 /\ b.h > 0 /\ {P(i) : i \in 1 .. b.w * b.h} \subseteq Screen
        /\ cells' = flushed
        /\ queue' = [i \in 1 .. n |-> [type |-> "set_cell", cell |-> New(flushed, i),
                        rect |-> [y |-> P(i)[1], x |-> P(i)[2], w |-> 1, h |-> 1]]]
        /\ Says({P(i) : i \in 1 .. n}, LAMBDA p : New(ideal, (p[1] - y) * b.w + p[2] - x + 1))
        /\ UNCHANGED pen

-------------------------------------------------------------------------------
Init ==
    /\ cells \in Screens
    /\ queue = << >>
    /\ pen \in Pens
    /\ cursor \in Cursors
    /\ ideal = [p \in Screen |-> cells[p]]
    /\ input = 0

Masks == {All, {"ch"}, {"fg", "flags"}}
Sequence ==
    \/ \E n \in Rects : DECFRA(n) \/ DECERA(n) \/ \E ps \in 0 .. 2 : DECSERA(ps, n)
    \/ \E n \in Rects, sgr \in Sgr : DECCARA(n, sgr) \/ DECRARA(n, sgr)
    \/ \E n \in Rects, p \in Places : DECCRA(n, p[1], p[2])
    \/ InsertCharacter
    \/ SelectPen
Gateway ==
    \/ \E b \in Boxes, mask \in Masks : Fill(b, mask) \/ FillCircle(b, mask)
    \/ \E b \in Boxes, dir \in {"h", "v", "l", "u"}, wrap \in BOOLEAN : FillSpan(b, dir, wrap, All)
    \/ \E b \in Boxes, p \in Places, force, clear \in BOOLEAN : Copy(b, p[1], p[2], force, clear)
    \/ \E b \in Boxes, data \in {<<"x">>, <<"x", "y", "z">>}, mask \in {{"ch"}, {"ch", "flags"}} :
          Stream(b, data, mask)

Next == Sequence \/ Gateway \/ FlushOps

Spec == Init /\ [][Next]_vars

-------------------------------------------------------------------------------
(* Properties *)

\* However the cells an instruction is about are handed on, as corners, as a
\* clipped box, as spans or through a buffer, and whatever else waits in the
\* queue: the screen becomes what the instructions say one after the other.
\* What reads the grid at once has to come while the queue is empty (Calm).
DrawsWhatWasAsked == \A p \in Screen : Applied[p] = ideal[p]

===============================================================================
