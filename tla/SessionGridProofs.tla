--------------------------- MODULE SessionGridProofs ---------------------------
(***************************************************************************)
(* When no operation is lost for want of room in the queue: with whole       *)
(* flushes, if the queue has room for what a round of all sessions can queue *)
(* (as the code's defaults have); with limited flushes, if the reserve of    *)
(* the backpressure is as large as what a frame can queue.                   *)
(*                                                                         *)
(* And that SessionGrid implements TextScreen.  Every operation, applied to  *)
(* the ring, does to the text above and on the screen what it is for; so the *)
(* text with the queue applied, which is what the application thinks of,     *)
(* changes with an instruction when the instruction is parsed, and with      *)
(* nothing else.                                                            *)
(***************************************************************************)
EXTENDS SessionScreen, WellFoundedInduction, TLAPS

IsSeq(q) == q \in Seq({q[i] : i \in DOMAIN q})

\* A resize waits in the queue; and the room a session's queue takes up, with
\* the resize that may still come.
ResizeWaits(s) == \E i \in DOMAIN s.queue : s.queue[i].type = "resize_grid"
Used(s) == Len(s.queue) + (IF ResizeWaits(s) THEN 0 ELSE 1)

Session(s) == {"queue", "lost"} \subseteq DOMAIN s /\ IsSeq(s.queue)

TypeOK ==
    /\ turn \in 0 .. N + 1 /\ active \in Sessions
    /\ chunk \in Nat /\ budget \in Nat /\ (chunk > 0 => turn \in Sessions)
    /\ sess = [s \in Sessions |-> sess[s]]
    /\ \A s \in Sessions : Session(sess[s])

-------------------------------------------------------------------------------
(* Whole flushes: a session's queue holds what came in since its last turn. *)

Times(n) == n * CharsPerFrame

\* Turns that have come to an end since the last one of session s.
Since(s) ==
    IF turn > s THEN turn - s - 1 ELSE IF turn = 0 THEN N - s ELSE N - s + turn - 1

\* Bytes parsed in this turn.
Parsed == IF turn \in Sessions THEN CharsPerFrame - budget - chunk ELSE 0

WholeInv ==
    /\ TypeOK /\ NothingLost
    /\ budget + chunk <= CharsPerFrame
    /\ \A s \in Sessions :
          Used(sess[s]) <= 1 + Times(Since(s)) + (IF turn = s THEN 2 * Parsed ELSE Parsed)

-------------------------------------------------------------------------------
(* Limited flushes: the bytes of the chunk have their room in the queue. *)

LimitedInv ==
    /\ TypeOK /\ NothingLost
    /\ budget + chunk <= CharsPerFrame
    /\ \A s \in Sessions :
          Used(sess[s]) + (IF turn = s THEN 2 * chunk ELSE 0) <= OP_QUEUE_SIZE

-------------------------------------------------------------------------------
(* Queues *)

LEMMA SeqFacts ==
    ASSUME NEW q, IsSeq(q)
    PROVE  Len(q) \in Nat /\ DOMAIN q = 1 .. Len(q)
BY DEF IsSeq

\* An operation at the end.
LEMMA AppendFacts ==
    ASSUME NEW q, IsSeq(q), NEW op
    PROVE  /\ IsSeq(Append(q, op)) /\ Len(Append(q, op)) = Len(q) + 1
           /\ \A i \in 1 .. Len(q) : Append(q, op)[i] = q[i]
           /\ Append(q, op)[Len(q) + 1] = op
<1> DEFINE S == {q[i] : i \in DOMAIN q} \union {op}
<1>1. q \in Seq(S) /\ op \in S
  BY DEF IsSeq
<1> HIDE DEF S
<1>2. /\ Append(q, op) \in Seq(S) /\ Len(Append(q, op)) = Len(q) + 1
      /\ \A i \in 1 .. Len(q) : Append(q, op)[i] = q[i]
      /\ Append(q, op)[Len(q) + 1] = op
  BY <1>1
<1>3. IsSeq(Append(q, op))
  BY <1>2 DEF IsSeq
<1> QED  BY <1>2, <1>3

\* The rest of a queue.
LEMMA RestFacts ==
    ASSUME NEW q, IsSeq(q), NEW n \in 0 .. Len(q)
    PROVE  /\ IsSeq(SubSeq(q, n + 1, Len(q)))
           /\ Len(SubSeq(q, n + 1, Len(q))) = Len(q) - n
           /\ \A i \in 1 .. Len(q) - n : SubSeq(q, n + 1, Len(q))[i] = q[n + i]
<1> DEFINE S == {q[i] : i \in DOMAIN q}
           r == SubSeq(q, n + 1, Len(q))
<1>1. q \in Seq(S)
  BY DEF IsSeq
<1> HIDE DEF S
<1>2. /\ r \in Seq(S) /\ Len(r) = Len(q) - n
      /\ \A i \in 1 .. Len(q) - n : r[i] = q[n + i]
  BY <1>1
<1> HIDE DEF r
<1>3. IsSeq(r)
  BY <1>2 DEF IsSeq
<1> QED  BY <1>2, <1>3 DEF r

-------------------------------------------------------------------------------
(* What an instruction does to a session's queue *)

\* The session t is s after at most n more operations, none of them a resize.
\* With room for them nothing is lost.
Grew(s, t, n) ==
    /\ DOMAIN t = DOMAIN s /\ IsSeq(t.queue)
    /\ Len(t.queue) <= Len(s.queue) + n
    /\ ResizeWaits(t) <=> ResizeWaits(s)
    /\ Len(s.queue) + n <= OP_QUEUE_SIZE => t.lost = s.lost

LEMMA Still ==
    ASSUME NEW s, Session(s), NEW t, DOMAIN t = DOMAIN s,
           t.queue = s.queue, t.lost = s.lost, NEW n \in Nat
    PROVE  Session(t) /\ Grew(s, t, n)
<1>1. Len(s.queue) \in Nat
  BY SeqFacts DEF Session
<1> QED  BY <1>1 DEF Session, Grew, ResizeWaits

LEMMA Grown ==
    ASSUME NEW s, NEW t, NEW u, NEW m \in Nat, NEW n \in Nat,
           Session(s), Grew(s, t, m), Grew(t, u, n)
    PROVE  Grew(s, u, m + n)
<1> DEFINE k == Len(s.queue)
           l == Len(t.queue)
           o == Len(u.queue)
<1>1. k \in Nat /\ l \in Nat /\ o \in Nat
  BY SeqFacts DEF Session, Grew
<1>2. OP_QUEUE_SIZE \in Nat
  BY SizesAssumption
<1>3. /\ l <= k + m /\ o <= l + n
      /\ k + m <= OP_QUEUE_SIZE => t.lost = s.lost
      /\ l + n <= OP_QUEUE_SIZE => u.lost = t.lost
  BY DEF Grew
<1> HIDE DEF k, l, o
<1>4. o <= k + (m + n)
  BY ONLY <1>1, <1>3, m \in Nat, n \in Nat
<1>5. ASSUME k + (m + n) <= OP_QUEUE_SIZE PROVE u.lost = s.lost
  <2>1. k + m <= OP_QUEUE_SIZE /\ l + n <= OP_QUEUE_SIZE
    BY ONLY <1>1, <1>2, <1>3, <1>5, m \in Nat, n \in Nat
  <2> QED  BY <1>3, <2>1
<1> QED  BY <1>4, <1>5 DEF Grew, k, o

LEMMA QueueOpGrew ==
    ASSUME NEW s, Session(s), NEW op, op.type # "resize_grid"
    PROVE  Session(QueueOp(s, op)) /\ Grew(s, QueueOp(s, op), 1)
<1> DEFINE t == QueueOp(s, op)
<1>1. Len(s.queue) \in Nat /\ DOMAIN s.queue = 1 .. Len(s.queue) /\ OP_QUEUE_SIZE \in Nat
  BY SeqFacts, SizesAssumption DEF Session
<1>2. CASE Len(s.queue) >= OP_QUEUE_SIZE
  <2>1. DOMAIN t = DOMAIN s /\ t.queue = s.queue
    BY <1>2 DEF QueueOp, Session
  <2> HIDE DEF t
  <2> QED  BY <1>1, <1>2, <2>1 DEF Grew, Session, ResizeWaits, t
<1>3. CASE ~(Len(s.queue) >= OP_QUEUE_SIZE)
  <2>1. DOMAIN t = DOMAIN s /\ t.queue = Append(s.queue, op) /\ t.lost = s.lost
    BY <1>3 DEF QueueOp, Session
  <2> HIDE DEF t
  <2>2. /\ IsSeq(t.queue) /\ Len(t.queue) = Len(s.queue) + 1
        /\ \A i \in 1 .. Len(s.queue) : t.queue[i] = s.queue[i]
        /\ t.queue[Len(s.queue) + 1] = op
    BY <2>1, AppendFacts DEF Session
  <2>3. DOMAIN t.queue = 1 .. Len(s.queue) + 1
    BY <2>2, SeqFacts
  <2>4. ResizeWaits(t) <=> ResizeWaits(s)
    <3>1. \A i \in 1 .. Len(s.queue) + 1 :
              i \in 1 .. Len(s.queue) \/ i = Len(s.queue) + 1
      BY <1>1
    <3>2. \A i \in 1 .. Len(s.queue) : i \in 1 .. Len(s.queue) + 1
      BY <1>1
    <3> QED  BY <1>1, <2>2, <2>3, <3>1, <3>2 DEF ResizeWaits
  <2> QED  BY <1>1, <2>1, <2>2, <2>4 DEF Grew, Session, t
<1> QED  BY <1>2, <1>3

LEMMA ScrollGrew ==
    ASSUME NEW s, Session(s), NEW n
    PROVE  Session(Scroll(s, n)) /\ Grew(s, Scroll(s, n), 1)
<1>1. ScrollRegion(s.top, s.bottom, n).type # "resize_grid"
  BY DEF ScrollRegion
<1> QED  BY <1>1, QueueOpGrew DEF Scroll

LEMMA DownStill ==
    ASSUME NEW s, Session(s), NEW n \in Nat
    PROVE  Session(Down(s)) /\ Grew(s, Down(s), n)
<1>1. DOMAIN Down(s) = DOMAIN s /\ Down(s).queue = s.queue /\ Down(s).lost = s.lost
  BY DEF Down, Session
<1> QED  BY <1>1, Still

LEMMA IndexGrew ==
    ASSUME NEW s, Session(s)
    PROVE  Session(Index(s)) /\ Grew(s, Index(s), 1)
<1>1. Session(Down(s)) /\ Grew(s, Down(s), 0) /\ Grew(s, Down(s), 1)
  BY DownStill
<1>2. Session(Scroll(Down(s), 1)) /\ Grew(Down(s), Scroll(Down(s), 1), 1)
  BY <1>1, ScrollGrew
<1>3. Grew(s, Scroll(Down(s), 1), 0 + 1)
  BY <1>1, <1>2, Grown
<1> QED  BY <1>1, <1>2, <1>3 DEF Index

\* A character queues itself and, at the end of the last line, a scroll.
LEMMA PutCharGrew ==
    ASSUME NEW s, Session(s), NEW c
    PROVE  Session(PutChar(s, c)) /\ Grew(s, PutChar(s, c), 2)
<1> DEFINE here == IF s.x > 0 THEN Index(s) ELSE s
           put == QueueOp(here, SetCell(here.y, c))
<1>1. Session(here) /\ Grew(s, here, 1)
  <2>1. Session(Index(s)) /\ Grew(s, Index(s), 1)
    BY IndexGrew
  <2>2. Session(s) /\ Grew(s, s, 1)
    BY Still
  <2> QED  BY <2>1, <2>2
<1>2. PutChar(s, c) = [put EXCEPT !["x"] = 1]
  BY DEF PutChar, Index
<1> HIDE DEF here
<1>3. Session(put) /\ Grew(here, put, 1)
  <2>1. SetCell(here.y, c).type # "resize_grid"
    BY DEF SetCell
  <2> QED  BY <1>1, <2>1, QueueOpGrew
<1> HIDE DEF put
<1>4. Session(PutChar(s, c)) /\ Grew(put, PutChar(s, c), 0)
  <2> DEFINE t == PutChar(s, c)
  <2>1. DOMAIN t = DOMAIN put /\ t.queue = put.queue /\ t.lost = put.lost
    BY <1>2, <1>3 DEF Session
  <2> QED  BY <1>3, <2>1, Still
<1>5. Grew(s, put, 1 + 1)
  BY <1>1, <1>3, Grown
<1>6. Grew(s, PutChar(s, c), (1 + 1) + 0)
  BY <1>4, <1>5, Grown
<1> QED  BY <1>4, <1>6

-------------------------------------------------------------------------------
(* What a byte does to the queues of all sessions *)

\* The sessions ss after a byte of the session whose turn it is: it queues two
\* operations at most, or one to another session.
Fed(ss) ==
    /\ ss = [s \in Sessions |-> ss[s]]
    /\ \A s \in Sessions :
          Session(ss[s]) /\ Grew(sess[s], ss[s], IF s = turn THEN 2 ELSE 1)
Apart(ss) == \A s \in Sessions \ {turn} : ss[s] = sess[s]

LEMMA GrewMore ==
    ASSUME NEW s, Session(s), NEW t, NEW m \in Nat, NEW n \in Nat, m <= n,
           Grew(s, t, m)
    PROVE  Grew(s, t, n)
<1> DEFINE k == Len(s.queue)
           l == Len(t.queue)
<1>1. k \in Nat /\ l \in Nat /\ OP_QUEUE_SIZE \in Nat
  BY SeqFacts, SizesAssumption DEF Session, Grew
<1>2. l <= k + m /\ (k + m <= OP_QUEUE_SIZE => t.lost = s.lost)
  BY DEF Grew
<1> HIDE DEF k, l
<1>3. l <= k + n /\ (k + n <= OP_QUEUE_SIZE => k + m <= OP_QUEUE_SIZE)
  BY ONLY <1>1, <1>2, m \in Nat, n \in Nat, m <= n
<1> QED  BY <1>2, <1>3 DEF Grew, k, l

\* An instruction that only concerns the session itself.
LEMMA OwnFed ==
    ASSUME TypeOK, turn \in Sessions, NEW t, Session(t), Grew(sess[turn], t, 2)
    PROVE  Fed(Own(t)) /\ Apart(Own(t))
<1>1. /\ Own(t) = [s \in Sessions |-> Own(t)[s]]
      /\ Own(t)[turn] = t /\ \A s \in Sessions \ {turn} : Own(t)[s] = sess[s]
  BY DEF Own, TypeOK
<1>2. \A s \in Sessions : Session(sess[s]) /\ Grew(sess[s], sess[s], 1)
  BY Still DEF TypeOK
<1> QED  BY <1>1, <1>2 DEF Fed, Apart

\* One that also queues a scroll to the active session.
LEMMA CrossFed ==
    ASSUME TypeOK, turn \in Sessions, NEW m, Session(m), Grew(sess[turn], m, 0),
           NEW op, op.type # "resize_grid"
    PROVE  Fed([Own(m) EXCEPT ![active] = QueueOp(@, op)])
<1> DEFINE q == QueueOp(Own(m)[active], op)
           ss == [Own(m) EXCEPT ![active] = q]
<1>1. /\ DOMAIN Own(m) = Sessions /\ Own(m)[turn] = m
      /\ \A s \in Sessions \ {turn} : Own(m)[s] = sess[s]
  BY DEF Own, TypeOK
<1>2. \A s \in Sessions : Session(sess[s]) /\ Grew(sess[s], sess[s], 0)
  BY Still DEF TypeOK
<1>3. \A s \in Sessions : Session(Own(m)[s]) /\ Grew(sess[s], Own(m)[s], 0)
  BY <1>1, <1>2
<1>4. active \in Sessions
  BY DEF TypeOK
<1>5. Session(q) /\ Grew(Own(m)[active], q, 1)
  BY <1>3, <1>4, QueueOpGrew
<1> HIDE DEF q
<1>6. Grew(sess[active], q, 0 + 1)
  BY <1>2, <1>3, <1>4, <1>5, Grown
<1>7. Grew(sess[active], q, 1) /\ Grew(sess[active], q, 2)
  BY <1>2, <1>4, <1>6, GrewMore
<1>8. \A s \in Sessions : Grew(sess[s], Own(m)[s], 1) /\ Grew(sess[s], Own(m)[s], 2)
  BY <1>2, <1>3, GrewMore
<1>9. /\ ss = [s \in Sessions |-> ss[s]]
      /\ ss[active] = q /\ \A s \in Sessions \ {active} : ss[s] = Own(m)[s]
  BY <1>1, <1>4 DEF Own, TypeOK
<1> HIDE DEF ss
<1>10. Fed(ss)
  BY <1>3, <1>5, <1>7, <1>8, <1>9 DEF Fed
<1> QED  BY <1>10 DEF ss, q

\* One byte.  REP, which queues as many operations as it is asked for, is not
\* among the instructions.
LEMMA ParseStep ==
    ASSUME TypeOK, "rep" \notin Repertoire, ParseByte
    PROVE  /\ Fed(sess')
           /\ {"lf", "ri"} \cap Repertoire = {} => Apart(sess')
           /\ chunk > 0 /\ chunk' = chunk - 1 /\ turn \in Sessions
           /\ UNCHANGED <<active, turn, budget>>
<1> DEFINE Done(ss) == Fed(ss) /\ ({"lf", "ri"} \cap Repertoire = {} => Apart(ss))
<1>1. turn \in Sessions /\ Session(this)
  BY DEF ParseByte, TypeOK, this
<1>2. ASSUME NEW t, Session(t), Grew(this, t, 2) PROVE Done(Own(t))
  BY <1>1, <1>2, OwnFed DEF this
<1>3. ASSUME NEW t, DOMAIN t = DOMAIN this, t.queue = this.queue, t.lost = this.lost
      PROVE  Done(Own(t))
  BY <1>1, <1>2, <1>3, Still
<1>4. ASSUME NEW t, Session(t), Grew(this, t, 1) PROVE Done(Own(t))
  BY <1>1, <1>2, <1>4, GrewMore
<1>5. ASSUME NEW op, op.type # "resize_grid" PROVE Done(Own(QueueOp(this, op)))
  BY <1>1, <1>4, <1>5, QueueOpGrew
<1>6. ASSUME NEW n PROVE Done(Own(Scroll(this, n)))
  BY <1>1, <1>4, ScrollGrew
<1>7. ASSUME NEW m, NEW op, DOMAIN m = DOMAIN this, m.queue = this.queue,
             m.lost = this.lost, op.type # "resize_grid"
      PROVE  Fed([Own(m) EXCEPT ![active] = QueueOp(@, op)])
  BY <1>1, <1>7, Still, CrossFed DEF this
<1> HIDE DEF Done
<1>8. Done(sess')
  <2>1. ASSUME NEW c \in Char, Parse("print", Own(PutChar(this, c))) PROVE Done(sess')
    BY <1>1, <1>2, <2>1, PutCharGrew DEF Parse
  <2>2. CASE ParseIND
    BY <1>1, <1>4, <2>2, IndexGrew DEF ParseIND, Parse
  <2>3. CASE ParseLF
    <3> DEFINE op == ScrollRegion(this.top, this.bottom, 1)
               m == Down(this)
    <3>1. /\ sess' = IF AtBottom(this) THEN [Own(m) EXCEPT ![active] = QueueOp(@, op)]
                     ELSE Own(m)
          /\ "lf" \in Repertoire
      BY <2>3 DEF ParseLF, Parse, LineFeed, Own, this
    <3>2. /\ DOMAIN m = DOMAIN this /\ m.queue = this.queue /\ m.lost = this.lost
          /\ op.type # "resize_grid"
      BY <1>1 DEF Down, Session, ScrollRegion
    <3> HIDE DEF m, op
    <3>3. Fed([Own(m) EXCEPT ![active] = QueueOp(@, op)]) /\ Done(Own(m))
      BY <1>3, <1>7, <3>2
    <3> QED  BY <3>1, <3>3 DEF Done
  <2>4. CASE ParseRI
    <3> DEFINE op == ScrollRegion(this.top, this.bottom, -1)
               m == [this EXCEPT !.y = this.top]
               l == [this EXCEPT !.y = @ - 1]
    <3>1. /\ sess' = IF this.y - 1 < this.top
                     THEN [Own(m) EXCEPT ![active] = QueueOp(@, op)] ELSE Own(l)
          /\ "ri" \in Repertoire
      BY <1>1, <2>4 DEF ParseRI, Parse, ReverseIndex, Own, this, TypeOK
    <3>2. /\ DOMAIN m = DOMAIN this /\ m.queue = this.queue /\ m.lost = this.lost
          /\ DOMAIN l = DOMAIN this /\ l.queue = this.queue /\ l.lost = this.lost
          /\ op.type # "resize_grid"
      BY <1>1 DEF Session, ScrollRegion
    <3> HIDE DEF m, op, l
    <3>3. Fed([Own(m) EXCEPT ![active] = QueueOp(@, op)]) /\ Done(Own(l))
      BY <1>3, <1>7, <3>2
    <3> QED  BY <3>1, <3>3 DEF Done
  <2>5. CASE ParseCR
    <3> DEFINE t == [this EXCEPT !.x = 0]
    <3>1. DOMAIN t = DOMAIN this /\ t.queue = this.queue /\ t.lost = this.lost
      BY <1>1 DEF Session
    <3> QED  BY <1>3, <2>5, <3>1 DEF ParseCR, Parse
  <2>6. ASSUME NEW r \in Lines, Parse("cup", Own(MoveTo(this, r))) PROVE Done(sess')
    <3> DEFINE t == MoveTo(this, r)
    <3>1. DOMAIN t = DOMAIN this /\ t.queue = this.queue /\ t.lost = this.lost
      BY <1>1 DEF Session, MoveTo
    <3> QED  BY <1>3, <2>6, <3>1 DEF Parse
  <2>7. ASSUME NEW t \in Lines, NEW low \in Lines,
               Parse("decstbm", Own(SetMargins(this, t, low)))
        PROVE  Done(sess')
    <3> DEFINE u == SetMargins(this, t, low)
    <3>1. DOMAIN u = DOMAIN this /\ u.queue = this.queue /\ u.lost = this.lost
      BY <1>1 DEF Session, MoveTo, SetMargins
    <3> QED  BY <1>3, <2>7, <3>1 DEF Parse
  <2>8. Done(Own(this))
    BY <1>3
  <2>9. ASSUME NEW n \in Counts, Parse("il", Own(InsertLine(this, n))) PROVE Done(sess')
    <3>1. InsertLines(this.y, this.bottom, n).type # "resize_grid"
      BY DEF InsertLines
    <3> QED  BY <1>5, <2>8, <2>9, <3>1 DEF Parse, InsertLine
  <2>10. ASSUME NEW n \in Counts, Parse("dl", Own(DeleteLine(this, n))) PROVE Done(sess')
    <3>1. DeleteLines(this.y, this.bottom, n).type # "resize_grid"
      BY DEF DeleteLines
    <3> QED  BY <1>5, <2>8, <2>10, <3>1 DEF Parse, DeleteLine
  <2>11. CASE ParseSU \/ ParseSD
    BY <1>6, <2>11 DEF ParseSU, ParseSD, Parse
  <2>12. ASSUME NEW R, Parse("ed", Own(Erase(this, R))) PROVE Done(sess')
    <3> DEFINE t == Erase(this, R)
    <3>1. DOMAIN t = DOMAIN this /\ t.queue = this.queue /\ t.lost = this.lost
      BY <1>1 DEF Session, Erase, Write
    <3> QED  BY <1>3, <2>12, <3>1 DEF Parse
  <2>13. CASE ParsePrint
    BY <2>1, <2>13 DEF ParsePrint
  <2>14. CASE ParseCUP \/ ParseDECSTBM
    BY <2>6, <2>7, <2>14 DEF ParseCUP, ParseDECSTBM
  <2>15. CASE ParseIL \/ ParseDL
    BY <2>9, <2>10, <2>15 DEF ParseIL, ParseDL
  <2>16. CASE ParseED
    BY <2>12, <2>16 DEF ParseED, EraseBelow, EraseAll
  <2>17. ~ParseREP
    BY DEF ParseREP, Parse
  <2> QED  BY <2>2, <2>3, <2>4, <2>5, <2>11, <2>13, <2>14, <2>15, <2>16, <2>17
           DEF ParseByte
<1> QED  BY <1>8 DEF Done, ParseByte, Parse, ParsePrint, ParseIND, ParseLF, ParseRI,
            ParseCR, ParseCUP, ParseDECSTBM, ParseIL, ParseDL, ParseSU, ParseSD, ParseED,
            ParseREP

-------------------------------------------------------------------------------
(* Room *)

LEMMA UsedFacts ==
    ASSUME NEW s, Session(s)
    PROVE  /\ Used(s) \in Nat /\ Len(s.queue) \in Nat
           /\ Used(s) = IF ResizeWaits(s) THEN Len(s.queue) ELSE Len(s.queue) + 1
BY SeqFacts DEF Session, Used

LEMMA GrewUsed ==
    ASSUME NEW s, Session(s), NEW t, Session(t), NEW n \in Nat, Grew(s, t, n)
    PROVE  /\ Used(t) <= Used(s) + n
           /\ Used(s) + n <= OP_QUEUE_SIZE + 1 /\ ~ResizeWaits(s) => t.lost = s.lost
           /\ Used(s) + n <= OP_QUEUE_SIZE => t.lost = s.lost
<1> DEFINE k == Len(s.queue)
           l == Len(t.queue)
<1>1. /\ k \in Nat /\ l \in Nat /\ OP_QUEUE_SIZE \in Nat
      /\ Used(s) = (IF ResizeWaits(s) THEN k ELSE k + 1)
      /\ Used(t) = (IF ResizeWaits(t) THEN l ELSE l + 1)
  BY UsedFacts, SizesAssumption
<1>2. /\ l <= k + n /\ (k + n <= OP_QUEUE_SIZE => t.lost = s.lost)
      /\ ResizeWaits(t) <=> ResizeWaits(s)
  BY DEF Grew
<1> HIDE DEF k, l
<1>3. CASE ResizeWaits(s)
  BY <1>1, <1>2, <1>3
<1>4. CASE ~ResizeWaits(s)
  BY <1>1, <1>2, <1>4
<1> QED  BY <1>3, <1>4

\* A resize takes the room that was kept for it.
LEMMA ResizeUsed ==
    ASSUME NEW s, Session(s), NEW h, ~ResizeWaits(s), Used(s) <= OP_QUEUE_SIZE
    PROVE  LET t == QueueOp(s, ResizeGrid(h))
           IN  Session(t) /\ Used(t) = Used(s) /\ t.lost = s.lost
<1> DEFINE t == QueueOp(s, ResizeGrid(h))
           k == Len(s.queue)
<1>1. k \in Nat /\ OP_QUEUE_SIZE \in Nat /\ Used(s) = k + 1 /\ k < OP_QUEUE_SIZE
  BY UsedFacts, SizesAssumption
<1>2. /\ DOMAIN t = DOMAIN s /\ t.queue = Append(s.queue, ResizeGrid(h))
      /\ t.lost = s.lost
  <2>1. ~(Len(s.queue) >= OP_QUEUE_SIZE)
    BY <1>1
  <2>2. t = [s EXCEPT !.queue = Append(@, ResizeGrid(h))]
    BY <2>1 DEF QueueOp
  <2> QED  BY <2>2 DEF Session
<1> HIDE DEF t
<1>3. /\ IsSeq(t.queue) /\ Len(t.queue) = k + 1 /\ t.queue[k + 1] = ResizeGrid(h)
  BY <1>2, AppendFacts DEF Session
<1> HIDE DEF k
<1>4. k + 1 \in DOMAIN t.queue
  BY <1>1, <1>3, SeqFacts
<1>5. ResizeWaits(t)
  BY <1>3, <1>4 DEF ResizeWaits, ResizeGrid
<1>6. Session(t)
  BY <1>2, <1>3 DEF Session
<1> QED  BY <1>1, <1>2, <1>3, <1>5, <1>6, UsedFacts DEF t

\* A flush only makes room, and a whole flush leaves nothing.
LEMMA FlushedUsed ==
    ASSUME NEW s, Session(s), NEW n \in 0 .. Len(s.queue)
    PROVE  LET t == Flushed(s, n)
           IN  /\ Session(t) /\ t.lost = s.lost /\ Used(t) <= Used(s)
               /\ n = Len(s.queue) => Used(t) = 1
<1> DEFINE t == Flushed(s, n)
           k == Len(s.queue)
<1>1. k \in Nat /\ DOMAIN s.queue = 1 .. k /\ n \in Nat /\ n <= k
  BY SeqFacts DEF Session
<1>2. /\ DOMAIN t = DOMAIN s /\ t.queue = SubSeq(s.queue, n + 1, k)
      /\ t.lost = s.lost
  BY DEF Flushed, Session
<1> HIDE DEF t
<1>3. /\ IsSeq(t.queue) /\ Len(t.queue) = k - n
      /\ \A i \in 1 .. k - n : t.queue[i] = s.queue[n + i]
  BY <1>2, RestFacts DEF Session
<1> HIDE DEF k
<1>4. Session(t)
  BY <1>2, <1>3 DEF Session
<1>5. DOMAIN t.queue = 1 .. k - n
  BY <1>3, SeqFacts
<1>6. n = 0 => (ResizeWaits(t) <=> ResizeWaits(s))
  <2> SUFFICES ASSUME n = 0 PROVE ResizeWaits(t) <=> ResizeWaits(s)
    OBVIOUS
  <2>1. k - n = k /\ \A i \in 1 .. k : n + i = i
    BY <1>1
  <2> QED  BY <1>1, <1>3, <1>5, <2>1 DEF ResizeWaits
<1>7. n = k => ~ResizeWaits(t)
  <2>1. n = k => 1 .. k - n = {}
    BY <1>1
  <2> QED  BY <1>5, <2>1 DEF ResizeWaits
<1>8. /\ Used(s) = (IF ResizeWaits(s) THEN k ELSE k + 1)
      /\ Used(t) = (IF ResizeWaits(t) THEN k - n ELSE (k - n) + 1)
  BY <1>3, <1>4, UsedFacts DEF k
<1>9. Used(t) <= Used(s)
  <2>1. CASE n = 0
    BY <1>1, <1>6, <1>8, <2>1
  <2>2. CASE n # 0
    BY <1>1, <1>8, <2>2
  <2> QED  BY <2>1, <2>2
<1>10. n = k => Used(t) = 1
  BY <1>1, <1>7, <1>8
<1> QED  BY <1>2, <1>4, <1>9, <1>10 DEF t, k

LEMMA FlushStep ==
    ASSUME TypeOK, turn \in Sessions, FlushOps
    PROVE  /\ sess' = [s \in Sessions |-> sess'[s]]
           /\ \A s \in Sessions \ {turn} : sess'[s] = sess[s]
           /\ Session(sess'[turn]) /\ sess'[turn].lost = sess[turn].lost
           /\ Used(sess'[turn]) <= Used(sess[turn])
           /\ MaxOpsPerFlush = 0 => Used(sess'[turn]) = 1
<1> DEFINE s == sess[turn]
           n == IF MaxOpsPerFlush = 0 THEN Len(s.queue)
                ELSE MinOf(MaxOpsPerFlush, Len(s.queue))
<1>1. Session(s) /\ Len(s.queue) \in Nat /\ MaxOpsPerFlush \in Nat
  BY SeqFacts, SizesAssumption DEF TypeOK, Session
<1>2. n \in 0 .. Len(s.queue) /\ (MaxOpsPerFlush = 0 => n = Len(s.queue))
  BY <1>1 DEF MinOf
<1>3. sess' = [sess EXCEPT ![turn] = Flushed(s, n)]
  BY DEF FlushOps
<1> HIDE DEF n
<1>4. sess'[turn] = Flushed(s, n) /\ \A r \in Sessions \ {turn} : sess'[r] = sess[r]
  BY <1>3 DEF TypeOK
<1>5. sess' = [r \in Sessions |-> sess'[r]]
  BY <1>3 DEF TypeOK
<1> HIDE DEF s
<1>6. /\ Session(Flushed(s, n)) /\ Flushed(s, n).lost = s.lost
      /\ Used(Flushed(s, n)) <= Used(s)
      /\ n = Len(s.queue) => Used(Flushed(s, n)) = 1
  BY <1>1, <1>2, FlushedUsed
<1> QED  BY <1>2, <1>4, <1>5, <1>6 DEF s

\* Steps that leave room and losses as they are.
Kept(ss) ==
    /\ ss = [s \in Sessions |-> ss[s]]
    /\ \A s \in Sessions :
          /\ Session(ss[s]) /\ Used(ss[s]) = Used(sess[s])
          /\ ss[s].lost = sess[s].lost

LEMMA SameUsed ==
    ASSUME NEW s, Session(s), NEW t, DOMAIN t = DOMAIN s,
           t.queue = s.queue, t.lost = s.lost
    PROVE  Session(t) /\ Used(t) = Used(s)
BY DEF Session, Used, ResizeWaits

LEMMA SameKept == ASSUME TypeOK, UNCHANGED sess PROVE Kept(sess')
BY DEF TypeOK, Kept

LEMMA PrepareKept == ASSUME TypeOK, Prepare PROVE Kept(sess')
<1>1. sess' = [s \in Sessions |-> [sess[s] EXCEPT !.dirty = {}]]
  BY DEF Prepare
<1>2. ASSUME NEW s \in Sessions
      PROVE  /\ Session(sess'[s]) /\ Used(sess'[s]) = Used(sess[s])
             /\ sess'[s].lost = sess[s].lost
  <2> DEFINE t == [sess[s] EXCEPT !.dirty = {}]
  <2>1. Session(sess[s])
    BY DEF TypeOK
  <2>2. DOMAIN t = DOMAIN sess[s] /\ t.queue = sess[s].queue /\ t.lost = sess[s].lost
    BY <2>1 DEF Session
  <2>3. sess'[s] = t
    BY <1>1
  <2> HIDE DEF t
  <2> QED  BY <2>1, <2>2, <2>3, SameUsed
<1> QED  BY <1>1, <1>2 DEF Kept

LEMMA ScrollViewKept ==
    ASSUME TypeOK, NEW s \in Sessions, NEW n, ScrollView(s, n) PROVE Kept(sess')
<1> DEFINE t == [[sess[s] EXCEPT !.view = IF @ + n < 0 THEN 0 ELSE MinOf(@ + n, SCROLLBACK)]
                    EXCEPT !.dirty = 0 .. sess[s].rows - 1]
<1>1. Session(sess[s])
  BY DEF TypeOK
<1>2. DOMAIN t = DOMAIN sess[s] /\ t.queue = sess[s].queue /\ t.lost = sess[s].lost
  BY <1>1 DEF Session
<1>3. sess' = [sess EXCEPT ![s] = t]
  BY DEF ScrollView, TypeOK
<1> HIDE DEF t
<1>4. Session(t) /\ Used(t) = Used(sess[s])
  BY <1>1, <1>2, SameUsed
<1> QED  BY <1>2, <1>3, <1>4 DEF TypeOK, Kept

LEMMA ResizeKept ==
    ASSUME TypeOK, NEW s \in Sessions, NEW h, Resize(s, h),
           Used(sess[s]) <= OP_QUEUE_SIZE
    PROVE  Kept(sess')
<1> DEFINE t == QueueOp(sess[s], ResizeGrid(h))
<1>1. Session(sess[s]) /\ ~ResizeWaits(sess[s])
  BY DEF TypeOK, Resize, ResizeWaits
<1>2. Session(t) /\ Used(t) = Used(sess[s]) /\ t.lost = sess[s].lost
  BY <1>1, ResizeUsed
<1>3. sess' = [sess EXCEPT ![s] = t]
  BY DEF Resize
<1> HIDE DEF t
<1> QED  BY <1>2, <1>3 DEF TypeOK, Kept

\* Every step but the parsing of a byte and the flush.
LEMMA OtherKept ==
    ASSUME TypeOK, BeginFrame \/ (\E n \in 1 .. CharsPerFrame : PopChunk(n))
                   \/ Prepare \/ User \/ UNCHANGED vars,
           turn = 0 => \A s \in Sessions : Used(sess[s]) <= OP_QUEUE_SIZE
    PROVE  Kept(sess') /\ UNCHANGED active
<1>1. CASE BeginFrame \/ (\E n \in 1 .. CharsPerFrame : PopChunk(n)) \/ UNCHANGED vars
  <2>1. UNCHANGED sess /\ UNCHANGED active
    BY <1>1 DEF BeginFrame, PopChunk, vars
  <2> QED  BY <2>1, SameKept
<1>2. CASE Prepare
  BY <1>2, PrepareKept DEF Prepare
<1>3. ASSUME NEW s \in Sessions, NEW h \in Heights, Resize(s, h)
      PROVE  Kept(sess') /\ UNCHANGED active
  BY <1>3, ResizeKept DEF Resize
<1>4. ASSUME NEW s \in Sessions, NEW n, ScrollView(s, n)
      PROVE  Kept(sess') /\ UNCHANGED active
  BY <1>4, ScrollViewKept DEF ScrollView
<1> QED  BY <1>1, <1>2, <1>3, <1>4 DEF User

\* The counters of a frame.
LEMMA CountersStep ==
    ASSUME TypeOK, "rep" \notin Repertoire, [Next]_vars, budget + chunk <= CharsPerFrame
    PROVE  /\ turn' \in 0 .. N + 1 /\ chunk' \in Nat /\ budget' \in Nat
           /\ budget' + chunk' <= CharsPerFrame /\ (chunk' > 0 => turn' \in Sessions)
<1> DEFINE Counters == /\ turn' \in 0 .. N + 1 /\ chunk' \in Nat /\ budget' \in Nat
                       /\ budget' + chunk' <= CharsPerFrame
                       /\ (chunk' > 0 => turn' \in Sessions)
<1>1. /\ N \in Nat \ {0} /\ CharsPerFrame \in Nat /\ turn \in 0 .. N + 1
      /\ chunk \in Nat /\ budget \in Nat /\ (chunk > 0 => turn \in Sessions)
  BY SizesAssumption DEF TypeOK
<1>2. CASE ParseByte
  <2>1. chunk > 0 /\ chunk' = chunk - 1 /\ UNCHANGED <<turn, budget>>
    BY <1>2, ParseStep
  <2> QED  BY <1>1, <2>1
<1>3. ASSUME NEW n \in 1 .. CharsPerFrame, PopChunk(n) PROVE Counters
  <2>1. n \in Nat /\ n <= budget /\ chunk = 0 /\ chunk' = n /\ budget' = budget - n
        /\ turn' = turn /\ turn \in Sessions
    BY <1>1, <1>3 DEF PopChunk
  <2> QED  BY <1>1, <2>1
<1>4. CASE BeginFrame
  <2>1. turn = 0 /\ turn' = 1 /\ budget' = CharsPerFrame /\ chunk' = chunk
    BY <1>4 DEF BeginFrame
  <2> QED  BY <1>1, <2>1 DEF Sessions
<1>5. CASE EndTurn
  <2>1. /\ turn \in 1 .. N /\ chunk = 0 /\ chunk' = chunk /\ turn' = turn + 1
        /\ budget' = CharsPerFrame \/ budget' = 0
    BY <1>5 DEF EndTurn, Sessions
  <2> QED  BY <1>1, <2>1
<1>6. CASE Prepare
  <2>1. turn = N + 1 /\ turn' = 0 /\ UNCHANGED <<budget, chunk>>
    BY <1>6 DEF Prepare
  <2> QED  BY <1>1, <2>1 DEF Sessions
<1>7. CASE User \/ UNCHANGED vars
  BY <1>1, <1>7 DEF User, Resize, ScrollView, vars
<1> QED  BY <1>2, <1>3, <1>4, <1>5, <1>6, <1>7 DEF Next, Frame

-------------------------------------------------------------------------------
(* Limited flushes *)

\* The bytes of the chunk have their room in the queue of their session.
LEMMA LimitedNext ==
    ASSUME "rep" \notin Repertoire, Reserve >= 2 * CharsPerFrame,
           N = 1 \/ {"lf", "ri"} \cap Repertoire = {},
           LimitedInv, [Next]_vars
    PROVE  LimitedInv'
<1> DEFINE Room(s) == Used(sess[s]) + (IF turn = s THEN 2 * chunk ELSE 0)
           Sound(s) == Session(sess'[s]) /\ ~sess'[s].lost /\ Room(s)' <= OP_QUEUE_SIZE
<1>1. /\ CharsPerFrame \in Nat /\ OP_QUEUE_SIZE \in Nat /\ Reserve \in Nat
      /\ chunk \in Nat /\ budget \in Nat /\ turn \in 0 .. N + 1
      /\ N \in Nat /\ budget + chunk <= CharsPerFrame
      /\ TypeOK /\ Sessions \subseteq Nat
  BY SizesAssumption DEF LimitedInv, TypeOK, Sessions
<1>2. ASSUME NEW s \in Sessions
      PROVE  /\ Session(sess[s]) /\ Used(sess[s]) \in Nat /\ ~sess[s].lost
             /\ Used(sess[s]) + (IF turn = s THEN 2 * chunk ELSE 0) <= OP_QUEUE_SIZE
             /\ Used(sess[s]) <= OP_QUEUE_SIZE
  <2>1. /\ Session(sess[s]) /\ Used(sess[s]) \in Nat /\ ~sess[s].lost
        /\ Used(sess[s]) + (IF turn = s THEN 2 * chunk ELSE 0) <= OP_QUEUE_SIZE
    BY UsedFacts DEF LimitedInv, TypeOK, NothingLost
  <2> QED  BY <1>1, <2>1
<1>3. ASSUME sess' = [s \in Sessions |-> sess'[s]], UNCHANGED active,
             \A s \in Sessions : Sound(s)
      PROVE  LimitedInv'
  <2>1. /\ turn' \in 0 .. N + 1 /\ chunk' \in Nat /\ budget' \in Nat
        /\ budget' + chunk' <= CharsPerFrame /\ (chunk' > 0 => turn' \in Sessions)
    BY <1>1, CountersStep
  <2> QED  BY <1>3, <2>1 DEF LimitedInv, TypeOK, NothingLost
<1> HIDE DEF Sound
<1>4. ASSUME Kept(sess'), UNCHANGED active,
             \A s \in Sessions :
                Used(sess[s]) + (IF turn' = s THEN 2 * chunk' ELSE 0) <= OP_QUEUE_SIZE
      PROVE  LimitedInv'
  <2>1. \A s \in Sessions : Sound(s)
    BY <1>2, <1>4 DEF Kept, Sound
  <2> QED  BY <1>3, <1>4, <2>1 DEF Kept
<1>5. CASE ParseByte
  <2>1. /\ Fed(sess') /\ ({"lf", "ri"} \cap Repertoire = {} => Apart(sess'))
        /\ chunk > 0 /\ chunk' = chunk - 1 /\ turn \in Sessions
        /\ UNCHANGED <<active, turn, budget>>
    BY <1>1, <1>5, ParseStep
  <2>2. ASSUME NEW s \in Sessions PROVE Sound(s)
    <3>1. CASE s = turn
      <4>1. Session(sess'[s]) /\ Grew(sess[s], sess'[s], 2)
        BY <2>1, <3>1 DEF Fed
      <4>2. /\ Used(sess'[s]) <= Used(sess[s]) + 2 /\ Used(sess'[s]) \in Nat
            /\ Used(sess[s]) + 2 <= OP_QUEUE_SIZE => sess'[s].lost = sess[s].lost
        BY <1>2, <4>1, GrewUsed, UsedFacts
      <4>3. Used(sess[s]) + 2 * chunk <= OP_QUEUE_SIZE
        BY <1>2, <3>1
      <4>4. /\ Used(sess[s]) + 2 <= OP_QUEUE_SIZE
            /\ Used(sess'[s]) + 2 * (chunk - 1) <= OP_QUEUE_SIZE
        BY <1>1, <1>2, <2>1, <4>2, <4>3
      <4> QED  BY <1>2, <2>1, <3>1, <4>1, <4>2, <4>4 DEF Sound
    <3>2. CASE s # turn
      <4>1. {"lf", "ri"} \cap Repertoire = {}
        BY <1>1, <2>1, <3>2 DEF Sessions
      <4>2. sess'[s] = sess[s] /\ turn' # s
        BY <2>1, <3>2, <4>1 DEF Apart
      <4> QED  BY <1>1, <1>2, <4>2 DEF Sound
    <3> QED  BY <3>1, <3>2
  <2> QED  BY <1>3, <2>1, <2>2 DEF Fed
<1>6. ASSUME NEW n \in 1 .. CharsPerFrame, PopChunk(n) PROVE LimitedInv'
  <2>1. Kept(sess') /\ UNCHANGED active
    BY <1>1, <1>2, <1>6, OtherKept
  <2>2. /\ turn \in Sessions /\ turn' = turn /\ n <= CharsPerFrame /\ n \in Nat
        /\ chunk' = n /\ Len(sess[turn].queue) < OP_QUEUE_SIZE - Reserve
    BY <1>1, <1>6 DEF PopChunk
  <2>3. /\ Len(sess[turn].queue) \in Nat
        /\ Used(sess[turn]) <= Len(sess[turn].queue) + 1
    BY <1>2, <2>2, UsedFacts
  <2>4. Used(sess[turn]) + 2 * n <= OP_QUEUE_SIZE
    BY <1>1, <1>2, <2>2, <2>3
  <2>5. \A s \in Sessions :
            Used(sess[s]) + (IF turn' = s THEN 2 * chunk' ELSE 0) <= OP_QUEUE_SIZE
    BY <1>2, <2>2, <2>4
  <2> QED  BY <1>4, <2>1, <2>5
<1>7. CASE EndTurn
  <2>1. /\ turn \in Sessions /\ chunk' = 0 /\ UNCHANGED active /\ FlushOps
    BY <1>7 DEF EndTurn
  <2>2. /\ sess' = [s \in Sessions |-> sess'[s]]
        /\ \A s \in Sessions \ {turn} : sess'[s] = sess[s]
        /\ Session(sess'[turn]) /\ sess'[turn].lost = sess[turn].lost
        /\ Used(sess'[turn]) <= Used(sess[turn]) /\ Used(sess'[turn]) \in Nat
    BY <1>1, <2>1, FlushStep, UsedFacts
  <2>3. ASSUME NEW s \in Sessions PROVE Sound(s)
    <3>1. /\ Session(sess'[s]) /\ ~sess'[s].lost
          /\ Used(sess'[s]) <= OP_QUEUE_SIZE /\ Used(sess'[s]) \in Nat
      BY <1>1, <1>2, <2>1, <2>2
    <3> QED  BY <2>1, <3>1 DEF Sound
  <2> QED  BY <1>3, <2>1, <2>2, <2>3
<1>8. CASE BeginFrame \/ Prepare \/ User \/ UNCHANGED vars
  <2>1. Kept(sess') /\ UNCHANGED active
    BY <1>1, <1>2, <1>8, OtherKept
  <2>2. CASE BeginFrame \/ Prepare
    <3>1. chunk' = chunk /\ turn \notin Sessions
      BY <1>1, <2>2 DEF BeginFrame, Prepare, Sessions
    <3>2. chunk' = 0
      BY <1>1, <3>1 DEF TypeOK
    <3> QED  BY <1>2, <1>4, <2>1, <3>2
  <2>3. CASE User \/ UNCHANGED vars
    <3>1. UNCHANGED <<turn, chunk>>
      BY <2>3 DEF User, Resize, ScrollView, vars
    <3> QED  BY <1>2, <1>4, <2>1, <3>1
  <2> QED  BY <1>8, <2>2, <2>3
<1> QED  BY <1>5, <1>6, <1>7, <1>8 DEF Next, Frame

\* At the start every queue is empty.
LEMMA InitKeeps ==
    ASSUME Init
    PROVE  /\ TypeOK /\ NothingLost /\ turn = 0 /\ chunk = 0 /\ budget = 0
           /\ \A s \in Sessions : Used(sess[s]) = 1
<1>1. PICK h \in Heights : sess = [s \in Sessions |-> NewSession(h)]
  BY DEF Init
<1>2. /\ NewSession(h).queue = << >> /\ NewSession(h).lost = FALSE
      /\ {"queue", "lost"} \subseteq DOMAIN NewSession(h)
  BY DEF NewSession
<1>3. IsSeq(<< >>) /\ Len(<< >>) = 0 /\ DOMAIN << >> = {}
  BY DEF IsSeq
<1>4. \A s \in Sessions :
          /\ Session(sess[s]) /\ ~sess[s].lost /\ Used(sess[s]) = 1
  <2>1. Session(NewSession(h)) /\ ~NewSession(h).lost
    BY <1>2, <1>3 DEF Session
  <2>2. ~ResizeWaits(NewSession(h))
    BY <1>2, <1>3 DEF ResizeWaits
  <2>3. Used(NewSession(h)) = 1
    BY <1>2, <1>3, <2>2 DEF Used
  <2> QED  BY <1>1, <2>1, <2>3
<1>5. turn = 0 /\ chunk = 0 /\ budget = 0 /\ active \in Sessions
  BY DEF Init
<1> QED  BY <1>1, <1>4, <1>5, SizesAssumption DEF TypeOK, NothingLost

\* With that reserve the bytes of the chunk always have their room.
LEMMA LimitedInvariant ==
    ASSUME "rep" \notin Repertoire, Reserve >= 2 * CharsPerFrame,
           N = 1 \/ {"lf", "ri"} \cap Repertoire = {}
    PROVE  Spec => []LimitedInv
<1>1. Init => LimitedInv
  <2> SUFFICES ASSUME Init PROVE LimitedInv
    OBVIOUS
  <2>1. /\ TypeOK /\ NothingLost /\ turn = 0 /\ chunk = 0 /\ budget = 0
        /\ \A s \in Sessions : Used(sess[s]) = 1
    BY InitKeeps
  <2>2. /\ OP_QUEUE_SIZE \in Nat \ {0} /\ CharsPerFrame \in Nat
        /\ \A s \in Sessions : s # 0
    BY SizesAssumption DEF Sessions
  <2> QED  BY <2>1, <2>2 DEF LimitedInv
<1>2. LimitedInv /\ [Next]_vars => LimitedInv'
  BY LimitedNext
<1> QED  BY <1>1, <1>2, PTL DEF Spec

\* With limited flushes nothing is lost if the reserve has room for two
\* operations of every byte of a frame, and no byte goes to another session.
THEOREM LimitedTheorem ==
    ASSUME "rep" \notin Repertoire, Reserve >= 2 * CharsPerFrame,
           N = 1 \/ {"lf", "ri"} \cap Repertoire = {}
    PROVE  Spec => []NothingLost
<1>1. Spec => []LimitedInv
  BY LimitedInvariant
<1>2. LimitedInv => NothingLost
  BY DEF LimitedInv
<1> QED  BY <1>1, <1>2, PTL

-------------------------------------------------------------------------------
(* Whole flushes *)

LEMMA TimesFacts ==
    /\ \A n \in Nat : Times(n) \in Nat /\ Times(n + 1) = Times(n) + CharsPerFrame
    /\ Times(0) = 0
    /\ \A m, n \in Nat : m <= n => Times(m) <= Times(n)
<1>1. CharsPerFrame \in Nat
  BY SizesAssumption
<1>2. \A n \in Nat : Times(n) \in Nat /\ Times(n + 1) = Times(n) + CharsPerFrame
  BY <1>1 DEF Times
<1>3. ASSUME NEW m \in Nat, NEW n \in Nat, m <= n PROVE Times(m) <= Times(n)
  <2>1. PICK d \in Nat : n = m + d
    <3>1. n - m \in Nat /\ n = m + (n - m)
      BY <1>3
    <3> QED  BY <3>1
  <2>2. d * CharsPerFrame \in Nat
    BY <1>1
  <2>3. (m + d) * CharsPerFrame = m * CharsPerFrame + d * CharsPerFrame
    BY <1>1
  <2>4. m * CharsPerFrame \in Nat
    BY <1>1
  <2> QED  BY <2>1, <2>2, <2>3, <2>4 DEF Times
<1> QED  BY <1>1, <1>2, <1>3 DEF Times

LEMMA WholeNext ==
    ASSUME "rep" \notin Repertoire, MaxOpsPerFlush = 0,
           Times(N + 1) + 1 <= OP_QUEUE_SIZE,
           WholeInv, [Next]_vars
    PROVE  WholeInv'
<1> DEFINE Sound(s) ==
        /\ Session(sess'[s]) /\ ~sess'[s].lost
        /\ Used(sess'[s]) <= 1 + Times(Since(s)')
                               + (IF turn' = s THEN 2 * Parsed' ELSE Parsed')
<1>1. /\ CharsPerFrame \in Nat /\ OP_QUEUE_SIZE \in Nat
      /\ chunk \in Nat /\ budget \in Nat /\ turn \in 0 .. N + 1
      /\ N \in Nat \ {0} /\ budget + chunk <= CharsPerFrame
      /\ TypeOK /\ Sessions = 1 .. N
  BY SizesAssumption DEF WholeInv, TypeOK, Sessions
<1>2. Parsed \in Nat /\ Parsed <= CharsPerFrame
  BY <1>1 DEF Parsed
<1>3. ASSUME NEW s \in Sessions
      PROVE  /\ Session(sess[s]) /\ Used(sess[s]) \in Nat /\ ~sess[s].lost
             /\ Used(sess[s]) <= 1 + Times(Since(s))
                                   + (IF turn = s THEN 2 * Parsed ELSE Parsed)
             /\ Since(s) \in Nat /\ Since(s) <= N - 1 /\ Times(Since(s)) \in Nat
             /\ Times(Since(s)) + CharsPerFrame + CharsPerFrame + 1 <= OP_QUEUE_SIZE
  <2>1. /\ Session(sess[s]) /\ Used(sess[s]) \in Nat /\ ~sess[s].lost
        /\ Used(sess[s]) <= 1 + Times(Since(s))
                              + (IF turn = s THEN 2 * Parsed ELSE Parsed)
    BY UsedFacts DEF WholeInv, TypeOK, NothingLost
  <2>2. Since(s) \in Nat /\ Since(s) <= N - 1
    BY <1>1 DEF Since
  <2>3. N - 1 \in Nat /\ N = (N - 1) + 1
    BY <1>1
  <2>4. /\ Times(Since(s)) <= Times(N - 1) /\ Times(Since(s)) \in Nat
        /\ Times(N) = Times(N - 1) + CharsPerFrame
        /\ Times(N + 1) = Times(N) + CharsPerFrame /\ Times(N - 1) \in Nat
    BY <1>1, <2>2, <2>3, TimesFacts
  <2>5. Times(Since(s)) + CharsPerFrame + CharsPerFrame + 1 <= OP_QUEUE_SIZE
    BY <1>1, <2>4
  <2> QED  BY <2>1, <2>2, <2>4, <2>5
<1> HIDE DEF Sound
<1>4. ASSUME sess' = [s \in Sessions |-> sess'[s]], UNCHANGED active,
             \A s \in Sessions : Sound(s)
      PROVE  WholeInv'
  <2>1. /\ turn' \in 0 .. N + 1 /\ chunk' \in Nat /\ budget' \in Nat
        /\ budget' + chunk' <= CharsPerFrame /\ (chunk' > 0 => turn' \in Sessions)
    BY <1>1, CountersStep
  <2> QED  BY <1>4, <2>1 DEF WholeInv, TypeOK, NothingLost, Sound
<1>5. ASSUME UNCHANGED turn, Parsed' = Parsed, Kept(sess'), UNCHANGED active
      PROVE  WholeInv'
  <2>1. ASSUME NEW s \in Sessions PROVE Sound(s)
    <3>1. Since(s)' = Since(s)
      BY <1>5 DEF Since
    <3> QED  BY <1>3, <1>5, <3>1 DEF Kept, Sound
  <2> QED  BY <1>4, <1>5, <2>1 DEF Kept
<1>6. turn = 0 => \A s \in Sessions : Used(sess[s]) <= OP_QUEUE_SIZE
  <2> SUFFICES ASSUME turn = 0, NEW s \in Sessions PROVE Used(sess[s]) <= OP_QUEUE_SIZE
    OBVIOUS
  <2> DEFINE w == Times(Since(s))
  <2>1. s # 0
    BY <1>1
  <2>2. /\ w \in Nat /\ w + CharsPerFrame + CharsPerFrame + 1 <= OP_QUEUE_SIZE
        /\ Used(sess[s]) <= 1 + w + Parsed /\ Used(sess[s]) \in Nat
    BY <1>3, <2>1
  <2> HIDE DEF w
  <2> QED  BY <1>1, <1>2, <2>2
<1>7. CASE ParseByte
  <2>1. /\ Fed(sess') /\ chunk > 0 /\ chunk' = chunk - 1 /\ turn \in Sessions
        /\ UNCHANGED <<active, turn, budget>>
    BY <1>1, <1>7, ParseStep
  <2>2. Parsed' = Parsed + 1 /\ Parsed + 1 <= CharsPerFrame
    BY <1>1, <2>1 DEF Parsed
  <2>3. ASSUME NEW s \in Sessions PROVE Sound(s)
    <3> DEFINE n == IF s = turn THEN 2 ELSE 1
               w == Times(Since(s))
    <3>1. Session(sess'[s]) /\ Grew(sess[s], sess'[s], n) /\ n \in Nat
      BY <2>1 DEF Fed
    <3>2. /\ Used(sess'[s]) <= Used(sess[s]) + n /\ Used(sess'[s]) \in Nat
          /\ Used(sess[s]) + n <= OP_QUEUE_SIZE => sess'[s].lost = sess[s].lost
      BY <1>3, <3>1, GrewUsed, UsedFacts
    <3>3. Since(s)' = Since(s)
      BY <2>1 DEF Since
    <3>4. /\ w \in Nat /\ w + CharsPerFrame + CharsPerFrame + 1 <= OP_QUEUE_SIZE
          /\ Used(sess[s]) <= 1 + w + (IF turn = s THEN 2 * Parsed ELSE Parsed)
          /\ Used(sess[s]) \in Nat
      BY <1>3
    <3> HIDE DEF w
    <3>5. Used(sess[s]) + n <= OP_QUEUE_SIZE
      BY <1>1, <1>2, <2>2, <3>4
    <3>6. Used(sess'[s]) <= 1 + w + (IF turn = s THEN 2 * (Parsed + 1) ELSE Parsed + 1)
      BY <1>1, <1>2, <3>2, <3>4
    <3> QED  BY <1>3, <2>1, <2>2, <3>1, <3>2, <3>3, <3>5, <3>6 DEF Sound, w
  <2> QED  BY <1>4, <2>1, <2>3 DEF Fed
<1>8. ASSUME NEW n \in 1 .. CharsPerFrame, PopChunk(n) PROVE WholeInv'
  <2>1. Kept(sess') /\ UNCHANGED active
    BY <1>1, <1>6, <1>8, OtherKept
  <2>2. /\ turn' = turn /\ n \in Nat /\ chunk = 0 /\ chunk' = n /\ budget' = budget - n
    BY <1>1, <1>8 DEF PopChunk
  <2>3. Parsed' = Parsed
    BY <1>1, <2>2 DEF Parsed
  <2> QED  BY <1>5, <2>1, <2>2, <2>3
<1>9. CASE BeginFrame
  <2>1. Kept(sess') /\ UNCHANGED active
    BY <1>1, <1>6, <1>9, OtherKept
  <2>2. turn = 0 /\ turn' = 1 /\ budget' = CharsPerFrame /\ chunk' = chunk /\ chunk = 0
    BY <1>1, <1>9 DEF BeginFrame, TypeOK
  <2>3. Parsed' = 0 /\ Parsed = 0
    BY <1>1, <2>2 DEF Parsed
  <2>4. ASSUME NEW s \in Sessions PROVE Sound(s)
    <3>1. s \in 1 .. N
      BY <1>1
    <3>2. Since(s)' = Since(s) /\ turn # s
      BY <1>1, <2>2, <3>1 DEF Since
    <3> QED  BY <1>3, <2>1, <2>3, <3>2 DEF Kept, Sound
  <2> QED  BY <1>4, <2>1, <2>4 DEF Kept
<1>10. CASE Prepare
  <2>1. Kept(sess') /\ UNCHANGED active
    BY <1>1, <1>6, <1>10, OtherKept
  <2>2. turn = N + 1 /\ turn' = 0
    BY <1>10 DEF Prepare
  <2>3. Parsed' = 0 /\ Parsed = 0
    BY <1>1, <2>2 DEF Parsed
  <2>4. ASSUME NEW s \in Sessions PROVE Sound(s)
    <3>1. s \in 1 .. N
      BY <1>1
    <3>2. Since(s)' = Since(s) /\ turn # s
      BY <1>1, <2>2, <3>1 DEF Since
    <3> QED  BY <1>3, <2>1, <2>3, <3>2 DEF Kept, Sound
  <2> QED  BY <1>4, <2>1, <2>4 DEF Kept
<1>11. CASE EndTurn
  <2>1. /\ turn \in Sessions /\ turn' = turn + 1 /\ chunk = 0 /\ chunk' = 0
        /\ UNCHANGED active /\ FlushOps
        /\ budget' = IF turn < N THEN CharsPerFrame ELSE 0
    BY <1>11 DEF EndTurn
  <2>2. /\ sess' = [s \in Sessions |-> sess'[s]]
        /\ \A s \in Sessions \ {turn} : sess'[s] = sess[s]
        /\ Session(sess'[turn]) /\ sess'[turn].lost = sess[turn].lost
        /\ Used(sess'[turn]) = 1
    BY <1>1, <2>1, FlushStep
  <2>3. Parsed' = 0
    BY <1>1, <2>1 DEF Parsed
  <2>4. ASSUME NEW s \in Sessions PROVE Sound(s)
    <3>1. s \in 1 .. N /\ turn \in 1 .. N
      BY <1>1, <2>1
    <3>2. CASE s = turn
      <4>1. Since(s)' = 0 /\ turn' # s
        BY <1>1, <2>1, <3>1, <3>2 DEF Since
      <4>2. Times(Since(s)') = 0
        BY <4>1, TimesFacts
      <4> QED  BY <1>3, <2>2, <2>3, <3>2, <4>1, <4>2 DEF Sound
    <3>3. CASE s # turn
      <4>1. Since(s)' = Since(s) + 1
        BY <1>1, <2>1, <3>1, <3>3 DEF Since
      <4>2. Times(Since(s)') = Times(Since(s)) + CharsPerFrame
        BY <1>3, <4>1, TimesFacts
      <4> DEFINE w == Times(Since(s))
                 v == Times(Since(s)')
      <4>3. /\ Used(sess[s]) <= 1 + w + Parsed /\ w \in Nat /\ v = w + CharsPerFrame
            /\ Used(sess[s]) \in Nat
        BY <1>3, <3>3, <4>2
      <4> HIDE DEF w, v
      <4>4. Used(sess[s]) <= 1 + v + 0 /\ Used(sess[s]) <= 1 + v + 2 * 0
        BY <1>1, <1>2, <4>3
      <4> QED  BY <1>3, <2>2, <2>3, <3>3, <4>4 DEF Sound, v
    <3> QED  BY <3>2, <3>3
  <2> QED  BY <1>4, <2>1, <2>2, <2>4
<1>12. CASE User \/ UNCHANGED vars
  <2>1. Kept(sess') /\ UNCHANGED active
    BY <1>1, <1>6, <1>12, OtherKept
  <2>2. UNCHANGED <<turn, budget, chunk>>
    BY <1>12 DEF User, Resize, ScrollView, vars
  <2> QED  BY <1>5, <2>1, <2>2 DEF Parsed
<1> QED  BY <1>7, <1>8, <1>9, <1>10, <1>11, <1>12 DEF Next, Frame

\* With a queue of that size the round since the last flush always fits.
LEMMA WholeInvariant ==
    ASSUME "rep" \notin Repertoire, MaxOpsPerFlush = 0,
           (N + 1) * CharsPerFrame + 1 <= OP_QUEUE_SIZE
    PROVE  Spec => []WholeInv
<1>1. Init => WholeInv
  <2> SUFFICES ASSUME Init PROVE WholeInv
    OBVIOUS
  <2>1. /\ TypeOK /\ NothingLost /\ turn = 0 /\ chunk = 0 /\ budget = 0
        /\ \A s \in Sessions : Used(sess[s]) = 1
    BY InitKeeps
  <2>2. CharsPerFrame \in Nat /\ N \in Nat /\ 0 \notin Sessions
    BY SizesAssumption DEF Sessions
  <2>3. Parsed = 0
    BY <2>1, <2>2 DEF Parsed
  <2>4. ASSUME NEW s \in Sessions PROVE Times(Since(s)) \in Nat
    <3>1. Since(s) \in Nat
      BY <2>1, <2>2 DEF Since, Sessions
    <3> QED  BY <3>1, TimesFacts
  <2> QED  BY <2>1, <2>2, <2>3, <2>4 DEF WholeInv
<1>2. WholeInv /\ [Next]_vars => WholeInv'
  BY WholeNext DEF Times
<1> QED  BY <1>1, <1>2, PTL DEF Spec

\* With whole flushes nothing is lost if a queue has room for what one round of
\* all sessions can queue: two operations of each byte of its own session, one
\* of each byte of every other, and a resize.
THEOREM NothingLostTheorem ==
    ASSUME "rep" \notin Repertoire, MaxOpsPerFlush = 0,
           (N + 1) * CharsPerFrame + 1 <= OP_QUEUE_SIZE
    PROVE  Spec => []NothingLost
<1>1. Spec => []WholeInv
  BY WholeInvariant
<1>2. WholeInv => NothingLost
  BY DEF WholeInv
<1> QED  BY <1>1, <1>2, PTL

-------------------------------------------------------------------------------
(* The screen: numbers *)

\* Induction, on a set of numbers.
LEMMA Upward ==
    ASSUME NEW S, 0 \in S, \A n \in Nat : n \in S => n + 1 \in S
    PROVE  Nat \subseteq S
<1> DEFINE R == {ss \in Nat \X Nat : ss[1] < ss[2]}
           T == Nat \ S
<1>1. IsWellFoundedOn(R, Nat)
  <2>1. R = OpToRel(<, Nat)
    BY DEF OpToRel
  <2> QED  BY <2>1, NatLessThanWellFounded
<1>2. ASSUME T # {} PROVE FALSE
  <2>1. PICK n \in T : \A m \in T : ~(<<m, n>> \in R)
    <3>1. T \subseteq Nat
      OBVIOUS
    <3> HIDE DEF R, T
    <3> QED  BY <1>1, <1>2, <3>1, WFMin
  <2>2. n \in Nat /\ n # 0 /\ n \notin S
    BY <2>1
  <2>3. n - 1 \in Nat /\ n - 1 < n /\ (n - 1) + 1 = n
    BY <2>2
  <2>4. <<n - 1, n>> \in R
    BY <2>2, <2>3
  <2>5. n - 1 \notin T
    BY <2>1, <2>4
  <2> QED  BY <2>2, <2>3, <2>5
<1> QED  BY <1>2

-------------------------------------------------------------------------------
(* Remainders *)

\* A multiple of k between -k and k is 0.
LEMMA SmallMultiple ==
    ASSUME NEW k \in Nat \ {0}, NEW d \in Int, -k < k * d, k * d < k
    PROVE  d = 0
<1>1. ASSUME d >= 1 PROVE k * d >= k
  <2>1. (d - 1) \in Nat /\ k * (d - 1) >= 0
    BY <1>1
  <2>2. k * d = k * (d - 1) + k
    OBVIOUS
  <2>3. k * d \in Int /\ k * (d - 1) \in Int
    OBVIOUS
  <2> QED  BY <2>1, <2>2, <2>3
<1>2. ASSUME d <= -1 PROVE k * d <= -k
  <2>1. (-d - 1) \in Nat /\ k * (-d - 1) >= 0
    BY <1>2
  <2>2. k * d = -(k * (-d - 1)) - k
    OBVIOUS
  <2>3. k * d \in Int /\ k * (-d - 1) \in Int
    OBVIOUS
  <2> QED  BY <2>1, <2>2, <2>3
<1>3. k * d \in Int
  OBVIOUS
<1> QED  BY <1>1, <1>2, <1>3

\* What division by k leaves.
LEMMA Remainder ==
    ASSUME NEW k \in Nat \ {0}, NEW n \in Int
    PROVE  /\ n % k \in 0 .. k - 1
           /\ n \div k \in Int /\ n = k * (n \div k) + (n % k)
OBVIOUS

\* The remainder is the only number below k that differs by a multiple of k.
LEMMA RemainderIs ==
    ASSUME NEW k \in Nat \ {0}, NEW n \in Int, NEW d \in Int, NEW m \in 0 .. k - 1,
           n = k * d + m
    PROVE  n % k = m
<1> DEFINE e == n \div k
           l == n % k
<1>1. l \in 0 .. k - 1 /\ e \in Int /\ n = k * e + l
  BY Remainder
<1> HIDE DEF e, l
<1>2. k * (e - d) = k * e - k * d
  BY <1>1
<1>3. k * e \in Int /\ k * d \in Int
  BY <1>1
<1>4. -k < k * (e - d) /\ k * (e - d) < k
  BY <1>1, <1>2, <1>3
<1>5. e - d = 0
  BY <1>1, <1>4, SmallMultiple
<1>6. e = d
  BY <1>1, <1>5
<1>7. l = m
  BY <1>1, <1>3, <1>6
<1> QED  BY <1>7 DEF l

\* Taking the remainder first changes nothing.
LEMMA RemainderOfSum ==
    ASSUME NEW k \in Nat \ {0}, NEW m \in Int, NEW n \in Int
    PROVE  ((m % k) + n) % k = (m + n) % k
<1> DEFINE d == m \div k
           e == (m + n) \div k
           l == (m + n) % k
           r == m % k
<1>1. r \in 0 .. k - 1 /\ d \in Int /\ m = k * d + r
  BY Remainder
<1>2. l \in 0 .. k - 1 /\ e \in Int /\ m + n = k * e + l
  BY Remainder, m + n \in Int
<1> HIDE DEF d, e, l, r
<1>3. k * (e - d) = k * e - k * d /\ k * e \in Int /\ k * d \in Int
  BY <1>1, <1>2
<1>4. r + n = k * (e - d) + l
  BY <1>1, <1>2, <1>3
<1>5. (r + n) % k = l
  <2>1. r + n \in Int /\ e - d \in Int
    BY <1>1, <1>2
  <2> QED  BY <1>2, <1>4, <2>1, RemainderIs
<1> QED  BY <1>5 DEF l, r

\* Numbers less than k apart have different remainders.
LEMMA RemaindersDiffer ==
    ASSUME NEW k \in Nat \ {0}, NEW m \in Int, NEW n \in Int,
           m % k = n % k, n - m < k, m - n < k
    PROVE  m = n
<1> DEFINE d == m \div k
           e == n \div k
           l == n % k
<1>1. l \in 0 .. k - 1 /\ d \in Int /\ e \in Int /\ m = k * d + l /\ n = k * e + l
  BY Remainder
<1> HIDE DEF d, e, l
<1>2. k * (e - d) = k * e - k * d /\ k * e \in Int /\ k * d \in Int
  BY <1>1
<1>3. -k < k * (e - d) /\ k * (e - d) < k
  BY <1>1, <1>2
<1>4. e - d = 0
  BY <1>1, <1>3, SmallMultiple
<1> QED  BY <1>1, <1>4

-------------------------------------------------------------------------------
(* Applying a queue of operations *)

\* tr[k] is the session s after the first k operations of q.
Trail(tr, s, q) == tr[0] = s /\ \A k \in 1 .. Len(q) : tr[k] = Apply(tr[k - 1], q[k])

\* The recursion by which FoldLeft goes through a queue of n operations.
Fold(F, s, q, n) ==
    F = [S \in SUBSET (1 .. n) |->
            IF S = {} THEN s
            ELSE LET k == CHOOSE x \in S : \A z \in S : x >= z
                 IN  Apply(F[S \ {k}], q[k])]

\* That recursion has a solution for a queue of any length.
LEMMA FoldExists ==
    ASSUME NEW s, NEW q, NEW n \in Nat
    PROVE  \E F : Fold(F, s, q, n)
<1> DEFINE K == {m \in Nat : \E F : Fold(F, s, q, m)}
           Largest(S) == CHOOSE x \in S : \A z \in S : x >= z
<1>1. 0 \in K
  <2> DEFINE F == [S \in SUBSET (1 .. 0) |-> s]
  <2>1. \A S \in SUBSET (1 .. 0) : S = {}
    OBVIOUS
  <2>2. Fold(F, s, q, 0)
    BY <2>1 DEF Fold
  <2> QED  BY <2>2
<1>2. ASSUME NEW m \in Nat, m \in K PROVE m + 1 \in K
  <2>1. PICK F : Fold(F, s, q, m)
    BY <1>2
  <2> DEFINE G == [S \in SUBSET (1 .. m + 1) |->
                     IF m + 1 \in S THEN Apply(F[S \ {m + 1}], q[m + 1]) ELSE F[S]]
  <2>2. ASSUME NEW S \in SUBSET (1 .. m + 1)
        PROVE  G[S] = IF S = {} THEN s ELSE Apply(G[S \ {Largest(S)}], q[Largest(S)])
    <3>1. CASE m + 1 \in S
      <4>1. Largest(S) = m + 1 /\ S # {}
        <5>1. \A x \in S : x \in Int /\ m + 1 >= x
          OBVIOUS
        <5>2. \A x \in S : (\A z \in S : x >= z) => x = m + 1
          BY <3>1, <5>1
        <5> QED  BY <3>1, <5>1, <5>2
      <4>2. m + 1 \notin S \ {m + 1} /\ S \ {m + 1} \in SUBSET (1 .. m + 1)
        OBVIOUS
      <4>3. G[S \ {m + 1}] = F[S \ {m + 1}]
        BY <4>2
      <4> QED  BY <3>1, <4>1, <4>3
    <3>2. CASE m + 1 \notin S
      <4>1. S \in SUBSET (1 .. m)
        BY <3>2
      <4>2. F[S] = IF S = {} THEN s ELSE Apply(F[S \ {Largest(S)}], q[Largest(S)])
        BY <2>1, <4>1 DEF Fold
      <4>3. G[S] = F[S]
        BY <3>2
      <4>4. m + 1 \notin S \ {Largest(S)} /\ S \ {Largest(S)} \in SUBSET (1 .. m + 1)
        BY <3>2
      <4>5. G[S \ {Largest(S)}] = F[S \ {Largest(S)}]
        BY <4>4
      <4> QED  BY <4>2, <4>3, <4>5
    <3> QED  BY <3>1, <3>2
  <2>3. Fold(G, s, q, m + 1)
    <3>1. G = [S \in SUBSET (1 .. m + 1) |-> G[S]]
      OBVIOUS
    <3> HIDE DEF G
    <3> QED  BY <2>2, <3>1 DEF Fold
  <2> HIDE DEF G
  <2> QED  BY <2>3
<1> HIDE DEF K
<1>3. n \in K
  BY <1>1, <1>2, Upward
<1> QED  BY <1>3 DEF K

\* FoldLeft goes through the queue from its front.
LEMMA FoldTrail ==
    ASSUME NEW s, NEW q, IsSeq(q)
    PROVE  \E tr : Trail(tr, s, q) /\ FoldLeft(Apply, s, q) = tr[Len(q)]
<1> DEFINE n == Len(q)
           F == CHOOSE f : Fold(f, s, q, n)
           tr == [k \in 0 .. n |-> F[1 .. k]]
<1>1. n \in Nat /\ DOMAIN q = 1 .. n
  BY SeqFacts
<1>2. FoldLeft(Apply, s, q) = F[1 .. n]
  BY <1>1 DEF FoldLeft, MapThenFoldSet, Fold, Max
<1>3. Fold(F, s, q, n)
  BY <1>1, FoldExists
<1> HIDE DEF F
<1>4. tr[0] = s
  <2>1. tr[0] = F[1 .. 0] /\ 1 .. 0 = {} /\ 1 .. 0 \in SUBSET (1 .. n)
    BY <1>1
  <2> QED  BY <1>3, <2>1 DEF Fold
<1>5. ASSUME NEW k \in 1 .. n PROVE tr[k] = Apply(tr[k - 1], q[k])
  <2> DEFINE S == 1 .. k
             last == CHOOSE x \in S : \A z \in S : x >= z
  <2>1. S \in SUBSET (1 .. n) /\ k \in S /\ \A z \in S : z \in Int /\ k >= z
    BY <1>1
  <2>2. \A x \in S : (\A z \in S : x >= z) => x = k
    BY <2>1
  <2>3. last = k /\ S # {}
    BY <2>1, <2>2
  <2>4. S \ {k} = 1 .. k - 1
    BY <1>1
  <2> HIDE DEF S
  <2>5. F[S] = Apply(F[S \ {k}], q[k])
    BY <1>3, <2>1, <2>3 DEF Fold
  <2>6. tr[k] = F[S] /\ tr[k - 1] = F[1 .. k - 1]
    BY <1>1 DEF S
  <2> QED  BY <2>4, <2>5, <2>6
<1>6. tr[n] = F[1 .. n]
  BY <1>1
<1> HIDE DEF tr
<1>7. Trail(tr, s, q)
  BY <1>4, <1>5 DEF Trail
<1> QED  BY <1>2, <1>6, <1>7

-------------------------------------------------------------------------------
(* What an operation does to the text *)

H == CHOOSE h \in Heights : TRUE
Line == 0 .. H - 1
Ring == H + SCROLLBACK
TextRows == -SCROLLBACK .. H - 1

Fields == {"rows", "ring", "head", "view", "y", "x", "top", "bottom", "dirty",
           "queue", "lost"}

\* The part of a session that Text looks at is in order.
Cells(s) ==
    /\ Fields \subseteq DOMAIN s
    /\ s.rows = H /\ s.head \in 0 .. Ring - 1
    /\ s.ring = [i \in 0 .. Ring - 1 |-> s.ring[i]]

\* The operation op is one that the instructions queue.
Region(op) == op.top \in Line /\ op.bottom \in Line /\ op.top <= op.bottom
Operation(op) ==
    \/ op.type = "set_cell" /\ op.y \in Line
    \/ op.type = "scroll_region" /\ Region(op) /\ op.dy \in Int \ {0}
    \/ op.type = "insert_lines" /\ Region(op) /\ op.n \in Nat \ {0}
    \/ op.type = "delete_lines" /\ Region(op) /\ op.n \in 1 .. op.bottom - op.top + 1

\* The text f after it.
ScrolledText(f, t, e, n) ==
    IF n < 0 THEN Screen!Down(f, t, e, -n)
    ELSE Screen!Up(f, IF t = 0 /\ e = H - 1 THEN -SCROLLBACK ELSE t, e, n)
Effect(f, op) ==
    CASE op.type = "set_cell" -> [f EXCEPT ![op.y] = op.c]
      [] op.type = "scroll_region" -> ScrolledText(f, op.top, op.bottom, op.dy)
      [] op.type = "insert_lines" -> Screen!Down(f, op.top, op.bottom, op.n)
      [] op.type = "delete_lines" -> Screen!Up(f, op.top, op.bottom, op.n)

\* The session t differs from s in nothing but cells, dirty rows and the view.
SamePlace(s, t) ==
    /\ DOMAIN t = DOMAIN s
    /\ t.y = s.y /\ t.x = s.x /\ t.top = s.top /\ t.bottom = s.bottom

\* The screen and the ring have rows.
LEMMA Sizes == H \in Nat \ {0} /\ SCROLLBACK \in Nat \ {0} /\ Ring \in Nat \ {0}
<1>1. H \in Heights
  BY HeightsAssumption DEF H
<1> QED  BY <1>1, HeightsAssumption, SizesAssumption DEF Ring

\* Every row of the text has its own place in the ring.
LEMMA RowFacts ==
    ASSUME NEW s, Cells(s), NEW r \in TextRows
    PROVE  /\ ActiveRow(s, r) \in 0 .. Ring - 1
           /\ \A l \in TextRows : ActiveRow(s, l) = ActiveRow(s, r) => l = r
<1>1. ActiveRow(s, r) = (s.head + r) % Ring /\ Height(s) = Ring /\ s.head \in Int
  BY DEF ActiveRow, Height, Cells, Ring
<1>2. r \in Int /\ s.head + r \in Int
  BY <1>1 DEF TextRows
<1>3. ASSUME NEW l \in TextRows, ActiveRow(s, l) = ActiveRow(s, r) PROVE l = r
  <2>1. l \in Int /\ s.head + l \in Int
    BY <1>1 DEF TextRows
  <2>2. (s.head + l) % Ring = (s.head + r) % Ring
    BY <1>1, <1>3 DEF ActiveRow
  <2>3. (s.head + l) - (s.head + r) < Ring /\ (s.head + r) - (s.head + l) < Ring
    BY <1>1, <1>2, <2>1, Sizes DEF TextRows, Ring
  <2>4. s.head + l = s.head + r
    BY <1>2, <2>1, <2>2, <2>3, Sizes, RemaindersDiffer
  <2> QED  BY <1>1, <1>2, <2>1, <2>4
<1> QED  BY <1>1, <1>2, <1>3, Sizes, Remainder

\* Rows that are written get what is written, the others stay.
LEMMA TextOfWrite ==
    ASSUME NEW s, Cells(s), NEW R \in SUBSET TextRows, NEW f
    PROVE  /\ Cells(Write(s, R, f)) /\ SamePlace(s, Write(s, R, f))
           /\ Text(Write(s, R, f)) =
                  [r \in TextRows |-> IF r \in R THEN f[r] ELSE Text(s)[r]]
<1> DEFINE t == Write(s, R, f)
<1>1. /\ DOMAIN t = DOMAIN s /\ t.rows = H /\ t.head = s.head
      /\ t.y = s.y /\ t.x = s.x /\ t.top = s.top /\ t.bottom = s.bottom
      /\ t.ring = [i \in 0 .. Ring - 1 |->
                    IF \E r \in R : ActiveRow(s, r) = i
                    THEN f[CHOOSE r \in R : ActiveRow(s, r) = i] ELSE s.ring[i]]
  BY DEF Write, Cells, Fields
<1> HIDE DEF t
<1>2. Cells(t) /\ SamePlace(s, t)
  BY <1>1 DEF Cells, SamePlace
<1>3. ASSUME NEW r \in TextRows
      PROVE  t.ring[ActiveRow(s, r)] = IF r \in R THEN f[r] ELSE s.ring[ActiveRow(s, r)]
  <2>1. /\ ActiveRow(s, r) \in 0 .. Ring - 1
        /\ \A l \in R : ActiveRow(s, l) = ActiveRow(s, r) => l = r
    BY RowFacts
  <2>2. (\E l \in R : ActiveRow(s, l) = ActiveRow(s, r)) <=> r \in R
    BY <2>1
  <2>3. ASSUME r \in R PROVE (CHOOSE l \in R : ActiveRow(s, l) = ActiveRow(s, r)) = r
    BY <2>1, <2>3
  <2> QED  BY <1>1, <2>1, <2>2, <2>3
<1>4. \A r \in TextRows : ActiveRow(t, r) = ActiveRow(s, r)
  BY <1>1 DEF ActiveRow, Height, Cells
<1>5. /\ Text(t) = [r \in TextRows |-> t.ring[ActiveRow(t, r)]]
      /\ Text(s) = [r \in TextRows |-> s.ring[ActiveRow(s, r)]]
  BY <1>1 DEF Text, TextRows, Cells
<1>6. Text(t) = [r \in TextRows |-> IF r \in R THEN f[r] ELSE Text(s)[r]]
  BY <1>3, <1>4, <1>5
<1> QED  BY <1>2, <1>6 DEF t

\* Rows that are shifted get what lies d rows from them.
LEMMA TextOfShift ==
    ASSUME NEW s, Cells(s), NEW R \in SUBSET TextRows, NEW S \in SUBSET TextRows,
           NEW d \in Int
    PROVE  /\ Cells(Shift(s, R, S, d)) /\ SamePlace(s, Shift(s, R, S, d))
           /\ Text(Shift(s, R, S, d)) =
                  [r \in TextRows |-> IF r \notin R THEN Text(s)[r]
                                      ELSE IF r + d \in S THEN Text(s)[r + d] ELSE Blank]
<1> DEFINE f == [r \in R |-> IF r + d \in S THEN s.ring[ActiveRow(s, r + d)] ELSE Blank]
<1>1. Shift(s, R, S, d) = Write(s, R, f)
  BY DEF Shift
<1>2. Text(s) = [r \in TextRows |-> s.ring[ActiveRow(s, r)]]
  BY DEF Text, TextRows, Cells
<1>3. \A r \in R : f[r] = IF r + d \in S THEN Text(s)[r + d] ELSE Blank
  BY <1>2
<1> HIDE DEF f
<1> QED  BY <1>1, <1>3, TextOfWrite

\* The screen's first rows become history, and the rows that come in are clear.
LEMMA TextOfRoll ==
    ASSUME NEW s, Cells(s), NEW n \in Nat \ {0}
    PROVE  /\ Cells(Roll(s, n)) /\ SamePlace(s, Roll(s, n))
           /\ Text(Roll(s, n)) = Screen!Up(Text(s), -SCROLLBACK, H - 1, n)
<1> DEFINE t == Roll(s, n)
           h == (s.head + n) % Ring
           In(i) == \E k \in 0 .. n - 1 : i = (s.head + H + k) % Ring
<1>1. /\ DOMAIN t = DOMAIN s /\ t.rows = H /\ t.head = h
      /\ t.y = s.y /\ t.x = s.x /\ t.top = s.top /\ t.bottom = s.bottom
      /\ t.ring = [i \in 0 .. Ring - 1 |-> IF In(i) THEN Blank ELSE s.ring[i]]
  BY DEF Roll, Cells, Fields, Height, Ring
<1>2. s.head \in Int /\ s.head + n \in Int /\ h \in 0 .. Ring - 1
  <2>1. s.head \in 0 .. Ring - 1 /\ Ring \in Nat \ {0}
    BY Sizes DEF Cells
  <2>2. s.head \in Int /\ s.head + n \in Int
    BY <2>1
  <2> QED  BY <2>1, <2>2, Remainder
<1> HIDE DEF t
<1>3. Cells(t) /\ SamePlace(s, t)
  BY <1>1, <1>2 DEF Cells, SamePlace
<1>4. \A r \in TextRows : r \in Int /\ s.head + r \in Int /\ (s.head + n) + r \in Int
  BY <1>2 DEF TextRows
<1>5. /\ Text(t) = [r \in TextRows |-> t.ring[ActiveRow(t, r)]]
      /\ Text(s) = [r \in TextRows |-> s.ring[ActiveRow(s, r)]]
  BY <1>1 DEF Text, TextRows, Cells
<1>6. ASSUME NEW r \in TextRows PROVE ActiveRow(t, r) = (s.head + n + r) % Ring
  <2>1. ActiveRow(t, r) = (h + r) % Ring
    BY <1>1 DEF ActiveRow, Height, Ring
  <2> QED  BY <1>2, <1>4, <2>1, Sizes, RemainderOfSum
<1> HIDE DEF In
<1>7. ASSUME NEW r \in TextRows
      PROVE  t.ring[ActiveRow(t, r)] =
                 IF r + n <= H - 1 THEN Text(s)[r + n] ELSE Blank
  <2>1. ActiveRow(t, r) \in 0 .. Ring - 1
    BY <1>3, RowFacts
  <2>2. CASE r + n <= H - 1
    <3>1. r + n \in TextRows
      BY <1>4, <2>2, Sizes DEF TextRows
    <3>2. ActiveRow(s, r + n) = ActiveRow(t, r)
      <4>1. ActiveRow(s, r + n) = (s.head + (r + n)) % Ring
        BY DEF ActiveRow, Height, Ring, Cells
      <4>2. s.head + (r + n) = s.head + n + r
        BY <1>2, <1>4
      <4> QED  BY <1>6, <4>1, <4>2
    <3>3. ~In(ActiveRow(t, r))
      <4>1. SUFFICES ASSUME NEW k \in 0 .. n - 1,
                            (s.head + n + r) % Ring = (s.head + H + k) % Ring
                     PROVE  FALSE
        BY <1>6 DEF In
      <4> DEFINE m == s.head + n + r
                 l == s.head + H + k
      <4>2. /\ m \in Int /\ l \in Int /\ m < l /\ l - m < Ring /\ m - l < Ring
        BY <1>2, <1>4, <2>2, Sizes DEF TextRows, Ring
      <4>3. m % Ring = l % Ring
        BY <4>1
      <4> HIDE DEF m, l
      <4>4. m = l
        BY <4>2, <4>3, Sizes, RemaindersDiffer
      <4> QED  BY <4>2, <4>4
    <3> QED  BY <1>1, <1>5, <2>1, <2>2, <3>1, <3>2, <3>3
  <2>3. CASE ~(r + n <= H - 1)
    <3> DEFINE k == r + n - H
    <3>1. k \in 0 .. n - 1 /\ s.head + H + k = s.head + n + r
      BY <1>2, <1>4, <2>3, Sizes DEF TextRows
    <3>2. In(ActiveRow(t, r))
      BY <1>6, <3>1 DEF In
    <3> QED  BY <1>1, <2>1, <2>3, <3>2
  <2> QED  BY <2>2, <2>3
<1>8. Text(t) = [r \in TextRows |-> IF r + n <= H - 1 THEN Text(s)[r + n] ELSE Blank]
  BY <1>5, <1>7
<1>9. Screen!Up(Text(s), -SCROLLBACK, H - 1, n) =
          [r \in TextRows |-> IF r + n <= H - 1 THEN Text(s)[r + n] ELSE Blank]
  BY <1>5 DEF Screen!Up, TextRows
<1> QED  BY <1>3, <1>8, <1>9 DEF t

\* A region lies on the screen.
LEMMA RegionFacts ==
    ASSUME NEW op, Region(op)
    PROVE  /\ op.top \in Int /\ op.bottom \in Int /\ 0 <= op.top /\ op.top <= op.bottom
           /\ op.bottom <= H - 1 /\ MinOf(op.bottom, H - 1) = op.bottom
           /\ op.top .. op.bottom \in SUBSET TextRows
<1>1. /\ op.top \in Int /\ op.bottom \in Int /\ 0 <= op.top /\ op.top <= op.bottom
      /\ op.bottom <= H - 1
  BY Sizes DEF Region, Line
<1>2. MinOf(op.bottom, H - 1) = op.bottom
  BY <1>1, Sizes DEF MinOf
<1>3. op.top .. op.bottom \in SUBSET TextRows
  BY <1>1, Sizes DEF TextRows
<1> QED  BY <1>1, <1>2, <1>3

\* Moving a region by d is moving it up or down.
LEMMA ShiftIsMove ==
    ASSUME NEW s, Cells(s), NEW op, Region(op), NEW d \in Int \ {0},
           NEW R, R = op.top .. op.bottom
    PROVE  /\ Cells(Shift(s, R, R, d)) /\ SamePlace(s, Shift(s, R, R, d))
           /\ Text(Shift(s, R, R, d)) =
                  IF d < 0 THEN Screen!Down(Text(s), op.top, op.bottom, -d)
                  ELSE Screen!Up(Text(s), op.top, op.bottom, d)
<1> DEFINE f == Text(s)
           g == [r \in TextRows |-> IF r \notin R THEN f[r]
                                    ELSE IF r + d \in R THEN f[r + d] ELSE Blank]
<1> HIDE DEF f
<1>1. /\ Cells(Shift(s, R, R, d)) /\ SamePlace(s, Shift(s, R, R, d))
      /\ Text(Shift(s, R, R, d)) = g
  <2>1. R \in SUBSET TextRows /\ d \in Int
    BY RegionFacts
  <2> QED  BY ONLY Cells(s), <2>1, TextOfShift DEF f, g
<1>2. DOMAIN f = TextRows
  BY DEF f, Text, TextRows, Cells
<1>3. \A r \in TextRows : r \in Int
  BY DEF TextRows
<1> HIDE DEF g
<1>4. CASE d < 0
  <2>1. \A r \in R : r - (-d) = r + d /\ (r + d \in R <=> r + d >= op.top)
    BY <1>4, RegionFacts
  <2>2. Screen!Down(f, op.top, op.bottom, -d) = g
    BY <1>2, <2>1 DEF Screen!Down, g
  <2> QED  BY <1>1, <1>4, <2>2 DEF f
<1>5. CASE ~(d < 0)
  <2>1. \A r \in R : r + d \in R <=> r + d <= op.bottom
    BY <1>5, RegionFacts
  <2>2. Screen!Up(f, op.top, op.bottom, d) = g
    BY <1>2, <2>1 DEF Screen!Up, g
  <2> QED  BY <1>1, <1>5, <2>2 DEF f
<1> QED  BY <1>4, <1>5

\* On the text, every operation does what it is for.
LEMMA ApplyText ==
    ASSUME NEW s, Cells(s), NEW op, Operation(op)
    PROVE  /\ Cells(Apply(s, op)) /\ SamePlace(s, Apply(s, op))
           /\ Text(Apply(s, op)) = Effect(Text(s), op)
<1>1. s.rows = H /\ DOMAIN Text(s) = TextRows
  BY DEF Cells, Text, TextRows
<1>2. CASE op.type = "set_cell" /\ op.y \in Line
  <2> DEFINE g == [r \in {op.y} |-> op.c]
             t == Write(s, {op.y}, g)
  <2>1. Apply(s, op) = t
    BY <1>2 DEF Apply
  <2>2. {op.y} \in SUBSET TextRows
    BY <1>2, Sizes DEF Line, TextRows
  <2>3. Effect(Text(s), op) = [Text(s) EXCEPT ![op.y] = op.c]
    BY <1>2 DEF Effect
  <2>4. [Text(s) EXCEPT ![op.y] = op.c] =
            [r \in TextRows |-> IF r \in {op.y} THEN op.c ELSE Text(s)[r]]
    BY <1>1
  <2>5. g[op.y] = op.c
    OBVIOUS
  <2> HIDE DEF g
  <2>6. /\ Cells(t) /\ SamePlace(s, t)
        /\ Text(t) = [r \in TextRows |-> IF r \in {op.y} THEN g[r] ELSE Text(s)[r]]
    BY <2>2, TextOfWrite
  <2> HIDE DEF t
  <2> QED  BY <2>1, <2>3, <2>4, <2>5, <2>6
<1>3. CASE op.type = "scroll_region" /\ Region(op) /\ op.dy \in Int \ {0}
  <2> DEFINE R == op.top .. op.bottom
  <2>1. Apply(s, op) = IF op.dy > 0 /\ op.top = 0 /\ op.bottom = H - 1
                       THEN Roll(s, op.dy) ELSE Shift(s, R, R, op.dy)
    BY <1>1, <1>3 DEF Apply, ApplyScroll, IsFullScroll
  <2>2. Effect(Text(s), op) = ScrolledText(Text(s), op.top, op.bottom, op.dy)
    BY <1>3 DEF Effect
  <2>3. CASE op.dy > 0 /\ op.top = 0 /\ op.bottom = H - 1
    <3>1. Effect(Text(s), op) = Screen!Up(Text(s), -SCROLLBACK, H - 1, op.dy)
      BY <1>3, <2>2, <2>3 DEF ScrolledText
    <3>2. op.dy \in Nat \ {0}
      BY <1>3, <2>3
    <3> QED  BY <2>1, <2>3, <3>1, <3>2, TextOfRoll
  <2>4. CASE ~(op.dy > 0 /\ op.top = 0 /\ op.bottom = H - 1)
    <3>1. Effect(Text(s), op) =
              IF op.dy < 0 THEN Screen!Down(Text(s), op.top, op.bottom, -op.dy)
              ELSE Screen!Up(Text(s), op.top, op.bottom, op.dy)
      BY <1>3, <2>2, <2>4 DEF ScrolledText
    <3> HIDE DEF R
    <3>2. Apply(s, op) = Shift(s, R, R, op.dy)
      BY <2>1, <2>4
    <3> QED  BY <1>3, <3>1, <3>2, ShiftIsMove DEF R
  <2> QED  BY <2>3, <2>4
<1>4. CASE op.type = "insert_lines" /\ Region(op) /\ op.n \in Nat \ {0}
  <2> DEFINE R == op.top .. op.bottom
  <2>1. Apply(s, op) = Shift(s, R, R, -op.n)
    BY <1>1, <1>4, RegionFacts DEF Apply, ApplyInsert
  <2>2. Effect(Text(s), op) = Screen!Down(Text(s), op.top, op.bottom, op.n)
    BY <1>4 DEF Effect
  <2>3. -op.n \in Int \ {0} /\ -op.n < 0 /\ -(-op.n) = op.n
    BY <1>4
  <2> HIDE DEF R
  <2> QED  BY <1>4, <2>1, <2>2, <2>3, ShiftIsMove DEF R
<1>5. CASE op.type = "delete_lines" /\ Region(op) /\ op.n \in 1 .. op.bottom - op.top + 1
  <2> DEFINE R == op.top .. op.bottom
  <2>1. MinOf(op.top, op.bottom - op.n + 1) = op.top
    BY <1>5, RegionFacts DEF MinOf
  <2>2. Apply(s, op) = Shift(s, R, R, op.n)
    BY <1>1, <1>5, <2>1, RegionFacts DEF Apply, ApplyDelete
  <2>3. Effect(Text(s), op) = Screen!Up(Text(s), op.top, op.bottom, op.n)
    BY <1>5 DEF Effect
  <2>4. op.n \in Int \ {0} /\ ~(op.n < 0)
    BY <1>5, RegionFacts
  <2> HIDE DEF R
  <2> QED  BY <1>5, <2>2, <2>3, <2>4, ShiftIsMove DEF R
<1> QED  BY <1>2, <1>3, <1>4, <1>5 DEF Operation

-------------------------------------------------------------------------------
(* What a queue of operations does to the text *)

Ops(q) == IsSeq(q) /\ \A i \in 1 .. Len(q) : Operation(q[i])

\* The text with the operations q applied.
Applied(s, q) == Text(FoldLeft(Apply, s, q))

\* Operation by operation, the queue does to the text what it is for.
LEMMA TrailText ==
    ASSUME NEW s, Cells(s), NEW q, Ops(q), NEW tr, Trail(tr, s, q)
    PROVE  /\ \A k \in 0 .. Len(q) : Cells(tr[k]) /\ SamePlace(s, tr[k])
           /\ \A k \in 1 .. Len(q) : Text(tr[k]) = Effect(Text(tr[k - 1]), q[k])
<1> DEFINE n == Len(q)
           Fine(k) == Cells(tr[k]) /\ SamePlace(s, tr[k])
           K == {k \in Nat : k <= n => Fine(k)}
<1>1. n \in Nat
  BY SeqFacts DEF Ops
<1>2. ASSUME NEW k \in 1 .. n, Fine(k - 1)
      PROVE  Fine(k) /\ Text(tr[k]) = Effect(Text(tr[k - 1]), q[k])
  <2> DEFINE u == tr[k - 1]
             op == q[k]
  <2>1. tr[k] = Apply(u, op) /\ Operation(op)
    BY DEF Trail, Ops
  <2> HIDE DEF u, op
  <2>2. Cells(u) /\ SamePlace(s, u)
    BY <1>2 DEF u
  <2>3. /\ Cells(tr[k]) /\ SamePlace(u, tr[k])
        /\ Text(tr[k]) = Effect(Text(u), op)
    BY <2>1, <2>2, ApplyText
  <2> QED  BY <2>2, <2>3 DEF SamePlace, u, op
<1>3. 0 \in K
  BY DEF Trail, SamePlace
<1>4. ASSUME NEW k \in Nat, k \in K PROVE k + 1 \in K
  <2>1. k + 1 \in Nat /\ (k + 1) - 1 = k
    OBVIOUS
  <2>2. CASE k + 1 <= n
    <3>1. k + 1 \in 1 .. n /\ k <= n
      BY <1>1, <2>2
    <3>2. Fine(k)
      BY <1>4, <3>1
    <3> HIDE DEF Fine
    <3>3. Fine(k + 1)
      BY <1>2, <2>1, <3>1, <3>2
    <3> QED  BY <3>3
  <2>3. CASE ~(k + 1 <= n)
    BY <2>1, <2>3
  <2> QED  BY <2>2, <2>3
<1> HIDE DEF K
<1>5. Nat \subseteq K
  BY <1>3, <1>4, Upward
<1> HIDE DEF Fine
<1>6. \A k \in 0 .. n : Fine(k)
  BY <1>1, <1>5 DEF K
<1>7. \A k \in 1 .. n : k - 1 \in 0 .. n
  BY <1>1
<1> QED  BY <1>2, <1>6, <1>7 DEF Fine

\* The operations p are those of q from number n + 1, and go on with the text
\* that the first n leave.  They leave the same texts.
LEMMA Joined ==
    ASSUME NEW s, Cells(s), NEW q, Ops(q), NEW tr, Trail(tr, s, q),
           NEW u, Cells(u), NEW p, Ops(p), NEW ur, Trail(ur, u, p),
           NEW n \in Nat, n + Len(p) <= Len(q),
           \A i \in 1 .. Len(p) : p[i] = q[n + i],
           Text(u) = Text(tr[n])
    PROVE  Text(ur[Len(p)]) = Text(tr[n + Len(p)])
<1> DEFINE l == Len(p)
           K == {k \in Nat : k <= l => Text(ur[k]) = Text(tr[n + k])}
<1>1. l \in Nat /\ Len(q) \in Nat
  BY SeqFacts DEF Ops
<1>2. 0 \in K
  BY DEF Trail
<1>3. ASSUME NEW k \in Nat, k \in K PROVE k + 1 \in K
  <2>1. SUFFICES ASSUME k + 1 <= l PROVE Text(ur[k + 1]) = Text(tr[n + (k + 1)])
    OBVIOUS
  <2>2. /\ k + 1 \in 1 .. l /\ k <= l /\ (k + 1) - 1 = k
        /\ n + (k + 1) \in 1 .. Len(q) /\ (n + (k + 1)) - 1 = n + k
    BY <1>1, <2>1
  <2>3. Text(ur[k + 1]) = Effect(Text(ur[k]), p[k + 1])
    BY <2>2, TrailText
  <2>4. Text(tr[n + (k + 1)]) = Effect(Text(tr[n + k]), q[n + (k + 1)])
    BY <2>2, TrailText
  <2>5. Text(ur[k]) = Text(tr[n + k])
    BY <1>3, <2>2
  <2>6. p[k + 1] = q[n + (k + 1)]
    BY <2>2
  <2> QED  BY <2>3, <2>4, <2>5, <2>6
<1> HIDE DEF K
<1>4. l \in K
  BY <1>1, <1>2, <1>3, Upward
<1> QED  BY <1>1, <1>4 DEF K

\* Operations leave the cursor and the margins alone.
LEMMA AppliedAll ==
    ASSUME NEW s, Cells(s), NEW q, Ops(q)
    PROVE  Cells(FoldLeft(Apply, s, q)) /\ SamePlace(s, FoldLeft(Apply, s, q))
<1>1. PICK tr : Trail(tr, s, q) /\ FoldLeft(Apply, s, q) = tr[Len(q)]
  BY FoldTrail DEF Ops
<1>2. Len(q) \in 0 .. Len(q)
  BY SeqFacts DEF Ops
<1> QED  BY <1>1, <1>2, TrailText

\* What the same operations make of the same text.
LEMMA AppliedSame ==
    ASSUME NEW s, Cells(s), NEW t, Cells(t), Text(t) = Text(s), NEW q, Ops(q)
    PROVE  Applied(t, q) = Applied(s, q)
<1>1. PICK tr : Trail(tr, s, q) /\ FoldLeft(Apply, s, q) = tr[Len(q)]
  BY FoldTrail DEF Ops
<1>2. PICK ur : Trail(ur, t, q) /\ FoldLeft(Apply, t, q) = ur[Len(q)]
  BY FoldTrail DEF Ops
<1>3. /\ Len(q) \in Nat /\ 0 + Len(q) = Len(q)
      /\ \A i \in 1 .. Len(q) : q[i] = q[0 + i]
      /\ Text(t) = Text(tr[0])
  BY <1>1, SeqFacts DEF Ops, Trail
<1>4. Text(ur[Len(q)]) = Text(tr[0 + Len(q)])
  BY <1>1, <1>2, <1>3, Joined
<1> QED  BY <1>1, <1>2, <1>3, <1>4 DEF Applied

\* One more operation at the end of the queue.
LEMMA AppliedNext ==
    ASSUME NEW s, Cells(s), NEW q, Ops(q), NEW op, Operation(op)
    PROVE  /\ Ops(Append(q, op))
           /\ Applied(s, Append(q, op)) = Effect(Applied(s, q), op)
<1> DEFINE p == Append(q, op)
           n == Len(q)
<1>1. /\ n \in Nat /\ IsSeq(p) /\ Len(p) = n + 1
      /\ \A i \in 1 .. n : p[i] = q[i]
      /\ p[n + 1] = op
  BY SeqFacts, AppendFacts DEF Ops
<1> HIDE DEF p
<1>2. Ops(p)
  <2>1. \A i \in 1 .. n + 1 : i \in 1 .. n \/ i = n + 1
    BY <1>1
  <2> QED  BY <1>1, <2>1 DEF Ops
<1>3. PICK tr : Trail(tr, s, p) /\ FoldLeft(Apply, s, p) = tr[n + 1]
  BY <1>1, FoldTrail
<1>4. PICK ur : Trail(ur, s, q) /\ FoldLeft(Apply, s, q) = ur[n]
  BY FoldTrail DEF Ops
<1>5. Text(ur[n]) = Text(tr[0 + n])
  <2>1. 0 + n <= Len(p) /\ Text(s) = Text(tr[0]) /\ \A i \in 1 .. n : q[i] = p[0 + i]
    BY <1>1, <1>3 DEF Trail
  <2> QED  BY <1>2, <1>3, <1>4, <2>1, Joined
<1>6. Text(tr[n + 1]) = Effect(Text(tr[n]), p[n + 1])
  <2>1. n + 1 \in 1 .. Len(p) /\ (n + 1) - 1 = n
    BY <1>1
  <2> QED  BY <1>2, <1>3, <2>1, TrailText
<1>7. 0 + n = n
  BY <1>1
<1> QED  BY <1>1, <1>2, <1>3, <1>4, <1>5, <1>6, <1>7 DEF Applied, p

\* The front of a queue.
LEMMA PrefixFacts ==
    ASSUME NEW q, IsSeq(q), NEW n \in 0 .. Len(q)
    PROVE  /\ IsSeq(SubSeq(q, 1, n)) /\ Len(SubSeq(q, 1, n)) = n
           /\ \A i \in 1 .. n : SubSeq(q, 1, n)[i] = q[i]
<1> DEFINE S == {q[i] : i \in DOMAIN q}
           p == SubSeq(q, 1, n)
<1>1. q \in Seq(S)
  BY DEF IsSeq
<1> HIDE DEF S
<1>2. p \in Seq(S) /\ Len(p) = n /\ \A i \in 1 .. n : p[i] = q[i]
  BY <1>1
<1> HIDE DEF p
<1>3. IsSeq(p)
  BY <1>2 DEF IsSeq
<1> QED  BY <1>2, <1>3 DEF p

\* Some operations now and the rest later are all operations at once.
LEMMA AppliedRest ==
    ASSUME NEW s, Cells(s), NEW q, Ops(q), NEW n \in 0 .. Len(q),
           NEW u, Cells(u), Text(u) = Applied(s, SubSeq(q, 1, n))
    PROVE  /\ Ops(SubSeq(q, 1, n)) /\ Ops(SubSeq(q, n + 1, Len(q)))
           /\ Applied(u, SubSeq(q, n + 1, Len(q))) = Applied(s, q)
<1> DEFINE p == SubSeq(q, 1, n)
           r == SubSeq(q, n + 1, Len(q))
           l == Len(q)
<1>1. l \in Nat /\ IsSeq(q)
  BY SeqFacts DEF Ops
<1>2. IsSeq(p) /\ Len(p) = n /\ \A i \in 1 .. n : p[i] = q[i]
  BY <1>1, PrefixFacts
<1>3. IsSeq(r) /\ Len(r) = l - n /\ \A i \in 1 .. l - n : r[i] = q[n + i]
  BY <1>1, RestFacts
<1>4. Text(u) = Applied(s, p)
  OBVIOUS
<1> HIDE DEF p, r
<1>5. Ops(p) /\ Ops(r)
  <2>1. /\ \A i \in 1 .. n : i \in 1 .. l
        /\ \A i \in 1 .. l - n : n + i \in 1 .. l
    BY <1>1
  <2> QED  BY <1>2, <1>3, <2>1 DEF Ops
<1>6. PICK tr : Trail(tr, s, q) /\ FoldLeft(Apply, s, q) = tr[l]
  BY <1>1, FoldTrail
<1>7. PICK pr : Trail(pr, s, p) /\ FoldLeft(Apply, s, p) = pr[n]
  BY <1>2, FoldTrail
<1>8. PICK ur : Trail(ur, u, r) /\ FoldLeft(Apply, u, r) = ur[l - n]
  BY <1>3, FoldTrail
<1>9. Text(pr[n]) = Text(tr[0 + n])
  <2>1. 0 + Len(p) <= l /\ Text(s) = Text(tr[0]) /\ \A i \in 1 .. n : p[i] = q[0 + i]
    BY <1>1, <1>2, <1>6 DEF Trail
  <2>2. Text(pr[Len(p)]) = Text(tr[0 + Len(p)])
    BY <1>2, <1>5, <1>6, <1>7, <2>1, Joined
  <2> QED  BY <1>2, <2>2
<1>10. Text(ur[l - n]) = Text(tr[l])
  <2>1. /\ n + Len(r) <= l /\ n + Len(r) = l /\ n \in Nat /\ 0 + n = n
        /\ \A i \in 1 .. Len(r) : r[i] = q[n + i]
    BY <1>1, <1>3
  <2>2. Text(u) = Text(tr[n])
    BY <1>4, <1>7, <1>9, <2>1 DEF Applied
  <2>3. Text(ur[Len(r)]) = Text(tr[n + Len(r)])
    <3>1. Trail(ur, u, r) /\ Trail(tr, s, q) /\ Ops(r)
      BY <1>5, <1>6, <1>8
    <3> QED  BY <2>1, <2>2, <3>1, Joined
  <2> QED  BY <1>3, <2>1, <2>3
<1>11. Applied(u, r) = Applied(s, q)
  BY <1>6, <1>8, <1>10 DEF Applied
<1> QED  BY <1>5, <1>11 DEF p, r

-------------------------------------------------------------------------------
(* What the application sees of a session *)

\* A session that the instructions leave behind.
Grid(s) ==
    /\ Cells(s) /\ Ops(s.queue)
    /\ s.y \in Line /\ s.x \in {0, 1}
    /\ s.top \in Line /\ s.bottom \in Line /\ s.top <= s.bottom

SeenText(s) == Applied(s, s.queue)

\* What SeenOf works out: the cursor and the margins as they are, the text with
\* the queue applied.
LEMMA SeenFacts ==
    ASSUME NEW s, Grid(s)
    PROVE  /\ SeenOf(s).text = SeenText(s) /\ SeenOf(s).y = s.y
           /\ SeenOf(s).wrap = (s.x = 1)
           /\ SeenOf(s).top = s.top /\ SeenOf(s).bottom = s.bottom
<1> DEFINE q == s.queue
           n == Len(q)
           t == FoldLeft(Apply, s, q)
           u == Settled(s)
<1>1. Cells(s) /\ Ops(q) /\ IsSeq(q) /\ n \in Nat /\ n \in 0 .. n
  BY SeqFacts DEF Grid, Ops
<1>2. SubSeq(q, 1, n) = q
  <2> DEFINE S == {q[i] : i \in DOMAIN q}
             p == SubSeq(q, 1, n)
  <2>1. q \in Seq(S)
    BY <1>1 DEF IsSeq
  <2> HIDE DEF S
  <2>2. p \in Seq(S)
    BY <1>1, <2>1
  <2>3. Len(p) = n /\ \A i \in 1 .. n : p[i] = q[i]
    BY <1>1, PrefixFacts
  <2> HIDE DEF p
  <2>4. p = q
    BY <2>1, <2>2, <2>3
  <2> QED  BY <2>4 DEF p
<1>3. Cells(t) /\ SamePlace(s, t)
  BY <1>1, AppliedAll
<1>4. Text(t) = SeenText(s)
  BY DEF SeenText, Applied
<1> HIDE DEF t
<1>5. /\ u.rows = t.rows /\ u.ring = t.ring /\ u.head = t.head
      /\ u.y = t.y /\ u.x = t.x /\ u.top = t.top /\ u.bottom = t.bottom
  BY <1>1, <1>2 DEF Settled, Flushed, Cells, Fields, t
<1> HIDE DEF u
<1>6. Text(u) = Text(t)
  BY <1>5 DEF Text, ActiveRow, Height
<1> HIDE DEF Text
<1>7. SeenOf(s) = [rows |-> u.rows, text |-> Text(u), y |-> u.y, wrap |-> u.x = 1,
                   top |-> u.top, bottom |-> u.bottom]
  BY DEF SeenOf, u
<1> QED  BY <1>3, <1>4, <1>5, <1>6, <1>7 DEF SamePlace

\* The cursor moves, or the dirty rows or the view change.
LEMMA MoveFacts ==
    ASSUME NEW s, Grid(s), NEW t, DOMAIN t = DOMAIN s,
           t.rows = s.rows, t.ring = s.ring, t.head = s.head, t.queue = s.queue,
           t.y \in Line, t.x \in {0, 1}, t.top \in Line, t.bottom \in Line,
           t.top <= t.bottom
    PROVE  Grid(t) /\ SeenText(t) = SeenText(s)
<1>1. Cells(s) /\ Ops(s.queue) /\ Cells(t) /\ Text(t) = Text(s)
  BY DEF Grid, Cells, Text, ActiveRow, Height
<1>2. Applied(t, s.queue) = Applied(s, s.queue)
  BY <1>1, AppliedSame
<1> QED  BY <1>1, <1>2 DEF Grid, SeenText

\* An operation that finds its place in the queue.
LEMMA QueueOpFacts ==
    ASSUME NEW s, Grid(s), NEW op, Operation(op), ~QueueOp(s, op).lost
    PROVE  /\ Grid(QueueOp(s, op)) /\ SamePlace(s, QueueOp(s, op)) /\ ~s.lost
           /\ SeenText(QueueOp(s, op)) = Effect(SeenText(s), op)
<1> DEFINE t == QueueOp(s, op)
           q == Append(s.queue, op)
<1>1. Fields \subseteq DOMAIN s /\ Cells(s) /\ Ops(s.queue)
  BY DEF Grid, Cells
<1>2. ~(Len(s.queue) >= OP_QUEUE_SIZE)
  BY <1>1 DEF QueueOp, Fields
<1>3. /\ DOMAIN t = DOMAIN s /\ t.queue = q /\ t.lost = s.lost
      /\ t.rows = s.rows /\ t.ring = s.ring /\ t.head = s.head
      /\ t.y = s.y /\ t.x = s.x /\ t.top = s.top /\ t.bottom = s.bottom
  BY <1>1, <1>2 DEF QueueOp, Fields
<1>4. ~t.lost
  OBVIOUS
<1>5. Ops(q) /\ Applied(s, q) = Effect(Applied(s, s.queue), op)
  BY <1>1, AppliedNext
<1> HIDE DEF t, q
<1>6. Cells(t) /\ Text(t) = Text(s)
  BY <1>1, <1>3 DEF Cells, Text, ActiveRow, Height
<1>7. Applied(t, q) = Applied(s, q)
  BY <1>1, <1>5, <1>6, AppliedSame
<1>8. Grid(t) /\ SamePlace(s, t) /\ ~s.lost
  BY <1>3, <1>4, <1>5, <1>6 DEF Grid, SamePlace
<1>9. SeenText(t) = Effect(SeenText(s), op)
  BY <1>3, <1>5, <1>7 DEF SeenText
<1> QED  BY <1>8, <1>9 DEF t

\* A scroll of the region that is queued.
LEMMA ScrollFacts ==
    ASSUME NEW s, Grid(s), NEW n \in Int \ {0}, ~Scroll(s, n).lost
    PROVE  /\ Grid(Scroll(s, n)) /\ SamePlace(s, Scroll(s, n)) /\ ~s.lost
           /\ SeenText(Scroll(s, n)) = ScrolledText(SeenText(s), s.top, s.bottom, n)
<1> DEFINE op == ScrollRegion(s.top, s.bottom, n)
<1>1. /\ op.type = "scroll_region" /\ op.top = s.top /\ op.bottom = s.bottom
      /\ op.dy = n
  BY DEF ScrollRegion
<1>2. Scroll(s, n) = QueueOp(s, op)
  BY DEF Scroll
<1> HIDE DEF op
<1>3. Operation(op)
  BY <1>1 DEF Operation, Region, Grid
<1>4. Effect(SeenText(s), op) = ScrolledText(SeenText(s), s.top, s.bottom, n)
  BY <1>1 DEF Effect
<1> QED  BY <1>2, <1>3, <1>4, QueueOpFacts

\* The cursor goes down and nothing else happens.
LEMMA DownFacts ==
    ASSUME NEW s, Grid(s)
    PROVE  /\ Grid(Down(s)) /\ SeenText(Down(s)) = SeenText(s)
           /\ Down(s).y = MinOf(s.y + 1, s.bottom) /\ Down(s).x = s.x
           /\ Down(s).top = s.top /\ Down(s).bottom = s.bottom /\ Down(s).lost = s.lost
           /\ Down(s).queue = s.queue /\ DOMAIN Down(s) = DOMAIN s
<1> DEFINE t == Down(s)
<1>1. Fields \subseteq DOMAIN s
  BY DEF Grid, Cells
<1>2. /\ DOMAIN t = DOMAIN s /\ t.queue = s.queue /\ t.lost = s.lost
      /\ t.rows = s.rows /\ t.ring = s.ring /\ t.head = s.head
      /\ t.y = MinOf(s.y + 1, s.bottom)
      /\ t.x = s.x /\ t.top = s.top /\ t.bottom = s.bottom
  BY <1>1 DEF Down, Fields
<1> HIDE DEF t
<1>3. t.y \in Line
  BY <1>2, Sizes DEF Grid, Line, MinOf
<1>4. Grid(t) /\ SeenText(t) = SeenText(s)
  BY <1>2, <1>3, MoveFacts DEF Grid
<1> QED  BY <1>2, <1>4 DEF t

\* The text after the cursor has gone to the next line.
FedText(s) ==
    IF s.y + 1 > s.bottom THEN ScrolledText(SeenText(s), s.top, s.bottom, 1)
    ELSE SeenText(s)

\* One line down, with a scroll at the end of the region.
LEMMA IndexFacts ==
    ASSUME NEW s, Grid(s), ~Index(s).lost
    PROVE  /\ Grid(Index(s)) /\ SeenText(Index(s)) = FedText(s) /\ ~s.lost
           /\ Index(s).y = MinOf(s.y + 1, s.bottom) /\ Index(s).x = s.x
           /\ Index(s).top = s.top /\ Index(s).bottom = s.bottom
<1> DEFINE d == Down(s)
<1>1. /\ Grid(d) /\ SeenText(d) = SeenText(s) /\ d.y = MinOf(s.y + 1, s.bottom)
      /\ d.x = s.x /\ d.top = s.top /\ d.bottom = s.bottom /\ d.lost = s.lost
  BY DownFacts
<1>2. Index(s) = IF s.y + 1 > s.bottom THEN Scroll(d, 1) ELSE d
  BY DEF Index, AtBottom
<1> HIDE DEF d
<1>3. CASE s.y + 1 > s.bottom
  <2>1. ~Scroll(d, 1).lost /\ 1 \in Int \ {0}
    BY <1>2, <1>3
  <2>2. /\ Grid(Scroll(d, 1)) /\ SamePlace(d, Scroll(d, 1)) /\ ~d.lost
        /\ SeenText(Scroll(d, 1)) = ScrolledText(SeenText(d), d.top, d.bottom, 1)
    BY <1>1, <2>1, ScrollFacts
  <2> QED  BY <1>1, <1>2, <1>3, <2>2 DEF SamePlace, FedText
<1>4. CASE ~(s.y + 1 > s.bottom)
  BY <1>1, <1>2, <1>4 DEF FedText
<1> QED  BY <1>3, <1>4

\* A character, on the next line if the last one has filled its own.
LEMMA PutCharFacts ==
    ASSUME NEW s, Grid(s), NEW c, ~PutChar(s, c).lost
    PROVE  LET t == PutChar(s, c)
           IN  /\ Grid(t) /\ t.x = 1 /\ t.top = s.top /\ t.bottom = s.bottom
               /\ t.y = IF s.x = 1 THEN MinOf(s.y + 1, s.bottom) ELSE s.y
               /\ SeenText(t) =
                      [(IF s.x = 1 THEN FedText(s) ELSE SeenText(s)) EXCEPT ![t.y] = c]
<1> DEFINE here == IF s.x > 0 THEN Index(s) ELSE s
           op == SetCell(here.y, c)
           put == QueueOp(here, op)
           t == PutChar(s, c)
<1>1. t = [put EXCEPT !["x"] = 1]
  BY DEF PutChar, Index
<1>2. op.type = "set_cell" /\ op.y = here.y /\ op.c = c
  BY DEF SetCell
<1>3. Session(s) /\ "lost" \in DOMAIN s
  BY DEF Session, Grid, Cells, Fields, Ops
<1>4. "lost" \in DOMAIN here
  <2>1. DOMAIN Index(s) = DOMAIN s
    BY <1>3, IndexGrew DEF Grew
  <2> QED  BY <1>3, <2>1
<1> HIDE DEF op
<1>5. DOMAIN put = DOMAIN here /\ (here.lost => put.lost)
  <2> HIDE DEF here
  <2> QED  BY <1>4 DEF QueueOp
<1>6. ~put.lost /\ ~here.lost
  <2> HIDE DEF put, here
  <2> QED  BY <1>1, <1>4, <1>5
<1>7. /\ Grid(here) /\ here.x = s.x /\ here.top = s.top /\ here.bottom = s.bottom
      /\ here.y = IF s.x = 1 THEN MinOf(s.y + 1, s.bottom) ELSE s.y
      /\ SeenText(here) = IF s.x = 1 THEN FedText(s) ELSE SeenText(s)
  <2>1. s.x = 1 \/ (s.x = 0 /\ ~(s.x > 0))
    BY DEF Grid
  <2>2. CASE s.x = 1
    <3>1. here = Index(s)
      BY <2>2
    <3> HIDE DEF here
    <3> QED  BY <1>6, <2>2, <3>1, IndexFacts
  <2>3. CASE s.x = 0 /\ ~(s.x > 0)
    BY <2>3
  <2> QED  BY <2>1, <2>2, <2>3
<1> HIDE DEF here
<1>8. /\ Grid(put) /\ SamePlace(here, put) /\ SeenText(put) = Effect(SeenText(here), op)
  <2>1. Operation(op)
    BY <1>2, <1>7 DEF Operation, Grid
  <2> QED  BY <1>6, <1>7, <2>1, QueueOpFacts
<1>9. Effect(SeenText(here), op) = [SeenText(here) EXCEPT ![here.y] = c]
  BY <1>2 DEF Effect
<1> HIDE DEF put
<1>10. /\ DOMAIN t = DOMAIN put /\ t.x = 1 /\ t.y = put.y /\ t.top = put.top
       /\ t.bottom = put.bottom /\ t.queue = put.queue
       /\ t.rows = put.rows /\ t.ring = put.ring /\ t.head = put.head
  BY <1>1, <1>8 DEF Grid, Cells, Fields
<1> HIDE DEF t
<1>11. Grid(t) /\ SeenText(t) = SeenText(put)
  BY <1>8, <1>10, MoveFacts DEF Grid
<1> QED  BY <1>7, <1>8, <1>9, <1>10, <1>11 DEF SamePlace, t

\* A flush of the first n operations cannot be seen.
LEMMA FlushFacts ==
    ASSUME NEW s, Grid(s), NEW n \in 0 .. Len(s.queue)
    PROVE  /\ Grid(Flushed(s, n)) /\ SeenText(Flushed(s, n)) = SeenText(s)
           /\ SamePlace(s, Flushed(s, n))
<1> DEFINE q == s.queue
           p == SubSeq(q, 1, n)
           r == SubSeq(q, n + 1, Len(q))
           t == FoldLeft(Apply, s, p)
           u == Flushed(s, n)
<1>1. Cells(s) /\ Ops(q) /\ Fields \subseteq DOMAIN s
  BY DEF Grid, Cells
<1>2. Ops(p)
  <2>1. IsSeq(p) /\ Len(p) = n /\ \A i \in 1 .. n : p[i] = q[i]
    BY <1>1, PrefixFacts DEF Ops
  <2>2. \A i \in 1 .. n : i \in 1 .. Len(q)
    BY <1>1, SeqFacts DEF Ops
  <2> HIDE DEF p, q
  <2> QED  BY <1>1, <2>1, <2>2 DEF Ops
<1>3. /\ DOMAIN u = DOMAIN s /\ u.queue = r
      /\ u.rows = t.rows /\ u.ring = t.ring /\ u.head = t.head
      /\ u.y = t.y /\ u.x = t.x /\ u.top = t.top /\ u.bottom = t.bottom
  BY <1>1 DEF Flushed, Fields
<1> HIDE DEF u, r
<1>4. Cells(t) /\ SamePlace(s, t) /\ Text(t) = Applied(s, p)
  <2> HIDE DEF p
  <2>1. Cells(t) /\ SamePlace(s, t)
    BY <1>1, <1>2, AppliedAll
  <2> QED  BY <2>1 DEF Applied
<1> HIDE DEF t
<1>5. Cells(u) /\ SamePlace(s, u) /\ Text(u) = Applied(s, p)
  BY <1>3, <1>4 DEF Cells, SamePlace, Text, ActiveRow, Height
<1>6. Ops(r) /\ Applied(u, r) = Applied(s, q)
  BY <1>1, <1>5, AppliedRest DEF r
<1>7. Grid(u) /\ SeenText(u) = SeenText(s)
  BY <1>3, <1>5, <1>6 DEF Grid, SamePlace, SeenText
<1> QED  BY <1>5, <1>7 DEF u

-------------------------------------------------------------------------------
(* The refinement *)

\* Sessions of one height, instructions that go through the queue, and none
\* that queues to another session.
Plain ==
    /\ \A g, h \in Heights : g = h
    /\ N = 1 \/ {"lf", "ri"} \cap Repertoire = {}
    /\ {"ed", "rep", "resize"} \cap Repertoire = {} /\ ~OverDelete

ScreenInv == Grid(sess[1]) /\ seen = SeenOf(sess[1])

\* The screen stays as it is.
LEMMA Unseen ==
    ASSUME ScreenInv, seen' = SeenOf(sess'[1]), Grid(sess'[1]),
           SeenText(sess'[1]) = SeenText(sess[1]), SamePlace(sess[1], sess'[1])
    PROVE  UNCHANGED Screen!screen
BY SeenFacts DEF ScreenInv, SamePlace, Screen!screen

\* An instruction takes effect at once.
LEMMA InstructionStep ==
    ASSUME Plain, TypeOK, ScreenInv, ParseByte, turn = 1, seen' = SeenOf(sess'[1]),
           ~sess'[1].lost
    PROVE  Grid(sess'[1]) /\ [Screen!Next]_(Screen!screen)
<1> DEFINE s == sess[1]
           t == sess'[1]
<1>1. /\ this = s /\ 1 \in DOMAIN sess /\ Grid(s) /\ Fields \subseteq DOMAIN s
      /\ {"lf", "ri"} \cap Repertoire = {} \/ active = 1
  <2>1. 1 \in Sessions /\ (N = 1 => Sessions = {1})
    BY SizesAssumption DEF Sessions
  <2> QED  BY <2>1 DEF Plain, TypeOK, this, ScreenInv, Grid, Cells
<1>2. \A new : Own(new)[1] = new
  BY <1>1 DEF Own
<1>3. /\ s.y \in Int /\ s.top \in Int /\ s.bottom \in Int /\ s.x \in {0, 1}
      /\ 0 <= s.y /\ s.y <= H - 1 /\ 0 <= s.top /\ s.top <= s.bottom /\ s.bottom <= H - 1
  BY <1>1, Sizes DEF Grid, Line
<1>4. Lines = Line
  BY <1>1 DEF Lines, Line, Grid, Cells
<1>5. Counts \subseteq Nat \ {0}
  BY ParametersAssumption
<1>6. /\ seen.text = SeenText(s) /\ seen.y = s.y /\ seen.wrap = (s.x = 1)
      /\ seen.top = s.top /\ seen.bottom = s.bottom
  BY <1>1, SeenFacts DEF ScreenInv
<1>7. ASSUME Grid(t)
      PROVE  /\ seen'.text = SeenText(t) /\ seen'.y = t.y /\ seen'.wrap = (t.x = 1)
             /\ seen'.top = t.top /\ seen'.bottom = t.bottom
             /\ t.x = 0 => seen'.wrap = FALSE
  <2>1. /\ seen'.text = SeenText(t) /\ seen'.y = t.y /\ seen'.wrap = (t.x = 1)
        /\ seen'.top = t.top /\ seen'.bottom = t.bottom
    BY <1>7, SeenFacts
  <2>2. ASSUME t.x = 0 PROVE seen'.wrap = FALSE
    <3>1. (t.x = 1) = FALSE
      BY <2>2
    <3> QED  BY <2>1, <3>1
  <2> QED  BY <2>1, <2>2
<1>8. Screen!Fed = FedText(s) /\ Screen!Below = MinOf(s.y + 1, s.bottom)
  BY <1>3, <1>6 DEF Screen!Fed, Screen!Below, Screen!Smaller, MinOf, FedText,
                    Screen!Scroll, ScrolledText, H
<1> HIDE DEF s, t
<1> SUFFICES Grid(t) /\ [Screen!Next]_(Screen!screen)
  BY DEF t
<1>9. ASSUME NEW c \in Char, t = PutChar(s, c)
      PROVE  Grid(t) /\ Screen!Next
  <2>1. /\ Grid(t) /\ t.x = 1 /\ t.top = s.top /\ t.bottom = s.bottom
        /\ t.y = IF s.x = 1 THEN MinOf(s.y + 1, s.bottom) ELSE s.y
        /\ SeenText(t) =
               [(IF s.x = 1 THEN FedText(s) ELSE SeenText(s)) EXCEPT ![t.y] = c]
    BY <1>1, <1>9, PutCharFacts DEF t
  <2>2. Screen!PutChar(c)
    BY <1>6, <1>7, <1>8, <2>1 DEF Screen!PutChar
  <2> QED  BY <2>1, <2>2 DEF Screen!Next
<1>10. ASSUME t = Index(s)
       PROVE  Grid(t) /\ Screen!Next
  <2>1. /\ Grid(t) /\ SeenText(t) = FedText(s)
        /\ t.y = MinOf(s.y + 1, s.bottom) /\ t.x = s.x
        /\ t.top = s.top /\ t.bottom = s.bottom
    BY <1>1, <1>10, IndexFacts DEF t
  <2>2. Screen!LineFeed
    BY <1>6, <1>7, <1>8, <2>1 DEF Screen!LineFeed
  <2> QED  BY <2>1, <2>2 DEF Screen!Next
<1>11. ASSUME t = [s EXCEPT !.x = 0]
       PROVE  Grid(t) /\ Screen!Next
  <2>1. Grid(t) /\ SeenText(t) = SeenText(s) /\ t.x = 0 /\ t.y = s.y
        /\ t.top = s.top /\ t.bottom = s.bottom
    BY <1>1, <1>11, MoveFacts DEF Grid, Fields
  <2>2. Screen!CarriageReturn
    BY <1>6, <1>7, <2>1 DEF Screen!CarriageReturn
  <2> QED  BY <2>1, <2>2 DEF Screen!Next
<1>12. ASSUME NEW r \in Line, t = MoveTo(s, r)
       PROVE  Grid(t) /\ Screen!Next
  <2>1. /\ DOMAIN t = DOMAIN s /\ t.queue = s.queue
        /\ t.rows = s.rows /\ t.ring = s.ring /\ t.head = s.head
        /\ t.x = 0 /\ t.y = r /\ t.top = s.top /\ t.bottom = s.bottom
    BY <1>1, <1>12 DEF Fields, MoveTo
  <2>2. Grid(t) /\ SeenText(t) = SeenText(s)
    BY <1>1, <2>1, MoveFacts DEF Grid
  <2>3. Screen!MoveTo(r) /\ r \in Screen!Line
    BY <1>6, <1>7, <2>1, <2>2 DEF Screen!MoveTo, Screen!Line, Line, H
  <2> QED  BY <2>2, <2>3 DEF Screen!Next
<1>13. ASSUME NEW l \in Line, NEW m \in Line, l <= m, t = SetMargins(s, l, m)
       PROVE  Grid(t) /\ Screen!Next
  <2>1. 0 \in Line
    BY Sizes DEF Line
  <2>2. /\ DOMAIN t = DOMAIN s /\ t.queue = s.queue
        /\ t.rows = s.rows /\ t.ring = s.ring /\ t.head = s.head
        /\ t.x = 0 /\ t.y = 0 /\ t.top = l /\ t.bottom = m
    BY <1>1, <1>13 DEF Fields, MoveTo, SetMargins
  <2>3. Grid(t) /\ SeenText(t) = SeenText(s)
    BY <1>1, <1>13, <2>1, <2>2, MoveFacts DEF Grid
  <2>4. Screen!SetMargins(l, m) /\ l \in Screen!Line /\ m \in Screen!Line
    BY <1>6, <1>7, <2>2, <2>3 DEF Screen!SetMargins, Screen!Line, Line, H
  <2> QED  BY <1>13, <2>3, <2>4 DEF Screen!Next
<1>14. ASSUME NEW op, Operation(op), t = QueueOp(s, op)
       PROVE  /\ Grid(t) /\ UNCHANGED <<seen.y, seen.wrap, seen.top, seen.bottom>>
              /\ seen'.text = Effect(seen.text, op)
  <2>1. /\ Grid(t) /\ SamePlace(s, t) /\ SeenText(t) = Effect(SeenText(s), op)
    BY <1>1, <1>14, QueueOpFacts DEF t
  <2> QED  BY <1>6, <1>7, <2>1 DEF SamePlace
<1>15. ASSUME NEW n \in Int \ {0}, t = Scroll(s, n)
       PROVE  /\ Grid(t) /\ UNCHANGED <<seen.y, seen.wrap, seen.top, seen.bottom>>
              /\ seen'.text = ScrolledText(seen.text, s.top, s.bottom, n)
  <2>1. /\ Grid(t) /\ SamePlace(s, t)
        /\ SeenText(t) = ScrolledText(SeenText(s), s.top, s.bottom, n)
    BY <1>1, <1>15, ScrollFacts DEF t
  <2> QED  BY <1>6, <1>7, <2>1 DEF SamePlace
<1>16. ASSUME t = s
       PROVE  Grid(t) /\ UNCHANGED Screen!screen
  <2>1. Grid(t) /\ SeenText(t) = SeenText(s)
    BY <1>1, <1>16
  <2> QED  BY <1>6, <1>7, <1>16, <2>1 DEF Screen!screen
<1>17. CASE ParsePrint
  <2>1. PICK c \in Char : sess' = Own(PutChar(s, c))
    BY <1>1, <1>17 DEF ParsePrint, Parse
  <2> QED  BY <1>2, <1>9, <2>1 DEF t
<1>18. CASE ParseIND
  <2>1. sess' = Own(Index(s))
    BY <1>1, <1>18 DEF ParseIND, Parse
  <2> QED  BY <1>2, <1>10, <2>1 DEF t
<1>19. CASE ParseLF
  <2>1. sess' = LineFeed(sess, 1) /\ active = 1
    BY <1>1, <1>19 DEF ParseLF, Parse
  <2>2. t = Index(s)
    <3> DEFINE d == Down(s)
               op == ScrollRegion(s.top, s.bottom, 1)
    <3>1. d.top = s.top /\ d.bottom = s.bottom
      BY <1>1, DownFacts
    <3>2. t = IF AtBottom(s) THEN QueueOp(d, op) ELSE d
      BY <1>1, <2>1 DEF LineFeed, s, t
    <3>3. Index(s) = IF AtBottom(s) THEN QueueOp(d, op) ELSE d
      <4> HIDE DEF d
      <4> QED  BY <3>1 DEF Index, Scroll, d
    <3> QED  BY <3>2, <3>3
  <2> QED  BY <1>10, <2>2
<1>20. CASE ParseRI
  <2> DEFINE m == [s EXCEPT !.y = s.top]
             op == ScrollRegion(s.top, s.bottom, -1)
  <2>1. t = IF s.y - 1 < s.top THEN QueueOp(m, op) ELSE [s EXCEPT !.y = @ - 1]
    <3>1. sess' = ReverseIndex(sess, 1) /\ active = 1
      BY <1>1, <1>20 DEF ParseRI, Parse
    <3> QED  BY <1>1, <3>1 DEF ReverseIndex, s, t
  <2>2. CASE s.y - 1 < s.top
    <3>1. /\ DOMAIN m = DOMAIN s /\ m.queue = s.queue
          /\ m.rows = s.rows /\ m.ring = s.ring /\ m.head = s.head
          /\ m.x = s.x /\ m.y = s.top /\ m.top = s.top /\ m.bottom = s.bottom
      BY <1>1 DEF Fields
    <3> HIDE DEF m
    <3>2. Grid(m) /\ SeenText(m) = SeenText(s)
      BY <1>1, <3>1, MoveFacts DEF Grid
    <3>3. t = Scroll(m, -1)
      BY <2>1, <2>2, <3>1 DEF Scroll
    <3>4. /\ Grid(t) /\ SamePlace(m, t)
          /\ SeenText(t) = ScrolledText(SeenText(m), m.top, m.bottom, -1)
      BY <3>2, <3>3, ScrollFacts DEF t
    <3>5. SeenText(t) = Screen!Down(SeenText(s), s.top, s.bottom, 1)
      BY <3>1, <3>2, <3>4 DEF ScrolledText
    <3>6. Screen!ReverseIndex
      BY <1>6, <1>7, <2>2, <3>1, <3>4, <3>5 DEF Screen!ReverseIndex, SamePlace
    <3> QED  BY <3>4, <3>6 DEF Screen!Next
  <2>3. CASE ~(s.y - 1 < s.top)
    <3>1. t = [s EXCEPT !.y = s.y - 1]
      BY <2>1, <2>3
    <3>2. /\ DOMAIN t = DOMAIN s /\ t.queue = s.queue
          /\ t.rows = s.rows /\ t.ring = s.ring /\ t.head = s.head
          /\ t.x = s.x /\ t.y = s.y - 1 /\ t.top = s.top /\ t.bottom = s.bottom
      BY <1>1, <3>1 DEF Fields
    <3>3. s.y - 1 \in Line
      BY <1>3, <2>3, Sizes DEF Line
    <3>4. Grid(t) /\ SeenText(t) = SeenText(s)
      BY <1>1, <3>2, <3>3, MoveFacts DEF Grid
    <3>5. Screen!ReverseIndex
      BY <1>6, <1>7, <2>3, <3>2, <3>4 DEF Screen!ReverseIndex
    <3> QED  BY <3>4, <3>5 DEF Screen!Next
  <2> QED  BY <2>2, <2>3
<1>21. CASE ParseCR
  <2>1. sess' = Own([s EXCEPT !.x = 0])
    BY <1>1, <1>21 DEF ParseCR, Parse
  <2> QED  BY <1>2, <1>11, <2>1 DEF t
<1>22. CASE ParseCUP
  <2>1. PICK r \in Line : sess' = Own(MoveTo(s, r))
    BY <1>1, <1>4, <1>22 DEF ParseCUP, Parse
  <2> QED  BY <1>2, <1>12, <2>1 DEF t
<1>23. CASE ParseDECSTBM
  <2>1. PICK l \in Line, m \in Line : l <= m /\ sess' = Own(SetMargins(s, l, m))
    BY <1>1, <1>4, <1>23 DEF ParseDECSTBM, Parse
  <2> QED  BY <1>2, <1>13, <2>1 DEF t
<1>24. CASE ParseIL
  <2>1. PICK n \in Counts : sess' = Own(InsertLine(s, n))
    BY <1>1, <1>24 DEF ParseIL, Parse
  <2>2. t = InsertLine(s, n) /\ n \in Nat \ {0}
    BY <1>2, <1>5, <2>1 DEF t
  <2>3. CASE s.y \in s.top .. s.bottom
    <3> DEFINE op == InsertLines(s.y, s.bottom, n)
    <3>1. t = QueueOp(s, op)
      BY <2>2, <2>3 DEF InsertLine, InRegion
    <3>2. /\ op.type = "insert_lines" /\ op.top = s.y /\ op.bottom = s.bottom
          /\ op.n = n
      BY DEF InsertLines
    <3> HIDE DEF op
    <3>3. Operation(op)
      BY <1>1, <1>3, <2>2, <2>3, <3>2 DEF Operation, Region, Grid
    <3>4. Effect(seen.text, op) = Screen!Down(seen.text, seen.y, seen.bottom, n)
      BY <1>6, <3>2 DEF Effect
    <3>5. Grid(t) /\ Screen!InsertLines(n)
      BY <1>6, <1>14, <2>3, <3>1, <3>3, <3>4
         DEF Screen!InsertLines, Screen!InRegion, Screen!Edit
    <3> QED  BY <3>5 DEF Screen!Next
  <2>4. CASE s.y \notin s.top .. s.bottom
    BY <1>16, <2>2, <2>4 DEF InsertLine, InRegion
  <2> QED  BY <2>3, <2>4
<1>25. CASE ParseDL
  <2>1. PICK n \in Counts : n <= s.bottom - s.y + 1 /\ sess' = Own(DeleteLine(s, n))
    BY <1>1, <1>25 DEF ParseDL, Parse, Plain
  <2>2. t = DeleteLine(s, n) /\ n \in Nat \ {0}
    BY <1>2, <1>5, <2>1 DEF t
  <2>3. CASE s.y \in s.top .. s.bottom
    <3> DEFINE op == DeleteLines(s.y, s.bottom, n)
    <3>1. t = QueueOp(s, op)
      BY <2>2, <2>3 DEF DeleteLine, InRegion
    <3>2. /\ op.type = "delete_lines" /\ op.top = s.y /\ op.bottom = s.bottom
          /\ op.n = n
      BY DEF DeleteLines
    <3> HIDE DEF op
    <3>3. Operation(op)
      BY <1>1, <1>3, <2>1, <2>2, <2>3, <3>2 DEF Operation, Region, Grid
    <3>4. Effect(seen.text, op) = Screen!Up(seen.text, seen.y, seen.bottom, n)
      BY <1>6, <3>2 DEF Effect
    <3>5. Grid(t) /\ Screen!DeleteLines(n)
      BY <1>6, <1>14, <2>3, <3>1, <3>3, <3>4
         DEF Screen!DeleteLines, Screen!InRegion, Screen!Edit
    <3> QED  BY <3>5 DEF Screen!Next
  <2>4. CASE s.y \notin s.top .. s.bottom
    BY <1>16, <2>2, <2>4 DEF DeleteLine, InRegion
  <2> QED  BY <2>3, <2>4
<1>26. CASE ParseSU
  <2>1. PICK n \in Counts : sess' = Own(Scroll(s, n))
    BY <1>1, <1>26 DEF ParseSU, Parse
  <2>2. t = Scroll(s, n) /\ n \in Int \ {0} /\ ~(n < 0)
    BY <1>2, <1>5, <2>1 DEF t
  <2>3. ScrolledText(seen.text, s.top, s.bottom, n) = Screen!Scroll(seen.text, n)
    BY <1>6, <2>2 DEF ScrolledText, Screen!Scroll, H
  <2>4. Grid(t) /\ Screen!ScrollUp(n)
    BY <1>15, <2>2, <2>3 DEF Screen!ScrollUp, Screen!Edit
  <2> QED  BY <2>4 DEF Screen!Next
<1>27. CASE ParseSD
  <2>1. PICK n \in Counts : sess' = Own(Scroll(s, -n))
    BY <1>1, <1>27 DEF ParseSD, Parse
  <2>2. t = Scroll(s, -n) /\ -n \in Int \ {0} /\ -n < 0 /\ -(-n) = n
    BY <1>2, <1>5, <2>1 DEF t
  <2>3. ScrolledText(seen.text, s.top, s.bottom, -n) =
            Screen!Down(seen.text, seen.top, seen.bottom, n)
    BY <1>6, <2>2 DEF ScrolledText
  <2>4. Grid(t) /\ Screen!ScrollDown(n)
    BY <1>15, <2>2, <2>3 DEF Screen!ScrollDown, Screen!Edit
  <2> QED  BY <2>4 DEF Screen!Next
<1>28. ~ParseED /\ ~ParseREP
  BY DEF ParseED, ParseREP, Parse, Plain
<1> QED  BY <1>17, <1>18, <1>19, <1>20, <1>21, <1>22, <1>23, <1>24, <1>25, <1>26,
            <1>27, <1>28 DEF ParseByte

\* Everything else cannot be seen.
LEMMA OtherStep ==
    ASSUME Plain, TypeOK, ScreenInv, seen' = SeenOf(sess'[1]),
           \/ ParseByte /\ turn # 1
           \/ Frame \/ User \/ UNCHANGED vars
    PROVE  Grid(sess'[1]) /\ UNCHANGED Screen!screen
<1> DEFINE s == sess[1]
           t == sess'[1]
<1>1. /\ 1 \in Sessions /\ DOMAIN sess = Sessions /\ Grid(s)
      /\ Fields \subseteq DOMAIN s /\ Len(s.queue) \in Nat
  <2>1. 1 \in Sessions
    BY SizesAssumption DEF Sessions
  <2> QED  BY <2>1, SeqFacts DEF TypeOK, ScreenInv, Grid, Cells, Ops
<1>2. ASSUME Grid(t), SeenText(t) = SeenText(s), SamePlace(s, t)
      PROVE  Grid(t) /\ UNCHANGED Screen!screen
  BY <1>2, Unseen
<1>3. ASSUME DOMAIN t = DOMAIN s, t.queue = s.queue,
             t.rows = s.rows, t.ring = s.ring, t.head = s.head,
             t.y = s.y, t.x = s.x, t.top = s.top, t.bottom = s.bottom
      PROVE  Grid(t) /\ UNCHANGED Screen!screen
  <2> HIDE DEF s, t
  <2>1. Grid(t) /\ SeenText(t) = SeenText(s)
    BY <1>1, <1>3, MoveFacts DEF Grid
  <2> QED  BY <1>2, <1>3, <2>1 DEF SamePlace
<1>4. CASE t = s
  BY <1>3, <1>4
<1>5. CASE EndTurn /\ turn = 1
  <2>1. PICK n \in 0 .. Len(s.queue) : t = Flushed(s, n)
    <3> DEFINE n == IF MaxOpsPerFlush = 0 THEN Len(s.queue)
                    ELSE MinOf(MaxOpsPerFlush, Len(s.queue))
    <3>1. t = Flushed(s, n)
      BY <1>1, <1>5 DEF EndTurn, FlushOps
    <3>2. n \in 0 .. Len(s.queue)
      BY <1>1, SizesAssumption DEF MinOf
    <3> HIDE DEF n, s, t
    <3> QED  BY <3>1, <3>2
  <2>2. Grid(t) /\ SeenText(t) = SeenText(s) /\ SamePlace(s, t)
    <3> HIDE DEF s, t
    <3> QED  BY <1>1, <2>1, FlushFacts
  <2> QED  BY <1>2, <2>2
<1>6. CASE Prepare
  <2>1. t = [s EXCEPT !.dirty = {}]
    BY <1>1, <1>6 DEF Prepare
  <2>2. /\ DOMAIN t = DOMAIN s /\ t.queue = s.queue
        /\ t.rows = s.rows /\ t.ring = s.ring /\ t.head = s.head
        /\ t.y = s.y /\ t.x = s.x /\ t.top = s.top /\ t.bottom = s.bottom
    <3> HIDE DEF s, t
    <3> QED  BY <1>1, <2>1 DEF Fields
  <2> QED  BY <1>3, <2>2
<1>7. ASSUME NEW n, ScrollView(1, n)
      PROVE  Grid(t) /\ UNCHANGED Screen!screen
  <2>1. t = [s EXCEPT !.view = IF @ + n < 0 THEN 0 ELSE MinOf(@ + n, SCROLLBACK),
                      !.dirty = 0 .. s.rows - 1]
    BY <1>1, <1>7 DEF ScrollView
  <2>2. /\ DOMAIN t = DOMAIN s /\ t.queue = s.queue
        /\ t.rows = s.rows /\ t.ring = s.ring /\ t.head = s.head
        /\ t.y = s.y /\ t.x = s.x /\ t.top = s.top /\ t.bottom = s.bottom
    <3> HIDE DEF s, t
    <3> QED  BY <1>1, <2>1 DEF Fields
  <2> QED  BY <1>3, <2>2
<1>8. \A i \in Sessions, h \in Heights : ~Resize(i, h)
  BY DEF Resize, Plain
<1>9. (\E n \in 1 .. CharsPerFrame : PopChunk(n)) \/ BeginFrame \/ UNCHANGED vars
          => t = s
  BY DEF PopChunk, BeginFrame, vars
<1>10. EndTurn /\ turn # 1 => t = s
  BY <1>1 DEF EndTurn, FlushOps
<1>11. \A i \in Sessions \ {1} : \A n : ScrollView(i, n) => t = s
  BY <1>1 DEF ScrollView
<1>12. ASSUME ParseByte, turn # 1 PROVE t = s
  <2>1. N # 1 /\ "rep" \notin Repertoire
    BY <1>12 DEF ParseByte, Sessions, Plain
  <2>2. Apart(sess')
    BY <1>12, <2>1, ParseStep DEF Plain
  <2> QED  BY <1>1, <1>12, <2>2 DEF Apart
<1>13. CASE Frame
  BY <1>4, <1>5, <1>6, <1>9, <1>10, <1>13 DEF Frame
<1>14. CASE User
  <2>1. PICK i \in Sessions, n \in Wheel : ScrollView(i, n) \/ ScrollView(i, -n)
    BY <1>8, <1>14 DEF User
  <2>2. CASE i = 1
    BY <1>7, <2>1, <2>2
  <2>3. CASE i # 1
    BY <1>4, <1>11, <2>1, <2>3
  <2> QED  BY <2>2, <2>3
<1> QED  BY <1>4, <1>9, <1>12, <1>13, <1>14

\* The screen is empty at first.
LEMMA ScreenInit ==
    ASSUME Plain, SeenInit
    PROVE  ScreenInv /\ Screen!Init
<1> DEFINE s == NewSession(H)
<1>1. sess[1] = s
  <2>1. H \in Heights
    BY HeightsAssumption DEF H
  <2>2. 1 \in Sessions
    BY SizesAssumption DEF Sessions
  <2>3. PICK h \in Heights : sess = [i \in Sessions |-> NewSession(h)]
    BY DEF SeenInit, Init
  <2>4. h = H
    BY <2>1 DEF Plain
  <2> QED  BY <2>2, <2>3, <2>4
<1>2. /\ s.rows = H /\ s.ring = [i \in 0 .. H + SCROLLBACK - 1 |-> Blank] /\ s.head = 0
      /\ s.y = 0 /\ s.x = 0 /\ s.top = 0 /\ s.bottom = H - 1 /\ s.queue = << >>
      /\ Fields \subseteq DOMAIN s
  BY DEF NewSession, Fields
<1> HIDE DEF s
<1>3. Cells(s)
  BY <1>2, Sizes DEF Cells, Ring
<1>4. Ops(<< >>) /\ IsSeq(<< >>) /\ Len(<< >>) = 0
  BY DEF Ops, IsSeq
<1>5. Grid(s)
  BY <1>2, <1>3, <1>4, Sizes DEF Grid, Line
<1>6. SeenText(s) = [r \in -SCROLLBACK .. H - 1 |-> Blank]
  <2>1. PICK tr : Trail(tr, s, << >>) /\ FoldLeft(Apply, s, << >>) = tr[Len(<< >>)]
    BY <1>4, FoldTrail
  <2>2. SeenText(s) = Text(s)
    BY <1>2, <1>4, <2>1 DEF SeenText, Applied, Trail
  <2>3. ASSUME NEW r \in TextRows PROVE s.ring[ActiveRow(s, r)] = Blank
    <3>1. ActiveRow(s, r) \in 0 .. Ring - 1 /\ Ring - 1 = H + SCROLLBACK - 1
      BY <1>3, RowFacts, Sizes DEF Ring
    <3> QED  BY <1>2, <3>1
  <2>4. Text(s) = [r \in TextRows |-> s.ring[ActiveRow(s, r)]]
    BY <1>2 DEF Text, TextRows
  <2> QED  BY <2>2, <2>3, <2>4 DEF TextRows
<1>7. /\ seen = SeenOf(s) /\ seen.text = SeenText(s) /\ seen.y = 0
      /\ seen.wrap = (s.x = 1) /\ seen.top = 0 /\ seen.bottom = H - 1
  BY <1>1, <1>2, <1>5, SeenFacts DEF SeenInit
<1>8. (s.x = 1) = FALSE
  BY <1>2
<1>9. ScreenInv
  BY <1>1, <1>5, <1>7 DEF ScreenInv
<1> QED  BY <1>6, <1>7, <1>8, <1>9 DEF Screen!Init, H

\* No operation is lost: flushes are whole and the queue has room for a frame,
\* or the backpressure keeps room for one.
Room ==
    \/ MaxOpsPerFlush = 0 /\ (N + 1) * CharsPerFrame + 1 <= OP_QUEUE_SIZE
    \/ Reserve >= 2 * CharsPerFrame

\* The queue, the ring and the frames of a session implement the screen that its
\* application thinks of, on which instructions take effect at once and in their
\* order: for any height, length of history, frame size and limit of a flush,
\* and whatever other sessions do meanwhile.
THEOREM ImplementsScreenTheorem ==
    ASSUME Plain, Room
    PROVE  SeenSpec => ImplementsScreen
<1> DEFINE Sound == TypeOK /\ NothingLost
<1>1. SeenSpec => Spec
  <2>1. SeenInit => Init
    BY DEF SeenInit
  <2>2. [SeenNext]_<<vars, seen>> => [Next]_vars
    BY DEF SeenNext
  <2> QED  BY <2>1, <2>2, PTL DEF SeenSpec, Spec
<1>2. Spec => []Sound
  <2>1. "rep" \notin Repertoire /\ (N = 1 \/ {"lf", "ri"} \cap Repertoire = {})
    BY DEF Plain
  <2>2. CASE MaxOpsPerFlush = 0 /\ (N + 1) * CharsPerFrame + 1 <= OP_QUEUE_SIZE
    <3>1. Spec => []WholeInv
      BY <2>1, <2>2, WholeInvariant
    <3>2. WholeInv => Sound
      BY DEF WholeInv
    <3> QED  BY <3>1, <3>2, PTL
  <2>3. CASE Reserve >= 2 * CharsPerFrame
    <3>1. Spec => []LimitedInv
      BY <2>1, <2>3, LimitedInvariant
    <3>2. LimitedInv => Sound
      BY DEF LimitedInv
    <3> QED  BY <3>1, <3>2, PTL
  <2> QED  BY <2>2, <2>3 DEF Room
<1>3. SeenInit => ScreenInv /\ Screen!Init
  BY ScreenInit
<1>4. ScreenInv /\ Sound /\ Sound' /\ [SeenNext]_<<vars, seen>>
          => ScreenInv' /\ [Screen!Next]_(Screen!screen)
  <2> SUFFICES ASSUME ScreenInv, Sound, Sound', [SeenNext]_<<vars, seen>>
               PROVE  ScreenInv' /\ [Screen!Next]_(Screen!screen)
    OBVIOUS
  <2>1. seen' = SeenOf(sess'[1]) /\ (Next \/ UNCHANGED vars)
    BY DEF SeenNext, ScreenInv, vars
  <2>2. ~sess'[1].lost
    BY SizesAssumption DEF NothingLost, Sessions
  <2>3. Grid(sess'[1]) /\ [Screen!Next]_(Screen!screen)
    <3>1. CASE ParseByte /\ turn = 1
      BY <2>1, <2>2, <3>1, InstructionStep
    <3>2. CASE (ParseByte /\ turn # 1) \/ Frame \/ User \/ UNCHANGED vars
      BY <2>1, <3>2, OtherStep
    <3> QED  BY <2>1, <3>1, <3>2 DEF Next
  <2> QED  BY <2>1, <2>3 DEF ScreenInv
<1> QED  BY <1>1, <1>2, <1>3, <1>4, PTL DEF SeenSpec, ImplementsScreen, Screen!Spec

===============================================================================
