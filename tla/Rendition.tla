------------------------------ MODULE Rendition ------------------------------
(***************************************************************************)
(* How characters look: the attributes and colours a session draws with,   *)
(* selected by SGR and DECSCA, pushed, saved and restored; the shape of the *)
(* cursor and the margins; and what DECRQSS reports of them, so that a host *)
(* can put them back.                                                      *)
(*                                                                         *)
(* A host sends SGR as a sequence of tokens: an attribute, an attribute     *)
(* with a subparameter, a colour with its arguments.  The terminal sees the *)
(* parameters of all of them in a row.  Where DECSTBM and DECSLRM put the   *)
(* cursor is in Cursor.                                                    *)
(***************************************************************************)
EXTENDS Integers, Sequences, SequencesExt, TLC

CONSTANTS
    Session, Active,    \* the sessions and the one with the focus
    Ansi,               \* sessions at the level of ANSI.SYS
    Sgrs,               \* what a host may select, sequences of tokens
    Regions,            \* what it may ask DECSTBM and DECSLRM for, pairs
    ROWS, COLS,
    STACK,              \* pens XTPUSHSGR keeps, 10 in the code
    MaxInput

VARIABLES
    s,          \* the sessions
    meant,      \* what each host means to draw with, and what it has pushed
    input

vars == <<s, meant, input>>

\* A colour is one of a palette, three values, or the default.
White == <<7>>
Black == <<0>>
Default == << >>
Plain == [attr |-> {}, style |-> 0, fg |-> White, bg |-> Black, ul |-> Default]

-------------------------------------------------------------------------------
(* ExecuteSGR *)

\* Parameters that set an attribute and those that clear some.
Sets ==
    1 :> "bold" @@ 2 :> "faint" @@ 3 :> "italic" @@ 7 :> "reverse" @@ 8 :> "conceal" @@
    9 :> "strike" @@ 51 :> "framed" @@ 52 :> "encircled" @@ 53 :> "overline" @@
    62 :> "faint back" @@ 66 :> "blink back"
Clears ==
    22 :> {"bold", "faint", "faint back"} @@ 23 :> {"italic"} @@ 27 :> {"reverse"} @@
    25 :> {"rapid", "slow", "blink back"} @@ 28 :> {"conceal"} @@ 29 :> {"strike"} @@
    54 :> {"framed", "encircled"} @@ 55 :> {"overline"} @@ 75 :> {"super", "sub"}
\* Parameters that set one attribute in place of another.
Swaps ==
    5 :> <<"slow", "rapid">> @@ 6 :> <<"rapid", "slow">> @@ 73 :> <<"super", "sub">> @@
    74 :> <<"sub", "super">>
AnsiHas == {0, 1, 4, 5, 7, 8, 22, 24, 25, 27, 28, 39, 49} \cup 30 .. 37 \cup 40 .. 47

\* The style of underlining is a number of three bits; 21 adds its bit to those
\* that are set, as 4 does behind a colon that ends the sequence.
Lines == {"underline", "double"}
Or(style, bit) == IF (style \div bit) % 2 = 1 THEN style ELSE style + bit
Styled(pen, n) ==
    [pen EXCEPT !.attr = (@ \ Lines) \cup (CASE n = 0 -> {} [] n = 2 -> {"double"} [] OTHER -> {"underline"}),
                !.style = IF n \in 0 .. 5 THEN n ELSE 1]

\* A parameter that stands for itself.
Select(pen, n) ==
    CASE n = 0 -> Plain
      [] n = 4 -> [pen EXCEPT !.attr = @ \cup {"underline"}, !.style = 1]
      [] n = 21 -> [pen EXCEPT !.attr = @ \cup {"double"}, !.style = Or(@, 2)]
      [] n = 24 -> [pen EXCEPT !.attr = @ \ Lines, !.style = 0]
      [] n \in DOMAIN Sets -> [pen EXCEPT !.attr = @ \cup {Sets[n]}]
      [] n \in DOMAIN Clears -> [pen EXCEPT !.attr = @ \ Clears[n]]
      [] n \in DOMAIN Swaps -> [pen EXCEPT !.attr = (@ \cup {Swaps[n][1]}) \ {Swaps[n][2]}]
      [] n \in 30 .. 37 -> [pen EXCEPT !.fg = <<n - 30>>]
      [] n \in 40 .. 47 -> [pen EXCEPT !.bg = <<n - 40>>]
      [] n \in 90 .. 97 -> [pen EXCEPT !.fg = <<n - 90 + 8>>]
      [] n \in 100 .. 107 -> [pen EXCEPT !.bg = <<n - 100 + 8>>]
      [] n = 39 -> [pen EXCEPT !.fg = White]
      [] n = 49 -> [pen EXCEPT !.bg = Black]
      [] n = 59 -> [pen EXCEPT !.ul = Default]
      [] OTHER -> pen

\* ProcessExtendedKTermColor: the colour behind parameter i and the parameters it
\* takes, read from those of the active session.
Behind(params, i, now) ==
    CASE i + 2 <= Len(params) /\ params[i + 1].n = 5 ->
            <<IF params[i + 2].n < 256 THEN <<params[i + 2].n>> ELSE now, 2>>
      [] i + 4 <= Len(params) /\ params[i + 1].n = 2 ->
            <<[k \in 1 .. 3 |-> params[i + 1 + k].n % 256], 4>>
      [] OTHER -> <<now, 0>>
Ground == 38 :> "fg" @@ 48 :> "bg" @@ 58 :> "ul"

\* One round of the loop over the parameters; next is where it goes on.
Round(r, i, params, foreign, ansi) ==
    LET n == params[i].n
        found == Behind(foreign, i, r.pen[Ground[n]])
    IN CASE i < r.next -> r
         [] i >= r.next /\ n = 4 /\ params[i].sub ->
                IF i < Len(params)
                THEN [pen |-> Styled(r.pen, params[i + 1].n), next |-> i + 2]
                ELSE [r EXCEPT !.pen.attr = @ \cup {"underline"}, !.pen.style = Or(@, 1)]
         [] i >= r.next /\ ~(n = 4 /\ params[i].sub) /\ ansi /\ n \notin AnsiHas -> r
         [] i >= r.next /\ n \in DOMAIN Ground /\ ~ansi ->
                [pen |-> [r.pen EXCEPT ![Ground[n]] = found[1]], next |-> i + found[2] + 1]
         [] OTHER -> [r EXCEPT !.pen = Select(@, n)]
SGR(pen, params, foreign, ansi) ==
    LET round(r, i) == Round(r, i, params, foreign, ansi)
    IN  IF params = << >> THEN Plain
        ELSE FoldLeft(round, [pen |-> pen, next |-> 1], [i \in 1 .. Len(params) |-> i]).pen

-------------------------------------------------------------------------------
(* ProcessStatusRequest (DECRQSS) *)

Told ==
    << <<"bold", 1>>, <<"faint", 2>>, <<"italic", 3>>, <<"underline", 4>>, <<"rapid", 5>>,
       <<"reverse", 7>>, <<"conceal", 8>>, <<"strike", 9>>, <<"double", 21>>, <<"overline", 53>> >>

\* Wrong variant: bright colours begin at 90, without the 8 taken off.
ColourBright(c, standard, usual) ==
    CASE Len(c) = 3 -> <<standard + 8, 2>> \o c
      [] c = usual -> << >>
      [] Len(c) = 1 /\ c # usual /\ c[1] < 8 -> <<standard + c[1]>>
      [] Len(c) = 1 /\ c[1] \in 8 .. 15 -> <<standard + 60 + c[1]>>
      [] Len(c) = 1 /\ c[1] >= 16 -> <<standard + 8, 5>> \o c
\* A colour as parameters, standard being 30 or 40; the usual one is not told.
Colour(c, standard, usual) ==
    CASE Len(c) = 3 -> <<standard + 8, 2>> \o c
      [] c = usual -> << >>
      [] Len(c) = 1 /\ c # usual /\ c[1] < 8 -> <<standard + c[1]>>
      [] Len(c) = 1 /\ c[1] \in 8 .. 15 -> <<standard + 60 + c[1] - 8>>
      [] Len(c) = 1 /\ c[1] >= 16 -> <<standard + 8, 5>> \o c
Report(pen) ==
    LET told == SelectSeq(Told, LAMBDA a : a[1] \in pen.attr)
    IN  <<0>> \o [i \in 1 .. Len(told) |-> told[i][2]]
            \o Colour(pen.fg, 30, White) \o Colour(pen.bg, 40, Black)

\* " q": the shapes that blink are not among those it looks for.
CursorStyle(shape) == IF shape \in {2, 4, 6} THEN shape ELSE 1
\* "r" tells the active session's region, "s" the margins.
ReportRegion == <<s[Active].top + 1, s[Active].bottom + 1>>
ReportMargins(x) == <<s[x].left + 1, s[x].right + 1>>

-------------------------------------------------------------------------------
(* What hosts send. *)

Parameters(tokens) ==
    FlattenSeq([k \in 1 .. Len(tokens) |->
        [i \in 1 .. Len(tokens[k].p) |-> [n |-> tokens[k].p[i], sub |-> tokens[k].sub /\ i < Len(tokens[k].p)]]])
Plainly(ns) == [i \in 1 .. Len(ns) |-> [n |-> ns[i], sub |-> FALSE]]

\* What a token means, nothing where the level does not have it.
Meaning(pen, token, ansi) ==
    CASE ansi /\ token.p[1] \notin AnsiHas -> pen
      [] token.sub -> Styled(pen, token.p[2])
      [] ~ansi /\ ~token.sub /\ Len(token.p) = 3 -> [pen EXCEPT ![Ground[token.p[1]]] = <<token.p[3]>>]
      [] ~ansi /\ Len(token.p) = 5 -> [pen EXCEPT ![Ground[token.p[1]]] = SubSeq(token.p, 3, 5)]
      [] ~ansi /\ token.p = <<21>> -> [Styled(pen, 2) EXCEPT !.attr = @ \cup (pen.attr \cap Lines)]
      [] ~token.sub /\ Len(token.p) = 1 /\ token.p # <<21>> -> Select(pen, token.p[1])
HasColour(tokens) == \E k \in 1 .. Len(tokens) : Len(tokens[k].p) > 2

ExecuteSGR(x) ==
    \E tokens \in Sgrs :
        LET params == Parameters(tokens)
            foreign == IF x = Active THEN params ELSE s[Active].params
            means(pen, token) == Meaning(pen, token, x \in Ansi)
        IN  /\ s' = [s EXCEPT ![x].pen = SGR(@, params, foreign, x \in Ansi), ![x].params = params]
            /\ meant' = [meant EXCEPT
                    ![x].pen = IF tokens = << >> THEN Plain ELSE FoldLeft(means, @, tokens),
                    ![x].lost = @ \/ (HasColour(tokens) /\ (x # Active \/ x \in Ansi))]

\* DECSCA: protection is an attribute, which SGR 0 takes back as well.
DECSCA(x) ==
    \E attr \in {s[x].pen.attr \cup {"protected"}, s[x].pen.attr \ {"protected"}} :
        /\ s' = [s EXCEPT ![x].pen.attr = attr]
        /\ meant' = [meant EXCEPT ![x].pen.attr =
                        IF "protected" \in attr THEN @ \cup {"protected"} ELSE @ \ {"protected"}]

\* A push beyond the stack is not kept; the host pops it all the same.
XTPUSHSGR(x) ==
    /\ s' = [s EXCEPT ![x].stack = IF Len(@) < STACK THEN Append(@, s[x].pen) ELSE @]
    /\ meant' = [meant EXCEPT ![x].stack = Append(@, meant[x].pen),
                              ![x].lost = @ \/ Len(meant[x].stack) >= STACK]
XTPOPSGR(x) ==
    /\ meant[x].stack # << >>
    /\ IF s[x].stack = << >> THEN UNCHANGED s
       ELSE s' = [s EXCEPT ![x].pen = Last(s[x].stack), ![x].stack = Front(@)]
    /\ meant' = [meant EXCEPT ![x].pen = Last(meant[x].stack), ![x].stack = Front(@)]

\* DECSC and DECRC: all but the colour of the underline.
SaveCursor(x) ==
    /\ s' = [s EXCEPT ![x].saved = <<s[x].pen>>]
    /\ meant' = [meant EXCEPT ![x].saved = <<meant[x].pen>>]
RestoreCursor(x) ==
    /\ s[x].saved # << >>
    /\ s' = [s EXCEPT ![x].pen = [s[x].saved[1] EXCEPT !.ul = s[x].pen.ul]]
    /\ meant' = [meant EXCEPT ![x].pen = [meant[x].saved[1] EXCEPT !.ul = meant[x].pen.ul]]

\* What is off the page or the wrong way round is ignored.
DECSTBM(x, a, b) ==
    LET valid == a >= 1 /\ a <= b /\ b <= ROWS
    IN  IF valid THEN [s[x] EXCEPT !.top = a - 1, !.bottom = b - 1] ELSE s[x]
DECSLRM(x, a, b) ==
    LET valid == a >= 1 /\ a <= b /\ b <= COLS
    IN  IF valid THEN [s[x] EXCEPT !.left = a - 1, !.right = b - 1] ELSE s[x]
Margins(x) ==
    /\ \E r \in Regions : s' = [s EXCEPT ![x] = DECSTBM(x, r[1], r[2])]
                       \/ s' = [s EXCEPT ![x] = DECSLRM(x, r[1], r[2])]
    /\ UNCHANGED meant

\* DECSCUSR; 0 is 1.
DECSCUSR(x) ==
    /\ \E n \in 0 .. 7 : s' = [s EXCEPT ![x].shape = CASE n = 0 -> 1 [] n \in 1 .. 6 -> n [] n = 7 -> @]
    /\ UNCHANGED meant

Init ==
    /\ s = [x \in Session |->
            [pen |-> Plain, stack |-> << >>, saved |-> << >>, params |-> << >>, shape |-> 1,
             top |-> 0, bottom |-> ROWS - 1, left |-> 0, right |-> COLS - 1]]
    /\ meant = [x \in Session |-> [pen |-> Plain, stack |-> << >>, saved |-> << >>, lost |-> FALSE]]
    /\ input = 0
Next ==
    /\ input < MaxInput /\ input' = input + 1
    /\ \E x \in Session :
        \/ ExecuteSGR(x) \/ DECSCA(x) \/ XTPUSHSGR(x) \/ XTPOPSGR(x)
        \/ SaveCursor(x) \/ RestoreCursor(x) \/ Margins(x) \/ DECSCUSR(x)
Spec == Init /\ [][Next]_vars

-------------------------------------------------------------------------------
\* What a report of the pen does not tell, or tells wrongly.
Untold == {"rapid", "slow", "faint back", "blink back", "framed", "encircled", "super", "sub", "protected"}
Same(pen) == [pen EXCEPT !.style = 0]

\* Sessions draw with what their hosts mean, whatever sequences, sessions, pushes
\* and saves come in which order, and what DECRQSS reports puts it back: sent to a
\* session in any state, the report leads to the state it is about.  The code
\* deviates where it is said here: colours with arguments, which a session in the
\* background looks for in the active session's parameters and ANSI.SYS takes for
\* attributes; pushes deeper than the stack; double underlining, which makes one
\* of the other styles (single, then double, is curly), and is ignored by ANSI.SYS
\* when it comes back; attributes that are not reported, with rapid blinking told
\* as slow; cursors that blink, which are all reported as blocks; and the region,
\* which is always that of the active session.
PenAsMeant ==
    \A x \in Session :
        LET pen == s[x].pen
            back == SGR(Styled([pen EXCEPT !.fg = <<1>>, !.attr = Untold], 3),
                        Plainly(Report(pen)), Plainly(Report(pen)), x \in Ansi)
            told == pen.attr \ (Untold \cup IF x \in Ansi THEN {"double"} ELSE {})
        IN  /\ ~meant[x].lost =>
                /\ Same(pen) = Same(meant[x].pen)
                /\ ~(Lines \subseteq pen.attr) => pen.style = meant[x].pen.style
            /\ x \in Ansi \/ <<back.fg, back.bg>> = <<pen.fg, pen.bg>>
            /\ back.attr = told \cup (IF "rapid" \in pen.attr THEN {"slow"} ELSE {})
            /\ pen.style \in 0 .. 2 /\ told \cap Lines = pen.attr \cap Lines /\ ~(Lines \subseteq pen.attr)
                => back.style = pen.style
            /\ CursorStyle(s[x].shape) = s[x].shape \/ s[x].shape \in {3, 5}
            /\ DECSLRM(x, ReportMargins(x)[1], ReportMargins(x)[2]) = s[x]
            /\ x = Active => DECSTBM(x, ReportRegion[1], ReportRegion[2]) = s[x]
===============================================================================
