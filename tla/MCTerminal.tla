------------------------------ MODULE MCTerminal ------------------------------
(***************************************************************************)
(* One instance for TLC of what a terminal does with the bytes of a host:   *)
(* it decodes and parses them, moves the cursor, changes modes, colours and *)
(* screens, fills areas, shows pictures and glyphs, stores images, macros   *)
(* and keys, obeys the gateway, copies to the printer, answers, reports the *)
(* mouse, speaks, and owns memory for all of it.  These parts share no      *)
(* variable, so they are checked side by side: part says which of them this *)
(* behaviour is about, and the others stay as they were created.  Those that*)
(* are proved about (the printer, the decoder, images, memory, answers and *)
(* voice) are here under their own names; the others are instances.        *)
(***************************************************************************)
EXTENDS PrinterMode, KittyStore, Utf8, VoiceLink, Lifecycle, Responses, TLC

CONSTANTS
    Parts,      \* the parts a run is about
    Calm,       \* what is done at the start of a frame only, see AltScreen
    Switched,   \* the words by which hosts switch the debug grid, see Gateway
    Joined      \* hosts define one colour right after another, see Sixel

VARIABLES
    part,
    parser, bytes, expect, active, said, done,              \* VtParser
    height, screens, ops, stored, text, calls,              \* AltScreen
    cursor, may, input,                                     \* Cursor
    grid, jobs, pen, place, ideal, orders,                  \* GridArea
    modes, asked, requests,                                 \* Modes
    at, down, focus, split, pair, hosts, clipboard, frames, \* Pointer
    drawn, meant, selected,                                 \* Rendition
    settings, target, told, wished, commands,               \* Gateway
    image6, sources, aim, front, texture, unsent, described, scrolled, fresh, images,\* Sixel
    macros, space, bound, viewed, replied, echoed, known, sent,\* Downloads
    softfont, cell, current, atlas, outline, uploaded, indices, gone, intended, acts\* Glyphs

parse == <<parser, bytes, expect, active, said, done>>
screen == <<height, screens, ops, stored, text, calls>>
move == <<cursor, may, input>>
area == <<grid, jobs, pen, place, ideal, orders>>
mode == <<modes, asked, requests>>
mouse == <<at, down, focus, split, pair, hosts, clipboard, frames>>
draw == <<drawn, meant, selected>>
gate == <<settings, target, told, wished, commands>>
sixel == <<image6, sources, aim, front, texture, unsent, described, scrolled, fresh, images>>
load == <<macros, space, bound, viewed, replied, echoed, known, sent>>
glyph == <<softfont, cell, current, atlas, outline, uploaded, indices, gone, intended, acts>>
vars == <<part, parse, decode, print, image, answers, voice, screen, move, area, mode, mouse,
    draw, life, gate, sixel, load, glyph>>

\* For Responses: the host of the session in the foreground asks for its answerback,
\* the other one for its status.
HostAsks == <<{"text", "enq"}, {"dsr"}>>
HostQueues == <<4, 1>>

-------------------------------------------------------------------------------
(* The instances *)

\* The strings, control sequences and escapes that share bytes; the session in
\* the background is sent the beginning of one.
HostStrings ==
    {{"ESC", "]", "X", "\\", "BEL", "CAN"},
     {"ESC", "P", "q", "p", "$", "\\"},
     {"ESC", "[", "?", "1", "l", "Y", "<"},
     {"ESC", "(", "#", "%", "c", "_", "G", "\\"},
     {"ESC", "[", "SP", "=", "q", "A", "CAN"}}
Parser == INSTANCE VtParser WITH
    input <- bytes, heard <- said,
    Session <- {"s1", "s2"}, First <- "s1", BUF <- 2, Features <- {"sixel", "regis", "vt52"},
    Inputs <- {[s1 |-> own, s2 |-> {"ESC", "]"}] : own \in HostStrings},
    Target <- [regis |-> "none", kitty |-> "none", tektronix |-> "none"],
    ForeignEscapes <- FALSE

Alternate == INSTANCE AltScreen WITH
    term <- height, s <- screens, queue <- ops, input <- calls,
    Heights <- {2, 3}, SCROLLBACK <- 2,
    Char <- {"a"}, Blank <- "blank", Junk <- "junk", MaxInput <- 7

\* A session as large as the terminal, a larger one, and one in a pane.
Position == INSTANCE Cursor WITH
    s <- cursor, W <- 2, H <- 2, Sizes <- {<<2, 2>>, <<5, 1>>, <<2, 1>>},
    Forms <- {{}, {<<0, 0>>, <<1, 0>>}, (0 .. 4) \X {0, 1}},
    N <- {1, 5}, TAB <- 2, Families <- {"text", "moves", "tabs", "other", "forms"}, MaxInput <- 3

\* A page with a protected cell; rectangles that fill it, lie on it, reach
\* beyond it; boxes that are written the other way round or from the cursor.
Box(relative, x, y, w, h) ==
    [x |-> [relative |-> relative, v |-> x], y |-> [relative |-> relative, v |-> y], w |-> w, h |-> h]
Area == INSTANCE GridArea WITH
    cells <- grid, queue <- jobs, cursor <- place, input <- orders, Calm <- TRUE,
    W <- 3, H <- 2, SCROLLBACK <- 1, Cursors <- {<<0, 1>>}, MaxInput <- 2,
    Screens <- {[p \in (0 .. 2) \X (0 .. 2) |->
        [ch |-> ToString(p), fg |-> "white", attr |-> IF p = <<0, 1>> THEN {"protected"}
                                                      ELSE IF p[2] = 0 THEN {"bold"} ELSE {}]]},
    Pens <- {[fg |-> "white", attr |-> {}], [fg |-> "blue", attr |-> {"bold", "protected"}]},
    Rects <- {<<0, 0, 0, 0>>, <<1, 2, 2, 3>>, <<2, 1, 9, 2>>}, Sgr <- {<<22, 7>>, <<0, 31, 1>>},
    Places <- {<<0, 2>>, <<2, 2>>, <<1, -1>>},
    Boxes <- {Box(FALSE, 1, 0, 2, 2), Box(FALSE, 4, 0, 3, 0), Box(TRUE, -2, 1, 2, 1),
              Box(TRUE, 1, 0, -2, -2), Box(FALSE, 2, 0, 4, 1)}

\* Modes that exclude, survive or imply each other, and what resets them.
Instructed ==
    {<<"mode", TRUE, n, b>> : b \in BOOLEAN,
        n \in {1, 2, 3, 5, 6, 9, 12, 25, 40, 41, 47, 64, 66, 67, 69, 1000, 1003, 1004, 1006, 1015,
               1016, 1041, 1048, 1049, 2004, 2026}} \cup
    {<<"mode", FALSE, n, b>> : n \in {4, 7, 12, 20}, b \in BOOLEAN} \cup
    {<<"keypad", TRUE>>, <<"ansi">>, <<"bits", TRUE>>, <<"kitty", "push", 1>>, <<"kitty", "pop", 0>>,
     <<"kitty", "clear", 1>>, <<"level", 1003>>, <<"level", 1001>>, <<"DECSCL", 64>>, <<"margins">>,
     <<"text">>, <<"DECSTR">>, <<"RIS">>}
Mode == INSTANCE Modes WITH t <- modes, input <- requests, Instructions <- Instructed, MaxInput <- 3

\* One row above the split and one below it, the left and the right button.
Reports(how, sgr, locator, alternate) ==
    [mode |-> how, sgr |-> sgr, locator |-> locator, alternate |-> alternate]
Mouse == INSTANCE Pointer WITH
    pos <- at, active <- focus, s <- pair, host <- hosts,
    Half <- 1, Cells <- {<<0, 1>>, <<1, 2>>}, Buttons <- {0, 2}, Wheel <- {0, 1},
    SCROLLBACK <- 4, MaxFrames <- 3,
    Modes <- {Reports("vt200", FALSE, FALSE, FALSE), Reports("sgr", TRUE, TRUE, FALSE),
              Reports("any", TRUE, FALSE, FALSE), Reports("off", FALSE, FALSE, TRUE),
              Reports("off", FALSE, FALSE, FALSE)}

\* Attributes that share a parameter, a flag or a style; colours of each form;
\* a session with the focus, one in the background, one at the level of ANSI.SYS.
Token(params) == [p |-> params, sub |-> FALSE]
Underline(style) == [p |-> <<4, style>>, sub |-> TRUE]
Drawn == INSTANCE Rendition WITH
    s <- drawn, input <- selected,
    Session <- {1, 2, 3}, Active <- 1, Ansi <- {3}, ROWS <- 3, COLS <- 2, STACK <- 1, MaxInput <- 3,
    Regions <- {<<1, 3>>, <<2, 2>>, <<2, 4>>, <<0, 1>>, <<3, 1>>},
    Sgrs <- {<< >>, <<Token(<<0>>), Token(<<1>>)>>, <<Token(<<4>>)>>, <<Token(<<21>>)>>,
             <<Underline(3)>>, <<Underline(0), Token(<<93>>)>>, <<Underline(2)>>,
             <<Token(<<38, 5, 4>>), Token(<<102>>)>>,
             <<Token(<<1>>), Token(<<48, 2, 1, 44, 5>>), Token(<<6>>)>>,
             <<Token(<<58, 5, 9>>), Token(<<22>>)>>, <<Token(<<34>>), Token(<<24>>), Token(<<53>>)>>,
             <<Token(<<73>>), Token(<<5>>)>>,
             <<Token(<<74>>), Token(<<39>>), Token(<<49>>), Token(<<75>>), Token(<<2>>)>>}

\* Lists with empty items, missing values, unknown keys and words, and colours
\* in both forms; the session they are about is named, or is not there.
Key(key, form, n, word) == [key |-> key, form |-> form, n |-> n, word |-> word]
Num(key, n) == Key(key, "number", <<n>>, "")
Word(key, word) == Key(key, "word", <<0>>, word)
Quoted(key, n) == Key(key, "quoted", n, "")
Nothing(form) == Key("BOLD", form, <<0>>, "")
Order(cmd, sub, items) == [cmd |-> cmd, sub |-> sub, items |-> items]
Ask(cmd, subs) == {Order(cmd, sub, <<>>) : sub \in subs}
Give(sub, n) == Order("SET", sub, <<Key("", IF Len(n) = 1 THEN "value" ELSE "values", n, "")>>)
Sends ==
    {Order("SET", "ATTR", items) : items \in
        {<<Num("BOLD", 1), Nothing("empty"), Key("UL", "colour", <<1, 300, 3>>, ""), Num("FG", 300),
           Word("ITALIC", "ON")>>,
         <<Nothing("missing"), Num("BG", 4), Quoted("ST", <<9, 8, 7>>), Num("NONE", 1),
           Quoted("UL", <<6>>)>>}} \cup
    {Order("SET", "CURSOR", items) : items \in
        {<<Num("SKIP_PROTECT", 1), Word("HOME_MODE", "LAST_FOCUSED")>>,
         <<Nothing("empty"), Word("HOME_MODE", "ELSEWHERE"), Nothing("bare"), Num("HOME_MODE", 1)>>}} \cup
    {Order("SET", "KEYBOARD", <<Num("REPEAT_RATE", 40), Word("REPEAT", "HOST"), Num("DELAY", -3)>>),
     Order("SET", "GRID", <<Num("R", 5), Nothing("empty"), Nothing("empty"), Num("A", 300)>>),
     Order("SET", "BLINK", <<Num("FAST", 0), Num("SLOW", 40)>>),
     Order("SET", "SHADER", <<Quoted("CRT_CURVATURE", <<2>>), Num("CRT_ENABLE", 1)>>)} \cup
    {Give("SESSION", <<2>>), Give("SESSION", <<5>>), Give("KITTY_SESSION", <<1>>),
     Give("SIXEL_SESSION", <<2>>), Give("OUTPUT", <<0>>), Give("LEVEL", <<420>>), Give("DEBUG", <<1>>),
     Give("SIZE", <<5000, 24>>), Give("WIDTH", <<0>>), Give("HEIGHT", <<30>>), Give("FONT", <<2>>),
     Give("CONCEAL", <<42>>)} \cup
    Ask("RESET", {"SESSION", "KITTY_SESSION", "ATTR", "BLINK", "KITTY", "SIXEL", "GRAPHICS", "TABS"}) \cup
    Ask("INIT", {"REGIS_SESSION", "TEKTRONIX_SESSION"}) \cup
    Ask("GET", {"STATE", "UNDERLINE_COLOR", "SHADER", "LEVEL"}) \cup
    Ask("EXT", {"NONE"}) \cup Ask("HELP", {""}) \cup Ask("OTHER", {""}) \cup
    {Order("RESET", "TABS", <<Word("", "DEFAULT8")>>),
     Order("ATTACH", "", <<Num("SESSION", 2)>>), Order("EXT", "DIRECT", <<Num("", 1)>>)} \cup
    {Order("SET", "GRID", <<Key(word, "bare", <<0>>, "")>>) : word \in Switched}
Gate == INSTANCE Gateway WITH
    s <- settings, meant <- wished, input <- commands,
    Session <- {1, 2}, Active <- 1, Fonts <- {1, 2}, KTERM_MAX_COLS <- 2048, KTERM_MAX_ROWS <- 2048,
    Commands <- Sends, MaxInput <- 3

\* Pictures with colours of both kinds, runs that are cut off, columns drawn
\* over, three rows where two are allowed, a run that never comes, and nothing.
Says(does, n, b) == [does |-> does, n |-> n, bytes |-> b]
Define(i, kind, c) ==
    Says("define", <<i, kind>> \o c,
         <<"#", ToString(i), ";", ToString(kind), ";", ToString(c[1]), ";", ToString(c[2]), ";",
           ToString(c[3])>>)
Choose(i) == Says("select", <<i>>, <<"#", ToString(i)>>)
Dots(n, c, bits) == Says("draw", <<n, bits>>, IF n = 1 THEN <<c>> ELSE <<"!", ToString(n), c>>)
Again == Says("return", <<>>, <<"!", "3", "$">>)
Lower == Says("down", <<>>, <<"-">>)
Images6 ==
    {<<<<Says("nothing", <<>>, <<"\"", "1", ";", "2">>), Choose(2), Dots(5, "@", {0}), Again>>,
       <<Define(1, 2, <<9, 0, 5>>), Dots(1, "B", {0, 1})>>>>,
     <<<<Dots(1, "_", {5}), Define(2, 1, <<7, 5, 3>>), Lower, Dots(1, "@", {0}), Lower,
         Dots(2, "@", {0}), Says("nothing", <<>>, <<"!", "2">>)>>>>} \cup
    IF Joined THEN
        {<<<<Define(1, 2, <<9, 0, 5>>), Define(2, 2, <<0, 9, 0>>), Dots(2, "B", {0, 1}), Choose(1),
             Dots(1, "@", {0})>>>>}
    ELSE {}
Picture == INSTANCE Sixel WITH
    g <- image6, source <- sources, target <- aim, active <- front, rest <- unsent, told <- described,
    Session <- {1, 2}, Prints <- {1}, Beside <- {2}, Targets <- {0, 2}, H <- 2, BUFFER <- 3, Window <- <<2, 12>>, CH <- 6,
    Limit <- <<4, 12>>, Index <- 0 .. 2, Pictures <- Images6, MaxImages <- 2, MaxScrolls <- 1

\* Macros that do not fit, are replaced and have an odd digit; keys defined twice,
\* of half a byte, with a zero byte, and after a definition without a number.
MacroString(id, encoding, data) == [intro |-> "!z", id |-> id, encoding |-> encoding, data |-> data]
KeyString(params, list) == [intro |-> "|", params |-> params, list |-> list]
Bind(code, digits) == [code |-> code, digits |-> digits]
Passed == Bind(295, <<4, 1>>)
Downloaded ==
    {MacroString(1, 0, <<65, 66>>), MacroString(1, 1, <<4, 1, 4>>), MacroString(2, 0, <<67, 68>>), MacroString(1, 0, <<65, 66, 67, 68>>),
     KeyString(<<1, 1>>, <<Passed, Bind(295, <<4, 2>>), Bind(296, <<4, 3, 0, 0, 4, 1>>)>>),
     KeyString(<<0, 1>>, <<Passed, Bind(296, <<4>>), Bind(296, <<4, 4>>), Bind(296, <<5, 5>>), Bind(0 - 1, <<>>), Passed>>),
     KeyString(<<>>, <<Passed, Passed>>)}
Load == INSTANCE Downloads WITH
    used <- space, keys <- bound, active <- viewed, answer <- replied,
    typed <- echoed, strings <- sent,
    Session <- {1, 2}, Keyed <- {1}, Echoing <- {1}, MacroSpace <- 3, Strings <- Downloaded,
    SitKey <- (17 :> 295 @@ 18 :> 296), MaxStrings <- 3

\* 'A' is 1 and a box 2, which Unicode has as 5; two glyphs have room of the three
\* others.  Fonts of two glyphs, of the last one there can be, which is cut off in
\* both directions, and of none.
Glyph(params, data, glyphs) == [params |-> params, brace |-> TRUE, data |-> data, glyphs |-> glyphs]
Dotted(row, col) == <<"dot", row, col>>
Column(bits) == [is |-> "dots", bits |-> bits]
Below == [is |-> "down", bits |-> {}]
Then == [is |-> "next", bits |-> {}]
SoftFonts ==
    {Glyph(<<1, 1>>, <<Column({0, 5}), Below, Column({0}), Then, Column({1})>>,
           (1 :> {Dotted(0, 0), Dotted(5, 0), Dotted(6, 0)} @@ 2 :> {Dotted(1, 0)})),
     Glyph(<<0, 2, 1>>, <<Column({0}), Column({}), Column({2}), Below, Column({1, 2}), Then, Column({3})>>,
           (2 :> {Dotted(0, 0), Dotted(7, 0)})),
     [Glyph(<<1, 1>>, <<>>, <<>>) EXCEPT !.brace = FALSE]}
Atlas == INSTANCE Glyphs WITH
    font <- softfont, text <- cell, active <- current, cache <- atlas, ttf <- outline, texture <- uploaded,
    cells <- indices, past <- gone, meant <- intended, calls <- acts,
    Session <- {1, 2}, BASE <- 3, CAPACITY <- 5, Cp437 <- (5 :> 2), Codes <- {5, 6, 7, 8},
    Downloads <- SoftFonts, ROWS <- 8, COLS <- 2, MaxCalls <- 3

-------------------------------------------------------------------------------
\* A part that does not run has one initial state.
Init ==
    /\ part \in Parts
    /\ Parser!Init /\ (part # "parse" => "]" \in bytes.s1)
    /\ Utf8Init
    /\ PrinterInit
    /\ KittyInit
    /\ AnswerInit
    /\ VoiceInit
    /\ Alternate!Init /\ (part # "screen" => height = 2)
    /\ Position!Init /\ (part # "move" => may = "text" /\ cursor.rows = 2)
    /\ Area!Init /\ (part # "area" => pen.fg = "white")
    /\ Mode!Init
    /\ Mouse!Init /\ (part # "mouse" => ~split /\ pair[1].alternate /\ pair[2].alternate /\ at = <<0, 1>>)
    /\ Drawn!Init
    /\ LifeInit
    /\ Gate!Init
    /\ Picture!Init /\ front = 1 /\ (part # "sixel" => aim = 0)
    /\ Load!Init
    /\ Atlas!Init

\* The other parts stay as they are.
Stay(p) ==
    /\ part = p /\ UNCHANGED part
    /\ p # "parse" => UNCHANGED parse
    /\ p # "decode" => UNCHANGED decode
    /\ p # "print" => UNCHANGED print
    /\ p # "image" => UNCHANGED image
    /\ p # "answer" => UNCHANGED answers
    /\ p # "voice" => UNCHANGED voice
    /\ p # "screen" => UNCHANGED screen
    /\ p # "move" => UNCHANGED move
    /\ p # "area" => UNCHANGED area
    /\ p # "mode" => UNCHANGED mode
    /\ p # "mouse" => UNCHANGED mouse
    /\ p # "draw" => UNCHANGED draw
    /\ p # "life" => UNCHANGED life
    /\ p # "gate" => UNCHANGED gate
    /\ p # "sixel" => UNCHANGED sixel
    /\ p # "load" => UNCHANGED load
    /\ p # "glyph" => UNCHANGED glyph

Next ==
    \/ Stay("parse") /\ Parser!Next
    \/ Stay("decode") /\ Utf8Next
    \/ Stay("print") /\ PrinterNext
    \/ Stay("image") /\ KittyNext
    \/ Stay("answer") /\ AnswerNext
    \/ Stay("voice") /\ VoiceNext
    \/ Stay("screen") /\ Alternate!Next
    \/ Stay("move") /\ Position!Next
    \/ Stay("area") /\ Area!Next
    \/ Stay("mode") /\ Mode!Next
    \/ Stay("mouse") /\ Mouse!Next
    \/ Stay("draw") /\ Drawn!Next
    \/ Stay("life") /\ LifeNext
    \/ Stay("gate") /\ Gate!Next
    \/ Stay("sixel") /\ Picture!Next
    \/ Stay("load") /\ Load!Next
    \/ Stay("glyph") /\ Atlas!Next

Spec == Init /\ [][Next]_vars

-------------------------------------------------------------------------------
(* The properties of the instances; they are explained in the modules. *)

FollowsItsHost == part = "parse" => Parser!FollowsItsHost
RestoresScreen == part = "screen" => Alternate!RestoresScreen
LeavesGridOnly == Position!LeavesGridOnly
DrawsWhatWasAsked == part = "area" => Area!DrawsWhatWasAsked
ModesAsAsked == part = "mode" => Mode!ModesAsAsked
PointerTold == part = "mouse" => Mouse!PointerTold
PenAsMeant == part = "draw" => Drawn!PenAsMeant
CommandsEnd == part = "gate" => Gate!CommandsEnd
SetAsMeant == part = "gate" => Gate!SetAsMeant
ShowsPicture == part = "sixel" => Picture!ShowsPicture
HoldsWhatWasSent == part = "load" => Load!HoldsWhatWasSent
GlyphsAreTheirs == part = "glyph" => Atlas!GlyphsAreTheirs
===============================================================================
