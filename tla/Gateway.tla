-------------------------------- MODULE Gateway --------------------------------
(***************************************************************************)
(* The gateway protocol: commands a host puts into a device control string  *)
(* to set, ask for and reset what sessions and the terminal are set to, and *)
(* to choose the session such commands are about.                           *)
(*                                                                         *)
(* A command comes as the tokens the lexer of kt_parser.h makes of it.  A   *)
(* setting is kept under the command and the key that set it; its value is  *)
(* a sequence of numbers: <<0>> and <<1>> for off and on, <<index>> or       *)
(* <<red, green, blue>> for a colour, <<>> for the default colour.  Those of *)
(* the terminal have number 0.  Commands that write to an input queue are   *)
(* left out, those of EXT;grid are in GridArea.                             *)
(***************************************************************************)
EXTENDS Integers, Sequences, SequencesExt, FiniteSets, TLC

CONSTANTS
    Session,        \* the sessions, from 1
    Active,         \* active_session
    Fonts,          \* available_fonts, as numbers
    KTERM_MAX_COLS, KTERM_MAX_ROWS,
    Commands,       \* what hosts send, records [cmd, sub, items]
    MaxInput        \* commands in one behaviour

VARIABLES
    s,          \* the settings of each session, and those of the terminal
    target,     \* the session gateway commands and graphics are sent to, or 0
    told,       \* the answer to the last command
    meant,      \* ghost: the settings as the commands say
    input       \* commands so far

vars == <<s, target, told, meant, input>>

-------------------------------------------------------------------------------
(* Settings *)

\* The kinds of graphics, and the names of the sessions they are sent to.
SentTo == [KITTY |-> "KITTY_SESSION", REGIS |-> "REGIS_SESSION", TEK |-> "TEKTRONIX_SESSION",
           SIXEL |-> "SIXEL_SESSION"]
Kinds == DOMAIN SentTo
Flags == {"BOLD", "DIM", "ITALIC", "UNDERLINE", "BLINK", "REVERSE", "HIDDEN", "STRIKE"}
Channels == {"R", "G", "B", "A"}
Effects == {"CRT_CURVATURE", "SCANLINE_INTENSITY", "GLOW_INTENSITY", "NOISE_INTENSITY"}
Enables == {"CRT_ENABLE", "SCANLINE_ENABLE", "GLOW_ENABLE", "NOISE_ENABLE"}
Homes == <<"ABSOLUTE", "FIRST_UNPROTECTED", "FIRST_UNPROTECTED_LINE", "LAST_FOCUSED">>

Under(sub, keys, value) == [k \in {sub} \X keys |-> value]

\* What KTerm_InitSession leaves, and graphics of every kind.
Attributes ==
    Under("ATTR", Flags, <<0>>) @@ Under("ATTR", {"FG"}, <<7>>) @@ Under("ATTR", {"BG"}, <<0>>)
Slots(fast, slow) == Under("BLINK", {"FAST"}, fast) @@ Under("BLINK", {"SLOW", "BG"}, slow)
Fresh ==
    Attributes @@ Slots(<<30>>, <<35>>) @@ Under("ATTR", {"UL", "ST"}, <<>>) @@
    Under("CURSOR", {"SKIP_PROTECT", "HOME_MODE"}, <<0>>) @@
    Under("KEYBOARD", {"REPEAT_RATE"}, <<30>>) @@ Under("KEYBOARD", {"DELAY"}, <<500>>) @@
    Under("GRID", Channels, <<255>>) @@ Under("GRID", {"ON", "ENDLESS"}, <<0>>) @@
    Under("", {"CONCEAL", "WIDE_CHARS", "DEBUG", "DIRECT"}, <<0>>) @@
    Under("", {"LEVEL"}, <<1000>>) @@ Under("", {"OUTPUT"}, <<1>>) @@
    Under("", {"TABS"}, <<8>>) @@ Under("", {"ATTACHED"}, <<>>) @@ Under("DRAWN", Kinds, <<1>>)
FreshTerminal ==
    Under("SHADER", Effects \cup Enables, <<0>>) @@ Under("", {"SIZE"}, <<80, 25>>) @@
    Under("", {"FONT"}, <<1>>) @@ Under("DRAWN", {"VECTORS"}, <<1>>)

\* The commands SET that take a list of keys and values.
Lists == {"CURSOR", "ATTR", "KEYBOARD", "GRID", "BLINK", "SHADER"}

Clamp(v, low, high) == IF v < low THEN low ELSE IF v > high THEN high ELSE v
Bit(b) == IF b THEN <<1>> ELSE <<0>>

\* The value a key is given by the numbers n; UL and ST take three of them.
Value(sub, key, n) ==
    CASE sub = "ATTR" /\ key \in {"UL", "ST"} /\ Len(n) = 3 -> [i \in 1 .. 3 |-> n[i] % 256]
      [] sub = "ATTR" /\ key \notin Flags /\ ~(key \in {"UL", "ST"} /\ Len(n) = 3) -> <<n[1] % 256>>
      [] (sub = "ATTR" /\ key \in Flags) \/ key = "SKIP_PROTECT" -> Bit(n[1] # 0)
      [] sub = "GRID" -> <<Clamp(n[1], 0, 255)>>
      [] key = "REPEAT_RATE" -> <<Clamp(n[1], 0, 31)>>
      [] key = "DELAY" -> <<Clamp(n[1], 0, n[1])>>
      [] key \in Enables -> Bit(n[1] > 0)
      [] OTHER -> <<n[1]>>

-------------------------------------------------------------------------------
(* The lexer: the tokens of a list of items. *)

Token(t, word, n) == [t |-> t, word |-> word, n |-> n]
Id(word) == Token("id", word, <<>>)
Number(n) == Token("number", "", <<n>>)
Sign(t) == Token(t, "", <<>>)

\* An item gives a key one number, a colour, a colour in quotes or a word; it
\* has no value, it is empty, or it is a value that has no key.
Written(item) ==
    LET n == item.n key == <<Id(item.key), Sign("=")>>
    IN CASE item.form = "number" -> key \o <<Number(n[1])>>
         [] item.form = "colour" ->
                key \o <<Number(n[1]), Sign(","), Number(n[2]), Sign(","), Number(n[3])>>
         [] item.form = "quoted" -> key \o <<Token("string", "", n)>>
         [] item.form = "word" -> key \o <<Id(item.word)>>
         [] item.form = "missing" -> key
         [] item.form = "bare" -> <<Id(item.key)>>
         [] item.form = "value" -> <<Number(n[1])>>
         [] item.form = "values" -> <<Number(n[1]), Sign(";"), Number(n[2])>>
         [] item.form = "empty" -> <<>>
LexerNext(items) == FlattenSeq([i \in DOMAIN items |-> Written(items[i]) \o <<Sign(";")>>])

-------------------------------------------------------------------------------
(* SET with a list: each command has its own copy of the loop below. *)

None == [t |-> "end", word |-> "", n |-> <<>>]
At(toks, i) == IF i <= Len(toks) THEN toks[i] ELSE None
From(toks, i) == SubSeq(toks, i, Len(toks))
SkipSemicolon(toks) == IF At(toks, 1).t = ";" THEN Tail(toks) ELSE toks

\* What a value is read as: text in quotes counts for attributes and shaders.
Read(sub, val) ==
    IF val.t = "number" \/ (val.t = "string" /\ sub \in {"ATTR", "SHADER"}) THEN val.n ELSE <<0>>

Home(set, val) ==
    LET known == {i \in DOMAIN Homes : val.t = "id" /\ Homes[i] = val.word}
    IN [set EXCEPT ![<<"CURSOR", "HOME_MODE">>] =
            IF val.t # "id" THEN Read("CURSOR", val)
            ELSE IF known = {} THEN @ ELSE <<(CHOOSE i \in known : TRUE) - 1>>]

\* An unknown key changes nothing, nor does a slot that is not positive.
Assign(set, sub, key, val) ==
    IF <<sub, key>> \notin DOMAIN set \/ (sub = "BLINK" /\ Read(sub, val)[1] <= 0) THEN set
    ELSE IF key = "HOME_MODE" THEN Home(set, val)
    ELSE [set EXCEPT ![<<sub, key>>] = Value(sub, key, Read(sub, val))]

\* A colour is three numbers with something between them.
Triple(toks) ==
    Token("number", "", [i \in 1 .. 3 |-> Read("ATTR", At(toks, 2 * i + 1))[1]])

\* The loop for ON and OFF takes no further token and never ends.
RECURSIVE SetList(_, _, _)
SetList(set, sub, toks) ==
    LET key == At(toks, 1).word
        colour == sub = "ATTR" /\ key \in {"UL", "ST"} /\ At(toks, 4).t = ","
        rest == SkipSemicolon(From(toks, IF colour THEN 8 ELSE 4))
    IN IF toks = <<>> THEN set
       ELSE IF toks[1].t = "id" /\ sub = "GRID" /\ key \in {"ON", "OFF"}
       THEN [set EXCEPT ![<<"GRID", "ON">>] = Bit(key = "ON"), ![<<"GRID", "ENDLESS">>] = <<1>>]
       ELSE IF toks[1].t = "id" /\ At(toks, 2).t = "="
       THEN SetList(Assign(set, sub, key, IF colour THEN Triple(toks) ELSE At(toks, 3)), sub,
                    IF sub = "ATTR" /\ ~colour THEN SkipSemicolon(rest) ELSE rest)
       ELSE SetList(set, sub, SkipSemicolon(From(toks, 2)))

-------------------------------------------------------------------------------
(* The other settings; n is the number that follows, or several. *)

\* The session commands are about.
Target(asker) == IF target["SESSION"] = 0 THEN asker ELSE target["SESSION"]

\* SET;SESSION and SET;<kind>_SESSION take a session that exists.
SetTarget(which, n) == IF n \in Session THEN [target EXCEPT ![which] = n] ELSE target

Put(i, key, value) == [s EXCEPT ![i][<<"", key>>] = value]

\* KTerm_Resize does nothing when it was called a moment before.
Resize(w, h) ==
    IF w <= 0 \/ h <= 0 THEN {s}
    ELSE {s, Put(0, "SIZE", <<Clamp(w, 1, KTERM_MAX_COLS), Clamp(h, 1, KTERM_MAX_ROWS)>>)}

\* KTerm_SetLevel takes any number; KTerm_EnableDebug is told no session.
SetWord(key, i, n) ==
    CASE key = "CONCEAL" -> {IF n[1] >= 0 THEN Put(i, key, <<n[1]>>) ELSE s}
      [] key = "LEVEL" -> {Put(i, key, <<n[1]>>)}
      [] key \in {"OUTPUT", "WIDE_CHARS"} -> {Put(i, key, Bit(n[1] = 1))}
      [] key = "DEBUG" -> {Put(Active, key, Bit(n[1] = 1))}
      [] key = "FONT" -> {IF n[1] \in Fonts THEN Put(0, key, <<n[1]>>) ELSE s}
      [] key = "SIZE" -> Resize(n[1], n[2])
      [] key = "WIDTH" -> Resize(n[1], s[0][<<"", "SIZE">>][2])
      [] key = "HEIGHT" -> Resize(s[0][<<"", "SIZE">>][1], n[1])

HandleSet(c, asker) ==
    LET i == Target(asker)
        n == IF c.items = <<>> THEN <<0>> ELSE c.items[1].n
    IN IF c.sub \in DOMAIN target THEN target' = SetTarget(c.sub, n[1]) /\ UNCHANGED s
       ELSE /\ UNCHANGED target
            /\ IF c.sub \in Lists
               THEN LET owner == IF c.sub = "SHADER" THEN 0 ELSE i
                    IN s' = [s EXCEPT ![owner] = SetList(@, c.sub, LexerNext(c.items))]
               ELSE s' \in SetWord(c.sub, i, n)

-------------------------------------------------------------------------------
(* RESET and INIT *)

\* The vectors of ReGIS and Tektronix are drawn into one list.
Wipe(set, i, kind) ==
    [set EXCEPT ![i][<<"DRAWN", kind>>] = <<0>>,
                ![0][<<"DRAWN", "VECTORS">>] = IF kind \in {"REGIS", "TEK"} THEN <<0>> ELSE @]

\* A kind of graphics is reset where it is sent to.  When all are, this is so
\* for sixels only.
Holder(kind, i, all) ==
    IF target[SentTo[kind]] # 0 /\ (kind = "SIXEL" \/ ~all) THEN target[SentTo[kind]] ELSE i
ResetGraphics(i, kinds) ==
    FoldSet(LAMBDA kind, set : Wipe(set, Holder(kind, i, kinds = Kinds), kind), s, kinds)

\* Wrong variant: the background keeps its colour.
ResetForeground(i) ==
    [s EXCEPT ![i] = [k \in DOMAIN Attributes \ {<<"ATTR", "BG">>} |-> Attributes[k]] @@ @]
ResetAttributes(i) == [s EXCEPT ![i] = Attributes @@ @]
\* Slots that are no slots: 500 is a rate in milliseconds.
ResetBlink(i) == [s EXCEPT ![i] = Slots(<<255>>, <<500>>) @@ @]
ResetTabs(items) ==
    IF items = <<>> THEN Put(Active, "TABS", <<>>)
    ELSE IF items[1].word = "DEFAULT8" THEN Put(Active, "TABS", <<8>>) ELSE s

HandleReset(c, asker) ==
    LET i == Target(asker)
    IN IF c.sub \in DOMAIN target
       THEN target' = [target EXCEPT ![c.sub] = 0] /\ UNCHANGED s
       ELSE /\ UNCHANGED target
            /\ s' = CASE c.sub = "GRAPHICS" -> ResetGraphics(i, Kinds)
                      [] c.sub \in Kinds -> ResetGraphics(i, {c.sub})
                      [] c.sub = "ATTR" -> ResetAttributes(i)
                      [] c.sub = "BLINK" -> ResetBlink(i)
                      [] c.sub = "TABS" -> ResetTabs(c.items)
                      [] OTHER -> s

\* INIT is about the session that asks, whatever target or number it names.
HandleInit(c, asker) ==
    /\ target' = [target EXCEPT ![c.sub] = asker]
    /\ s' = Wipe(s, asker, CHOOSE kind \in Kinds : SentTo[kind] = c.sub)

-------------------------------------------------------------------------------
(* GET, the other commands, and the answers *)

\* KTerm_QueueResponse writes to the session that is active, the answer of an
\* extension goes to the one that asked; both only while OUTPUT is on.
Silence == [to |-> 0, sub |-> "", asker |-> 0, v |-> <<>>]
Answer(to, sub, asker, v) ==
    told' = IF s[to][<<"", "OUTPUT">>] = <<1>>
            THEN [to |-> to, sub |-> sub, asker |-> asker, v |-> v] ELSE Silence

\* The session a report is about: the level is that of the active session, the
\* colours of lines are those of the session that asks.
Reported(sub, asker) ==
    CASE sub = "LEVEL" -> Active
      [] sub \in {"UNDERLINE_COLOR", "STRIKE_COLOR"} -> asker
      [] sub \in {"SHADER", "VERSION", "FONTS"} -> 0
      [] OTHER -> Target(asker)
Report(set, sub) ==
    CASE sub \in {"LEVEL", "OUTPUT"} -> set[<<"", sub>>]
      [] sub = "UNDERLINE_COLOR" -> set[<<"ATTR", "UL">>]
      [] sub = "STRIKE_COLOR" -> set[<<"ATTR", "ST">>]
      [] sub = "SHADER" -> set[<<"SHADER", "CRT_CURVATURE">>] \o set[<<"SHADER", "CRT_ENABLE">>]
      [] sub = "STATE" -> set[<<"ATTR", "FG">>] \o set[<<"ATTR", "BG">>]
      [] OTHER -> <<0>>

HandleGet(c, asker) ==
    /\ UNCHANGED <<s, target>>
    /\ Answer(Active, c.sub, asker, Report(s[Reported(c.sub, asker)], c.sub))

\* The session whose connection is attached is the asker's; the answer is OK
\* for any number.
HandleAttach(c, asker) ==
    LET n == c.items[1].n[1]
    IN /\ s' = IF n \in Session THEN Put(asker, "ATTACHED", <<n>>) ELSE s
       /\ UNCHANGED target
       /\ Answer(Active, "ATTACH", asker, <<n>>)

DirectInput(c, asker) ==
    /\ s' = Put(Target(asker), "DIRECT", Bit(c.items[1].n[1] = 1))
    /\ UNCHANGED target
    /\ Answer(asker, "EXT", asker, <<1>>)

UnknownExtension(asker) == UNCHANGED <<s, target>> /\ Answer(asker, "EXT", asker, <<-1>>)

\* KTerm_GatewayProcess; what it does not know is left to the application.
GatewayProcess(c, asker) ==
    \/ c.cmd = "SET" /\ HandleSet(c, asker) /\ told' = Silence
    \/ c.cmd = "RESET" /\ HandleReset(c, asker) /\ told' = Silence
    \/ c.cmd = "INIT" /\ HandleInit(c, asker) /\ told' = Silence
    \/ c.cmd = "GET" /\ HandleGet(c, asker)
    \/ c.cmd = "ATTACH" /\ HandleAttach(c, asker)
    \/ c.cmd = "EXT" /\ c.sub = "DIRECT" /\ DirectInput(c, asker)
    \/ c.cmd = "EXT" /\ c.sub # "DIRECT" /\ UnknownExtension(asker)
    \/ c.cmd = "HELP" /\ UNCHANGED <<s, target>> /\ Answer(Active, "HELP", asker, <<0>>)
    \/ c.cmd = "OTHER" /\ UNCHANGED <<s, target>> /\ told' = Silence

-------------------------------------------------------------------------------
(* What the commands mean: each item on its own, for the session named last. *)

MeantFor(c, asker) ==
    IF c.sub = "SHADER" THEN 0
    ELSE IF meant.target["SESSION"] = 0 THEN asker ELSE meant.target["SESSION"]

Place(word) == CHOOSE i \in 1 .. 4 : Homes[i] = word
Given(item) == IF item.form \in {"number", "colour", "quoted"} THEN item.n ELSE <<0>>
Obey(set, sub, item) ==
    IF \/ <<sub, item.key>> \notin DOMAIN set
       \/ item.form \notin {"number", "colour", "quoted", "word", "missing"}
       \/ sub = "BLINK" /\ Given(item)[1] <= 0
       \/ item.key = "HOME_MODE" /\ item.form = "word" /\ item.word \notin Range(Homes)
    THEN set
    ELSE [set EXCEPT ![<<sub, item.key>>] =
            IF item.key = "HOME_MODE" /\ item.form = "word" THEN <<Place(item.word) - 1>>
            ELSE Value(sub, item.key, Given(item))]

\* What is wiped: graphics where their kind is sent to, which all of them ask
\* for sixels only; those of ReGIS and Tektronix share the vectors.
Without(set, W) ==
    [j \in DOMAIN set |-> [k \in DOMAIN set[j] |->
        IF \E w \in W : \/ w[2] = j /\ k = <<"DRAWN", w[1]>>
                        \/ w[1] \in {"REGIS", "TEK"} /\ k = <<"DRAWN", "VECTORS">>
        THEN <<0>> ELSE set[j][k]]]

Meaning(c, asker) ==
    LET i == MeantFor(c, asker)
        sent(kind) == meant.target[SentTo[kind]]
        where(kind) == IF sent(kind) # 0 THEN sent(kind) ELSE i
        kinds == {kind \in Kinds : SentTo[kind] = c.sub}
    IN CASE c.cmd = "SET" /\ c.sub \in Lists ->
                [meant EXCEPT !.s[i] = FoldLeft(LAMBDA x, item : Obey(x, c.sub, item), @, c.items)]
         [] c.cmd = "SET" /\ c.sub \in DOMAIN target /\ c.items[1].n[1] \in Session ->
                [meant EXCEPT !.target[c.sub] = c.items[1].n[1]]
         [] c.cmd = "RESET" /\ c.sub \in DOMAIN target -> [meant EXCEPT !.target[c.sub] = 0]
         [] c.cmd = "RESET" /\ c.sub = "ATTR" ->
                [meant EXCEPT !.s[i] = [k \in DOMAIN Attributes |-> Fresh[k]] @@ @]
         [] c.cmd = "RESET" /\ c.sub = "BLINK" ->
                [meant EXCEPT !.s[i] = Slots(<<255>>, <<500>>) @@ @]
         [] c.cmd = "RESET" /\ c.sub \in Kinds ->
                [meant EXCEPT !.s = Without(@, {<<c.sub, where(c.sub)>>})]
         [] c.cmd = "RESET" /\ c.sub = "GRAPHICS" ->
                [meant EXCEPT !.s = Without(@, {<<"SIXEL", where("SIXEL")>>} \cup ((Kinds \ {"SIXEL"}) \X {i}))]
         [] c.cmd = "INIT" ->
                [s |-> Without(meant.s, kinds \X {asker}),
                 target |-> [meant.target EXCEPT ![c.sub] = asker]]
         [] OTHER -> meant

-------------------------------------------------------------------------------

Init ==
    /\ s = [i \in Session \cup {0} |-> IF i = 0 THEN FreshTerminal ELSE Fresh]
    /\ target = [which \in {"SESSION"} \cup Range(SentTo) |-> 0]
    /\ told = Silence
    /\ meant = [s |-> s, target |-> target]
    /\ input = 0

\* A loop that does not end holds up the terminal.
Endless == \E i \in Session : s[i][<<"GRID", "ENDLESS">>] = <<1>>

Next ==
    /\ ~Endless
    /\ input < MaxInput /\ input' = input + 1
    /\ \E c \in Commands, asker \in Session :
        GatewayProcess(c, asker) /\ meant' = Meaning(c, asker)

Spec == Init /\ [][Next]_vars

-------------------------------------------------------------------------------

\* Every setting a command can list has the value it was last given, in the
\* session named by the last SET;SESSION or else in the one that asked, and in
\* no other; graphics are kept but where they were reset; and a report says
\* what is set.  It is of another session than meant for LEVEL, and for the
\* colours of lines when a session was named.
SetAsMeant ==
    /\ target = meant.target
    /\ \A i \in DOMAIN s : \A k \in DOMAIN s[i] :
        k[1] # "" => s[i][k] = meant.s[i][k]
    /\ told.sub \in {"SHADER", "STATE", "UNDERLINE_COLOR", "STRIKE_COLOR"} =>
        LET named == meant.target["SESSION"]
            i == IF told.sub = "SHADER" THEN 0 ELSE IF named = 0 THEN told.asker ELSE named
        IN \/ told.sub \in {"UNDERLINE_COLOR", "STRIKE_COLOR"} /\ i # told.asker
           \/ told.v = Report(meant.s[i], told.sub)

\* Every command is over at some time: the loops over lists take a token in
\* each turn.
CommandsEnd == ~Endless

===============================================================================
