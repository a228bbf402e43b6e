--------------------------------- MODULE Sixel ---------------------------------
(***************************************************************************)
(* Sixel images: the header that starts one (KTerm_ProcessDCSChar), the      *)
(* bytes of its picture (KTerm_ProcessSixelChar), its end                    *)
(* (KTerm_ProcessSixelSTChar), and what a frame makes of it in the one       *)
(* texture all sessions share (KTermCompositor_Prepare and sixel.comp).      *)
(*                                                                         *)
(* Hosts send pictures as sequences of tokens, each of which is some bytes   *)
(* and has a meaning; one host at a time sends one, for two that draw for    *)
(* the same session write into each other's parameters.  Left out: the staging buffer data, which nothing      *)
(* reads, allocations that fail (Lifecycle has those), the arithmetic by     *)
(* which HLS becomes RGB, and a view that is scrolled back.                  *)
(***************************************************************************)
EXTENDS Integers, Sequences, SequencesExt, FiniteSetsExt, TLC

CONSTANTS
    Session,
    Prints,         \* the sessions whose hosts send text as well
    Targets,        \* what sixel_target_session has been set to: sessions or 0
    H,              \* height of the terminal in rows
    BUFFER,         \* rows of the ring: H and the scrollback
    Window,         \* <<width, height>> of the terminal in pixels
    CH,             \* char_height
    Limit,          \* <<max_sixel_width, max_sixel_height>>, 0 for none
    Index,          \* palette indices
    Pictures,       \* sequences of what is read in one frame: sequences of
                    \* tokens [bytes, does, n]
    Beside,         \* the sessions with KTERM_MODE_SIXEL_CURSOR
    MaxImages, MaxScrolls

VARIABLES
    g,          \* per session: the SixelGraphics record
    source,     \* per session: parse_state, cursor.y, screen_head, and the full-screen
                \* scrolls in its operation queue
    target,     \* sixel_target_session
    active,     \* active_session
    texture,    \* sixel_texture, and whose images were drawn in it
    rest,       \* per session: what its host has yet to send
    told,       \* ghost, per session an image is for: what has been said of it
    scrolled,   \* ghost, per session: lines scrolled, or told to
    fresh,      \* the frame shows all that has been told
    images      \* images begun

vars == <<g, source, target, active, texture, rest, told, scrolled, fresh, images>>

\* The bits that are set in a sixel: its low bit is the uppermost pixel.
Sixels == ("?" :> {}) @@ ("@" :> {0}) @@ ("B" :> {0, 1}) @@ ("_" :> {5})
Digits == <<"1", "2", "3", "4", "5", "6", "7", "8", "9">>
Value(c) == IF c = "0" THEN 0 ELSE CHOOSE d \in 1 .. 9 : Digits[d] = c
IsDigit(c) == c = "0" \/ c \in Range(Digits)

\* RGB_KTermColor: percentages become bytes.
Colour(type, c) ==
    IF type = 2 THEN [k \in 1 .. 3 |-> ((c[k] * 255) \div 100) % 256] ELSE <<"hls", c>>
Unset == <<"global">>

\* KTerm_InitSixelGraphics
Blank == [active |-> FALSE, strips |-> <<>>, size |-> <<0, 0>>, staged |-> FALSE, start |-> 0,
          row |-> 0, pos |-> <<0, 0>>, max |-> <<0, 0>>, colour |-> 0, repeat |-> 0,
          state |-> "NORMAL", params |-> <<0>>, palette |-> [i \in Index |-> Unset], dirty |-> FALSE]
InitSixelGraphics(x) ==
    [Blank EXCEPT !.pos = x.pos, !.max = x.max, !.colour = x.colour, !.repeat = x.repeat,
                  !.start = x.start, !.dirty = x.dirty]

-------------------------------------------------------------------------------
(* KTerm_ProcessSixelChar, on the image of the target session *)

\* A number with its separators, for the introducer that came before.
Parameter(x, c) ==
    IF x.state = "REPEAT" THEN [x EXCEPT !.repeat = 10 * @ + Value(c)]
    ELSE IF c = ";" THEN [x EXCEPT !.params = IF Len(@) < 8 THEN Append(@, 0) ELSE @]
    ELSE [x EXCEPT !.params[Len(x.params)] = 10 * @ + Value(c)]
TakesParameter(x, c) ==
    \/ IsDigit(c) /\ x.state \in {"REPEAT", "COLOR", "RASTER"}
    \/ c = ";" /\ x.state \in {"COLOR", "RASTER"}

\* With five parameters a colour is defined, and selected as with one.
DefineColour(x) ==
    LET p == x.params
    IN  IF Len(p) < 5 \/ p[1] \notin Index \/ p[2] \notin {1, 2} THEN x
        ELSE [x EXCEPT !.palette[p[1]] = Colour(p[2], SubSeq(p, 3, 5))]
Finalize(x, c) ==
    CASE x.state = "COLOR" /\ c # "#" ->
            [DefineColour(x) EXCEPT !.colour = IF x.params[1] \in Index THEN x.params[1] ELSE @,
                                    !.state = "NORMAL"]
      [] x.state = "RASTER" -> [x EXCEPT !.state = "NORMAL"]
      [] OTHER -> x

\* One column of six pixels, or as many as were asked for and fit.
Data(x, c) ==
    LET asked == IF x.state = "REPEAT" /\ x.repeat > 0 THEN x.repeat ELSE 1
        left == IF Limit[1] = 0 THEN asked ELSE Max({0, Limit[1] - x.pos[1]})
        n == Min({asked, left})
        strips == [k \in 1 .. n |-> [x |-> x.pos[1] + k - 1, y |-> x.pos[2], pattern |-> Sixels[c],
                                     colour |-> x.colour]]
        high == Limit[2] > 0 /\ x.pos[2] >= Limit[2]
    IN  [x EXCEPT !.strips = IF high THEN @ ELSE @ \o strips,
                  !.pos[1] = @ + n,
                  !.max = <<Max({@[1], x.pos[1] + n}), Max({@[2], x.pos[2] + 6})>>,
                  !.state = IF @ = "REPEAT" THEN "NORMAL" ELSE @,
                  !.repeat = IF x.state = "REPEAT" THEN 0 ELSE @]

Introducer == ("\"" :> "RASTER") @@ ("#" :> "COLOR") @@ ("!" :> "REPEAT")
Command(x, c) ==
    CASE c = "!" -> [x EXCEPT !.state = "REPEAT", !.repeat = 0]
      [] c \in {"\"", "#"} -> [x EXCEPT !.state = Introducer[c], !.params = <<0>>]
      [] c = "$" -> [x EXCEPT !.pos[1] = 0, !.state = "NORMAL"]
      [] c = "-" -> [x EXCEPT !.pos = <<0, @[2] + 6>>, !.state = "NORMAL"]
      [] c \in DOMAIN Sixels -> Data(x, c)
      [] OTHER -> x

ProcessSixelChar(x, c) ==
    IF TakesParameter(x, c) THEN Parameter(x, c) ELSE Command(Finalize(x, c), c)

-------------------------------------------------------------------------------
Init ==
    /\ g = [s \in Session |-> Blank]
    /\ source = [s \in Session |-> [state |-> "TEXT", y |-> 0, head |-> 0, queue |-> 0]]
    /\ target \in Targets
    /\ active \in Session
    /\ texture = [size |-> <<0, 0>>, pixels |-> <<>>, of |-> {}]
    /\ rest = [s \in Session |-> <<>>]
    /\ told = [s \in Session |-> [tokens |-> <<>>, scrolled |-> 0, done |-> TRUE, plain |-> TRUE,
                                  palette |-> [i \in Index |-> Unset]]]
    /\ scrolled = [s \in Session |-> 0]
    /\ fresh = FALSE
    /\ images = 0

\* No image is being sent.
Quiet == \A s \in Session : source[s].state = "TEXT"

TargetOf(s) == IF target = 0 THEN s ELSE target

\* DCS q.  The image starts at the row the ring begins with now, whatever scrolls
\* are still in the queue.
Begin(s) ==
    LET t == TargetOf(s)
    IN  /\ Quiet
        /\ images < MaxImages
        /\ images' = images + 1
        /\ \E picture \in Pictures : rest' = [rest EXCEPT ![s] = picture]
        /\ g' = [g EXCEPT ![t].pos = <<0, 0>>, ![t].max = <<0, 0>>, ![t].colour = 0, ![t].repeat = 0,
                          ![t].size = IF g[t].staged THEN @ ELSE Window, ![t].staged = TRUE,
                          ![t].strips = <<>>, ![t].active = TRUE,
                          ![t].start = source[t].head, ![t].row = source[t].y]
        /\ source' = [source EXCEPT ![s].state = "SIXEL"]
        /\ told' = [told EXCEPT ![t].tokens = <<>>, ![t].scrolled = scrolled[t], ![t].done = FALSE,
                                ![t].plain = s = t /\ source[t].queue = 0]
        /\ fresh' = FALSE
        /\ UNCHANGED <<target, active, texture, scrolled>>

\* The bytes of a picture that are read in one frame.
Redefine(palette, token) ==
    IF token.does # "define" THEN palette
    ELSE [palette EXCEPT ![token.n[1]] = Colour(token.n[2], SubSeq(token.n, 3, 5))]
Send(s) ==
    LET t == TargetOf(s)
        tokens == Head(rest[s])
    IN  /\ source[s].state = "SIXEL" /\ rest[s] # <<>>
        /\ rest' = [rest EXCEPT ![s] = Tail(@)]
        /\ g' = [g EXCEPT ![t] = FoldLeft(ProcessSixelChar, @, FlattenSeq([k \in 1 .. Len(tokens) |-> tokens[k].bytes]))]
        /\ told' = [told EXCEPT ![t].tokens = @ \o tokens,
                                ![t].palette = FoldLeft(Redefine, @, tokens)]
        /\ fresh' = FALSE
        /\ UNCHANGED <<source, target, active, texture, scrolled, images>>

\* KTerm_ScrollUpRegion_Internal with the whole screen: at once, not by the queue.
ScrollUp(s, lines) ==
    /\ source' = [source EXCEPT ![s].head = (@ + lines) % BUFFER, ![s].y = H - 1, ![s].state = "TEXT"]
    /\ scrolled' = [scrolled EXCEPT ![s] = @ + lines]

\* Wrong variant: the image keeps the size of the window.
FinishWindow(x) == [x EXCEPT !.dirty = TRUE]

\* ST gives the image its size: that of the session it came from, which need not
\* be the one it was drawn for.
Finish(x) == [x EXCEPT !.size = x.max, !.dirty = TRUE]

\* ESC ends what came before, \ the image; the cursor goes beside it or below it.
End(s) ==
    LET t == TargetOf(s)
        x == [g EXCEPT ![t] = Finalize(@, "ESC")]
        rows == (x[s].max[2] + CH - 1) \div CH
        below == x[s].row + rows
    IN  /\ source[s].state = "SIXEL" /\ rest[s] = <<>>
        /\ g' = [x EXCEPT ![s] = Finish(@)]
        /\ IF s \notin Beside /\ below > H - 1 THEN ScrollUp(s, below - (H - 1))
           ELSE /\ source' = [source EXCEPT ![s].state = "TEXT",
                                            ![s].y = IF s \in Beside THEN @ ELSE below]
                /\ UNCHANGED scrolled
        /\ told' = [told EXCEPT ![t].done = TRUE, ![t].plain = @ /\ s = t]
        /\ fresh' = FALSE
        /\ UNCHANGED <<target, active, texture, rest, images>>

\* Another escape sequence cuts the image short: it has no size of its own.
Cut(s) ==
    /\ source[s].state = "SIXEL" /\ rest[s] = <<>>
    /\ g' = [g EXCEPT ![TargetOf(s)] = Finalize(@, "ESC")]
    /\ source' = [source EXCEPT ![s].state = "TEXT"]
    /\ fresh' = FALSE
    /\ UNCHANGED <<target, active, texture, rest, told, scrolled, images>>

\* LF on the last row queues a scroll of the whole screen: of the active session's.
LineFeed(s) ==
    /\ s \in Prints /\ source[s].state = "TEXT"
    /\ IF source[s].y < H - 1 THEN /\ source' = [source EXCEPT ![s].y = @ + 1]
                                  /\ UNCHANGED scrolled
       ELSE /\ \A t \in Session : scrolled[t] < MaxScrolls
            /\ source' = [source EXCEPT ![active].queue = @ + 1]
            /\ scrolled' = [scrolled EXCEPT ![active] = @ + 1]
    /\ fresh' = FALSE
    /\ UNCHANGED <<g, target, active, texture, rest, told, images>>

\* RESET;SIXEL of the gateway.
ResetGraphics(s) ==
    LET t == TargetOf(s)
    IN  /\ source[s].state = "TEXT" /\ g[t].active
        /\ g' = [g EXCEPT ![t] = InitSixelGraphics(@)]
        /\ told' = [told EXCEPT ![t].palette = [i \in Index |-> Unset]]
        /\ fresh' = FALSE
        /\ UNCHANGED <<source, target, active, texture, rest, scrolled, images>>

SetActive(s) ==
    /\ active # s
    /\ active' = s
    /\ fresh' = FALSE
    /\ UNCHANGED <<g, source, target, texture, rest, told, scrolled, images>>

-------------------------------------------------------------------------------
(* A frame *)

\* sixel.comp: the strips are drawn in no order, so where they overlap any of
\* their colours may win.
Drawn(x, size, shift) ==
    LET At(strip, bit) == <<strip.x, strip.y + bit - shift>>
        dots == UNION {{[at |-> At(strip, bit), colour |-> x.palette[strip.colour]] :
                            bit \in strip.pattern} : strip \in Range(x.strips)}
        seen == {d \in dots : d.at[1] < size[1] /\ d.at[2] \in 0 .. size[2] - 1}
    IN  [p \in {d.at : d \in seen} |-> {d.colour : d \in {e \in seen : e.at = p}}]

\* KTerm_FlushOps, then the Sixel part of KTermCompositor_Prepare for the active
\* session: a texture is made anew if the image has been finished since, or has
\* another size than the last one had.
Frame ==
    LET head == [s \in Session |-> (source[s].head + source[s].queue) % BUFFER]
        x == g[active]
        shift == ((head[active] - x.start + BUFFER) % BUFFER) * CH
        anew == x.dirty \/ texture.size # x.size
        before == IF anew THEN <<>> ELSE texture.pixels
    IN  /\ ~fresh
        /\ fresh' = TRUE
        /\ source' = [s \in Session |-> [source[s] EXCEPT !.head = head[s], !.queue = 0]]
        /\ IF ~x.active \/ x.strips = <<>> THEN UNCHANGED <<g, texture>>
           ELSE /\ g' = [g EXCEPT ![active].dirty = FALSE]
                /\ texture' = [size |-> x.size, pixels |-> Drawn(x, x.size, shift) @@ before,
                               of |-> (IF anew THEN {} ELSE texture.of) \cup {active}]
        /\ UNCHANGED <<target, active, rest, told, scrolled, images>>

Next ==
    \/ \E s \in Session :
          Begin(s) \/ Send(s) \/ End(s) \/ Cut(s) \/ LineFeed(s) \/ ResetGraphics(s) \/ SetActive(s)
    \/ Frame

Spec == Init /\ [][Next]_vars

-------------------------------------------------------------------------------
(* Properties *)

\* What a picture's tokens mean: a pen that draws columns of six dots.
Pen == [x |-> 0, y |-> 0, colour |-> 0, dots |-> {}]
Does(pen, token) ==
    LET n == token.n
        width == IF Limit[1] = 0 THEN n[1] ELSE Max({0, Min({n[1], Limit[1] - pen.x})})
    IN  CASE token.does \in {"select", "define"} -> [pen EXCEPT !.colour = n[1]]
          [] token.does = "draw" ->
                [pen EXCEPT !.x = @ + width,
                    !.dots = @ \cup {d \in {[at |-> <<pen.x + k, pen.y + bit>>, colour |-> pen.colour] :
                                                k \in 0 .. width - 1, bit \in n[2]} :
                                        Limit[2] = 0 \/ pen.y < Limit[2]}]
          [] token.does = "return" -> [pen EXCEPT !.x = 0]
          [] token.does = "down" -> [pen EXCEPT !.x = 0, !.y = @ + 6]
          [] token.does = "nothing" -> pen
Meaning(s) ==
    LET dots == FoldLeft(Does, Pen, told[s].tokens).dots
    IN  [p \in {d.at : d \in dots} |-> {told[s].palette[d.colour] : d \in {e \in dots : e.at = p}}]

\* What a frame shows of an image is what its host has described, dot for dot and
\* each in its colour.  It is not if the image was drawn for another session than
\* it came from (its size and dirty are set in the wrong one), was begun while
\* scrolls were in the queue, was cut short or is empty; nor if another session's
\* image was in the texture last, which nothing clears when the active session
\* changes; nor once the screen has scrolled: the image then leaves the texture,
\* which has its size and not the screen's, at the top.
ShowsPicture ==
    LET s == active
    IN  /\ fresh /\ told[s].done /\ told[s].plain
        /\ g[s].active /\ g[s].strips # <<>>
        /\ texture.of = {s} /\ scrolled[s] = told[s].scrolled
        => texture.pixels = Meaning(s)
===============================================================================
