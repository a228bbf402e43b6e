-------------------------------- MODULE Glyphs ---------------------------------
(***************************************************************************)
(* How a character of a session becomes a picture on the screen: soft fonts  *)
(* that hosts download (ProcessSoftFontDownload), the atlas of glyphs that    *)
(* all sessions share, in which glyphs beyond the first BASE are drawn when   *)
(* they are first needed and give way to others when it is full               *)
(* (KTerm_AllocateGlyph), and the part of a frame that looks the glyphs up    *)
(* (KTermCompositor_Prepare).                                                *)
(*                                                                         *)
(* There are two panes of one cell each.  Left out: what depends on the sizes *)
(* of fonts (they place the base glyphs in the atlas), the name by which a    *)
(* soft font is designated, and allocations that fail.                       *)
(***************************************************************************)
EXTENDS Integers, Sequences, FiniteSets, SequencesExt, FiniteSetsExt, TLC

CONSTANTS
    Session,        \* the sessions of the panes, 1 .. n
    BASE,           \* glyphs of the base font: indices 0 .. BASE - 1
    CAPACITY,       \* glyphs of the atlas
    Cp437,          \* the code points that code page 437 has, and their indices
    Codes,          \* what hosts print
    Downloads,      \* soft fonts: [params, brace, data, glyphs], glyphs being what is meant
    ROWS,           \* rows of a soft font's glyph, and its columns
    COLS,
    MaxCalls

VARIABLES
    font,       \* per session: soft_font
    text,       \* per session: the character of its cell, and row_dirty
    active,     \* active_session
    cache,      \* glyph_map, atlas_to_codepoint, next_atlas_index, atlas_clock_hand,
                \* the pixels of the atlas and font_atlas_dirty
    ttf,        \* ttf.loaded
    texture,    \* font_texture
    cells,      \* the glyph indices of the two render buffers, the one shown first
    past,       \* ghost: whose soft font the atlas has, code points that were evicted, and
                \* whether the atlas was cleared or drawn with two kinds of fonts
    meant,      \* ghost, per session: the code point printed and the glyphs downloaded
    calls

vars == <<font, text, active, cache, ttf, texture, cells, past, meant, calls>>

\* A base glyph if there is one, else the code point.
MapUnicodeToCP437(u) == IF u \in DOMAIN Cp437 THEN Cp437[u] ELSE u

InitCP437Map == [u \in Codes |-> IF u \in DOMAIN Cp437 THEN Cp437[u] ELSE 0]

KTERM_DIRTY_FRAMES == 2
Question == 0       \* the index of '?'
Chars == 0 .. BASE - 1
Dynamic == BASE .. CAPACITY - 1

\* The pictures of glyphs: dots of a soft font, one of the built-in font, the box
\* that stands for a missing one, and one of a TrueType font.
Dot(row, col) == <<"dot", row, col>>
Rom(c) == {<<"rom", c, 0>>}
Box(u) == {<<"box", u, 0>>}
Ttf(u) == {<<"ttf", u, 0>>}

\* The built-in font, and no glyph beyond it but those of code page 437.
Init ==
    /\ font = [s \in Session |-> [active |-> FALSE, dirty |-> FALSE, loaded |-> {},
                                  data |-> [c \in Chars |-> {}]]]
    /\ text = [s \in Session |-> [ch |-> Question, dirty |-> KTERM_DIRTY_FRAMES]]
    /\ active = 1
    /\ cache = [map |-> InitCP437Map,
                back |-> [i \in Dynamic |-> 0], next |-> BASE, hand |-> 0,
                pixels |-> [i \in Chars |-> Rom(i)] @@ [i \in Dynamic |-> {}], dirty |-> FALSE]
    /\ ttf = FALSE
    /\ texture = cache.pixels
    /\ cells = <<[s \in Session |-> Question], [s \in Session |-> Question]>>
    /\ past = [fontOf |-> 0, evicted |-> {}, cleared |-> FALSE]
    /\ meant = [s \in Session |-> [code |-> Question, glyphs |-> <<>>]]
    /\ calls = 0

Call == calls < MaxCalls /\ calls' = calls + 1

-------------------------------------------------------------------------------
(* Soft fonts *)

\* A glyph's data is a number of columns of six dots, with '-' before the next six
\* rows and '/' or ';' before the next glyph, which is cleared first.
FontByte(x, byte) ==
    IF byte.is = "next" THEN
        LET next == x.char + 1
        IN  [x EXCEPT !.loaded = @ \cup {x.char}, !.char = next, !.row = 0, !.col = 0,
                      !.data = IF next < BASE THEN [@ EXCEPT ![next] = {}] ELSE @]
    ELSE IF byte.is = "down" THEN [x EXCEPT !.row = @ + 6, !.col = 0]
    ELSE IF x.col >= COLS THEN x
    ELSE [x EXCEPT !.data[x.char] = @ \cup {Dot(x.row + bit, x.col) : bit \in {b \in byte.bits : x.row + b < ROWS}},
                   !.col = @ + 1]

\* ProcessSoftFontDownload: the second parameter is the first glyph.  The data ends
\* with the last glyph there is.
SoftFontDownload(f, m) ==
    LET first == IF Len(m.params) >= 2 THEN m.params[2] ELSE 0
        start == [data |-> [f.data EXCEPT ![first] = {}], loaded |-> f.loaded, char |-> first, row |-> 0, col |-> 0]
        x == FoldLeft(LAMBDA y, byte : IF y.char >= BASE THEN y ELSE FontByte(y, byte), start, m.data)
    IN  [active |-> TRUE, dirty |-> TRUE, data |-> x.data,
         loaded |-> x.loaded \cup ({x.char} \cap Chars)]
Download(s) ==
    \E m \in Downloads :
        /\ Call
        /\ IF ~m.brace THEN UNCHANGED <<font, meant>>
           ELSE /\ font' = [font EXCEPT ![s] = SoftFontDownload(@, m)]
                /\ meant' = [meant EXCEPT ![s].glyphs = m.glyphs @@ @]
        /\ UNCHANGED <<text, active, cache, ttf, texture, cells, past>>

\* A glyph of the base font, for the active session.
BaseGlyph(c) == IF font[active].active /\ c \in font[active].loaded THEN font[active].data[c] ELSE Rom(c)

-------------------------------------------------------------------------------
(* The atlas *)

\* Wrong variant: the atlas is not marked to be uploaded.
RenderUnmarked(c, u, i) ==
    [c EXCEPT !.pixels[i] = IF ttf THEN @ \cup Ttf(u) ELSE Box(u),
              !.map[u] = i, !.back[i] = u, !.touched = @ \cup {i}, !.index = i]

\* RenderGlyphToAtlas: the picture that stands for a missing glyph fills the cell,
\* a TrueType glyph is drawn over what was there.
Render(c, u, i) ==
    [c EXCEPT !.pixels[i] = IF ttf THEN @ \cup Ttf(u) ELSE Box(u),
              !.map[u] = i, !.back[i] = u, !.dirty = TRUE, !.touched = @ \cup {i}, !.index = i]

After(i) == IF i + 1 >= CAPACITY THEN BASE ELSE i + 1

Evict(c, u, i) ==
    Render([c EXCEPT !.hand = After(i), !.map[c.back[i]] = 0, !.evicted = @ \cup {c.back[i]}], u, i)

\* KTerm_AllocateGlyph.  A full atlas gives up the first glyph, from the hand on,
\* that was not drawn in this frame, or if all were the one at the hand.  The hand
\* starts before the dynamic glyphs, and as long as it is there '?' is shown.
AllocateGlyph(c, u) ==
    LET ahead == [k \in 0 .. CAPACITY - BASE - 1 |-> BASE + ((c.hand - BASE + k) % (CAPACITY - BASE))]
        idle == {k \in DOMAIN ahead : ahead[k] \notin c.touched}
    IN  IF c.map[u] # 0 THEN [c EXCEPT !.index = c.map[u]]
        ELSE IF c.next < CAPACITY THEN Render([c EXCEPT !.next = @ + 1], u, c.next)
        ELSE IF c.hand < BASE THEN [c EXCEPT !.hand = @ + 1, !.index = Question]
        ELSE Evict(c, u, ahead[IF idle = {} THEN 0 ELSE Min(idle)])

\* KTerm_SetFont: KTerm_CreateFontTexture clears the atlas and draws the base glyphs
\* only, though glyph_map still has the others.
SetFont ==
    /\ Call
    /\ LET pixels == [c \in Chars |-> BaseGlyph(c)] @@ [i \in Dynamic |-> {}]
       IN  /\ cache' = [cache EXCEPT !.pixels = pixels]
           /\ texture' = pixels
    /\ past' = [past EXCEPT !.fontOf = active, !.cleared = TRUE]
    /\ UNCHANGED <<font, text, active, ttf, cells, meant>>

LoadFont ==
    /\ Call
    /\ ttf' = TRUE
    /\ past' = [past EXCEPT !.cleared = @ \/ ~ttf]
    /\ UNCHANGED <<font, text, active, cache, texture, cells, meant>>

-------------------------------------------------------------------------------
\* KTerm_ProcessNormalChar: code page 437 has its own glyphs for some.
NormalChar(s) ==
    \E u \in Codes :
        /\ Call
        /\ text' = [text EXCEPT ![s] = [ch |-> MapUnicodeToCP437(u), dirty |-> KTERM_DIRTY_FRAMES]]
        /\ meant' = [meant EXCEPT ![s].code = u]
        /\ UNCHANGED <<font, active, cache, ttf, texture, cells, past>>

\* KTerm_SetActiveSession has the atlas uploaded again, but not drawn.
SetActive(s) ==
    /\ active # s
    /\ active' = s
    /\ text' = [text EXCEPT ![s].dirty = KTERM_DIRTY_FRAMES]
    /\ cache' = [cache EXCEPT !.dirty = TRUE]
    /\ UNCHANGED <<font, ttf, texture, cells, past, meant, calls>>

\* KTerm_UpdatePaneRow, for the cell of one pane.
UpdatePaneRow(c, s) ==
    IF text[s].dirty = 0 THEN c
    ELSE LET looked == IF text[s].ch < BASE THEN [c EXCEPT !.index = text[s].ch]
                       ELSE AllocateGlyph(c, text[s].ch)
         IN  [looked EXCEPT !.cells[s] = looked.index]

\* KTermCompositor_Prepare: the atlas, with the active session's soft font if it is
\* new, is uploaded before the rows are looked at, which may draw in it; the buffer
\* that was not shown is filled and then shown.
Prepare ==
    LET redrawn == font[active].dirty
        pixels == IF redrawn THEN [c \in Chars |-> BaseGlyph(c)] @@ cache.pixels ELSE cache.pixels
        start == [map |-> cache.map, back |-> cache.back, next |-> cache.next, hand |-> cache.hand,
                  pixels |-> pixels, dirty |-> FALSE, touched |-> {}, index |-> 0,
                  cells |-> cells[2], evicted |-> {}]
        end == FoldLeft(UpdatePaneRow, start, [s \in 1 .. Cardinality(Session) |-> s])
    IN  /\ cache' = [f \in DOMAIN cache |-> end[f]]
        /\ texture' = IF redrawn \/ cache.dirty THEN pixels ELSE texture
        /\ font' = [font EXCEPT ![active].dirty = FALSE]
        /\ cells' = <<end.cells, cells[1]>>
        /\ text' = [s \in Session |-> [text[s] EXCEPT !.dirty = Max({@ - 1, 0})]]
        /\ past' = [past EXCEPT !.fontOf = IF redrawn THEN active ELSE @, !.evicted = @ \cup end.evicted]
        /\ UNCHANGED <<active, ttf, meant, calls>>

Next ==
    \/ \E s \in Session : Download(s) \/ NormalChar(s) \/ SetActive(s)
    \/ SetFont
    \/ LoadFont
    \/ Prepare

Spec == Init /\ [][Next]_vars

-------------------------------------------------------------------------------
(* Properties *)

\* Every dynamic glyph has one code point and every code point one glyph, which is
\* its own picture, through all evictions.
AtlasIsAMap ==
    /\ \A u \in Codes : cache.map[u] \in Dynamic =>
          /\ cache.back[cache.map[u]] = u
          /\ cache.map[u] < cache.next
          /\ ~past.cleared => cache.pixels[cache.map[u]] = (IF ttf THEN Ttf(u) ELSE Box(u))
    /\ \A i \in Dynamic : i < cache.next => cache.map[cache.back[i]] = i

\* Once nothing is to be redrawn or uploaded both buffers show of every cell the
\* glyph of the code point its host has printed: in the built-in font, in the soft
\* font the active session's host has downloaded, or in the font of the atlas.  This
\* fails if that glyph was evicted, for a glyph that is on the screen is not noticed
\* to be used unless it is drawn; if '?' was shown for want of room; if the atlas
\* was made for another session's soft font, which it keeps when another becomes
\* active; and once the atlas was cleared for another font.
Settled == ~cache.dirty /\ ~font[active].dirty /\ \A s \in Session : text[s].dirty = 0
SoftGlyph(c) == IF c \in DOMAIN meant[active].glyphs THEN meant[active].glyphs[c] ELSE Rom(c)
Picture(u) ==
    IF u \in DOMAIN Cp437 THEN SoftGlyph(Cp437[u]) ELSE IF u < BASE THEN SoftGlyph(u)
    ELSE IF ttf THEN Ttf(u) ELSE Box(u)
ShowsWhatWasPrinted ==
    Settled /\ past.evicted = {} /\ cache.hand = 0 /\ past.fontOf \in {0, active} /\ ~past.cleared =>
        \A s \in Session, b \in 1 .. 2 : texture[cells[b][s]] = Picture(meant[s].code)

GlyphsAreTheirs == AtlasIsAMap /\ ShowsWhatWasPrinted
===============================================================================
