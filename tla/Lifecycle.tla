------------------------------- MODULE Lifecycle -------------------------------
(***************************************************************************)
(* What a terminal owns: the buffers that KTerm_Init and KTerm_InitSession  *)
(* allocate, that RIS and a split allocate again, that a resize replaces,   *)
(* that hosts make it add to, and that KTerm_Cleanup frees, when any of     *)
(* these allocations may fail.                                             *)
(*                                                                         *)
(* A block is named by the session it belongs to, 0 for the terminal, and   *)
(* by the pointer that holds it.  What KTerm_InitCompute and                *)
(* KTerm_InitTabStops allocate does not fail here: they use what they get   *)
(* without looking at it.                                                  *)
(***************************************************************************)
EXTENDS Integers, Sequences, SequencesExt, FiniteSets

CONSTANTS
    Session,        \* 1 .. n, in the order in which they are initialized
    Sizes,          \* what sessions are resized to, numbers of cells
    MaxSteps

VARIABLES
    mem,        \* pointers, what no pointer holds any more, and mistakes
    ready,      \* is there a terminal?
    open,       \* sessions with session_open
    size,       \* cells each session believes to have
    reset,      \* sessions that were initialized more than once, 0 after a RIS
    torn,       \* sessions whose initialization failed in a living terminal
    steps
life == <<mem, ready, open, size, reset, torn, steps>>

Buffers == {"screen", "alt", "row_dirty"}
Graphics == {"sixel", "strips", "regis", "kitty"}
OfSession == Buffers \cup Graphics \cup
             {"input", "tabs", "keys", "sequences", "macros", "new screen", "new alt", "new row_dirty"}
OfTerm == {"layout", "glyph_map", "glyph_last_used", "atlas_to_codepoint", "font_atlas", "render buffers",
           "extensions", "compute", "sixel pipeline"}
Block == (Session \X OfSession) \cup ({0} \X OfTerm)

\* The pointers that hold a block, those to a block that was freed, and what no
\* pointer holds any more; of the buffers of a session also how large they are.
Owns(m, b) == b \in m.own
FreeBlocks(m, B) ==
    [m EXCEPT !.own = @ \ B, !.gone = @ \cup (B \cap m.own), !.twice = @ \/ B \cap m.gone # {}]
ForgetBlocks(m, B) == [m EXCEPT !.own = @ \ B, !.gone = @ \ B, !.lost = @ \cup (B \cap m.own)]
ReleaseBlocks(m, B) == ForgetBlocks(FreeBlocks(m, B), B)
Assign(m, b) == [ForgetBlocks(m, {b}) EXCEPT !.own = @ \cup {b}]
Alloc(m, b, oom) == IF b \in oom THEN ForgetBlocks(m, {b}) ELSE Assign(m, b)
FailInit(m) == [m EXCEPT !.ok = FALSE]
ResetGraphics(m, x) == ReleaseBlocks(m, {x} \X Graphics)

-------------------------------------------------------------------------------
\* A buffer of a session is freed and allocated for n cells.
Renew(m, b, oom) == Alloc(FreeBlocks(m, {b}), b, oom)
NewBuffer(m, x, f, n, oom) == [Renew(m, <<x, f>>, oom) EXCEPT !.cells[x][f] = n]

\* Wrong variant: without a second buffer the first is freed and not forgotten.
InitSessionDangling(m, x, n, oom) ==
    LET m1 == Alloc(ResetGraphics(m, x), <<x, "input">>, oom)
        m2 == NewBuffer(m1, x, "screen", n, oom)
        m3 == NewBuffer(m2, x, "alt", n, oom)
        m4 == NewBuffer(m3, x, "row_dirty", n, oom)
    IN  IF <<x, "input">> \in oom THEN FailInit(m1)
        ELSE IF <<x, "screen">> \in oom THEN FailInit(m2)
        ELSE IF <<x, "alt">> \in oom THEN FailInit(FreeBlocks(m3, {<<x, "screen">>}))
        ELSE IF <<x, "row_dirty">> \in oom
             THEN FailInit(ReleaseBlocks(m4, {x} \X {"screen", "alt"}))
        ELSE ForgetBlocks(m4, {<<x, "sequences">>})
\* KTerm_InitSession: the input queue takes a new buffer without freeing the one
\* it has, the defaults set the number of user defined keys to zero.
InitSession(m, x, n, oom) ==
    LET m1 == Alloc(ResetGraphics(m, x), <<x, "input">>, oom)
        m2 == NewBuffer(m1, x, "screen", n, oom)
        m3 == NewBuffer(m2, x, "alt", n, oom)
        m4 == NewBuffer(m3, x, "row_dirty", n, oom)
    IN  IF <<x, "input">> \in oom THEN FailInit(m1)
        ELSE IF <<x, "screen">> \in oom THEN FailInit(m2)
        ELSE IF <<x, "alt">> \in oom THEN FailInit(ReleaseBlocks(m3, {<<x, "screen">>}))
        ELSE IF <<x, "row_dirty">> \in oom
             THEN FailInit(ReleaseBlocks(m4, {x} \X {"screen", "alt"}))
        ELSE ForgetBlocks(m4, {<<x, "sequences">>})

\* KTerm_Init: the sessions one after the other, then the terminal's own blocks;
\* how each is set, and whether it has to be there.
InitTabStops(m, x) == Renew(m, <<x, "tabs">>, {})
StartSession(m, x, n, oom) ==
    LET m1 == InitSession(m, x, n[x], oom)
    IN  IF ~m.ok THEN m ELSE IF m1.ok THEN InitTabStops(m1, x) ELSE m1

Stage(name, how, must) == [block |-> <<0, name>>, how |-> how, must |-> must]
CreateLayout == Stage("layout", "anew", TRUE)
GlyphMap == Stage("glyph_map", "freed", TRUE)
GlyphLastUsed == Stage("glyph_last_used", "anew", TRUE)
AtlasToCodepoint == Stage("atlas_to_codepoint", "anew", TRUE)
CreateFontTexture == Stage("font_atlas", "once", FALSE)
InitCompositor == Stage("render buffers", "anew", TRUE)
InitCompute == Stage("compute", "once", FALSE)
InitSixelEngine == Stage("sixel pipeline", "once", FALSE)
RegisterExtensions == Stage("extensions", "once", FALSE)
Stages ==
    <<CreateLayout, GlyphMap, GlyphLastUsed, AtlasToCodepoint, CreateFontTexture, InitCompositor,
      InitCompute, InitSixelEngine, RegisterExtensions>>
StartBlock(m, stage, oom) ==
    LET b == stage.block
        m1 == IF stage.how = "once" /\ Owns(m, b) THEN m
              ELSE IF stage.how = "freed" THEN Renew(m, b, oom)
              ELSE Alloc(m, b, oom)
    IN  IF ~m.ok THEN m ELSE IF stage.must /\ b \in oom THEN FailInit(m1) ELSE m1

Numbered == [x \in 1 .. Cardinality(Session) |-> x]
InitTerm(m, n, oom) ==
    LET sessions == FoldLeft(LAMBDA m0, x : StartSession(m0, x, n, oom), m, Numbered)
    IN  FoldLeft(LAMBDA m0, stage : StartBlock(m0, stage, oom), sessions, Stages)

\* KTerm_Cleanup: the blocks of the terminal, those of all sessions, and the terminal itself: nothing holds what it left.
CleanupSession(m, sessions) == ReleaseBlocks(m, sessions \X (OfSession \ {"strips"}))
Cleanup(m) ==
    LET term == ReleaseBlocks(m, {0} \X (OfTerm \ {"sixel pipeline"}))
    IN  ForgetBlocks(CleanupSession(term, Session), Block)

\* At most one allocation of a call fails.
FailOne(B) == {{}} \cup {{b} : b \in B}
Needed == Buffers \cup {"input"}
Ooms == FailOne((Session \X Needed) \cup ({0} \X (OfTerm \ {"compute", "sixel pipeline"})))

Create ==
    /\ ~ready /\ mem.lost = {}
    /\ \E oom \in Ooms :
        LET m == InitTerm(mem, size, oom)
        IN  IF m.ok THEN mem' = m /\ ready' = TRUE /\ open' = {1}
            ELSE mem' = [Cleanup(m) EXCEPT !.ok = TRUE] /\ UNCHANGED <<ready, open>>
    /\ UNCHANGED <<size, reset, torn>>
Destroy ==
    /\ ready /\ ready' = FALSE /\ open' = {} /\ mem' = Cleanup(mem)
    /\ UNCHANGED <<size, reset, torn>>

\* RIS, heard by one session, initializes all of them; nobody looks at what
\* KTerm_Init returns.
RIS(x) ==
    /\ \E oom \in Ooms :
        LET m == InitTerm(ResetGraphics(mem, x), size, oom)
            failed == {y \in Session : \E f \in Needed : <<y, f>> \in oom}
        IN  /\ mem' = [m EXCEPT !.ok = TRUE]
            /\ open' = {y \in Session : (y = 1 /\ 1 \notin failed)
                                    \/ (y \in open /\ \E z \in failed : y >= z)}
            /\ torn' = torn \cup failed \cup IF m.ok THEN {} ELSE {0}
    /\ reset' = reset \cup Session \cup {0} /\ UNCHANGED <<ready, size>>

\* KTerm_SplitPane takes the first session that is closed; it may open the
\* session and then find no pane for it.
SplitPane ==
    /\ open # Session
    /\ LET x == CHOOSE y \in Session \ open : \A z \in Session \ open : y <= z
       IN  \E oom \in FailOne({x} \X Needed) :
            LET m == InitSession(mem, x, size[x], oom)
            IN  /\ mem' = [m EXCEPT !.ok = TRUE]
                /\ IF m.ok THEN open' = open \cup {x} /\ UNCHANGED torn
                   ELSE torn' = torn \cup {x} /\ UNCHANGED open
                /\ reset' = reset \cup {x}
    /\ UNCHANGED <<ready, size>>
ClosePane(x) ==
    /\ open' = open \ {x}
    /\ UNCHANGED <<mem, ready, size, reset, torn>>

\* KTerm_ApplyResizeOp: nothing changes before all three are there.
Anew == [screen |-> "new screen", alt |-> "new alt", row_dirty |-> "new row_dirty"]
Grown(x, f) == <<x, Anew[f]>>
Replace(m, x, f, n) ==
    [Renew(m, <<x, f>>, {}) EXCEPT !.own = @ \ {Grown(x, f)}, !.cells[x][f] = n]
ApplyResize(x) ==
    \E n \in Sizes \ {size[x]}, oom \in FailOne({Grown(x, f) : f \in Buffers}) :
        LET m1 == Alloc(mem, Grown(x, "screen"), oom)
            m2 == Alloc(m1, Grown(x, "row_dirty"), oom)
            m3 == Alloc(m2, Grown(x, "alt"), oom)
            m4 == Replace(Replace(Replace(m3, x, "screen", n), x, "row_dirty", n), x, "alt", n)
        IN  /\ mem' = IF Grown(x, "screen") \in oom THEN m1
                      ELSE IF Grown(x, "row_dirty") \in oom
                           THEN ReleaseBlocks(m2, {Grown(x, "screen")})
                      ELSE IF Grown(x, "alt") \in oom
                           THEN ReleaseBlocks(m3, {Grown(x, "screen"), Grown(x, "row_dirty")})
                      ELSE m4
            /\ size' = IF oom = {} THEN [size EXCEPT ![x] = n] ELSE size
            /\ UNCHANGED <<ready, open, reset, torn>>

\* What hosts store: an image, a macro, the sequence of a key; or the half of it
\* that could be allocated.
HostStores(x) ==
    /\ \E F \in {{"sixel"}, {"strips"}, {"sixel", "strips"}, {"regis"}, {"kitty"}, {"keys"},
                 {"keys", "sequences"}, {"macros"}} :
        mem' = [mem EXCEPT !.own = @ \cup ({x} \X F)]
    /\ UNCHANGED <<ready, open, size, reset, torn>>

\* Every frame looks at the cells of every session, open or not: without them
\* there is no next frame.
Alive == ready /\ \A x \in Session : Owns(mem, <<x, "screen">>)

LifeInit ==
    /\ mem = [own |-> {}, gone |-> {}, lost |-> {}, twice |-> FALSE, ok |-> TRUE,
              cells |-> [x \in Session |-> [f \in Buffers |-> 0]]]
    /\ ready = FALSE /\ open = {} /\ size = [x \in Session |-> 1] /\ reset = {} /\ torn = {} /\ steps = 0
LifeNext ==
    /\ steps < MaxSteps /\ steps' = steps + 1
    /\ \/ Create \/ (ready /\ Destroy) \/ (Alive /\ SplitPane) \/ \E x \in open : ClosePane(x)
       \/ \E x \in Session : Alive /\ (RIS(x) \/ ApplyResize(x) \/ HostStores(x))
LifeSpec == LifeInit /\ [][LifeNext]_life

-------------------------------------------------------------------------------
\* What a second initialization leaves behind, and what Cleanup forgets.
Abandoned ==
    ({0} \X (IF 0 \in reset THEN {"layout", "glyph_last_used", "atlas_to_codepoint", "render buffers"} ELSE {}))
    \cup ((reset \ {0}) \X {"input", "sequences"})
    \cup (IF ready THEN {} ELSE (Session \X {"strips"}) \cup {<<0, "sixel pipeline">>})

\* Whatever allocation fails, in creating a terminal, resetting it, splitting a
\* pane or resizing one, nothing is freed twice or kept as a pointer to what was
\* freed; the buffers of a session are there and of the size it believes to have;
\* and when the terminal is gone so is all it owned.  What is lost is known: RIS
\* abandons the layout, two tables of the glyph cache and the render buffers, a
\* session that is initialized again its input buffer and the sequences of its
\* keys, and Cleanup forgets the strips of sixel images and their pipeline.  And a
\* session whose initialization fails in a living terminal has no buffers, though
\* every frame looks at those of all sessions.
OwnsWhatItUses ==
    /\ ~mem.twice /\ mem.lost \subseteq Abandoned
    /\ mem.gone = {} /\ (~ready => mem.own = {})
    /\ ready =>
        /\ \A x \in Session \ torn, f \in Buffers : Owns(mem, <<x, f>>) /\ mem.cells[x][f] = size[x]
        /\ \A x \in Session \ torn : Owns(mem, <<x, "input">>)
        /\ 0 \notin torn => \A f \in OfTerm \ {"font_atlas", "extensions"} : Owns(mem, <<0, f>>)
===============================================================================
