----------------------------- MODULE SessionScreen -----------------------------
(***************************************************************************)
(* The grid of a single session implements TextScreen.                      *)
(***************************************************************************)
EXTENDS MCSessionGrid

\* The screen the application is entitled to think of: the grid with all queued
\* operations applied.  A history variable keeps it, so that TLC works it out
\* once a step.
VARIABLE seen

SeenOf(s) ==
    LET t == Settled(s)
    IN [rows |-> t.rows, text |-> Text(t), y |-> t.y, wrap |-> t.x = 1,
        top |-> t.top, bottom |-> t.bottom]

SeenInit == Init /\ seen = SeenOf(sess[1])
SeenNext == Next /\ seen' = SeenOf(sess'[1])
SeenSpec == SeenInit /\ [][SeenNext]_<<vars, seen>>

Screen == INSTANCE TextScreen WITH
    Rows <- CHOOSE h \in Heights : TRUE,
    text <- seen.text, y <- seen.y, wrap <- seen.wrap,
    top <- seen.top, bottom <- seen.bottom

\* The queue, the ring and the frames implement a screen on which instructions
\* take effect at once.
ImplementsScreen == Screen!Spec

===============================================================================
