----------------------------- MODULE MCCompositor -----------------------------
(***************************************************************************)
(* TLC instances of Compositor: the layout arithmetic of one full-window    *)
(* pane and of two panes side by side with split_ratio 0.5.                 *)
(***************************************************************************)
EXTENDS Compositor

CONSTANTS left, right

\* One pane over the whole window.
WholeWindow == [p \in {left} |-> [w \in Widths |-> w]]

\* size_a = (int)(w * 0.5), size_b = w - size_a.
SideBySide ==
    [p \in {left, right} |->
        [w \in Widths |-> IF p = left THEN w \div 2 ELSE w - (w \div 2)]]

\* Both panes feel every resize: the window's height changes.
Stacked == [p \in {left, right} |-> [w \in Widths |-> w]]

===============================================================================
