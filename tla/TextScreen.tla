------------------------------ MODULE TextScreen ------------------------------
(***************************************************************************)
(* What a session's screen promises to the application that writes to it:   *)
(* instructions take effect at once and in the order they were sent.  The   *)
(* screen is one column wide, with SCROLLBACK lines of history above it in  *)
(* rows -SCROLLBACK .. -1; wrap says that the next character starts a line. *)
(***************************************************************************)
EXTENDS Integers

CONSTANTS Rows, SCROLLBACK, Char, Blank, Counts

VARIABLES text, y, wrap, top, bottom

screen == <<text, y, wrap, top, bottom>>

Line == 0 .. Rows - 1
Smaller(a, b) == IF a < b THEN a ELSE b

\* Lines t .. b move up or down by n, blank lines come in.
Up(f, t, b, n) ==
    [r \in DOMAIN f |-> IF r \notin t .. b THEN f[r]
                        ELSE IF r + n <= b THEN f[r + n] ELSE Blank]
Down(f, t, b, n) ==
    [r \in DOMAIN f |-> IF r \notin t .. b THEN f[r]
                        ELSE IF r - n >= t THEN f[r - n] ELSE Blank]

\* Scrolling the whole screen moves its top line into the history.
Scroll(f, n) ==
    IF top = 0 /\ bottom = Rows - 1
    THEN Up(f, -SCROLLBACK, bottom, n) ELSE Up(f, top, bottom, n)

\* The cursor goes to the next line, which may have to scroll into view.
Below == Smaller(y + 1, bottom)
Fed == IF y + 1 > bottom THEN Scroll(text, 1) ELSE text

PutChar(c) ==
    /\ y' = IF wrap THEN Below ELSE y
    /\ text' = [(IF wrap THEN Fed ELSE text) EXCEPT ![y'] = c]
    /\ wrap' = TRUE
    /\ UNCHANGED <<top, bottom>>

LineFeed == y' = Below /\ text' = Fed /\ UNCHANGED <<wrap, top, bottom>>

ReverseIndex ==
    /\ y' = IF y - 1 < top THEN top ELSE y - 1
    /\ text' = IF y - 1 < top THEN Down(text, top, bottom, 1) ELSE text
    /\ UNCHANGED <<wrap, top, bottom>>

CarriageReturn == wrap' = FALSE /\ UNCHANGED <<text, y, top, bottom>>

MoveTo(r) == y' = r /\ wrap' = FALSE /\ UNCHANGED <<text, top, bottom>>

SetMargins(t, b) ==
    /\ top' = t /\ bottom' = b
    /\ y' = 0 /\ wrap' = FALSE
    /\ UNCHANGED text

Edit(f) == text' = f /\ UNCHANGED <<y, wrap, top, bottom>>

InRegion == y \in top .. bottom
InsertLines(n) == InRegion /\ Edit(Down(text, y, bottom, n))
DeleteLines(n) == InRegion /\ Edit(Up(text, y, bottom, n))
ScrollUp(n) == Edit(Scroll(text, n))
ScrollDown(n) == Edit(Down(text, top, bottom, n))

\* Erase from the cursor to the end of the screen, and all of it.
EraseBelow == Edit([r \in DOMAIN text |->
                       IF r > y \/ (r = y /\ ~wrap) THEN Blank ELSE text[r]])
EraseAll == Edit([r \in DOMAIN text |-> IF r >= 0 THEN Blank ELSE text[r]])

Init ==
    /\ text = [r \in -SCROLLBACK .. Rows - 1 |-> Blank]
    /\ y = 0 /\ wrap = FALSE
    /\ top = 0 /\ bottom = Rows - 1

Next ==
    \/ \E c \in Char : PutChar(c)
    \/ LineFeed \/ ReverseIndex \/ CarriageReturn
    \/ \E r \in Line : MoveTo(r)
    \/ \E t, b \in Line : t <= b /\ SetMargins(t, b)
    \/ \E n \in Counts :
        InsertLines(n) \/ DeleteLines(n) \/ ScrollUp(n) \/ ScrollDown(n)
    \/ EraseBelow \/ EraseAll

Spec == Init /\ [][Next]_screen

===============================================================================
