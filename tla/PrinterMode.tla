------------------------------ MODULE PrinterMode ------------------------------
(***************************************************************************)
(* Printer controller mode of a session (kterm_impl.h): between CSI 5 i and *)
(* CSI 4 i what the host sends goes to the printer.  The end of the mode is *)
(* recognized in the stream itself, in its 7-bit and its 8-bit form, by a   *)
(* window over the last bytes.                                              *)
(***************************************************************************)
EXTENDS Integers, Sequences, SequencesExt

CONSTANTS
    Bytes,      \* what the host sends
    WINDOW,     \* bytes in printer_buffer (7)
    MaxBytes    \* bound on the bytes sent in one controller mode

VARIABLES
    enabled,    \* printer_controller_enabled
    buffer,     \* printer_buffer
    printed,    \* what printer_callback was given
    received    \* ghost: what the host has sent since the mode began

print == <<enabled, buffer, printed, received>>

\* ESC [ 4 i and CSI 4 i
Exits == {<<"ESC", "[", "4", "i">>, <<"CSI", "4", "i">>}

-------------------------------------------------------------------------------
\* Wrong variant: a mismatch flushes the whole window.
KeptNothing(window) ==
    IF \E e \in Exits : IsPrefix(window, e) THEN window ELSE << >>

\* The longest rest of the window that may still become an exit sequence.
Kept(window) ==
    LET from == CHOOSE k \in 1 .. Len(window) + 1 :
            /\ \E e \in Exits : IsPrefix(SubSeq(window, k, Len(window)), e)
            /\ \A j \in 1 .. k - 1 :
                  \A e \in Exits : ~IsPrefix(SubSeq(window, j, Len(window)), e)
    IN  SubSeq(window, from, Len(window))

PrinterInit ==
    /\ enabled = FALSE
    /\ buffer = << >>
    /\ printed = << >>
    /\ received = << >>

\* CSI 5 i
Enable ==
    /\ ~enabled
    /\ enabled' = TRUE
    /\ printed' = << >>
    /\ received' = << >>
    /\ UNCHANGED buffer

\* KTerm_ProcessPrinterControllerChar
ControllerChar ==
    /\ enabled /\ Len(received) < MaxBytes
    /\ \E c \in Bytes :
          LET full == Len(buffer) >= WINDOW
              window == Append(IF full THEN Tail(buffer) ELSE buffer, c)
              kept == Kept(window)
              out == (IF full THEN <<buffer[1]>> ELSE << >>)
                        \o SubSeq(window, 1, Len(window) - Len(kept))
          IN  /\ received' = Append(received, c)
              /\ printed' = printed \o out
              /\ enabled' = (kept \notin Exits)
              /\ buffer' = IF kept \in Exits THEN << >> ELSE kept

PrinterNext == Enable \/ ControllerChar

PrinterSpec == PrinterInit /\ [][PrinterNext]_print

-------------------------------------------------------------------------------
\* The printer is given every byte once and in order, but for the exit sequence; the
\* mode ends with the first one, however it overlaps with what only looks like one.
PrinterGetsAll ==
    \/ enabled /\ printed \o buffer = received
              /\ \A e \in Exits : ~IsSuffix(e, received)
    \/ ~enabled /\ (received = << >> \/ \E e \in Exits : received = printed \o e)

===============================================================================
