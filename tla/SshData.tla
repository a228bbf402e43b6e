------------------------------- MODULE SshData -------------------------------
(***************************************************************************)
(* What the SSH client does with the data of the shell (ssh_client.c,       *)
(* my_net_on_data): the triggers of the automation are looked for with an   *)
(* Aho-Corasick automaton over a sliding window, and graphics sequences are *)
(* taken out of the text, put together whole and handed to the terminal's   *)
(* graphics parser.  The stream comes in chunks of any length.              *)
(***************************************************************************)
EXTENDS Integers, Sequences, FiniteSets, SequencesExt, Folds

CONSTANTS
    Streams,        \* what the server sends, sequences of characters
    Patterns,       \* patterns of the triggers that may be added, in order
    MAX_TRIGGERS,   \* (128)
    WINDOW,         \* size of trigger_buffer (1024), one of it for the end mark
    MaxChunk        \* bound on the length of a chunk

VARIABLES
    stream, pos,    \* the data, and how much of it has come
    g,              \* GraphicsContext: state, header, buffer
    out,            \* what has gone to the session: characters and graphics
    triggers,       \* triggers: pattern, active
    window,         \* trigger_buffer
    scan            \* the last scan: its text, what it has found, among how many

vars == <<stream, pos, g, out, triggers, window, scan>>

ESC == "e"
ST == <<ESC, "\\">>
Headers == {<<ESC, "_", "G">>, <<ESC, "P", "q">>}

Init ==
    /\ stream \in Streams
    /\ pos = 0
    /\ g = [state |-> "NORMAL", header |-> << >>, buffer |-> << >>, from |-> 0]
    /\ out = << >>
    /\ triggers = << >>
    /\ window = << >>
    /\ scan = [text |-> << >>, found |-> {}, among |-> 0]

-------------------------------------------------------------------------------
(* The automaton: its nodes are the prefixes of the patterns *)

Root == << >>
Nodes(ps) == {Root} \cup UNION {{SubSeq(ps[i], 1, n) : n \in 0 .. Len(ps[i])} : i \in DOMAIN ps}

\* ac_build: the failure link of a child is found along those of its parent.
Fail(ps) ==
    LET nodes == Nodes(ps)
        fail[n \in nodes] ==
            IF Len(n) <= 1 THEN Root
            ELSE LET walk[f \in nodes] ==
                         IF Append(f, Last(n)) \in nodes THEN Append(f, Last(n))
                         ELSE IF f = Root THEN Root ELSE walk[fail[f]]
                 IN  walk[fail[Front(n)]]
    IN  fail

\* local_matches of a node and of those along match_next.
Matches(ps, fail) ==
    LET at[n \in Nodes(ps)] ==
            IF n = Root THEN {} ELSE {i \in DOMAIN ps : ps[i] = n} \cup at[fail[n]]
    IN  at

\* ac_search: the triggers whose pattern occurs in the text.
Search(ps, text) ==
    LET nodes == Nodes(ps)
        fail == Fail(ps)
        matches == Matches(ps, fail)
        next(n, c) == LET walk[f \in nodes] ==
                              IF Append(f, c) \in nodes THEN Append(f, c)
                              ELSE IF f = Root THEN Root ELSE walk[fail[f]]
                      IN  walk[n]
        step(s, c) == LET n == next(s.node, c)
                      IN  [node |-> n, found |-> s.found \cup matches[n]]
    IN  FoldLeft(step, [node |-> Root, found |-> {}], text).found

-------------------------------------------------------------------------------
(* check_triggers *)

\* The window after a chunk: the oldest goes; of a chunk that is longer than the
\* window the beginning is kept.
Slide(w, chunk) ==
    LET space == WINDOW - Len(w) - 1
        over == Len(chunk) - space
        shift == IF over <= 0 THEN 0 ELSE IF over > Len(w) THEN Len(w) ELSE over
        kept == SubSeq(w, shift + 1, Len(w))
        room == WINDOW - Len(kept) - 1
    IN  kept \o SubSeq(chunk, 1, IF Len(chunk) < room THEN Len(chunk) ELSE room)

\* The first active trigger that is found sends its action; the window is emptied,
\* and with it the other triggers' finds.  Every trigger is for one shot.
CheckTriggers(chunk) ==
    IF triggers = << >> THEN UNCHANGED <<triggers, window, scan>>
    ELSE LET w == Slide(window, chunk)
             found == Search([i \in DOMAIN triggers |-> triggers[i].pattern], w)
             hits == {i \in found : triggers[i].active}
             i == CHOOSE i \in hits : \A j \in hits : i <= j
         IN  /\ scan' = [text |-> w, found |-> found, among |-> Len(triggers)]
             /\ IF hits = {} THEN window' = w /\ UNCHANGED triggers
                ELSE /\ triggers' = [triggers EXCEPT ![i].active = FALSE]
                     /\ window' = << >>

\* EXT;automate;trigger;add, and the Trigger lines of the configuration
AddTrigger ==
    /\ Len(triggers) < Len(Patterns) /\ Len(triggers) < MAX_TRIGGERS
    /\ triggers' = Append(triggers, [pattern |-> Patterns[Len(triggers) + 1], active |-> TRUE])
    /\ UNCHANGED <<stream, pos, g, out, window, scan>>

-------------------------------------------------------------------------------
(* Graphics.  s is the filter together with its output. *)

Text(s, cs) == [s EXCEPT !.out = @ \o [i \in DOMAIN cs |-> <<cs[i]>>]]

\* Wrong variant: of a prefix that is none only the last character is text.
HeaderLast(s, c) ==
    LET h == Append(s.header, c)
    IN  CASE h \in Headers ->
               [s EXCEPT !.state = "BUFFERING", !.buffer = h, !.header = << >>, !.from = 3]
          [] Len(h) = 2 /\ c \in {"_", "P"} -> [s EXCEPT !.header = h]
          [] OTHER -> Text([s EXCEPT !.header = << >>], <<c>>)

\* A character behind ESC: it completes a prefix, may still, or makes it text.
Header(s, c) ==
    LET h == Append(s.header, c)
    IN  CASE h \in Headers ->
               [s EXCEPT !.state = "BUFFERING", !.buffer = h, !.header = << >>, !.from = 3]
          [] Len(h) = 2 /\ c \in {"_", "P"} -> [s EXCEPT !.header = h]
          [] OTHER -> Text([s EXCEPT !.header = << >>], h)

\* KTerm_WriteRawGraphics
Graphic(s) ==
    [s EXCEPT !.out = Append(@, s.buffer), !.buffer = << >>, !.state = "NORMAL"]

\* One character.  The end of a graphic is looked for in what has come since the
\* chunk, or the graphic, began: behind position from of the buffer.
Symbol(s, c) ==
    IF s.state = "NORMAL"
    THEN IF s.header # << >> THEN Header(s, c)
         ELSE IF c = ESC THEN [s EXCEPT !.header = <<c>>] ELSE Text(s, <<c>>)
    ELSE LET t == [s EXCEPT !.buffer = Append(@, c)]
         IN  IF Len(t.buffer) - 2 >= t.from /\ IsSuffix(ST, t.buffer) THEN Graphic(t) ELSE t

\* The end of a chunk: an end mark that was cut in two is seen if nothing follows
\* it in its chunk.
ChunkEnd(s) ==
    IF s.state = "BUFFERING" /\ IsSuffix(ST, s.buffer) THEN Graphic(s) ELSE s

Filter(s, chunk) ==
    ChunkEnd(FoldLeft(Symbol, [s EXCEPT !.from = Len(s.buffer)], chunk))

-------------------------------------------------------------------------------

\* my_net_on_data
Data ==
    \E n \in 1 .. MaxChunk :
        /\ pos + n <= Len(stream)
        /\ LET chunk == SubSeq(stream, pos + 1, pos + n)
               s == Filter([state |-> g.state, header |-> g.header, buffer |-> g.buffer,
                            from |-> 0, out |-> out], chunk)
           IN  /\ CheckTriggers(chunk)
               /\ g' = [state |-> s.state, header |-> s.header, buffer |-> s.buffer, from |-> 0]
               /\ out' = s.out
        /\ pos' = pos + n
        /\ UNCHANGED stream

Next == Data \/ AddTrigger

Spec == Init /\ [][Next]_vars

-------------------------------------------------------------------------------
(* Properties *)

\* Every character goes once and in order to the text or to a graphic, wherever
\* the stream is cut: what has gone out and what is held back is what has come.
Conserved == FlattenSeq(out) \o g.header \o g.buffer = SubSeq(stream, 1, pos)

\* The automaton finds the triggers whose pattern occurs in the window, and no
\* others.
FindsOccurrences ==
    scan.found = {i \in 1 .. scan.among :
        LET p == triggers[i].pattern
        IN  \E k \in 0 .. Len(scan.text) - Len(p) : SubSeq(scan.text, k + 1, k + Len(p)) = p}

\* Cutting the stream does not matter: the session is given what it would have
\* been given had all of it come at once.
ReassembledWhole ==
    out = Filter([state |-> "NORMAL", header |-> << >>, buffer |-> << >>, from |-> 0,
                  out |-> << >>], SubSeq(stream, 1, pos)).out

\* The filter and the triggers see a stream that is cut anywhere as if it were
\* not: no character is lost and no word is overlooked.
StreamSeenWhole == Conserved /\ FindsOccurrences
=============================================================================
