------------------------------ MODULE Multiplexer ------------------------------
(***************************************************************************)
(* The tiling multiplexer: the pane tree of kt_layout.h, KTerm_SplitPane,   *)
(* KTerm_ClosePane and the prefix key commands of KTerm_QueueInputEvent,    *)
(* the per-session key event buffers and the loop of KTerm_Update that      *)
(* sends them to the host.  All of it runs on the application's thread.     *)
(*                                                                         *)
(* A pane is named by the way to it from the root, a sequence of "a" and    *)
(* "b".  A split keeps the pane it splits and adds two children, so names   *)
(* behave as the KTermPane pointers do; when a pane is closed its sibling   *)
(* takes the place, and the name, of the parent that is freed.              *)
(***************************************************************************)
EXTENDS Integers, Sequences, SequencesExt, FiniteSets

CONSTANTS
    MAX_SESSIONS,           \* number of sessions
    KEY_EVENT_BUFFER_SIZE,  \* slots of a key event buffer; one stays free
    Windows,                \* window sizes, records [w, h]
    Ratios,                 \* split ratios in quarters; 2 is the keyboard's 0.5f
    CloseLast               \* may the last pane be closed?

ASSUME SessionsAssumption == MAX_SESSIONS \in Nat \ {0}
ASSUME KeysAssumption == KEY_EVENT_BUFFER_SIZE \in Nat \ {0, 1}
ASSUME WindowsAssumption == Windows \subseteq [w : Nat \ {0}, h : Nat \ {0}]
ASSUME RatiosAssumption == Ratios \subseteq 0 .. 4
ASSUME CloseAssumption == CloseLast \in BOOLEAN

VARIABLES
    window,         \* layout->width, layout->height
    leaf,           \* [leaf panes -> session_index]
    split,          \* [split panes -> [type, split_ratio]]
    focused,        \* layout->focused
    open,           \* session_open
    dims,           \* the size each session is told to have
    active,         \* term->active_session
    mux,            \* mux_input.active
    keys            \* number of keys in each session's key event buffer

layout == <<window, leaf, split, focused>>
vars == <<layout, open, dims, active, mux, keys>>

Sessions == 0 .. MAX_SESSIONS - 1
Types == {"horizontal", "vertical"}
Root == << >>
IsPane(p) == p \in DOMAIN leaf \union DOMAIN split

-------------------------------------------------------------------------------
(* The tree, and the arithmetic of KTermLayout_Recalculate. *)

\* Child c of a split pane s that covers the rectangle r.
Child(r, s, c) ==
    IF s.type = "horizontal"
    THEN LET a == (r.w * s.ratio) \div 4
         IN IF c = "a" THEN [r EXCEPT !.w = a] ELSE [r EXCEPT !.x = @ + a, !.w = @ - a]
    ELSE LET a == (r.h * s.ratio) \div 4
         IN IF c = "a" THEN [r EXCEPT !.h = a] ELSE [r EXCEPT !.y = @ + a, !.h = @ - a]

\* The rectangle of pane p in a window, under the splits sp.
Rect(win, sp, p) ==
    LET area[n \in 0 .. Len(p)] ==
            IF n = 0 THEN [x |-> 0, y |-> 0, w |-> win.w, h |-> win.h]
            ELSE Child(area[n - 1], sp[SubSeq(p, 1, n - 1)], p[n])
    IN area[Len(p)]

\* Depth first order, child_a before child_b.
Before(p, q) ==
    \E n \in 1 .. Len(p) :
        /\ n <= Len(q) /\ SubSeq(p, 1, n - 1) = SubSeq(q, 1, n - 1)
        /\ p[n] = "a" /\ q[n] = "b"
InOrder(l) == SetToSortSeq(DOMAIN l, Before)

\* What the resize callbacks leave behind: a session is told the size of the
\* last pane that shows it.
Resized(win, l, sp) ==
    [s \in Sessions |->
        LET panes == {p \in DOMAIN l : l[p] = s}
            last == CHOOSE p \in panes : \A q \in panes \ {p} : Before(q, p)
        IN IF panes = {} THEN dims[s]
           ELSE LET r == Rect(win, sp, last) IN <<r.w, r.h>>]

\* KTermLayout_Split: the target becomes a split, its session moves to child_a.
SplitLeaf(p, type, ratio, s) ==
    /\ leaf' = [q \in (DOMAIN leaf \ {p}) \union {p \o <<"a">>, p \o <<"b">>} |->
                   IF q = p \o <<"a">> THEN leaf[p]
                   ELSE IF q = p \o <<"b">> THEN s ELSE leaf[q]]
    /\ split' = [q \in DOMAIN split \union {p} |->
                   IF q = p THEN [type |-> type, ratio |-> ratio] ELSE split[q]]
    /\ dims' = Resized(window, leaf', split')

Sibling(p) == Front(p) \o (IF Last(p) = "a" THEN <<"b">> ELSE <<"a">>)
Rest(p, q) == SubSeq(q, Len(p) + 1, Len(q))

\* Names before and after pane p and its parent are gone.
Up(p, q) == IF IsPrefix(Sibling(p), q) THEN Front(p) \o Rest(Sibling(p), q) ELSE q
Down(p, q) == IF IsPrefix(Front(p), q) THEN Sibling(p) \o Rest(Front(p), q) ELSE q

\* The leaf that is reached from pane p over first children.
FirstLeaf(l, p) ==
    CHOOSE q \in DOMAIN l : IsPrefix(p, q) /\ \A i \in Len(p) + 1 .. Len(q) : q[i] = "a"

\* KTermLayout_Close: the sibling takes the place of the parent and the focus.
CloseLeaf(p) ==
    /\ leaf' = [q \in {Up(p, r) : r \in DOMAIN leaf \ {p}} |-> leaf[Down(p, q)]]
    /\ split' = [q \in {Up(p, r) : r \in DOMAIN split \ {Front(p)}} |-> split[Down(p, q)]]
    /\ focused' = FirstLeaf(leaf', Front(p))
    /\ dims' = Resized(window, leaf', split')

-------------------------------------------------------------------------------
(* Sessions. *)

\* Wrong variant: the open sessions are taken to be the first ones.
FirstUnused == Cardinality({s \in Sessions : open[s]})

ClosedSessions == {s \in Sessions : ~open[s]}
NewSession == CHOOSE s \in ClosedSessions : \A t \in ClosedSessions : s <= t

\* KTerm_SplitPane on a leaf.  With no session left it does nothing.
\* KTerm_InitSession leaves the keys of the session's former life in its buffer.
SplitPane(p, type, ratio) ==
    IF ClosedSessions = {}
    THEN UNCHANGED <<leaf, split, dims, open>>
    ELSE /\ open' = [open EXCEPT ![NewSession] = TRUE]
         /\ SplitLeaf(p, type, ratio, NewSession)

\* KTerm_SplitPane whose target is NULL or no leaf, or whose allocation of the
\* children fails: the session has been opened by then.
SplitPaneFails ==
    /\ ClosedSessions # {}
    /\ open' = [open EXCEPT ![NewSession] = TRUE]
    /\ UNCHANGED <<leaf, split, dims>>

\* Wrong variant: the focus moves and the active session does not.
ClosePaneInactive(p) ==
    /\ IF p \in DOMAIN leaf /\ p # Root
       THEN CloseLeaf(p) ELSE UNCHANGED <<leaf, split, focused, dims>>
    /\ open' = IF p \in DOMAIN leaf THEN [open EXCEPT ![leaf[p]] = FALSE] ELSE open
    /\ UNCHANGED active

\* KTerm_ClosePane.  The layout keeps its last pane, the session is closed.
ClosePane(p) ==
    /\ IF p \in DOMAIN leaf /\ p # Root
       THEN CloseLeaf(p) ELSE UNCHANGED <<leaf, split, focused, dims>>
    /\ open' = IF p \in DOMAIN leaf THEN [open EXCEPT ![leaf[p]] = FALSE] ELSE open
    /\ active' = IF focused' \in DOMAIN leaf' THEN leaf'[focused'] ELSE active

CanClose(p) == p = Root => CloseLast \/ p \in DOMAIN split

-------------------------------------------------------------------------------
(* KTerm_QueueInputEvent, one disjunct per kind of key. *)

\* The session a key is routed to.
Target == IF focused \in DOMAIN leaf THEN leaf[focused] ELSE active

\* A key for the host; a full buffer drops it.
Deliver ==
    /\ keys' = IF keys[Target] < KEY_EVENT_BUFFER_SIZE - 1
               THEN [keys EXCEPT ![Target] = @ + 1] ELSE keys
    /\ UNCHANGED <<layout, open, dims, active>>

OrdinaryKey == ~mux /\ Deliver /\ UNCHANGED mux
PrefixKey == ~mux /\ mux' = TRUE /\ UNCHANGED <<layout, open, dims, active, keys>>
PrefixAgain == mux /\ mux' = FALSE /\ Deliver
UnknownCommand == mux /\ mux' = FALSE /\ UNCHANGED <<layout, open, dims, active, keys>>

\* " and %: split the focused leaf and go to the new pane.
SplitCommand(type) ==
    /\ mux /\ mux' = FALSE
    /\ focused \in DOMAIN leaf
    /\ SplitPane(focused, type, 2)
    /\ IF ClosedSessions = {} THEN UNCHANGED <<focused, active>>
       ELSE focused' = focused \o <<"b">> /\ active' = NewSession
    /\ UNCHANGED <<window, keys>>

\* x
CloseCommand ==
    /\ mux /\ mux' = FALSE
    /\ CanClose(focused)
    /\ ClosePane(focused)
    /\ UNCHANGED <<window, keys>>

\* o, n and the arrows: the next leaf, the first one after the last and also
\* when the focused pane is no leaf.
NextCommand ==
    /\ mux /\ mux' = FALSE
    /\ LET panes == InOrder(leaf)
           here == {i \in 1 .. Len(panes) - 1 : panes[i] = focused}
       IN focused' = panes[IF here = {} THEN 1 ELSE (CHOOSE i \in here : TRUE) + 1]
    /\ active' = leaf[focused']
    /\ UNCHANGED <<window, leaf, split, open, dims, keys>>

Command == (\E type \in Types : SplitCommand(type)) \/ CloseCommand \/ NextCommand

-------------------------------------------------------------------------------
(* The application. *)

\* KTerm_SplitPane on a leaf, which does not move the focus.
HostSplit(p, type, ratio) ==
    /\ p \in DOMAIN leaf /\ ratio \in Ratios
    /\ SplitPane(p, type, ratio)
    /\ UNCHANGED <<window, focused, active, mux, keys>>

HostSplitFails ==
    /\ SplitPaneFails
    /\ UNCHANGED <<window, focused, active, mux, keys>>

HostClose(p) ==
    /\ IsPane(p) /\ CanClose(p)
    /\ ClosePane(p)
    /\ UNCHANGED <<window, mux, keys>>

\* KTerm_SetActiveSession, called by the application, for DECSN or for DECSCCM.
SetActiveSession(s) ==
    /\ active' = s
    /\ UNCHANGED <<layout, open, dims, mux, keys>>

\* Wrong variant: the layout is not calculated anew.
ResizeWindowOnly(win) ==
    /\ window' = win
    /\ UNCHANGED <<leaf, split, focused, open, dims, active, mux, keys>>

\* KTerm_Resize.
Resize(win) ==
    /\ window' = win
    /\ dims' = Resized(win, leaf, split)
    /\ UNCHANGED <<leaf, split, focused, open, active, mux, keys>>

\* KTerm_Update sends the keys of the active session to its host.
Update ==
    /\ keys[active] > 0
    /\ keys' = [keys EXCEPT ![active] = 0]
    /\ UNCHANGED <<layout, open, dims, active, mux>>

Init ==
    /\ window \in Windows
    /\ leaf = [p \in {Root} |-> 0]
    /\ split = [p \in {} |-> 0]
    /\ focused = Root
    /\ open = [s \in Sessions |-> s = 0]
    /\ dims = [s \in Sessions |-> <<window.w, window.h>>]
    /\ active = 0
    /\ mux = FALSE
    /\ keys = [s \in Sessions |-> 0]

Keyboard == OrdinaryKey \/ PrefixKey \/ PrefixAgain \/ UnknownCommand \/ Command
Host ==
    \/ \E p \in DOMAIN leaf, type \in Types, ratio \in Ratios : HostSplit(p, type, ratio)
    \/ HostSplitFails
    \/ \E p \in DOMAIN leaf \union DOMAIN split : HostClose(p)
    \/ \E s \in Sessions : SetActiveSession(s)
    \/ \E win \in Windows : Resize(win)

Next == Keyboard \/ Host \/ Update

Spec == Init /\ [][Next]_vars

-------------------------------------------------------------------------------
(* Properties *)

\* No two panes show the same session.
OneSessionPerPane == \A p, q \in DOMAIN leaf : leaf[p] = leaf[q] => p = q

\* Whatever moves the focus makes the session that gets the keys from now on
\* the one whose keys KTerm_Update sends.
FocusActivates == [][focused' # focused => Target' = active']_vars

\* Every cell of the window belongs to exactly one leaf.
PanesTile ==
    \A x \in 0 .. window.w - 1, y \in 0 .. window.h - 1 :
        Cardinality({p \in DOMAIN leaf :
            LET r == Rect(window, split, p)
            IN x \in r.x .. r.x + r.w - 1 /\ y \in r.y .. r.y + r.h - 1}) = 1

\* The session a pane shows is open, so that no split takes it for another
\* pane, and it has been told the size of its pane.
SessionFitsPane ==
    \A p \in DOMAIN leaf :
        LET r == Rect(window, split, p)
        IN open[leaf[p]] /\ dims[leaf[p]] = <<r.w, r.h>>

\* However the window and the panes were cut, what is shown fits together: the
\* panes cover the window without overlap, and each session has its pane's size.
PanesFit == PanesTile /\ SessionFitsPane

===============================================================================
