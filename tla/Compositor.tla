------------------------------ MODULE Compositor ------------------------------
(***************************************************************************)
(* The double-buffered compositor (kt_composite_sit.h) between the logic    *)
(* thread, which runs KTerm_Update and ends it with KTermCompositor_Prepare,*)
(* and the render thread, which runs KTerm_Draw.  KTerm_Resize runs on the  *)
(* logic thread.                                                           *)
(*                                                                         *)
(* A pane shows one session.  What a session shows is one value, grid[p];   *)
(* the rows of a session are marked, copied and cleaned alike, so one       *)
(* row_dirty counter stands for them.  cells[b] is what render buffer b     *)
(* holds of each pane; screen is what the last KTerm_Draw presented.        *)
(***************************************************************************)
EXTENDS Integers, Sequences, SequencesExt

CONSTANTS
    Panes,          \* the leaves of the layout tree
    Widths,         \* widths of the terminal window
    PaneSize,       \* [Panes -> [Widths -> Nat]]: the layout's arithmetic
    Contents,       \* what a session can show
    Blank,          \* a zeroed render buffer
    LockReentrant,  \* may the owner of a mutex lock it again?
    SyncOutput,     \* do applications use synchronized output (DECSET 2026)?
    MaxResizes      \* bound on the number of resizes

ASSUME LayoutAssumption == PaneSize \in [Panes -> [Widths -> Nat]]
ASSUME ContentAssumption == Blank \notin Contents
ASSUME LockAssumption == LockReentrant \in BOOLEAN
ASSUME SyncAssumption == SyncOutput \in BOOLEAN
ASSUME ResizeAssumption == MaxResizes \in Nat

VARIABLES
    width, size, ops,       \* term->width, session sizes, queued RESIZE_GRID ops
    grid, dirty, held,      \* session content, row_dirty, synchronized_update
    cells, front,           \* the two render buffers and rb_front
    lock,                   \* owner of render_lock
    lpc, todo,              \* logic thread, panes Prepare has still to visit
    zpc, resizes,           \* the caller of KTerm_Resize
    screen                  \* presented by the last KTerm_Draw

session == <<size, ops, grid, dirty, held>>
buffers == <<cells, front, lock>>
vars == <<width, session, buffers, lpc, todo, zpc, resizes, screen>>

\* Wrong variant: a changed row is copied for one frame only.
OneFrame == 1

KTERM_DIRTY_FRAMES == 2

back == 1 - front
AllBlank == [p \in Panes |-> Blank]

Init ==
    /\ width \in Widths
    /\ size = [p \in Panes |-> PaneSize[p][width]]
    /\ ops = [p \in Panes |-> << >>]
    /\ grid \in [Panes -> Contents]
    /\ dirty = [p \in Panes |-> KTERM_DIRTY_FRAMES]
    /\ held = [p \in Panes |-> FALSE]
    /\ cells = [b \in {0, 1} |-> AllBlank]
    /\ front = 0 /\ lock = "none"
    /\ lpc = "idle" /\ todo = {}
    /\ zpc = "idle" /\ resizes = 0
    /\ screen = AllBlank

\* Does any of the queued RESIZE_GRID ops change the size?  An op to the size
\* the session has is dropped without a trace.
ChangesSize(p) == \E i \in 1 .. Len(ops[p]) : ops[p][i] # (<<size[p]>> \o ops[p])[i]

\* The session loop of KTerm_Update: parse, then flush the operations.
\* new and hold are what the input of this frame makes of each session.
UpdateSessions(new, hold) ==
    /\ lpc = "idle" /\ zpc = "idle"
    /\ size' = [p \in Panes |-> Last(<<size[p]>> \o ops[p])]
    /\ ops' = [p \in Panes |-> << >>]
    /\ grid' = new
    /\ held' = hold
    /\ dirty' = [p \in Panes |-> IF ChangesSize(p) \/ new[p] # grid[p]
                                 THEN KTERM_DIRTY_FRAMES ELSE dirty[p]]
    /\ lpc' = "prepare" /\ todo' = Panes
    /\ UNCHANGED <<width, buffers, zpc, resizes, screen>>

\* KTerm_RecursiveUpdateSSBO at one leaf: without a lock, into the back buffer.
PreparePane(p) ==
    /\ lpc = "prepare" /\ p \in todo
    /\ todo' = todo \ {p}
    /\ IF dirty[p] > 0 /\ ~held[p]
       THEN /\ cells' = [cells EXCEPT ![back][p] = grid[p]]
            /\ dirty' = [dirty EXCEPT ![p] = @ - 1]
       ELSE UNCHANGED <<cells, dirty>>
    /\ UNCHANGED <<width, size, ops, grid, held, front, lock, lpc, zpc, resizes, screen>>

\* Wrong variant: the buffers are swapped without the lock.
PrepareSwapUnlocked ==
    /\ lpc = "prepare" /\ todo = {}
    /\ front' = back
    /\ lpc' = "idle"
    /\ UNCHANGED <<width, session, cells, lock, todo, zpc, resizes, screen>>

\* The end of Prepare: fill the constants and swap, all under render_lock.
PrepareSwap ==
    /\ lpc = "prepare" /\ todo = {}
    /\ lock = "none"
    /\ front' = back
    /\ lpc' = "idle"
    /\ UNCHANGED <<width, session, cells, lock, todo, zpc, resizes, screen>>

\* KTermCompositor_Render keeps render_lock from the choice of the front buffer
\* to the presentation.
RenderBegin ==
    /\ lock = "none"
    /\ lock' = "render"
    /\ UNCHANGED <<width, session, cells, front, lpc, todo, zpc, resizes, screen>>

RenderPresent ==
    /\ lock = "render"
    /\ screen' = cells[front]
    /\ lock' = "none"
    /\ UNCHANGED <<width, session, cells, front, lpc, todo, zpc, resizes>>

-------------------------------------------------------------------------------
(* KTerm_Resize, called by the logic thread between two updates.  A call the
   throttle turns away changes nothing. *)

\* New dimensions, a RESIZE_GRID op for the session of every leaf.
ResizeLayout(w) ==
    /\ zpc = "idle" /\ resizes < MaxResizes
    /\ lpc = "idle"
    /\ width' = w
    /\ ops' = [p \in Panes |-> Append(ops[p], PaneSize[p][w])]
    /\ resizes' = resizes + 1
    /\ zpc' = IF w # width THEN "resources" ELSE "idle"
    /\ UNCHANGED <<size, grid, dirty, held, buffers, lpc, todo, screen>>

\* GPU resources are recreated under render_lock ...
ResizeLock ==
    /\ zpc = "resources"
    /\ lock = "none"
    /\ lock' = "resize"
    /\ zpc' = "compositor"
    /\ UNCHANGED <<width, session, cells, front, lpc, todo, resizes, screen>>

\* ... which KTermCompositor_Resize takes a second time.
ResizeRelock ==
    /\ zpc = "compositor"
    /\ LockReentrant
    /\ zpc' = "realloc"
    /\ UNCHANGED <<width, session, buffers, lpc, todo, resizes, screen>>

\* Both cell arrays are reallocated and zeroed, then both locks released.
ResizeBuffers ==
    /\ zpc = "realloc"
    /\ cells' = [b \in {0, 1} |-> AllBlank]
    /\ lock' = "none"
    /\ zpc' = "idle"
    /\ UNCHANGED <<width, session, front, lpc, todo, resizes, screen>>

Holds == {hold \in [Panes -> BOOLEAN] : SyncOutput \/ \A p \in Panes : ~hold[p]}
Update == \E new \in [Panes -> Contents], hold \in Holds : UpdateSessions(new, hold)
Prepare == (\E p \in Panes : PreparePane(p)) \/ PrepareSwap
Draw == RenderBegin \/ RenderPresent
ResizeRest == ResizeLock \/ ResizeRelock \/ ResizeBuffers
Resize == (\E w \in Widths : ResizeLayout(w)) \/ ResizeRest

Next == Update \/ Prepare \/ Draw \/ Resize

Spec == Init /\ [][Next]_vars

\* The embedding loop calls KTerm_Update and KTerm_Draw for ever; each thread
\* goes on when it can, and a mutex that is free again and again is obtained.
FairSpec ==
    /\ Spec
    /\ WF_vars(Update) /\ WF_vars(\E p \in Panes : PreparePane(p))
    /\ SF_vars(PrepareSwap)
    /\ SF_vars(RenderBegin) /\ WF_vars(RenderPresent)
    /\ SF_vars(ResizeLock) /\ WF_vars(ResizeRelock \/ ResizeBuffers)

-------------------------------------------------------------------------------
(* Properties *)

\* Between two updates no thread is resizing, and no resize waits in a queue.
Quiet(p) == lpc = "idle" /\ zpc = "idle" /\ ops[p] = << >>

\* A clean pane is current in both buffers, so the swap that ends every frame
\* can show either of them.
CleanMeansCurrent ==
    \A p \in Panes :
        Quiet(p) /\ dirty[p] = 0 => \A b \in {0, 1} : cells[b][p] = grid[p]

\* While a frame is being drawn, nobody writes to the buffer it is drawn from
\* or puts another one in its place.
FrameIsStable == [][lock = "render" => front' = front /\ cells'[front] = cells[front]]_vars

\* A session that stops changing and is not held back is seen in the end.
EventuallyShown ==
    \A p \in Panes, c \in Contents :
        <>[](grid[p] = c /\ ~held[p]) => <>[](screen[p] = c)

\* KTerm_Resize returns.
ResizeReturns == zpc # "idle" ~> zpc = "idle"

===============================================================================
