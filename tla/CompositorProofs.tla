--------------------------- MODULE CompositorProofs ---------------------------
(***************************************************************************)
(* The double buffer of the compositor is sound for every set of panes,     *)
(* every content and any number of resizes: a frame that is being drawn is  *)
(* left alone, and, where a resize reaches every pane and no application    *)
(* holds its output back, a clean pane is current in both buffers.          *)
(***************************************************************************)
EXTENDS Compositor, TLAPS

\* A new width of the window is a new size of every pane.
ReachesAll ==
    \A p \in Panes : \A v, w \in Widths : v # w => PaneSize[p][v] # PaneSize[p][w]

-------------------------------------------------------------------------------
(* The lock and the front buffer *)

BufferOK == cells \in [{0, 1} -> [Panes -> Contents \cup {Blank}]] /\ front \in {0, 1}

\* KTerm_Resize has the lock from ResizeLock to ResizeBuffers.
LockHeld ==
    /\ lpc \in {"idle", "prepare"}
    /\ lock \in {"none", "render", "resize"}
    /\ zpc \in {"idle", "resources", "compositor", "realloc"}
    /\ lock = "resize" <=> zpc \in {"compositor", "realloc"}

SessionOK ==
    /\ grid \in [Panes -> Contents]
    /\ dirty \in [Panes -> 0 .. KTERM_DIRTY_FRAMES]
    /\ todo \subseteq Panes

Shared == BufferOK /\ LockHeld /\ SessionOK

LEMMA SharedInit == Init => Shared
BY DEF Init, Shared, BufferOK, LockHeld, SessionOK, AllBlank, KTERM_DIRTY_FRAMES

LEMMA SharedNext ==
    ASSUME Shared, [Next]_vars
    PROVE  Shared'
<1> USE DEF Shared, BufferOK, LockHeld, SessionOK, KTERM_DIRTY_FRAMES
<1>1. ASSUME NEW new \in [Panes -> Contents], NEW hold \in Holds, UpdateSessions(new, hold)
      PROVE  Shared'
  BY <1>1 DEF UpdateSessions, buffers
<1>2. ASSUME NEW p \in Panes, PreparePane(p) PROVE Shared'
  BY <1>2 DEF PreparePane, back
<1>3. CASE PrepareSwap
  BY <1>3 DEF PrepareSwap, back, session
<1>4. CASE Draw
  BY <1>4 DEF Draw, RenderBegin, RenderPresent, session
<1>5. ASSUME NEW w \in Widths, ResizeLayout(w) PROVE Shared'
  BY <1>5 DEF ResizeLayout, buffers
<1>6. CASE ResizeRest
  <2>1. CASE ResizeLock \/ ResizeRelock
    BY <1>6, <2>1 DEF ResizeLock, ResizeRelock, session, buffers
  <2>2. CASE ResizeBuffers
    BY <1>6, <2>2 DEF ResizeBuffers, session, AllBlank
  <2> QED  BY <1>6, <2>1, <2>2 DEF ResizeRest
<1>7. CASE UNCHANGED vars
  BY <1>7 DEF vars, session, buffers
<1> QED  BY <1>1, <1>2, <1>3, <1>4, <1>5, <1>6, <1>7 DEF Next, Update, Prepare, Resize

\* Nothing writes to the front buffer or replaces it while KTermCompositor_Render
\* has the lock: whatever the panes, the layout and the sizes.
THEOREM FrameIsStableTheorem == Spec => FrameIsStable
<1> DEFINE Stable == lock = "render" => front' = front /\ cells'[front] = cells[front]
<1>1. Shared /\ [Next]_vars => [Stable]_vars
  <2> SUFFICES ASSUME Shared, [Next]_vars, lock = "render"
               PROVE  front' = front /\ cells'[front] = cells[front]
    BY DEF Stable
  <2> USE DEF Shared, BufferOK, LockHeld
  <2>1. ASSUME NEW new \in [Panes -> Contents], NEW hold \in Holds, UpdateSessions(new, hold)
        PROVE  front' = front /\ cells'[front] = cells[front]
    BY <2>1 DEF UpdateSessions, buffers
  <2>2. ASSUME NEW p \in Panes, PreparePane(p)
        PROVE  front' = front /\ cells'[front] = cells[front]
    BY <2>2 DEF PreparePane, back
  <2>3. CASE PrepareSwap
    BY <2>3 DEF PrepareSwap
  <2>4. CASE Draw
    BY <2>4 DEF Draw, RenderBegin, RenderPresent
  <2>5. ASSUME NEW w \in Widths, ResizeLayout(w)
        PROVE  front' = front /\ cells'[front] = cells[front]
    BY <2>5 DEF ResizeLayout, buffers
  <2>6. CASE ResizeRest
    BY <2>6 DEF ResizeRest, ResizeLock, ResizeRelock, ResizeBuffers, buffers
  <2>7. CASE UNCHANGED vars
    BY <2>7 DEF vars, buffers
  <2> QED  BY <2>1, <2>2, <2>3, <2>4, <2>5, <2>6, <2>7 DEF Next, Update, Prepare, Resize
<1> QED  BY <1>1, SharedInit, SharedNext, PTL DEF Spec, FrameIsStable

-------------------------------------------------------------------------------
(* The dirty counters *)

\* The sizes a session goes through when its queue is flushed.
Path(p) == <<size[p]>> \o ops[p]

\* The queue leads to the size the layout gave the pane last; while the buffers are
\* made anew every session is going to change its size; Prepare starts with empty
\* queues and ends with nothing to do.
Sized ==
    /\ width \in Widths
    /\ size \in [Panes -> Nat] /\ ops \in [Panes -> Seq(Nat)]
    /\ \A p \in Panes : Path(p)[Len(ops[p]) + 1] = PaneSize[p][width]
    /\ zpc # "idle" => lpc = "idle" /\ \A p \in Panes : ChangesSize(p)
    /\ lpc = "prepare" => \A p \in Panes : ops[p] = << >>
    /\ lpc = "idle" => todo = {}
    /\ \A p \in Panes : ~held[p]

\* Has the pane's turn in this Prepare been?
Visited(p) == lpc = "prepare" /\ p \notin todo

\* What a counter says: before the pane's turn that the front buffer is current, or
\* both are; after it, that the back one is, or both are.
Counted(p) ==
    /\ ~Visited(p) /\ dirty[p] <= 1 => cells[front][p] = grid[p]
    /\ ~Visited(p) /\ dirty[p] = 0 => cells[back][p] = grid[p]
    /\ Visited(p) => dirty[p] <= 1 /\ cells[back][p] = grid[p]
    /\ Visited(p) /\ dirty[p] = 0 => cells[front][p] = grid[p]

Current == \A p \in Panes : ~ChangesSize(p) => Counted(p)

CInv == Shared /\ Sized /\ Current

LEMMA CInvInit == Init => CInv
<1> SUFFICES ASSUME Init PROVE Sized /\ Current
  BY SharedInit DEF CInv
<1> USE DEF Init
<1>1. Sized
  BY LayoutAssumption DEF Sized, Path
<1>2. Current
  BY DEF Current, Counted, Visited, KTERM_DIRTY_FRAMES
<1> QED  BY <1>1, <1>2

\* One more operation keeps the sizes before it: what changed the size still does,
\* and another size than the last one changes it.
LEMMA AppendedSize ==
    ASSUME NEW o \in Seq(Nat), NEW s \in Nat, NEW n \in Nat
    PROVE  /\ Append(o, n) \in Seq(Nat) /\ Len(Append(o, n)) = Len(o) + 1
           /\ Append(o, n)[Len(o) + 1] = n
           /\ (<<s>> \o Append(o, n))[Len(o) + 2] = n
           /\ (<<s>> \o Append(o, n))[Len(o) + 1] = (<<s>> \o o)[Len(o) + 1]
           /\ \A i \in 1 .. Len(o) : /\ Append(o, n)[i] = o[i]
                                     /\ (<<s>> \o Append(o, n))[i] = (<<s>> \o o)[i]
OBVIOUS

LEMMA ResizeStep ==
    ASSUME ReachesAll, CInv, NEW w \in Widths, ResizeLayout(w)
    PROVE  Sized' /\ Current'
<1> USE DEF CInv
<1>1. /\ zpc = "idle" /\ lpc = "idle" /\ width' = w
      /\ ops' = [p \in Panes |-> Append(ops[p], PaneSize[p][w])]
      /\ zpc' = IF w # width THEN "resources" ELSE "idle"
      /\ UNCHANGED <<size, grid, dirty, held, cells, front, lpc, todo>>
  BY DEF ResizeLayout, buffers
<1>2. ASSUME NEW p \in Panes
      PROVE  /\ size[p] \in Nat /\ ops[p] \in Seq(Nat) /\ PaneSize[p][w] \in Nat
             /\ ops'[p] = Append(ops[p], PaneSize[p][w]) /\ size'[p] = size[p]
  BY <1>1, <1>2, LayoutAssumption DEF Sized
<1>3. ASSUME NEW p \in Panes
      PROVE  /\ ops'[p] \in Seq(Nat) /\ Len(ops'[p]) = Len(ops[p]) + 1
             /\ ops'[p][Len(ops'[p])] = PaneSize[p][w]
             /\ Path(p)'[Len(ops'[p]) + 1] = PaneSize[p][w]
             /\ Path(p)'[Len(ops'[p])] = Path(p)[Len(ops[p]) + 1]
             /\ \A i \in 1 .. Len(ops[p]) :
                    ops'[p][i] = ops[p][i] /\ Path(p)'[i] = Path(p)[i]
  <2> DEFINE o == ops[p]
             n == PaneSize[p][w]
             o2 == ops'[p]
             before == Path(p)
             after == Path(p)'
  <2>1. /\ o \in Seq(Nat) /\ size[p] \in Nat /\ n \in Nat /\ o2 = Append(o, n)
        /\ before = <<size[p]>> \o o /\ after = <<size[p]>> \o Append(o, n)
    BY <1>2 DEF Path
  <2> HIDE DEF o, n, o2, before, after
  <2>2. /\ o2 \in Seq(Nat) /\ Len(o2) = Len(o) + 1 /\ o2[Len(o2)] = n
        /\ \A i \in 1 .. Len(o) : o2[i] = o[i]
    BY <2>1
  <2>3. /\ after[Len(o) + 2] = n /\ after[Len(o) + 1] = before[Len(o) + 1]
        /\ \A i \in 1 .. Len(o) : after[i] = before[i]
    BY SMTT(30), <2>1, AppendedSize
  <2>4. after[Len(o2) + 1] = n /\ after[Len(o2)] = before[Len(o) + 1]
    BY <2>1, <2>2, <2>3
  <2> QED  BY <2>2, <2>3, <2>4 DEF o, n, o2, before, after
<1>4. ASSUME NEW p \in Panes, ChangesSize(p) PROVE ChangesSize(p)'
  <2>1. PICK i \in 1 .. Len(ops[p]) : ops[p][i] # Path(p)[i]
    BY <1>4 DEF ChangesSize, Path
  <2>2. i \in 1 .. Len(ops'[p]) /\ ops'[p][i] # Path(p)'[i]
    BY <1>2, <1>3, <2>1
  <2> QED  BY <2>2 DEF ChangesSize, Path
<1>5. ASSUME NEW p \in Panes, w # width PROVE ChangesSize(p)'
  <2>1. PaneSize[p][w] # PaneSize[p][width]
    BY <1>5 DEF ReachesAll, Sized
  <2>2. Path(p)[Len(ops[p]) + 1] = PaneSize[p][width]
    BY DEF Sized
  <2>3. /\ Len(ops'[p]) \in 1 .. Len(ops'[p])
        /\ ops'[p][Len(ops'[p])] # Path(p)'[Len(ops'[p])]
    BY <1>2, <1>3, <2>1, <2>2
  <2> QED  BY <2>3 DEF ChangesSize, Path
<1>6. Sized'
  <2>1. ops' \in [Panes -> Seq(Nat)]
    BY <1>1, <1>3
  <2> QED  BY <1>1, <1>3, <1>5, <2>1 DEF Sized
<1>7. Current'
  BY <1>1, <1>4 DEF Current, Counted, Visited, back
<1> QED  BY <1>6, <1>7

\* A flush makes of each session what its queue leads to, and leaves no queue.
LEMMA UpdateStep ==
    ASSUME ~SyncOutput, CInv, NEW new \in [Panes -> Contents], NEW hold \in Holds,
           UpdateSessions(new, hold)
    PROVE  Sized' /\ Current'
<1> USE DEF CInv
<1>1. /\ lpc = "idle" /\ zpc = "idle" /\ lpc' = "prepare" /\ todo' = Panes
      /\ size' = [p \in Panes |-> Last(Path(p))] /\ ops' = [p \in Panes |-> << >>]
      /\ grid' = new /\ held' = hold
      /\ dirty' = [p \in Panes |-> IF ChangesSize(p) \/ new[p] # grid[p]
                                     THEN KTERM_DIRTY_FRAMES ELSE dirty[p]]
      /\ UNCHANGED <<width, cells, front, zpc>>
  BY DEF UpdateSessions, buffers, Path
<1>2. ASSUME NEW p \in Panes
      PROVE  Last(Path(p)) = PaneSize[p][width] /\ PaneSize[p][width] \in Nat
  <2>1. Len(Path(p)) = Len(ops[p]) + 1
    BY DEF Sized, Path
  <2> QED  BY <2>1, LayoutAssumption DEF Sized, Last
<1>3. Sized'
  <2>1. size' \in [Panes -> Nat] /\ ops' \in [Panes -> Seq(Nat)]
    BY <1>1, <1>2
  <2>2. \A p \in Panes : Path(p)'[Len(ops'[p]) + 1] = PaneSize[p][width]
    BY <1>1, <1>2 DEF Path
  <2>3. \A p \in Panes : ~hold[p]
    BY DEF Holds
  <2> QED  BY <1>1, <2>1, <2>2, <2>3 DEF Sized
<1>4. Current'
  <2> SUFFICES ASSUME NEW p \in Panes PROVE Counted(p)'
    BY DEF Current
  <2>1. CASE ChangesSize(p) \/ new[p] # grid[p]
    BY <1>1, <2>1 DEF Counted, Visited, KTERM_DIRTY_FRAMES
  <2>2. CASE ~ChangesSize(p) /\ new[p] = grid[p]
    BY <1>1, <2>2 DEF Current, Counted, Visited, back
  <2> QED  BY <2>1, <2>2
<1> QED  BY <1>3, <1>4

LEMMA PreparePaneStep ==
    ASSUME CInv, NEW p \in Panes, PreparePane(p)
    PROVE  Sized' /\ Current'
<1> USE DEF CInv
<1>1. /\ lpc = "prepare" /\ p \in todo /\ todo' = todo \ {p} /\ ~held[p]
      /\ UNCHANGED <<width, size, ops, grid, held, front, lpc, zpc>>
  BY DEF PreparePane, Sized
<1>2. Sized'
  BY <1>1 DEF Sized, Path, ChangesSize
<1>3. ASSUME NEW q \in Panes PROVE ~ChangesSize(q) /\ Counted(q)
  BY <1>1 DEF Sized, Current, ChangesSize
<1>4. Counted(p)'
  BY <1>1, <1>3 DEF Counted, Visited, PreparePane, back, Shared, BufferOK, SessionOK, KTERM_DIRTY_FRAMES
<1>5. ASSUME NEW q \in Panes, q # p PROVE Counted(q)'
  <2>1. /\ dirty'[q] = dirty[q] /\ \A b \in {0, 1} : cells'[b][q] = cells[b][q]
    BY <1>5 DEF PreparePane, Shared, BufferOK, SessionOK, back
  <2> QED  BY <1>1, <1>3, <1>5, <2>1 DEF Counted, Visited, back, Shared, BufferOK
<1>6. Current'
  BY <1>4, <1>5 DEF Current
<1> QED  BY <1>2, <1>6

LEMMA SwapStep ==
    ASSUME CInv, PrepareSwap
    PROVE  Sized' /\ Current'
<1> USE DEF CInv
<1>1. /\ lpc = "prepare" /\ todo = {} /\ lpc' = "idle" /\ front' = back
      /\ UNCHANGED <<width, size, ops, grid, dirty, held, cells, todo, zpc>>
  BY DEF PrepareSwap, session
<1>2. Sized'
  BY <1>1 DEF Sized, Path, ChangesSize
<1>3. back' = front
  BY <1>1 DEF back, Shared, BufferOK
<1>4. Current'
  BY <1>1, <1>3 DEF Current, Counted, Visited, ChangesSize
<1> QED  BY <1>2, <1>4

\* The steps that change none of the sizes, contents, counters and turns.
LEMMA OtherStep ==
    ASSUME CInv, RenderBegin \/ RenderPresent \/ ResizeLock \/ ResizeRelock \/ UNCHANGED vars
    PROVE  Sized' /\ Current'
<1> USE DEF CInv
<1>1. UNCHANGED <<width, size, ops, grid, dirty, held, cells, front, lpc, todo>>
  BY DEF RenderBegin, RenderPresent, ResizeLock, ResizeRelock, vars, session, buffers
<1>2. zpc' # "idle" => zpc # "idle"
  BY DEF RenderBegin, RenderPresent, ResizeLock, ResizeRelock, vars
<1>3. Sized'
  BY <1>1, <1>2 DEF Sized, Path, ChangesSize
<1>4. Current'
  BY <1>1 DEF Current, Counted, Visited, ChangesSize, back
<1> QED  BY <1>3, <1>4

\* The buffers are zeroed while every session is going to change its size.
LEMMA ZeroStep ==
    ASSUME CInv, ResizeBuffers
    PROVE  Sized' /\ Current'
<1> USE DEF CInv
<1>1. /\ zpc = "realloc" /\ zpc' = "idle"
      /\ UNCHANGED <<width, size, ops, grid, dirty, held, lpc, todo>>
  BY DEF ResizeBuffers, session
<1>2. Sized'
  BY <1>1 DEF Sized, Path, ChangesSize
<1>3. \A p \in Panes : ChangesSize(p)'
  BY <1>1 DEF Sized, ChangesSize
<1> QED  BY <1>2, <1>3 DEF Current

LEMMA CInvNext ==
    ASSUME ReachesAll, ~SyncOutput, CInv, [Next]_vars
    PROVE  CInv'
<1>1. Shared'
  BY SharedNext DEF CInv
<1>2. ASSUME NEW new \in [Panes -> Contents], NEW hold \in Holds, UpdateSessions(new, hold)
      PROVE  Sized' /\ Current'
  BY <1>2, UpdateStep
<1>3. ASSUME NEW p \in Panes, PreparePane(p) PROVE Sized' /\ Current'
  BY <1>3, PreparePaneStep
<1>4. ASSUME NEW w \in Widths, ResizeLayout(w) PROVE Sized' /\ Current'
  BY <1>4, ResizeStep
<1>5. ASSUME PrepareSwap \/ ResizeBuffers \/ Draw \/ ResizeLock \/ ResizeRelock \/ UNCHANGED vars
      PROVE  Sized' /\ Current'
  BY <1>5, SwapStep, ZeroStep, OtherStep DEF Draw
<1> QED  BY <1>1, <1>2, <1>3, <1>4, <1>5
         DEF CInv, Next, Update, Prepare, Draw, Resize, ResizeRest

\* KTERM_DIRTY_FRAMES = 2 is enough: a pane whose counter is zero between frames is
\* current in both buffers, whichever the next frame is drawn from, for any number
\* of panes and resizes that reach all of them, without synchronized output.
THEOREM CleanMeansCurrentTheorem ==
    ASSUME ReachesAll, ~SyncOutput
    PROVE  Spec => []CleanMeansCurrent
<1>1. CInv => CleanMeansCurrent
  <2> SUFFICES ASSUME CInv, NEW p \in Panes, Quiet(p), dirty[p] = 0, NEW b \in {0, 1}
               PROVE  cells[b][p] = grid[p]
    BY DEF CleanMeansCurrent
  <2>1. ~ChangesSize(p) /\ ~Visited(p)
    BY DEF Quiet, ChangesSize, Visited
  <2> QED  BY <2>1 DEF CInv, Current, Counted, Shared, BufferOK, back
<1> QED  BY <1>1, CInvInit, CInvNext, PTL DEF Spec
===============================================================================
