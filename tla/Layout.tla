------------------------------- MODULE Layout -------------------------------
(***************************************************************************)
(* The layout of a page of the browser client:                              *)
(*   - utils/resize.ts: one ResizeObserver for the whole page, whose entries *)
(*     are handed on in an animation frame, and useSize on top of it;        *)
(*   - routes/r/RoomPage.tsx: the grids and how one is selected;             *)
(*   - AppLayout.tsx: the navigation bar a wide page has.                    *)
(* Only widths are followed: every grid has minHeight 0, and a height is    *)
(* zero exactly when the width is.                                          *)
(***************************************************************************)
EXTENDS Integers, Sequences

CONSTANTS
  Windows,       \* widths the window may have
  MaxResizes     \* bound: changes of the window and of the page

NavWidth == 140     \* w-[140px] of RoomNav
Padding == 32       \* p-4 of RoomPage, both sides

(* A window has room for the page's frame: the grid's width is positive. *)
ASSUME LayoutAssumption ==
  Windows \subseteq {w \in Nat : w > NavWidth + Padding} /\ MaxResizes \in Nat

Targets == {"root", "grid"}

VARIABLES
  window,        \* width of the window
  onPage,        \* RoomPage, and with it the grid, is mounted
  resizes,
  size,          \* what useSize returns, per target
  observed,      \* the size ResizeObserver has reported last, per target
  entries,       \* allEntries, per target
  ticking,       \* createResizeObserver's flag
  requested      \* an animation frame callback is registered

observerVars == <<observed, entries, ticking, requested>>
layoutVars == <<window, onPage, resizes, size, observerVars>>

-----------------------------------------------------------------------------
(* The grids *)

Grid(columns, rows, maxItems, minWidth) ==
  [columns |-> columns, rows |-> rows, maxItems |-> maxItems, minWidth |-> minWidth]

GridSizes == << Grid(1, 1, 1, 0), Grid(1, 2, 2, 0), Grid(2, 1, 2, 560), Grid(2, 2, 4, 560) >>

(* The first of the first n grids that holds the items and is not followed  *)
(* by one as large; the last one if there is none.                          *)
FirstFit(n, items) ==
  LET fits(i) == /\ GridSizes[i].maxItems >= items
                 /\ \A j \in i + 1 .. n : GridSizes[j].maxItems # GridSizes[i].maxItems
  IN IF \E i \in 1..n : fits(i)
     THEN CHOOSE i \in 1..n : fits(i) /\ \A j \in 1 .. i - 1 : ~ fits(j)
     ELSE n

(* Mutant: a grid that is too wide is replaced by the one before it, however *)
(* wide that is.                                                            *)
SelectOnce(items, width) ==
  LET i == FirstFit(Len(GridSizes), items)
  IN IF width < GridSizes[i].minWidth /\ i > 1 THEN i - 1 ELSE i

SelectSize(items, width) ==
  LET select[n \in 1..Len(GridSizes)] == [k \in Nat |->
        LET i == FirstFit(n, k)
        IN IF width < GridSizes[i].minWidth /\ i > 1
           THEN select[i - 1][GridSizes[i - 1].maxItems]
           ELSE i]
  IN select[Len(GridSizes)][items]

UseGridSize(items, width) == IF width > 0 THEN SelectSize(items, width) ELSE 1

-----------------------------------------------------------------------------
(* The page *)

ShowNavbar(width) == width >= 620

Box(t) == IF t = "root" THEN window
          ELSE window - Padding - IF ShowNavbar(size["root"]) THEN NavWidth ELSE 0

Mounted(t) == t = "root" \/ onPage

LayoutInit ==
  /\ window \in Windows /\ onPage = FALSE /\ resizes = 0
  /\ size = [t \in Targets |-> IF t = "root" THEN window ELSE 0]
  /\ observed = [t \in Targets |-> 0] /\ entries = [t \in Targets |-> << >>]
  /\ ticking = FALSE /\ requested = FALSE

Resize ==
  /\ resizes < MaxResizes /\ resizes' = resizes + 1
  /\ window' \in Windows \ {window}
  /\ UNCHANGED <<onPage, size, observerVars>>

(* useSize measures a new element once, useResizeObserver subscribes to it. *)
MountPage ==
  /\ ~onPage /\ onPage' = TRUE
  /\ size' = [size EXCEPT !["grid"] = Box("grid")]
  /\ UNCHANGED <<window, resizes, observerVars>>

(* unsubscribe: the only callback of the element, so entries that are still *)
(* to come find none; the next mount is another element.                    *)
UnmountPage ==
  /\ onPage /\ onPage' = FALSE
  /\ resizes < MaxResizes /\ resizes' = resizes + 1
  /\ size' = [size EXCEPT !["grid"] = 0]
  /\ observed' = [observed EXCEPT !["grid"] = 0]
  /\ entries' = [entries EXCEPT !["grid"] = << >>]
  /\ UNCHANGED <<window, ticking, requested>>

(* Mutant: the flag stays set. *)
DeliverTicking ==
  /\ requested /\ requested' = FALSE
  /\ size' = [t \in Targets |-> IF entries[t] = << >> THEN size[t] ELSE Head(entries[t])]
  /\ entries' = [t \in Targets |-> << >>]
  /\ UNCHANGED <<window, onPage, resizes, observed, ticking>>

(* The animation frame callback: the first entry of each target is its size. *)
Deliver ==
  /\ requested /\ requested' = FALSE
  /\ size' = [t \in Targets |-> IF entries[t] = << >> THEN size[t] ELSE Head(entries[t])]
  /\ entries' = [t \in Targets |-> << >>] /\ ticking' = FALSE
  /\ UNCHANGED <<window, onPage, resizes, observed>>

(* ResizeObserver's callback.  The browser runs it after the animation frame *)
(* callbacks of the same frame.                                             *)
Observe ==
  LET changed == {t \in Targets : Mounted(t) /\ Box(t) # observed[t]}
  IN /\ changed # {} /\ ~requested
     /\ observed' = [t \in Targets |-> IF t \in changed THEN Box(t) ELSE observed[t]]
     /\ entries' = [t \in Targets |-> IF t \in changed THEN Append(entries[t], Box(t))
                                                       ELSE entries[t]]
     /\ requested' = ~ticking /\ ticking' = TRUE
     /\ UNCHANGED <<window, onPage, resizes, size>>

LayoutStep == Resize \/ MountPage \/ UnmountPage \/ Deliver \/ Observe

-----------------------------------------------------------------------------
(* What selectSize is for, without its recursion: of the grids the page is  *)
(* wide enough for, the smallest that holds the items, the last one among   *)
(* equals; if none holds them, the largest.                                 *)
BestGrid(items, width) ==
  LET wide == {i \in DOMAIN GridSizes : GridSizes[i].minWidth <= width}
      holds == {i \in wide : GridSizes[i].maxItems >= items}
      room(i) == GridSizes[i].maxItems
  IN CHOOSE i \in wide :
       /\ holds # {} => i \in holds /\ \A j \in holds : room(i) <= room(j)
       /\ holds = {} => \A j \in wide : room(j) <= room(i)
       /\ \A j \in wide : room(j) = room(i) => j <= i

Measured == \A t \in Targets : Mounted(t) => size[t] = Box(t)
=============================================================================
