---------------------------- MODULE GalleryProofs ----------------------------
(***************************************************************************)
(* Theorems about Gallery, for any streams, windows and bounds.             *)
(***************************************************************************)
EXTENDS Gallery, FiniteSetTheorems, TLAPS

-----------------------------------------------------------------------------
(* The grids *)

LEMMA Grids ==
  /\ Len(GridSizes) = 4 /\ DOMAIN GridSizes = 1..4
  /\ GridSizes[1].maxItems = 1 /\ GridSizes[1].minWidth = 0
  /\ GridSizes[2].maxItems = 2 /\ GridSizes[2].minWidth = 0
  /\ GridSizes[3].maxItems = 2 /\ GridSizes[3].minWidth = 560
  /\ GridSizes[4].maxItems = 4 /\ GridSizes[4].minWidth = 560
BY DEF GridSizes, Grid

(* What FirstFit finds in the prefixes of GridSizes that are looked at. *)
LEMMA FirstFits ==
  ASSUME NEW n \in 1..4, NEW items \in Nat
  PROVE  /\ FirstFit(n, items) \in 1..n
         /\ n = 2 /\ items = 2 => FirstFit(n, items) = 2
         /\ n = 3 /\ items = 2 => FirstFit(n, items) = 3
         /\ n = 4 => FirstFit(n, items) = IF items <= 1 THEN 1 ELSE IF items = 2 THEN 3 ELSE 4
<1> DEFINE fits(i) == /\ GridSizes[i].maxItems >= items
                      /\ \A j \in i + 1 .. n : GridSizes[j].maxItems # GridSizes[i].maxItems
           first(i) == fits(i) /\ \A j \in 1 .. i - 1 : ~ fits(j)
<1>1. FirstFit(n, items) = IF \E i \in 1..n : fits(i) THEN CHOOSE i \in 1..n : first(i) ELSE n
  BY DEF FirstFit
<1>2. /\ fits(1) <=> items <= 1
      /\ fits(2) <=> items <= 2 /\ n < 3
      /\ fits(3) <=> items <= 2
      /\ fits(4) <=> items <= 4
  BY Grids
<1> HIDE DEF fits
<1>3. (\E i \in 1..n : fits(i)) => \E i \in 1..n : first(i)
  BY <1>2
<1>4. \A i, j \in 1..n : first(i) /\ first(j) => i = j
  BY <1>2
<1>5. FirstFit(n, items) \in 1..n  BY <1>1, <1>3
<1>6. ASSUME NEW i \in 1..n, first(i) PROVE FirstFit(n, items) = i
  BY <1>1, <1>3, <1>4, <1>6
<1>7. ASSUME n = 4, items <= 1 PROVE FirstFit(n, items) = 1
  BY <1>2, <1>6, <1>7
<1>8. ASSUME n = 4, items = 2 PROVE FirstFit(n, items) = 3
  BY <1>2, <1>6, <1>8
<1>9. ASSUME n = 4, items > 2 PROVE FirstFit(n, items) = 4
  <2>1. CASE items <= 4  BY <1>2, <1>6, <1>9, <2>1
  <2>2. CASE items > 4
    <3>1. ~ \E i \in 1..n : fits(i)  BY <1>2, <1>9, <2>2
    <3> QED BY <1>1, <1>9, <3>1
  <2> QED BY <2>1, <2>2
<1>10. ASSUME n = 2, items = 2 PROVE FirstFit(n, items) = 2
  BY <1>2, <1>6, <1>10
<1>11. ASSUME n = 3, items = 2 PROVE FirstFit(n, items) = 3
  BY <1>2, <1>6, <1>11
<1> QED BY <1>5, <1>7, <1>8, <1>9, <1>10, <1>11

(* What the recursion of selectSize comes to: a grid that is too wide is     *)
(* given up for the second one, which never is.                             *)
Unrolled(width) ==
  [n \in 1..Len(GridSizes) |-> [k \in Nat |->
     LET i == FirstFit(n, k)
     IN IF width < GridSizes[i].minWidth /\ i > 1 THEN 2 ELSE i]]

(* One turn of the recursion of selectSize. *)
Turn(f, width) ==
  [n \in 1..Len(GridSizes) |-> [k \in Nat |->
     LET i == FirstFit(n, k)
     IN IF width < GridSizes[i].minWidth /\ i > 1
        THEN f[i - 1][GridSizes[i - 1].maxItems]
        ELSE i]]

LEMMA Turns ==
  ASSUME NEW width \in Int, width > 0 PROVE Turn(Unrolled(width), width) = Unrolled(width)
<1> DEFINE f == Unrolled(width)
<1>1. Len(GridSizes) = 4  BY Grids
<1>2. f[2][2] = 2 /\ f[3][2] = IF width < 560 THEN 2 ELSE 3
  BY <1>1, Grids, FirstFits DEF Unrolled
<1>3. ASSUME NEW n \in 1..4, NEW k \in Nat,
             width < GridSizes[FirstFit(n, k)].minWidth, FirstFit(n, k) > 1
      PROVE  f[FirstFit(n, k) - 1][GridSizes[FirstFit(n, k) - 1].maxItems] = 2
  <2>1. FirstFit(n, k) \in 1..4  BY FirstFits
  <2>2. width < 560 /\ FirstFit(n, k) \in {3, 4}  BY <1>3, <2>1, Grids
  <2>3. CASE FirstFit(n, k) = 3  BY <1>2, <2>3, Grids
  <2>4. CASE FirstFit(n, k) = 4  BY <1>2, <2>2, <2>4, Grids
  <2> QED BY <2>2, <2>3, <2>4
<1> HIDE DEF f
<1>4. Turn(f, width) = [n \in 1..Len(GridSizes) |-> [k \in Nat |->
         IF width < GridSizes[FirstFit(n, k)].minWidth /\ FirstFit(n, k) > 1
         THEN 2 ELSE FirstFit(n, k)]]
  BY <1>1, <1>3 DEF Turn
<1> QED BY <1>4 DEF Unrolled, f

LEMMA TurnAt ==
  ASSUME NEW width, NEW f, NEW n \in 1..4, NEW k \in Nat
  PROVE  Turn(f, width)[n][k] =
           IF width < GridSizes[FirstFit(n, k)].minWidth /\ FirstFit(n, k) > 1
           THEN f[FirstFit(n, k) - 1][GridSizes[FirstFit(n, k) - 1].maxItems]
           ELSE FirstFit(n, k)
BY Grids DEF Turn

LEMMA Selected ==
  ASSUME NEW width \in Int, width > 0, NEW items \in Nat
  PROVE  SelectSize(items, width) =
           IF items <= 1 THEN 1 ELSE IF width < 560 THEN 2 ELSE IF items = 2 THEN 3 ELSE 4
<1> DEFINE S == CHOOSE f : f = Turn(f, width)
<1>1. S = Turn(S, width)  BY Turns
<1>2. SelectSize(items, width) = S[4][items]  BY Grids DEF SelectSize, Turn
<1> HIDE DEF S
<1>4. \A n \in 1..4, k \in Nat :
        S[n][k] = IF width < GridSizes[FirstFit(n, k)].minWidth /\ FirstFit(n, k) > 1
                  THEN S[FirstFit(n, k) - 1][GridSizes[FirstFit(n, k) - 1].maxItems]
                  ELSE FirstFit(n, k)
  BY <1>1, TurnAt
<1>5. S[2][2] = 2  BY <1>4, Grids, FirstFits
<1>6. S[3][2] = IF width < 560 THEN 2 ELSE 3  BY <1>4, <1>5, Grids, FirstFits
<1>7. CASE items <= 1  BY <1>2, <1>4, <1>7, Grids, FirstFits
<1>8. CASE items = 2  BY <1>2, <1>4, <1>5, <1>8, Grids, FirstFits
<1>9. CASE items > 2  BY <1>2, <1>4, <1>6, <1>9, Grids, FirstFits
<1> QED BY <1>7, <1>8, <1>9

LEMMA Best ==
  ASSUME NEW width \in Int, width > 0, NEW items \in Nat
  PROVE  BestGrid(items, width) =
           IF items <= 1 THEN 1 ELSE IF width < 560 THEN 2 ELSE IF items = 2 THEN 3 ELSE 4
<1> DEFINE wide == {i \in DOMAIN GridSizes : GridSizes[i].minWidth <= width}
           holds == {i \in wide : GridSizes[i].maxItems >= items}
           room(i) == GridSizes[i].maxItems
           best(i) == /\ holds # {} => i \in holds /\ \A j \in holds : room(i) <= room(j)
                      /\ holds = {} => \A j \in wide : room(j) <= room(i)
                      /\ \A j \in wide : room(j) = room(i) => j <= i
           it == IF items <= 1 THEN 1 ELSE IF width < 560 THEN 2 ELSE IF items = 2 THEN 3 ELSE 4
<1>1. BestGrid(items, width) = CHOOSE i \in wide : best(i)  BY DEF BestGrid
<1>2. wide = {i \in 1..4 : i <= 2 \/ width >= 560}  BY Grids
<1>3. room(1) = 1 /\ room(2) = 2 /\ room(3) = 2 /\ room(4) = 4  BY Grids
<1>4. holds = {i \in wide : room(i) >= items}  OBVIOUS
<1> HIDE DEF wide, room, holds
<1>5. it \in wide  BY <1>2
<1>6. best(it)
  <2>1. holds # {} => it \in holds /\ \A j \in holds : room(it) <= room(j)
    BY <1>2, <1>3, <1>4
  <2>2. holds = {} => \A j \in wide : room(j) <= room(it)
    BY <1>2, <1>3, <1>4
  <2>3. \A j \in wide : room(j) = room(it) => j <= it  BY <1>2, <1>3
  <2> QED BY <2>1, <2>2, <2>3
<1>7. \A i \in wide : best(i) => i = it
  BY <1>2, <1>3, <1>4, <1>5, <1>6
<1> QED BY <1>1, <1>5, <1>6, <1>7

-----------------------------------------------------------------------------
(* What a page knows of its size *)

LayoutTyped ==
  /\ window \in Windows /\ onPage \in BOOLEAN
  /\ size \in [Targets -> Int] /\ observed \in [Targets -> Int]
  /\ entries \in [Targets -> Seq(Int)]
  /\ ticking \in BOOLEAN /\ requested \in BOOLEAN

(* The flag of createResizeObserver is set exactly while a frame is due, so  *)
(* a target never has two entries and the first is the last.                *)
Entered ==
  /\ ticking = requested
  /\ \A t \in Targets : entries[t] # << >> =>
       requested /\ entries[t] = <<observed[t]>> /\ observed[t] # 0

(* What has been reported and is not waiting is what useSize returns. *)
Reported ==
  /\ \A t \in Targets : entries[t] = << >> /\ observed[t] # 0 => size[t] = observed[t]
  /\ ~ onPage => entries["grid"] = << >> /\ observed["grid"] = 0

LayoutInv == LayoutTyped /\ Entered /\ Reported

(* No frame is due and the browser has nothing to report. *)
Still == ~ requested /\ \A t \in Targets : Mounted(t) => Box(t) = observed[t]

LEMMA BoxIsPositive ==
  ASSUME LayoutTyped, NEW t \in Targets PROVE Box(t) \in Int /\ Box(t) > 0
BY LayoutAssumption DEF LayoutTyped, Box, Targets, NavWidth, Padding, ShowNavbar

LEMMA NoEntries == << >> \in Seq(Int)
OBVIOUS

LEMMA OneEntry == ASSUME NEW w \in Int PROVE <<w>> \in Seq(Int) /\ Append(<< >>, w) = <<w>>
OBVIOUS

LEMMA Zeroed ==
  ASSUME NEW f \in [Targets -> Int], NEW t
  PROVE  [f EXCEPT ![t] = 0] \in [Targets -> Int]
<1>1. [f EXCEPT ![t] = 0] = [u \in Targets |-> IF u = t THEN 0 ELSE f[u]]  OBVIOUS
<1>2. 0 \in Int  OBVIOUS
<1> QED BY <1>1, <1>2, Zenon

LEMMA InitLayout == LayoutInit => LayoutInv
<1> SUFFICES ASSUME LayoutInit PROVE LayoutInv  OBVIOUS
<1>1. window \in Int  BY LayoutAssumption DEF LayoutInit
<1>2. LayoutTyped
  <2>1. size \in [Targets -> Int]  BY <1>1 DEF LayoutInit
  <2>2. observed \in [Targets -> Int]  BY DEF LayoutInit
  <2>3. entries \in [Targets -> Seq(Int)]  BY NoEntries DEF LayoutInit
  <2> QED BY <2>1, <2>2, <2>3 DEF LayoutInit, LayoutTyped
<1>3. Entered /\ Reported  BY DEF LayoutInit, Entered, Reported, Targets
<1> QED BY <1>2, <1>3 DEF LayoutInv

LEMMA LayoutKeeps == ASSUME LayoutInv, LayoutStep PROVE LayoutInv'
<1>1. LayoutTyped /\ Entered /\ Reported  BY DEF LayoutInv
<1>2. "root" \in Targets /\ "grid" \in Targets /\ Targets = {"root", "grid"}  BY DEF Targets
<1>3. CASE Resize
  BY <1>1, <1>3 DEF Resize, observerVars, LayoutInv, LayoutTyped, Entered, Reported
<1>4. CASE MountPage
  <2>1. Box("grid") \in Int  BY <1>1, <1>2, BoxIsPositive
  <2>2. /\ onPage' = TRUE /\ ~ onPage /\ UNCHANGED <<window, observed, entries, ticking, requested>>
        /\ size' = [size EXCEPT !["grid"] = Box("grid")]
    BY <1>4 DEF MountPage, observerVars
  <2>3. LayoutTyped'  BY <1>1, <2>1, <2>2 DEF LayoutTyped
  <2>4. Entered' /\ Reported'  BY <1>1, <1>2, <2>2 DEF Entered, Reported, LayoutTyped
  <2> QED BY <2>3, <2>4 DEF LayoutInv
<1>5. CASE UnmountPage
  <2>1. /\ onPage' = FALSE /\ UNCHANGED <<window, ticking, requested>>
        /\ size' = [size EXCEPT !["grid"] = 0] /\ observed' = [observed EXCEPT !["grid"] = 0]
        /\ entries' = [entries EXCEPT !["grid"] = << >>]
    BY <1>5 DEF UnmountPage
  <2>2. entries' \in [Targets -> Seq(Int)]  BY <1>1, <2>1, NoEntries DEF LayoutTyped
  <2>3. LayoutTyped'
    <3>1. size \in [Targets -> Int] /\ observed \in [Targets -> Int]
      BY <1>1 DEF LayoutTyped
    <3>2. size' = [size EXCEPT !["grid"] = 0] /\ observed' = [observed EXCEPT !["grid"] = 0]
      BY <2>1
    <3>3. size' \in [Targets -> Int]  BY <3>1, <3>2, Zeroed
    <3>4. observed' \in [Targets -> Int]  BY <3>1, <3>2, Zeroed
    <3> QED BY <1>1, <2>1, <2>2, <3>3, <3>4 DEF LayoutTyped
  <2>4. Entered' /\ Reported'  BY <1>1, <1>2, <2>1 DEF Entered, Reported, LayoutTyped
  <2> QED BY <2>3, <2>4 DEF LayoutInv
<1>6. CASE Deliver
  <2>1. /\ requested' = FALSE /\ ticking' = FALSE /\ UNCHANGED <<window, onPage, observed>>
        /\ size' = [t \in Targets |-> IF entries[t] = << >> THEN size[t] ELSE Head(entries[t])]
        /\ entries' = [t \in Targets |-> << >>]
    BY <1>6 DEF Deliver
  <2>2. \A t \in Targets : entries[t] # << >> => Head(entries[t]) = observed[t]
    BY <1>1 DEF Entered
  <2>3. size' = [t \in Targets |-> IF entries[t] = << >> THEN size[t] ELSE observed[t]]
    BY <2>1, <2>2
  <2>4. entries' \in [Targets -> Seq(Int)]  BY <2>1, NoEntries
  <2>5. LayoutTyped'  BY <1>1, <2>1, <2>3, <2>4 DEF LayoutTyped
  <2>6. Entered' /\ Reported'  BY <1>1, <1>2, <2>1, <2>3 DEF Entered, Reported
  <2> QED BY <2>5, <2>6 DEF LayoutInv
<1>7. CASE Observe
  <2> DEFINE changed == {t \in Targets : Mounted(t) /\ Box(t) # observed[t]}
  <2>1. /\ ~ requested /\ requested' = ~ ticking /\ ticking' = TRUE
        /\ UNCHANGED <<window, onPage, size>>
        /\ observed' = [t \in Targets |-> IF t \in changed THEN Box(t) ELSE observed[t]]
        /\ entries' = [t \in Targets |-> IF t \in changed THEN Append(entries[t], Box(t))
                                                          ELSE entries[t]]
    BY <1>7 DEF Observe
  <2>2. \A t \in Targets : entries[t] = << >>  BY <1>1, <2>1 DEF Entered
  <2>3. \A t \in Targets : Box(t) \in Int /\ Box(t) > 0  BY <1>1, BoxIsPositive
  <2>4. \A t \in changed : Mounted(t)  OBVIOUS
  <2> HIDE DEF changed
  <2>5. \A t \in Targets : Append(entries[t], Box(t)) = <<Box(t)>>  BY <2>2, <2>3, OneEntry
  <2>6. entries' = [t \in Targets |-> IF t \in changed THEN <<Box(t)>> ELSE << >>]
    BY <2>1, <2>2, <2>5
  <2>7. \A t \in Targets : <<Box(t)>> \in Seq(Int)  BY <2>3, OneEntry
  <2>8. LayoutTyped'
    <3>1. observed' \in [Targets -> Int]  BY <1>1, <2>1, <2>3 DEF LayoutTyped
    <3>2. entries' \in [Targets -> Seq(Int)]  BY <2>6, <2>7
    <3> QED BY <1>1, <2>1, <3>1, <3>2 DEF LayoutTyped
  <2>9. ticking' = requested' /\ requested'  BY <1>1, <2>1 DEF Entered
  <2>10. \A t \in Targets : entries'[t] # << >> =>
           entries'[t] = <<observed'[t]>> /\ observed'[t] # 0
    <3> SUFFICES ASSUME NEW t \in Targets, entries'[t] # << >>
                 PROVE  entries'[t] = <<observed'[t]>> /\ observed'[t] # 0
      OBVIOUS
    <3>1. t \in changed  BY <2>6
    <3>2. entries'[t] = <<Box(t)>>  BY <2>6, <3>1
    <3>3. observed'[t] = Box(t) /\ Box(t) # 0  BY <2>1, <2>3, <3>1
    <3> QED BY <3>2, <3>3
  <2>11. Entered'  BY <2>9, <2>10 DEF Entered
  <2>12. \A t \in Targets : entries'[t] = << >> /\ observed'[t] # 0 => size'[t] = observed'[t]
    <3> SUFFICES ASSUME NEW t \in Targets, entries'[t] = << >>, observed'[t] # 0
                 PROVE  size[t] = observed[t] /\ observed'[t] = observed[t]
      BY <2>1
    <3>1. t \notin changed  BY <2>6
    <3> QED BY <1>1, <2>1, <2>2, <3>1 DEF Reported
  <2>13. ~ onPage' => entries'["grid"] = << >> /\ observed'["grid"] = 0
    BY <1>1, <1>2, <2>1, <2>4, <2>6 DEF Reported, Mounted
  <2>14. Reported'  BY <2>12, <2>13 DEF Reported
  <2> QED BY <2>8, <2>11, <2>14 DEF LayoutInv
<1> QED BY <1>3, <1>4, <1>5, <1>6, <1>7 DEF LayoutStep

LEMMA AlwaysLaidOut == Spec => []LayoutInv
<1>1. Init => LayoutInv  BY InitLayout DEF Init
<1>2. LayoutInv /\ [Next]_vars => LayoutInv'
  <2> SUFFICES ASSUME LayoutInv, [Next]_vars PROVE LayoutInv'  OBVIOUS
  <2>1. CASE Arranging(LayoutStep)  BY <2>1, LayoutKeeps DEF Arranging
  <2>2. CASE UNCHANGED layoutVars
    BY <2>2 DEF layoutVars, observerVars, LayoutInv, LayoutTyped, Entered, Reported
  <2> QED BY <2>1, <2>2 DEF Next, vars, Streaming, Decode, GetStats
<1> QED BY <1>1, <1>2, PTL DEF Spec

(* Whatever width the page has been told, the grid selectSize recurs to is   *)
(* the one that fits best: the recursion passes over no better one.         *)
THEOREM SelectedGridIsBest == Spec => []GridIsBest
<1>1. LayoutInv => GridIsBest
  <2> SUFFICES ASSUME LayoutInv, size["grid"] > 0,
                      NEW items \in 0 .. Cardinality(Streams) + 2
               PROVE  UseGridSize(items, size["grid"]) = BestGrid(items, size["grid"])
    BY DEF GridIsBest
  <2>1. size["grid"] \in Int  BY DEF LayoutInv, LayoutTyped, Targets
  <2>2. items \in Nat  BY StreamListAssumption, FS_CardinalityType
  <2> QED BY <2>1, <2>2, Selected, Best DEF UseGridSize
<1> QED BY <1>1, AlwaysLaidOut, PTL

(* The flag that lets only one animation frame be asked for never swallows a *)
(* size: when no frame is due and the browser has nothing to report, the     *)
(* page knows the width of everything it has mounted (the safety core of     *)
(* PageSettles for the layout).                                             *)
THEOREM StillPageIsMeasured == Spec => [](Still => Measured)
<1>1. LayoutInv => (Still => Measured)
  <2> SUFFICES ASSUME LayoutInv, Still, NEW t \in Targets, Mounted(t) PROVE size[t] = Box(t)
    BY DEF Measured
  <2>1. Box(t) # 0 /\ observed[t] = Box(t)  BY BoxIsPositive DEF LayoutInv, Still
  <2>2. entries[t] = << >>  BY DEF LayoutInv, Entered, Still
  <2> QED BY <2>1, <2>2 DEF LayoutInv, Reported
<1> QED BY <1>1, AlwaysLaidOut, PTL

-----------------------------------------------------------------------------
(* The actions of the list, in order *)

Calls == [at : {"wait", "locked", "applied"}, act : Action, ticket : Nat, result : SUBSET Streams]

StreamTyped ==
  /\ remote \in [Streams -> SUBSET Kinds] /\ live \in [Streams -> SUBSET Kinds]
  /\ dispatched \in Seq(Action) /\ calls \in Seq(Calls) /\ list \subseteq Streams

HeadApplied == ~ Idle /\ calls[1].at = "applied"

(* Only the oldest call of a render has been applied, to the list that was   *)
(* there when it was; nothing is dispatched while calls are out.            *)
OneAtATime ==
  /\ Idle \/ dispatched = << >>
  /\ \A i \in DOMAIN calls : i > 1 => calls[i].at # "applied"
  /\ HeadApplied => \E empty \in BOOLEAN :
       calls[1].result = Log!After(Given(calls[1].act), list, empty)

ListInv == StreamTyped /\ OneAtATime

LEMMA ActionFields ==
  ASSUME NEW name \in {"clear", "mutate", "remove"}, NEW s \in Streams,
         NEW track \in Kinds \cup {NoTrack}
  PROVE  LET act == ActionOf(name, s, track)
         IN act \in Action /\ act.name = name /\ act.stream = s /\ act.track = track
BY DEF ActionOf, Action

LEMMA CallFields ==
  ASSUME NEW at \in {"wait", "locked", "applied"}, NEW act \in Action, NEW ticket \in Nat,
         NEW result \in SUBSET Streams
  PROVE  LET c == CallAt(at, act, ticket, result)
         IN c \in Calls /\ c.at = at /\ c.act = act /\ c.ticket = ticket /\ c.result = result
BY DEF CallAt, Calls

LEMMA InitList == StreamInit => ListInv
<1> SUFFICES ASSUME StreamInit PROVE ListInv  OBVIOUS
<1>1. Idle  BY DEF StreamInit, Idle
<1>2. StreamTyped  BY DEF StreamInit, StreamTyped
<1>3. OneAtATime  BY <1>1 DEF StreamInit, OneAtATime, HeadApplied
<1> QED BY <1>2, <1>3 DEF ListInv

(* What the connection's events are: one action more. *)
LEMMA Dispatches ==
  ASSUME StreamTyped,
         ChangePeer \/ \E s \in Streams, track \in Kinds : OnTrack(s, track) \/ OnRemoveTrack(s, track)
  PROVE  /\ Idle /\ UNCHANGED <<calls, mutex, list, shown>>
         /\ remote' \in [Streams -> SUBSET Kinds] /\ live' \in [Streams -> SUBSET Kinds]
         /\ \E act \in Action : dispatched' = Append(dispatched, act)
<1>1. CASE ChangePeer
  <2> DEFINE s == CHOOSE u \in Streams : TRUE
  <2>1. s \in Streams  BY <1>1 DEF ChangePeer
  <2>2. /\ Idle /\ UNCHANGED <<calls, mutex, list, shown>>
        /\ dispatched' = Append(dispatched, ActionOf("clear", s, NoTrack))
    BY <1>1 DEF ChangePeer, Dispatch
  <2>3. ActionOf("clear", s, NoTrack) \in Action  BY <2>1, ActionFields
  <2>4. /\ remote' \in [Streams -> SUBSET Kinds] /\ live' \in [Streams -> SUBSET Kinds]
    BY <1>1 DEF ChangePeer
  <2> QED BY <2>2, <2>3, <2>4
<1>2. ASSUME NEW s \in Streams, NEW track \in Kinds, OnTrack(s, track)
      PROVE  /\ Idle /\ UNCHANGED <<calls, mutex, list, shown>>
             /\ remote' \in [Streams -> SUBSET Kinds] /\ live' \in [Streams -> SUBSET Kinds]
             /\ \E act \in Action : dispatched' = Append(dispatched, act)
  <2>1. ActionOf("mutate", s, NoTrack) \in Action  BY ActionFields
  <2>2. /\ remote' \in [Streams -> SUBSET Kinds] /\ live' \in [Streams -> SUBSET Kinds]
    BY <1>2 DEF OnTrack, StreamTyped
  <2> QED BY <1>2, <2>1, <2>2 DEF OnTrack, Dispatch
<1>3. ASSUME NEW s \in Streams, NEW track \in Kinds, OnRemoveTrack(s, track)
      PROVE  /\ Idle /\ UNCHANGED <<calls, mutex, list, shown>>
             /\ remote' \in [Streams -> SUBSET Kinds] /\ live' \in [Streams -> SUBSET Kinds]
             /\ \E act \in Action : dispatched' = Append(dispatched, act)
  <2>1. ActionOf("remove", s, track) \in Action  BY ActionFields
  <2>2. /\ remote' \in [Streams -> SUBSET Kinds] /\ live' \in [Streams -> SUBSET Kinds]
    BY <1>3 DEF OnRemoveTrack, StreamTyped
  <2> QED BY <1>3, <2>1, <2>2 DEF OnRemoveTrack, Dispatch
<1> QED BY <1>1, <1>2, <1>3

(* What a turn of the reducer does to the calls. *)
LEMMA Renders ==
  ASSUME ListInv, Render
  PROVE  /\ Idle /\ dispatched # << >> /\ dispatched' = << >>
         /\ calls' \in Seq(Calls) /\ DOMAIN calls' = DOMAIN dispatched
         /\ Len(calls') = Len(dispatched)
         /\ \A i \in DOMAIN dispatched : calls'[i].at = "wait" /\ calls'[i].act = dispatched[i]
<1>1. /\ Idle /\ dispatched # << >> /\ dispatched' = << >> /\ dispatched \in Seq(Action)
      /\ calls' = [i \in DOMAIN dispatched |-> CallAt("wait", dispatched[i], 0, {})]
  BY DEF Render, ListInv, StreamTyped
<1>2. \A i \in DOMAIN dispatched :
        LET c == CallAt("wait", dispatched[i], 0, {})
        IN c \in Calls /\ c.at = "wait" /\ c.act = dispatched[i]
  BY <1>1, CallFields
<1>3. DOMAIN dispatched = 1..Len(dispatched) /\ Len(dispatched) \in Nat  BY <1>1
<1>4. calls' \in [1..Len(dispatched) -> Calls]  BY <1>1, <1>2, <1>3
<1>5. calls' \in Seq(Calls) /\ Len(calls') = Len(dispatched)  BY <1>3, <1>4
<1>6. DOMAIN calls' = DOMAIN dispatched  BY <1>1
<1>7. \A i \in DOMAIN dispatched : calls'[i] = CallAt("wait", dispatched[i], 0, {})  BY <1>1
<1> QED BY <1>1, <1>2, <1>5, <1>6, <1>7

LEMMA Tickets ==
  ASSUME ListInv, mutex.taken \in Nat, NEW i \in DOMAIN calls, TakeTicket(i)
  PROVE  /\ calls' \in Seq(Calls) /\ DOMAIN calls' = DOMAIN calls /\ Len(calls') = Len(calls)
         /\ calls[i].at = "wait"
         /\ calls'[i].at = "locked" /\ calls'[i].ticket = mutex.taken + 1
         /\ calls'[i].act = calls[i].act
         /\ \A j \in DOMAIN calls : j # i => calls'[j] = calls[j]
<1>1. /\ calls' = [calls EXCEPT ![i] = CallAt("locked", @.act, mutex.taken + 1, {})]
      /\ calls[i].at = "wait" /\ calls \in Seq(Calls)
  BY DEF TakeTicket, ListInv, StreamTyped
<1> DEFINE c == CallAt("locked", calls[i].act, mutex.taken + 1, {})
<1>2. calls[i].act \in Action
  <2>1. calls[i] \in Calls  BY <1>1
  <2> QED BY <2>1 DEF Calls
<1>3. /\ c \in Calls /\ c.at = "locked" /\ c.act = calls[i].act /\ c.ticket = mutex.taken + 1
  BY <1>2, CallFields
<1>4. calls' = [calls EXCEPT ![i] = c]  BY <1>1
<1> HIDE DEF c
<1> QED BY <1>1, <1>3, <1>4

LEMMA Reduces ==
  ASSUME ListInv, Reduce
  PROVE  /\ calls' \in Seq(Calls) /\ DOMAIN calls' = DOMAIN calls /\ Len(calls') = Len(calls)
         /\ ~ Idle /\ 1 \in DOMAIN calls /\ calls[1].at = "locked" /\ calls'[1].at = "applied"
         /\ calls'[1].act = calls[1].act /\ calls'[1].ticket = calls[1].ticket
         /\ calls'[1].result = Reduced(calls[1].act, list)
         /\ \A j \in DOMAIN calls : j # 1 => calls'[j] = calls[j]
<1> DEFINE h == calls[1]
           c == CallAt("applied", h.act, h.ticket, Reduced(h.act, list))
<1>1. calls \in Seq(Calls) /\ calls # << >> /\ list \subseteq Streams
  BY DEF Reduce, ListInv, StreamTyped
<1>2. 1 \in DOMAIN calls /\ Head(calls) = h /\ h \in Calls /\ ~ Idle
  BY <1>1 DEF Idle
<1>3. /\ h.at = "locked" /\ calls' = [calls EXCEPT ![1] = c]
  BY <1>2 DEF Reduce
<1>4. h.act \in Action /\ h.ticket \in Nat  BY <1>2 DEF Calls
<1>5. Reduced(h.act, list) \in SUBSET Streams  BY <1>1, <1>4 DEF Reduced, Action
<1>6. /\ c \in Calls /\ c.at = "applied" /\ c.act = h.act /\ c.ticket = h.ticket
      /\ c.result = Reduced(h.act, list)
  BY <1>4, <1>5, CallFields
<1> HIDE DEF c
<1> QED BY <1>1, <1>2, <1>3, <1>6

LEMMA Returns ==
  ASSUME ListInv, Return
  PROVE  /\ calls' \in Seq(Calls) /\ calls' = Tail(calls) /\ Len(calls') = Len(calls) - 1
         /\ HeadApplied /\ 1 \in DOMAIN calls /\ dispatched = << >>
         /\ list' = calls[1].result /\ calls[1].result \subseteq Streams
         /\ UNCHANGED <<remote, live, dispatched>>
         /\ \A j \in DOMAIN calls' : j + 1 \in DOMAIN calls /\ calls'[j] = calls[j + 1]
<1>1. calls \in Seq(Calls) /\ calls # << >> /\ calls' = Tail(calls)
  BY DEF Return, ListInv, StreamTyped
<1>2. 1 \in DOMAIN calls /\ Head(calls) = calls[1] /\ calls[1] \in Calls /\ ~ Idle
  BY <1>1 DEF Idle
<1>3. /\ calls[1].at = "applied" /\ list' = calls[1].result
      /\ UNCHANGED <<remote, live, dispatched>>
  BY <1>2 DEF Return
<1>4. dispatched = << >>  BY <1>2 DEF ListInv, OneAtATime
<1> QED BY <1>1, <1>2, <1>3, <1>4 DEF HeadApplied, Calls

(* The tickets are taken in the order of the calls and freed in the order    *)
(* they were taken: the oldest call has the first one that is not free.      *)
InTurn ==
  /\ mutex.taken \in Nat
  /\ ~ Idle => \E n \in Nat, m \in 0..Len(calls) :
       /\ mutex.freed = 1..n /\ mutex.taken = n + m
       /\ \A i \in DOMAIN calls : /\ calls[i].at = "wait" <=> i > m
                                  /\ i <= m => calls[i].ticket = n + i

StreamInv == ListInv /\ InTurn

LEMMA Fresh == NewMutex.taken = 0 /\ NewMutex.freed = {}
BY DEF NewMutex, MutexOf

LEMMA InTurnStep == ASSUME StreamInv, StreamStep PROVE InTurn'
<1>1. StreamTyped /\ ListInv /\ InTurn  BY DEF StreamInv, ListInv
<1>2. ASSUME UNCHANGED <<calls, mutex>> PROVE InTurn'
  BY <1>1, <1>2 DEF InTurn, Idle
<1>3. CASE Render
  <2>1. mutex'.taken = 0 /\ mutex'.freed = {}  BY <1>3, Fresh DEF Render
  <2>2. \A i \in DOMAIN calls' : calls'[i].at = "wait"  BY <1>1, <1>3, Renders
  <2>3. calls' \in Seq(Calls)  BY <1>1, <1>3, Renders
  <2>4. /\ mutex'.freed = 1..0 /\ mutex'.taken = 0 + 0 /\ 0 \in 0..Len(calls')
        /\ \A i \in DOMAIN calls' : /\ calls'[i].at = "wait" <=> i > 0
                                    /\ i <= 0 => calls'[i].ticket = 0 + i
    BY <2>1, <2>2, <2>3
  <2>5. \E n \in Nat, m \in 0..Len(calls') :
          /\ mutex'.freed = 1..n /\ mutex'.taken = n + m
          /\ \A i \in DOMAIN calls' : /\ calls'[i].at = "wait" <=> i > m
                                      /\ i <= m => calls'[i].ticket = n + i
    BY <2>4
  <2> QED BY <2>1, <2>5 DEF InTurn
<1>4. ASSUME NEW i \in DOMAIN calls, TakeTicket(i) PROVE InTurn'
  <2>1. ~ Idle /\ calls \in Seq(Calls) /\ mutex.taken \in Nat
    BY <1>1 DEF Idle, StreamTyped, InTurn
  <2>2. PICK n \in Nat, m \in 0..Len(calls) :
          /\ mutex.freed = 1..n /\ mutex.taken = n + m
          /\ \A j \in DOMAIN calls : /\ calls[j].at = "wait" <=> j > m
                                     /\ j <= m => calls[j].ticket = n + j
    BY <1>1, <2>1 DEF InTurn
  <2>3. mutex'.taken = mutex.taken + 1 /\ mutex'.freed = mutex.freed
    BY <1>4 DEF TakeTicket, Lock, MutexOf
  <2>4. i = m + 1
    <3>1. i > m /\ i \in Nat /\ i <= Len(calls)  BY <1>1, <1>4, <2>1, <2>2, Tickets
    <3>2. \A j \in 1 .. i - 1 : j <= m
      <4> SUFFICES ASSUME NEW j \in 1 .. i - 1 PROVE j <= m  OBVIOUS
      <4>1. j \in DOMAIN calls /\ calls[j].at # "wait"
        BY <1>4, <2>1, <3>1 DEF TakeTicket
      <4> QED BY <2>2, <4>1
    <3> QED BY <3>1, <3>2
  <2>5. /\ calls' \in Seq(Calls) /\ DOMAIN calls' = DOMAIN calls /\ Len(calls') = Len(calls)
        /\ calls'[i].at = "locked" /\ calls'[i].ticket = n + i
        /\ \A j \in DOMAIN calls : j # i => calls'[j] = calls[j]
    BY <1>1, <1>4, <2>1, <2>2, <2>4, Tickets
  <2>6. \A j \in DOMAIN calls' : /\ calls'[j].at = "wait" <=> j > m + 1
                                 /\ j <= m + 1 => calls'[j].ticket = n + j
    <3> SUFFICES ASSUME NEW j \in DOMAIN calls'
                 PROVE  /\ calls'[j].at = "wait" <=> j > m + 1
                        /\ j <= m + 1 => calls'[j].ticket = n + j
      OBVIOUS
    <3>1. j \in DOMAIN calls /\ j \in Nat /\ m \in Nat  BY <2>1, <2>5
    <3>2. CASE j = i  BY <2>4, <2>5, <3>1, <3>2
    <3>3. CASE j # i
      <4>1. calls'[j] = calls[j]  BY <2>5, <3>1, <3>3
      <4>2. /\ calls[j].at = "wait" <=> j > m
            /\ j <= m => calls[j].ticket = n + j
        BY <2>2, <3>1
      <4>3. j > m <=> j > m + 1  BY <2>4, <3>1, <3>3
      <4>4. j <= m + 1 => j <= m  BY <2>4, <3>1, <3>3
      <4> QED BY <4>1, <4>2, <4>3, <4>4
    <3> QED BY <3>2, <3>3
  <2>7. m + 1 \in 0..Len(calls')  BY <2>1, <2>4, <2>5
  <2>8. \E k \in 0..Len(calls') :
          /\ mutex'.freed = 1..n /\ mutex'.taken = n + k
          /\ \A j \in DOMAIN calls' : /\ calls'[j].at = "wait" <=> j > k
                                      /\ j <= k => calls'[j].ticket = n + j
    BY <2>2, <2>3, <2>6, <2>7
  <2> QED BY <2>1, <2>3, <2>8 DEF InTurn
<1>5. CASE Reduce
  <2>1. /\ calls' \in Seq(Calls) /\ DOMAIN calls' = DOMAIN calls /\ Len(calls') = Len(calls)
        /\ ~ Idle /\ calls[1].at = "locked" /\ calls'[1].at = "applied"
        /\ calls'[1].ticket = calls[1].ticket
        /\ \A j \in DOMAIN calls : j # 1 => calls'[j] = calls[j]
    BY <1>1, <1>5, Reduces
  <2>2. UNCHANGED mutex  BY <1>5 DEF Reduce
  <2>3. \A j \in DOMAIN calls : /\ calls'[j].at = "wait" <=> calls[j].at = "wait"
                                /\ calls'[j].ticket = calls[j].ticket
    BY <2>1
  <2> QED BY <1>1, <2>1, <2>2, <2>3 DEF InTurn
<1>6. CASE Return
  <2>1. /\ calls \in Seq(Calls) /\ calls' \in Seq(Calls) /\ Len(calls') = Len(calls) - 1
        /\ HeadApplied /\ 1 \in DOMAIN calls
        /\ \A j \in DOMAIN calls' : j + 1 \in DOMAIN calls /\ calls'[j] = calls[j + 1]
    BY <1>1, <1>6, Returns DEF StreamTyped
  <2>2. CASE EndsRender
    <3>1. mutex'.taken = 0  BY <1>6, <2>2, Fresh DEF Return
    <3>2. Idle'  BY <2>1, <2>2 DEF EndsRender, Idle
    <3> QED BY <3>1, <3>2 DEF InTurn
  <2>3. CASE ~ EndsRender
    <3>1. PICK n \in Nat, m \in 0..Len(calls) :
            /\ mutex.freed = 1..n /\ mutex.taken = n + m
            /\ \A j \in DOMAIN calls : /\ calls[j].at = "wait" <=> j > m
                                       /\ j <= m => calls[j].ticket = n + j
      BY <1>1, <2>1 DEF InTurn, HeadApplied
    <3>2. m >= 1 /\ calls[1].ticket = n + 1  BY <2>1, <3>1 DEF HeadApplied
    <3>3. Head(calls) = calls[1] /\ calls # << >>  BY <2>1
    <3>4. mutex'.taken = n + m /\ mutex'.freed = 1..n \cup {n + 1}
      BY <1>6, <2>3, <3>1, <3>2, <3>3 DEF Return, Unlock, MutexOf
    <3>5. mutex'.freed = 1..n + 1  BY <3>4
    <3>6. \A j \in DOMAIN calls' : /\ calls'[j].at = "wait" <=> j > m - 1
                                   /\ j <= m - 1 => calls'[j].ticket = (n + 1) + j
      <4> SUFFICES ASSUME NEW j \in DOMAIN calls'
                   PROVE  /\ calls'[j].at = "wait" <=> j > m - 1
                          /\ j <= m - 1 => calls'[j].ticket = (n + 1) + j
        OBVIOUS
      <4>1. j \in Nat /\ j + 1 \in DOMAIN calls /\ calls'[j] = calls[j + 1]  BY <2>1
      <4>2. /\ calls[j + 1].at = "wait" <=> j + 1 > m
            /\ j + 1 <= m => calls[j + 1].ticket = n + (j + 1)
        BY <3>1, <4>1
      <4> QED BY <4>1, <4>2
    <3>7. m - 1 \in 0..Len(calls') /\ n + 1 \in Nat /\ mutex'.taken = (n + 1) + (m - 1)
      BY <2>1, <3>1, <3>2, <3>4
    <3>8. \E q \in Nat, k \in 0..Len(calls') :
            /\ mutex'.freed = 1..q /\ mutex'.taken = q + k
            /\ \A j \in DOMAIN calls' : /\ calls'[j].at = "wait" <=> j > k
                                        /\ j <= k => calls'[j].ticket = q + j
      BY <3>5, <3>6, <3>7
    <3>9. mutex'.taken \in Nat  BY <3>1, <3>4
    <3> QED BY <3>8, <3>9 DEF InTurn
  <2> QED BY <2>2, <2>3
<1>7. CASE ChangePeer \/ \E s \in Streams, track \in Kinds : OnTrack(s, track) \/ OnRemoveTrack(s, track)
  BY <1>1, <1>2, <1>7, Dispatches
<1> QED BY <1>3, <1>4, <1>5, <1>6, <1>7 DEF StreamStep, Reducing

LEMMA ListStep == ASSUME StreamInv, StreamStep PROVE ListInv'
<1>1. StreamTyped /\ OneAtATime /\ ListInv /\ mutex.taken \in Nat
  BY DEF StreamInv, ListInv, InTurn
<1>2. CASE ChangePeer \/ \E s \in Streams, track \in Kinds : OnTrack(s, track) \/ OnRemoveTrack(s, track)
  <2>1. PICK act \in Action : dispatched' = Append(dispatched, act)  BY <1>1, <1>2, Dispatches
  <2>2. /\ Idle /\ UNCHANGED <<calls, list>>
        /\ remote' \in [Streams -> SUBSET Kinds] /\ live' \in [Streams -> SUBSET Kinds]
    BY <1>1, <1>2, Dispatches
  <2>3. dispatched' \in Seq(Action)  BY <1>1, <2>1 DEF StreamTyped
  <2>4. StreamTyped'  BY <1>1, <2>2, <2>3 DEF StreamTyped
  <2>5. OneAtATime'  BY <2>2 DEF OneAtATime, HeadApplied, Idle
  <2> QED BY <2>4, <2>5 DEF ListInv
<1>3. CASE Render
  <2>1. /\ dispatched' = << >> /\ calls' \in Seq(Calls) /\ DOMAIN calls' = DOMAIN dispatched
        /\ \A i \in DOMAIN dispatched : calls'[i].at = "wait"
    BY <1>1, <1>3, Renders
  <2>2. UNCHANGED <<remote, live, list>>  BY <1>3 DEF Render
  <2>3. StreamTyped'  BY <1>1, <2>1, <2>2 DEF StreamTyped
  <2>4. ~ HeadApplied'
    <3>1. SUFFICES ASSUME ~ Idle' PROVE calls'[1].at = "wait"  BY DEF HeadApplied
    <3>2. 1 \in DOMAIN calls'  BY <2>1, <3>1 DEF Idle
    <3> QED BY <2>1, <3>2
  <2>5. OneAtATime'  BY <2>1, <2>4 DEF OneAtATime
  <2> QED BY <2>3, <2>5 DEF ListInv
<1>4. ASSUME NEW i \in DOMAIN calls, TakeTicket(i) PROVE ListInv'
  <2>1. /\ calls' \in Seq(Calls) /\ DOMAIN calls' = DOMAIN calls
        /\ calls[i].at = "wait" /\ calls'[i].at = "locked"
        /\ \A j \in DOMAIN calls : j # i => calls'[j] = calls[j]
    BY <1>1, <1>4, Tickets
  <2>2. UNCHANGED <<remote, live, dispatched, list>>  BY <1>4 DEF TakeTicket
  <2>3. StreamTyped'  BY <1>1, <2>1, <2>2 DEF StreamTyped
  <2>4. ~ Idle /\ dispatched = << >> /\ 1 \in DOMAIN calls
    BY <1>1 DEF OneAtATime, Idle, StreamTyped
  <2>5. HeadApplied' => HeadApplied /\ calls'[1] = calls[1]
    BY <2>1, <2>4 DEF HeadApplied
  <2>6. \A j \in DOMAIN calls' : j > 1 => calls'[j].at # "applied"
    BY <1>1, <2>1 DEF OneAtATime
  <2>7. HeadApplied' => \E empty \in BOOLEAN :
          calls'[1].result = Log!After(Given(calls'[1].act), list', empty)
    BY <1>1, <2>2, <2>5 DEF OneAtATime
  <2>8. OneAtATime'  BY <2>2, <2>4, <2>6, <2>7 DEF OneAtATime
  <2> QED BY <2>3, <2>8 DEF ListInv
<1>5. CASE Reduce
  <2>1. /\ calls' \in Seq(Calls) /\ DOMAIN calls' = DOMAIN calls
        /\ ~ Idle /\ 1 \in DOMAIN calls /\ calls'[1].act = calls[1].act
        /\ calls'[1].result = Reduced(calls[1].act, list)
        /\ \A j \in DOMAIN calls : j # 1 => calls'[j] = calls[j]
    BY <1>1, <1>5, Reduces
  <2> DEFINE a == calls[1].act
  <2>2. a \in Action
    <3>1. calls[1] \in Calls  BY <1>1, <2>1 DEF StreamTyped
    <3> QED BY <3>1 DEF Calls
  <2>3. UNCHANGED <<remote, dispatched, list>>  BY <1>5 DEF Reduce
  <2>4. live' \in [Streams -> SUBSET Kinds]
    <3>1. \/ UNCHANGED live
          \/ live' = [live EXCEPT ![Head(calls).act.stream] = @ \ {Head(calls).act.track}]
      BY <1>5 DEF Reduce
    <3> QED BY <1>1, <3>1 DEF StreamTyped
  <2>5. StreamTyped'  BY <1>1, <2>1, <2>3, <2>4 DEF StreamTyped
  <2>6. Reduced(a, list) = Log!After(Given(a), list, Emptied(a)) /\ Emptied(a) \in BOOLEAN
    <3>1. Given(a).name = a.name /\ Given(a).stream = a.stream  BY DEF Given
    <3>2. Emptied(a) \in BOOLEAN  BY DEF Emptied
    <3> QED BY <2>2, <3>1, <3>2 DEF Reduced, Log!After, Action
  <2>7. \E empty \in BOOLEAN :
          calls'[1].result = Log!After(Given(calls'[1].act), list', empty)
    BY <2>1, <2>3, <2>6
  <2>8. \A j \in DOMAIN calls' : j > 1 => calls'[j].at # "applied"
    BY <1>1, <2>1 DEF OneAtATime
  <2>9. dispatched' = << >>  BY <1>1, <2>1, <2>3 DEF OneAtATime
  <2>10. OneAtATime'  BY <2>7, <2>8, <2>9 DEF OneAtATime
  <2> QED BY <2>5, <2>10 DEF ListInv
<1>6. CASE Return
  <2>1. /\ calls' \in Seq(Calls) /\ dispatched' = << >> /\ calls \in Seq(Calls)
        /\ list' \subseteq Streams /\ UNCHANGED <<remote, live, dispatched>>
        /\ \A j \in DOMAIN calls' : j + 1 \in DOMAIN calls /\ calls'[j] = calls[j + 1]
    BY <1>1, <1>6, Returns DEF StreamTyped
  <2>2. StreamTyped'  BY <1>1, <2>1 DEF StreamTyped
  <2>3. \A j \in DOMAIN calls' : calls'[j].at # "applied"
    <3> SUFFICES ASSUME NEW j \in DOMAIN calls' PROVE calls'[j].at # "applied"  OBVIOUS
    <3>1. j \in Nat \ {0} /\ j + 1 \in DOMAIN calls /\ calls'[j] = calls[j + 1]  BY <2>1
    <3> QED BY <1>1, <3>1 DEF OneAtATime
  <2>4. ~ HeadApplied'
    <3>1. SUFFICES ASSUME ~ Idle' PROVE 1 \in DOMAIN calls'  BY <2>3 DEF HeadApplied
    <3> QED BY <2>1, <3>1 DEF Idle
  <2>5. OneAtATime'  BY <2>1, <2>3, <2>4 DEF OneAtATime
  <2> QED BY <2>2, <2>5 DEF ListInv
<1> QED BY <1>2, <1>3, <1>4, <1>5, <1>6 DEF StreamStep, Reducing

LEMMA AlwaysListed == Spec => []StreamInv
<1>1. Init => StreamInv
  <2>1. StreamInit => InTurn  BY Fresh DEF StreamInit, InTurn, Idle
  <2> QED BY <2>1, InitList DEF Init, StreamInv
<1>2. StreamInv /\ [Next]_vars => StreamInv'
  <2> SUFFICES ASSUME StreamInv, [Next]_vars PROVE StreamInv'  OBVIOUS
  <2>1. CASE StreamStep  BY <2>1, ListStep, InTurnStep DEF StreamInv
  <2>2. CASE UNCHANGED streamVars
    BY <2>2 DEF streamVars, StreamInv, ListInv, InTurn, StreamTyped, OneAtATime, HeadApplied, Idle
  <2> QED BY <2>1, <2>2 DEF Next, vars, Streaming, Arranging, Decode, GetStats
<1> QED BY <1>1, <1>2, PTL DEF Spec

(* No call of the reducer waits for good: whatever the order of renders,     *)
(* dispatches and returns, the oldest call waits for nothing but its own     *)
(* turn.  The mutex's promises and the promise of the call before it never   *)
(* wait for each other, although every render makes a mutex of its own.     *)
Advances ==
  ~ Idle => calls[1].at \in {"wait", "locked"} \/ Granted(mutex, calls[1].ticket)

THEOREM OldestCallAdvances == Spec => []Advances
<1>1. StreamInv => Advances
  <2> SUFFICES ASSUME StreamInv, ~ Idle, calls[1].at \notin {"wait", "locked"}
               PROVE  Granted(mutex, calls[1].ticket)
    BY DEF Advances
  <2>1. calls \in Seq(Calls) /\ 1 \in DOMAIN calls
    BY DEF StreamInv, ListInv, StreamTyped, Idle
  <2>2. PICK n \in Nat, m \in 0..Len(calls) :
          /\ mutex.freed = 1..n
          /\ \A i \in DOMAIN calls : /\ calls[i].at = "wait" <=> i > m
                                     /\ i <= m => calls[i].ticket = n + i
    BY DEF StreamInv, InTurn
  <2>3. calls[1].ticket = n + 1  BY <2>1, <2>2
  <2>4. calls[1].ticket - 1 = n  BY <2>2, <2>3
  <2> QED BY <2>2, <2>4 DEF Granted
<1> QED BY <1>1, AlwaysListed, PTL

-----------------------------------------------------------------------------
(* The list of streams is the log of ListLog *)

GivenCalls(s) == [i \in DOMAIN s |-> Given(s[i].act)]
GivenActions(s) == [i \in DOMAIN s |-> Given(s[i])]
Todo == GivenCalls(calls) \o GivenActions(dispatched)

LEMMA GivenIsAction ==
  ASSUME NEW act \in Action PROVE Given(act) \in Log!Action
BY DEF Given, Action, Log!Action

LEMMA CallsGiven ==
  ASSUME NEW s \in Seq(Calls)
  PROVE  /\ GivenCalls(s) \in Seq(Log!Action) /\ Len(GivenCalls(s)) = Len(s)
         /\ \A i \in 1..Len(s) : GivenCalls(s)[i] = Given(s[i].act)
<1>1. DOMAIN s = 1..Len(s) /\ Len(s) \in Nat  OBVIOUS
<1>2. \A i \in 1..Len(s) : Given(s[i].act) \in Log!Action
  <2> SUFFICES ASSUME NEW i \in 1..Len(s) PROVE s[i].act \in Action  BY GivenIsAction
  <2>1. s[i] \in Calls  BY <1>1
  <2> QED BY <2>1 DEF Calls
<1> QED BY <1>1, <1>2 DEF GivenCalls

LEMMA ActionsGiven ==
  ASSUME NEW s \in Seq(Action)
  PROVE  /\ GivenActions(s) \in Seq(Log!Action) /\ Len(GivenActions(s)) = Len(s)
         /\ \A i \in 1..Len(s) : GivenActions(s)[i] = Given(s[i])
<1>1. DOMAIN s = 1..Len(s) /\ Len(s) \in Nat  OBVIOUS
<1>2. \A i \in 1..Len(s) : Given(s[i]) \in Log!Action  BY <1>1, GivenIsAction
<1> QED BY <1>1, <1>2 DEF GivenActions

LEMMA NothingMore ==
  ASSUME NEW s \in Seq(Log!Action) PROVE << >> \o s = s /\ s \o << >> = s
OBVIOUS

LEMMA NothingGiven == GivenCalls(<< >>) = << >> /\ GivenActions(<< >>) = << >>
BY DEF GivenCalls, GivenActions

(* Calls that keep their actions are the same work. *)
LEMMA SameTodo ==
  ASSUME UNCHANGED dispatched, DOMAIN calls' = DOMAIN calls,
         \A i \in DOMAIN calls : calls'[i].act = calls[i].act
  PROVE  Todo' = Todo
BY DEF Todo, GivenCalls, GivenActions

LEMMA LogStep ==
  ASSUME StreamInv, StreamStep
  PROVE  Log!Give \/ Log!Apply \/ (Todo' = Todo /\ list' = list)
<1>1. ListInv /\ ListInv' /\ StreamTyped /\ StreamTyped' /\ mutex.taken \in Nat
  BY ListStep DEF StreamInv, ListInv, InTurn
<1>2. CASE ChangePeer \/ \E s \in Streams, track \in Kinds : OnTrack(s, track) \/ OnRemoveTrack(s, track)
  <2>1. PICK act \in Action : dispatched' = Append(dispatched, act)  BY <1>1, <1>2, Dispatches
  <2>2. Idle /\ UNCHANGED <<calls, list>> /\ Idle'  BY <1>1, <1>2, Dispatches DEF Idle
  <2>3. Todo = GivenActions(dispatched) /\ Todo' = GivenActions(dispatched')
    BY <1>1, <2>2, ActionsGiven, NothingGiven, NothingMore DEF Todo, Idle, StreamTyped
  <2>4. GivenActions(dispatched') = Append(GivenActions(dispatched), Given(act))
    <3> DEFINE g == GivenActions(dispatched)
               h == GivenActions(dispatched')
    <3>1. /\ g \in Seq(Log!Action) /\ Len(g) = Len(dispatched)
          /\ h \in Seq(Log!Action) /\ Len(h) = Len(dispatched')
          /\ \A i \in 1..Len(dispatched) : g[i] = Given(dispatched[i])
          /\ \A i \in 1..Len(dispatched') : h[i] = Given(dispatched'[i])
      BY <1>1, ActionsGiven DEF StreamTyped
    <3>2. /\ dispatched \in Seq(Action) /\ Len(dispatched') = Len(dispatched) + 1
          /\ \A i \in 1..Len(dispatched) : dispatched'[i] = dispatched[i]
          /\ dispatched'[Len(dispatched) + 1] = act
      BY <1>1, <2>1 DEF StreamTyped
    <3>3. Given(act) \in Log!Action  BY GivenIsAction
    <3> HIDE DEF g, h
    <3>4. \A i \in 1..Len(dispatched') : h[i] = Append(g, Given(act))[i]
      BY <3>1, <3>2
    <3>5. h = Append(g, Given(act))  BY <3>1, <3>2, <3>3, <3>4
    <3> QED BY <3>5 DEF g, h
  <2>5. Given(act) \in Log!Action  BY GivenIsAction
  <2>6. Log!Give  BY <2>2, <2>3, <2>4, <2>5 DEF Log!Give, Todo, GivenCalls, GivenActions
  <2> QED BY <2>6
<1>3. CASE Render
  <2>1. /\ Idle /\ dispatched' = << >> /\ DOMAIN calls' = DOMAIN dispatched
        /\ \A i \in DOMAIN dispatched : calls'[i].act = dispatched[i]
    BY <1>1, <1>3, Renders
  <2>2. GivenCalls(calls') = GivenActions(dispatched)  BY <2>1 DEF GivenCalls, GivenActions
  <2>3. Todo = GivenActions(dispatched)
    BY <1>1, <2>1, ActionsGiven, NothingGiven, NothingMore DEF Todo, Idle, StreamTyped
  <2>5. Todo' = GivenCalls(calls')
    BY <1>1, <2>1, CallsGiven, NothingGiven, NothingMore DEF Todo, StreamTyped
  <2>4. list' = list  BY <1>3 DEF Render
  <2> QED BY <2>2, <2>3, <2>4, <2>5
<1>4. ASSUME NEW i \in DOMAIN calls, TakeTicket(i) PROVE Todo' = Todo /\ list' = list
  <2>1. UNCHANGED <<dispatched, list>>  BY <1>4 DEF TakeTicket
  <2>2. DOMAIN calls' = DOMAIN calls /\ \A j \in DOMAIN calls : calls'[j].act = calls[j].act
    BY <1>1, <1>4, Tickets
  <2> QED BY <2>1, <2>2, SameTodo
<1>5. CASE Reduce
  <2>1. UNCHANGED <<dispatched, list>>  BY <1>5 DEF Reduce
  <2>2. DOMAIN calls' = DOMAIN calls /\ \A j \in DOMAIN calls : calls'[j].act = calls[j].act
    BY <1>1, <1>5, Reduces
  <2> QED BY <2>1, <2>2, SameTodo
<1>6. CASE Return
  <2>1. /\ calls \in Seq(Calls) /\ calls' \in Seq(Calls) /\ Len(calls') = Len(calls) - 1
        /\ HeadApplied /\ 1 \in DOMAIN calls /\ dispatched = << >> /\ dispatched' = << >>
        /\ list' = calls[1].result
        /\ \A j \in DOMAIN calls' : calls'[j] = calls[j + 1]
    BY <1>1, <1>6, Returns DEF StreamTyped
  <2> DEFINE g == GivenCalls(calls)
             h == GivenCalls(calls')
  <2>2. Todo = g /\ Todo' = h
    BY <2>1, CallsGiven, NothingGiven, NothingMore DEF Todo
  <2>3. /\ g \in Seq(Log!Action) /\ Len(g) = Len(calls)
        /\ h \in Seq(Log!Action) /\ Len(h) = Len(calls')
        /\ \A i \in 1..Len(calls) : g[i] = Given(calls[i].act)
        /\ \A i \in 1..Len(calls') : h[i] = Given(calls'[i].act)
    BY <2>1, CallsGiven
  <2>4. g # << >> /\ Head(g) = Given(calls[1].act) /\ h = Tail(g)
    <3> HIDE DEF g, h
    <3>1. Len(calls) \in Nat /\ Len(calls) >= 1  BY <2>1
    <3>2. g # << >> /\ Head(g) = Given(calls[1].act)  BY <2>3, <3>1
    <3>3. Len(Tail(g)) = Len(calls') /\ Tail(g) \in Seq(Log!Action)
      BY <2>1, <2>3, <3>1, <3>2
    <3>4. \A i \in 1..Len(calls') : Tail(g)[i] = h[i]
      <4> SUFFICES ASSUME NEW i \in 1..Len(calls') PROVE Tail(g)[i] = h[i]  OBVIOUS
      <4>1. i + 1 \in 1..Len(calls) /\ i \in DOMAIN calls'  BY <2>1, <3>1
      <4>2. Tail(g)[i] = g[i + 1]  BY <2>3, <3>2, <4>1
      <4> QED BY <2>1, <2>3, <4>1, <4>2
    <3> QED BY <2>3, <3>2, <3>3, <3>4
  <2>5. \E empty \in BOOLEAN : list' = Log!After(Given(calls[1].act), list, empty)
    BY <1>1, <2>1 DEF ListInv, OneAtATime
  <2>6. Log!Apply
    BY <2>2, <2>4, <2>5 DEF Log!Apply, Todo, GivenCalls, GivenActions
  <2> QED BY <2>6
<1> QED BY <1>2, <1>3, <1>4, <1>5, <1>6 DEF StreamStep, Reducing

(* Whatever waits for whatever mutex and promise, the list of a page is a    *)
(* log: actions are appended in the order of their dispatch, the first one   *)
(* is applied to the list at once, and no other step changes either (the     *)
(* safety part of ListIsApplied).                                           *)
THEOREM ListIsALog == Spec => Log!Safety
<1>1. Init => Log!Init
  BY DEF Init, StreamInit, Log!Init
<1>2. StreamInv /\ [Next]_vars => [Log!Give \/ Log!Apply]_<<Todo, list>>
  <2> SUFFICES ASSUME StreamInv, [Next]_vars
               PROVE  Log!Give \/ Log!Apply \/ (Todo' = Todo /\ list' = list)
    OBVIOUS
  <2>1. CASE StreamStep  BY <2>1, LogStep
  <2>2. CASE UNCHANGED streamVars
    BY <2>2 DEF streamVars, Todo
  <2> QED BY <2>1, <2>2 DEF Next, vars, Streaming, Arranging, Decode, GetStats
<1> QED BY <1>1, <1>2, AlwaysListed, PTL DEF Spec, Log!Safety, Todo, GivenCalls, GivenActions
-----------------------------------------------------------------------------
(* What a page at rest shows *)

(* W are the actions that have not been applied to the list N yet. *)
Gives(act, s) == act.name = "mutate" /\ act.stream = s
Drops(act, s) == \/ act.name = "clear"
                 \/ act.name = "remove" /\ act.stream = s

WillBeIn(W, N, s) ==
  \/ \E i \in 1..Len(W) : Gives(W[i], s) /\ \A j \in i + 1 .. Len(W) : W[j].name # "clear"
  \/ s \in N /\ \A i \in 1..Len(W) : W[i].name # "clear"

WillBeOut(W, N, s) ==
  \/ \E i \in 1..Len(W) : Drops(W[i], s) /\ \A j \in i + 1 .. Len(W) : ~ Gives(W[j], s)
  \/ s \notin N /\ \A i \in 1..Len(W) : ~ Gives(W[i], s)

(* What waits is right for the tracks there are: a track whose removal waits *)
(* is gone, and the list will have exactly the streams with a track.        *)
Right(W, N, tracks) ==
  /\ \A i \in 1..Len(W) : W[i].name = "remove" => W[i].track \notin tracks[W[i].stream]
  /\ \A s \in Streams : IF tracks[s] # {} THEN WillBeIn(W, N, s) ELSE WillBeOut(W, N, s)

Acts(c) == [i \in 1..Len(c) |-> c[i].act]

Waiting == IF Idle THEN dispatched ELSE IF HeadApplied THEN Tail(Acts(calls)) ELSE Acts(calls)
Now == IF HeadApplied THEN calls[1].result ELSE list

RestInv ==
  /\ PromptRender => live = remote /\ Right(Waiting, Now, remote)
  /\ Idle => shown = list
  /\ shown \subseteq Streams
  /\ tile \in [Streams -> {"none", "loading", "playing"}]
  /\ \A s \in Streams : tile[s] = "none" <=> ~onPage \/ s \notin shown

LEMMA Appended ==
  ASSUME NEW W \in Seq(Action), NEW act \in Action
  PROVE  /\ Append(W, act) \in Seq(Action) /\ Len(Append(W, act)) = Len(W) + 1 /\ Len(W) \in Nat
         /\ \A i \in 1..Len(W) : Append(W, act)[i] = W[i]
         /\ Append(W, act)[Len(W) + 1] = act
OBVIOUS

LEMMA InKept ==
  ASSUME NEW W \in Seq(Action), NEW act \in Action, NEW N, NEW s,
         Gives(act, s) \/ (act.name # "clear" /\ WillBeIn(W, N, s))
  PROVE  WillBeIn(Append(W, act), N, s)
<1> DEFINE V == Append(W, act)
           n == Len(W)
<1>1. /\ Len(V) = n + 1 /\ n \in Nat /\ V[n + 1] = act
      /\ \A i \in 1..n : V[i] = W[i]
  BY Appended
<1> HIDE DEF V
<1>2. CASE Gives(act, s)
  <2>1. n + 1 \in 1..Len(V) /\ \A j \in (n + 1) + 1 .. Len(V) : FALSE  BY <1>1
  <2> QED BY <1>1, <1>2, <2>1 DEF WillBeIn, V
<1>3. CASE act.name # "clear" /\ WillBeIn(W, N, s)
  <2>1. \A i \in 1..Len(V) : V[i].name = "clear" => i \in 1..n /\ W[i].name = "clear"
    BY <1>1, <1>3
  <2>2. CASE s \in N /\ \A i \in 1..n : W[i].name # "clear"
    BY <2>1, <2>2 DEF WillBeIn, V
  <2>3. ASSUME NEW i \in 1..n, Gives(W[i], s), \A j \in i + 1 .. n : W[j].name # "clear"
        PROVE  WillBeIn(V, N, s)
    <3>1. i \in 1..Len(V) /\ Gives(V[i], s)  BY <1>1, <2>3
    <3>2. \A j \in i + 1 .. Len(V) : V[j].name # "clear"  BY <1>1, <2>1, <2>3
    <3> QED BY <3>1, <3>2 DEF WillBeIn
  <2> QED BY <1>3, <2>2, <2>3 DEF WillBeIn, V
<1> QED BY <1>2, <1>3

LEMMA OutKept ==
  ASSUME NEW W \in Seq(Action), NEW act \in Action, NEW N, NEW s,
         Drops(act, s) \/ (~ Gives(act, s) /\ WillBeOut(W, N, s))
  PROVE  WillBeOut(Append(W, act), N, s)
<1> DEFINE V == Append(W, act)
           n == Len(W)
<1>1. /\ Len(V) = n + 1 /\ n \in Nat /\ V[n + 1] = act
      /\ \A i \in 1..n : V[i] = W[i]
  BY Appended
<1> HIDE DEF V
<1>2. CASE Drops(act, s)
  <2>1. n + 1 \in 1..Len(V) /\ \A j \in (n + 1) + 1 .. Len(V) : FALSE  BY <1>1
  <2> QED BY <1>1, <1>2, <2>1 DEF WillBeOut, V
<1>3. CASE ~ Gives(act, s) /\ WillBeOut(W, N, s)
  <2>1. \A i \in 1..Len(V) : Gives(V[i], s) => i \in 1..n /\ Gives(W[i], s)
    <3> SUFFICES ASSUME NEW i \in 1..Len(V), Gives(V[i], s) PROVE i \in 1..n /\ Gives(W[i], s)
      OBVIOUS
    <3>1. CASE i = n + 1  BY <1>1, <1>3, <3>1
    <3>2. CASE i # n + 1  BY <1>1, <3>2
    <3> QED BY <3>1, <3>2
  <2>2. CASE s \notin N /\ \A i \in 1..n : ~ Gives(W[i], s)
    BY <2>1, <2>2 DEF WillBeOut, V
  <2>3. ASSUME NEW i \in 1..n, Drops(W[i], s), \A j \in i + 1 .. n : ~ Gives(W[j], s)
        PROVE  WillBeOut(V, N, s)
    <3>1. i \in 1..Len(V) /\ Drops(V[i], s)  BY <1>1, <2>3
    <3>2. \A j \in i + 1 .. Len(V) : ~ Gives(V[j], s)  BY <1>1, <2>1, <2>3
    <3> QED BY <3>1, <3>2 DEF WillBeOut
  <2> QED BY <1>3, <2>2, <2>3 DEF WillBeOut, V
<1> QED BY <1>2, <1>3

LEMMA Tailed ==
  ASSUME NEW W \in Seq(Action), W # << >>
  PROVE  /\ Tail(W) \in Seq(Action) /\ Len(Tail(W)) = Len(W) - 1
         /\ Len(W) \in Nat /\ Len(W) >= 1 /\ W[1] \in Action
         /\ \A i \in 1..Len(Tail(W)) : i + 1 \in 1..Len(W) /\ Tail(W)[i] = W[i + 1]
OBVIOUS

LEMMA InTail ==
  ASSUME NEW W \in Seq(Action), W # << >>, NEW N, NEW M, NEW s, WillBeIn(W, N, s),
         Gives(W[1], s) => s \in M,
         s \in N /\ W[1].name # "clear" => s \in M
  PROVE  WillBeIn(Tail(W), M, s)
<1> DEFINE V == Tail(W)
<1>1. /\ Len(V) = Len(W) - 1 /\ Len(W) \in Nat /\ Len(W) >= 1
      /\ \A i \in 1..Len(V) : i + 1 \in 1..Len(W) /\ V[i] = W[i + 1]
  BY Tailed
<1> HIDE DEF V
<1>2. ASSUME \A i \in 2..Len(W) : W[i].name # "clear" PROVE \A i \in 1..Len(V) : V[i].name # "clear"
  BY <1>1, <1>2
<1>3. CASE s \in N /\ \A i \in 1..Len(W) : W[i].name # "clear"
  <2>1. s \in M  BY <1>1, <1>3
  <2>2. \A i \in 1..Len(V) : V[i].name # "clear"  BY <1>1, <1>3
  <2> QED BY <2>1, <2>2 DEF WillBeIn, V
<1>4. ASSUME NEW i \in 1..Len(W), Gives(W[i], s), \A j \in i + 1 .. Len(W) : W[j].name # "clear"
      PROVE  WillBeIn(V, M, s)
  <2>1. CASE i = 1
    <3>1. s \in M  BY <1>4, <2>1
    <3>2. \A j \in 2..Len(W) : W[j].name # "clear"  BY <1>4, <2>1
    <3> QED BY <1>2, <3>1, <3>2 DEF WillBeIn
  <2>2. CASE i > 1
    <3>1. i - 1 \in 1..Len(V) /\ V[i - 1] = W[i]  BY <1>1, <2>2
    <3>2. \A j \in (i - 1) + 1 .. Len(V) : V[j].name # "clear"
      <4> SUFFICES ASSUME NEW j \in (i - 1) + 1 .. Len(V) PROVE V[j].name # "clear"  OBVIOUS
      <4>1. j \in 1..Len(V) /\ j + 1 \in i + 1 .. Len(W)  BY <1>1, <2>2
      <4> QED BY <1>1, <1>4, <4>1
    <3>3. Gives(V[i - 1], s)  BY <1>4, <3>1
    <3> QED BY <3>1, <3>2, <3>3 DEF WillBeIn
  <2> QED BY <2>1, <2>2
<1> QED BY <1>3, <1>4 DEF WillBeIn, V

LEMMA OutTail ==
  ASSUME NEW W \in Seq(Action), W # << >>, NEW N, NEW M, NEW s, WillBeOut(W, N, s),
         Drops(W[1], s) => s \notin M,
         s \notin N /\ ~ Gives(W[1], s) => s \notin M
  PROVE  WillBeOut(Tail(W), M, s)
<1> DEFINE V == Tail(W)
<1>1. /\ Len(V) = Len(W) - 1 /\ Len(W) \in Nat /\ Len(W) >= 1
      /\ \A i \in 1..Len(V) : i + 1 \in 1..Len(W) /\ V[i] = W[i + 1]
  BY Tailed
<1> HIDE DEF V
<1>2. ASSUME \A i \in 2..Len(W) : ~ Gives(W[i], s) PROVE \A i \in 1..Len(V) : ~ Gives(V[i], s)
  BY <1>1, <1>2
<1>3. CASE s \notin N /\ \A i \in 1..Len(W) : ~ Gives(W[i], s)
  <2>1. s \notin M  BY <1>1, <1>3
  <2>2. \A i \in 1..Len(V) : ~ Gives(V[i], s)  BY <1>1, <1>3
  <2> QED BY <2>1, <2>2 DEF WillBeOut, V
<1>4. ASSUME NEW i \in 1..Len(W), Drops(W[i], s), \A j \in i + 1 .. Len(W) : ~ Gives(W[j], s)
      PROVE  WillBeOut(V, M, s)
  <2>1. CASE i = 1
    <3>1. s \notin M  BY <1>4, <2>1
    <3>2. \A j \in 2..Len(W) : ~ Gives(W[j], s)  BY <1>4, <2>1
    <3> QED BY <1>2, <3>1, <3>2 DEF WillBeOut
  <2>2. CASE i > 1
    <3>1. i - 1 \in 1..Len(V) /\ V[i - 1] = W[i]  BY <1>1, <2>2
    <3>2. \A j \in (i - 1) + 1 .. Len(V) : ~ Gives(V[j], s)
      <4> SUFFICES ASSUME NEW j \in (i - 1) + 1 .. Len(V) PROVE ~ Gives(V[j], s)  OBVIOUS
      <4>1. j \in 1..Len(V) /\ j + 1 \in i + 1 .. Len(W)  BY <1>1, <2>2
      <4> QED BY <1>1, <1>4, <4>1
    <3>3. Drops(V[i - 1], s)  BY <1>4, <3>1
    <3> QED BY <3>1, <3>2, <3>3 DEF WillBeOut
  <2> QED BY <2>1, <2>2
<1> QED BY <1>3, <1>4 DEF WillBeOut, V

(* The actions of the calls are those they were rendered with. *)
LEMMA ActsOf ==
  ASSUME NEW c \in Seq(Calls)
  PROVE  /\ Acts(c) \in Seq(Action) /\ Len(Acts(c)) = Len(c) /\ Len(c) \in Nat
         /\ \A i \in 1..Len(c) : Acts(c)[i] = c[i].act
<1>1. DOMAIN c = 1..Len(c) /\ Len(c) \in Nat  OBVIOUS
<1>2. \A i \in 1..Len(c) : c[i].act \in Action
  <2> SUFFICES ASSUME NEW i \in 1..Len(c) PROVE c[i].act \in Action  OBVIOUS
  <2>1. c[i] \in Calls  BY <1>1
  <2> QED BY <2>1 DEF Calls
<1> QED BY <1>1, <1>2 DEF Acts

LEMMA SameActs ==
  ASSUME NEW V \in Seq(Action), NEW W \in Seq(Action), Len(V) = Len(W),
         \A i \in 1..Len(W) : V[i] = W[i]
  PROVE  V = W
OBVIOUS

LEMMA EventsRight ==
  ASSUME StreamTyped, PromptRender, live = remote, Right(dispatched, list, remote),
         ChangePeer \/ \E s \in Streams, track \in Kinds : OnTrack(s, track) \/ OnRemoveTrack(s, track)
  PROVE  live' = remote' /\ Right(dispatched', list, remote')
<1>0. dispatched \in Seq(Action) /\ DOMAIN dispatched = 1..Len(dispatched)
  BY DEF StreamTyped
<1>a. /\ \A i \in 1..Len(dispatched) : dispatched[i].name = "remove" =>
           dispatched[i].track \notin remote[dispatched[i].stream]
      /\ \A s \in Streams : remote[s] # {} => WillBeIn(dispatched, list, s)
      /\ \A s \in Streams : remote[s] = {} => WillBeOut(dispatched, list, s)
  BY DEF Right
<1>b. \A i \in 1..Len(dispatched) : dispatched[i] \in Action  BY <1>0
<1>1. CASE ChangePeer
  <2> DEFINE s == CHOOSE u \in Streams : TRUE
             act == ActionOf("clear", s, NoTrack)
  <2>1. s \in Streams  BY <1>1 DEF ChangePeer
  <2>2. act \in Action /\ act.name = "clear"  BY <2>1, ActionFields
  <2>3. remote' = [u \in Streams |-> {}] /\ live' = remote' /\ dispatched' = Append(dispatched, act)
    BY <1>1 DEF ChangePeer, Dispatch
  <2> HIDE DEF act
  <2>4. \A i \in 1..Len(dispatched') : dispatched'[i] \in Action
    BY <1>0, <2>2, <2>3, Appended
  <2>5. \A i \in 1..Len(dispatched') : dispatched'[i].track \notin remote'[dispatched'[i].stream]
    BY <2>3, <2>4 DEF Action
  <2>6. ASSUME NEW u \in Streams PROVE remote'[u] = {} /\ WillBeOut(dispatched', list, u)
    <3>1. Drops(act, u)  BY <2>2 DEF Drops
    <3> QED BY <1>0, <2>2, <2>3, <3>1, OutKept
  <2> QED BY <2>3, <2>5, <2>6 DEF Right
<1>2. ASSUME NEW s \in Streams, NEW track \in Kinds, OnTrack(s, track)
      PROVE  live' = remote' /\ Right(dispatched', list, remote')
  <2> DEFINE act == ActionOf("mutate", s, NoTrack)
  <2>1. act \in Action /\ act.name = "mutate" /\ act.stream = s  BY ActionFields
  <2>2. /\ remote' = [remote EXCEPT ![s] = @ \cup {track}] /\ live' = remote'
        /\ dispatched' = Append(dispatched, act) /\ ~ Removing(s, track)
    BY <1>2 DEF OnTrack, Dispatch
  <2> HIDE DEF act
  <2>3. remote'[s] = remote[s] \cup {track} /\ \A u \in Streams : u # s => remote'[u] = remote[u]
    BY <2>2 DEF StreamTyped
  <2>4. ASSUME NEW i \in 1..Len(dispatched'), dispatched'[i].name = "remove"
        PROVE  dispatched'[i].track \notin remote'[dispatched'[i].stream]
    <3>1. i \in 1..Len(dispatched) /\ dispatched'[i] = dispatched[i]
      <4>1. i # Len(dispatched) + 1  BY <1>0, <2>1, <2>2, <2>4, Appended
      <4> QED BY <1>0, <2>1, <2>2, <4>1, Appended
    <3>2. dispatched[i].stream \in Streams  BY <1>b, <3>1 DEF Action
    <3>3. dispatched[i].stream = s => dispatched[i].track # track
      BY <1>0, <2>2, <2>4, <3>1 DEF Removing
    <3>4. dispatched[i].track \notin remote[dispatched[i].stream]  BY <1>a, <2>4, <3>1
    <3> QED BY <2>3, <3>1, <3>2, <3>3, <3>4
  <2>5. ASSUME NEW u \in Streams
        PROVE  IF remote'[u] # {} THEN WillBeIn(dispatched', list, u)
                                  ELSE WillBeOut(dispatched', list, u)
    <3>1. CASE u = s
      <4>1. Gives(act, u) /\ remote'[u] # {}  BY <2>1, <2>3, <3>1 DEF Gives
      <4> QED BY <1>0, <2>1, <2>2, <4>1, InKept
    <3>2. CASE u # s
      <4>1. remote'[u] = remote[u] /\ act.name # "clear" /\ ~ Gives(act, u)
        BY <2>1, <2>3, <3>2 DEF Gives
      <4> QED BY <1>0, <1>a, <2>1, <2>2, <4>1, InKept, OutKept
    <3> QED BY <3>1, <3>2
  <2> QED BY <2>2, <2>4, <2>5 DEF Right
<1>3. ASSUME NEW s \in Streams, NEW track \in Kinds, OnRemoveTrack(s, track)
      PROVE  live' = remote' /\ Right(dispatched', list, remote')
  <2> DEFINE act == ActionOf("remove", s, track)
  <2>1. act \in Action /\ act.name = "remove" /\ act.stream = s /\ act.track = track
    BY ActionFields
  <2>2. /\ remote' = [remote EXCEPT ![s] = @ \ {track}] /\ live' = remote'
        /\ dispatched' = Append(dispatched, act)
    BY <1>3 DEF OnRemoveTrack, Dispatch
  <2> HIDE DEF act
  <2>3. remote'[s] = remote[s] \ {track} /\ \A u \in Streams : u # s => remote'[u] = remote[u]
    BY <2>2 DEF StreamTyped
  <2>4. ASSUME NEW i \in 1..Len(dispatched'), dispatched'[i].name = "remove"
        PROVE  dispatched'[i].track \notin remote'[dispatched'[i].stream]
    <3>1. CASE i = Len(dispatched) + 1  BY <1>0, <2>1, <2>2, <2>3, <3>1, Appended
    <3>2. CASE i # Len(dispatched) + 1
      <4>1. i \in 1..Len(dispatched) /\ dispatched'[i] = dispatched[i]
        BY <1>0, <2>1, <2>2, <3>2, Appended
      <4>2. dispatched[i].stream \in Streams  BY <1>b, <4>1 DEF Action
      <4>3. dispatched[i].track \notin remote[dispatched[i].stream]  BY <1>a, <2>4, <4>1
      <4> QED BY <2>3, <4>1, <4>2, <4>3
    <3> QED BY <3>1, <3>2
  <2>5. ASSUME NEW u \in Streams
        PROVE  IF remote'[u] # {} THEN WillBeIn(dispatched', list, u)
                                  ELSE WillBeOut(dispatched', list, u)
    <3>1. act.name # "clear" /\ ~ Gives(act, u) /\ (Drops(act, u) <=> u = s)
      BY <2>1 DEF Gives, Drops
    <3>2. CASE u = s
      <4>1. remote'[u] # {} => remote[u] # {}  BY <2>3, <3>2
      <4>2. CASE remote'[u] # {}
        <5>1. WillBeIn(dispatched, list, u)  BY <1>a, <4>1, <4>2
        <5> QED BY <1>0, <2>1, <2>2, <3>1, <4>2, <5>1, InKept
      <4>3. CASE remote'[u] = {}
        <5>1. WillBeOut(dispatched', list, u)  BY <1>0, <2>1, <2>2, <3>1, <3>2, OutKept
        <5> QED BY <4>3, <5>1
      <4> QED BY <4>2, <4>3
    <3>3. CASE u # s
      <4>1. remote'[u] = remote[u]  BY <2>3, <3>3
      <4> QED BY <1>0, <1>a, <2>1, <2>2, <3>1, <4>1, InKept, OutKept
    <3> QED BY <3>2, <3>3
  <2> QED BY <2>2, <2>4, <2>5 DEF Right
<1> QED BY <1>1, <1>2, <1>3

(* A turn of the reducer, on constants: the first action leaves what waits,  *)
(* and the list becomes what it makes of it.                                *)
LEMMA ReducedRight ==
  ASSUME StreamTyped, NEW W \in Seq(Action), W # << >>, live = remote, Right(W, list, remote)
  PROVE  Right(Tail(W), Reduced(W[1], list), remote)
<1> DEFINE a == W[1]
           M == Reduced(a, list)
<1>1. /\ a \in Action /\ Len(W) >= 1 /\ Len(W) \in Nat
      /\ \A i \in 1..Len(Tail(W)) : i + 1 \in 1..Len(W) /\ Tail(W)[i] = W[i + 1]
  BY Tailed
<1>2. a.name = "remove" => a.track \notin live[a.stream]  BY <1>1 DEF Right
<1>3. ASSUME NEW i \in 1..Len(Tail(W)), Tail(W)[i].name = "remove"
      PROVE  Tail(W)[i].track \notin remote[Tail(W)[i].stream]
  BY <1>1, <1>3 DEF Right
<1>4. ASSUME NEW s \in Streams, remote[s] # {} PROVE WillBeIn(Tail(W), M, s)
  <2>1. WillBeIn(W, list, s)  BY <1>4 DEF Right
  <2>2. Gives(a, s) => s \in M  BY DEF Gives, Reduced
  <2>3. s \in list /\ a.name # "clear" => s \in M
    <3>1. CASE a.name = "mutate"  BY <3>1 DEF Reduced
    <3>2. CASE a.name = "remove"
      <4>1. a.stream = s => ~ Emptied(a)  BY <1>2, <1>4, <3>2 DEF Emptied
      <4> QED BY <3>2, <4>1 DEF Reduced
    <3> QED BY <1>1, <3>1, <3>2 DEF Action
  <2> QED BY <2>1, <2>2, <2>3, InTail
<1>5. ASSUME NEW s \in Streams, remote[s] = {} PROVE WillBeOut(Tail(W), M, s)
  <2>1. WillBeOut(W, list, s)  BY <1>5 DEF Right
  <2>2. Drops(a, s) => s \notin M  BY <1>5 DEF Drops, Reduced, Emptied
  <2>3. s \notin list /\ ~ Gives(a, s) => s \notin M
    BY <1>1 DEF Gives, Reduced, Action
  <2> QED BY <2>1, <2>2, <2>3, OutTail
<1> QED BY <1>3, <1>4, <1>5 DEF Right

LEMMA WaitingTyped == ASSUME ListInv PROVE Waiting \in Seq(Action)
<1>1. dispatched \in Seq(Action) /\ calls \in Seq(Calls)  BY DEF ListInv, StreamTyped
<1>2. Acts(calls) \in Seq(Action) /\ Len(Acts(calls)) = Len(calls)  BY <1>1, ActsOf
<1>3. ~ Idle => Acts(calls) # << >>  BY <1>1, <1>2 DEF Idle
<1>4. ~ Idle => Tail(Acts(calls)) \in Seq(Action)  BY <1>2, <1>3, Tailed
<1> QED BY <1>1, <1>2, <1>4 DEF Waiting

LEMMA RestStep ==
  ASSUME StreamInv, StreamStep, PromptRender, live = remote, Right(Waiting, Now, remote)
  PROVE  live' = remote' /\ Right(Waiting', Now', remote')
<1>1. /\ ListInv /\ ListInv' /\ StreamTyped /\ OneAtATime /\ mutex.taken \in Nat
      /\ calls \in Seq(Calls) /\ dispatched \in Seq(Action)
  BY ListStep DEF StreamInv, ListInv, InTurn, StreamTyped
<1>2. Idle => Waiting = dispatched /\ Now = list  BY DEF Waiting, Now, HeadApplied
<1>3. CASE ChangePeer \/ \E s \in Streams, track \in Kinds : OnTrack(s, track) \/ OnRemoveTrack(s, track)
  <2>1. Idle /\ UNCHANGED <<calls, list>>  BY <1>1, <1>3, Dispatches
  <2>2. Waiting' = dispatched' /\ Now' = list  BY <2>1 DEF Waiting, Now, HeadApplied, Idle
  <2>3. Right(dispatched, list, remote)  BY <1>2, <2>1
  <2>4. live' = remote' /\ Right(dispatched', list, remote')
    BY <1>1, <1>3, <2>3, EventsRight
  <2> QED BY <2>2, <2>4
<1>4. CASE Render
  <2>1. /\ Idle /\ calls' \in Seq(Calls) /\ Len(calls') = Len(dispatched)
        /\ DOMAIN calls' = DOMAIN dispatched /\ dispatched # << >>
        /\ \A i \in DOMAIN dispatched : calls'[i].at = "wait" /\ calls'[i].act = dispatched[i]
    BY <1>1, <1>4, Renders
  <2>2. UNCHANGED <<remote, live, list>>  BY <1>4 DEF Render
  <2>3. Acts(calls') = dispatched
    <3>1. /\ Acts(calls') \in Seq(Action) /\ Len(Acts(calls')) = Len(calls')
          /\ \A i \in 1..Len(calls') : Acts(calls')[i] = calls'[i].act
      BY <2>1, ActsOf
    <3>2. \A i \in 1..Len(dispatched) : Acts(calls')[i] = dispatched[i]
      BY <1>1, <2>1, <3>1
    <3> QED BY <1>1, <2>1, <3>1, <3>2, SameActs
  <2>4. ~ Idle'  BY <1>1, <2>1 DEF Idle
  <2>5. 1 \in DOMAIN dispatched  BY <1>1, <2>1
  <2>6. ~ HeadApplied'  BY <2>1, <2>5 DEF HeadApplied
  <2>7. Waiting' = dispatched /\ Now' = list  BY <2>2, <2>3, <2>4, <2>6 DEF Waiting, Now
  <2> QED BY <1>2, <2>1, <2>2, <2>7
<1>5. ASSUME NEW i \in DOMAIN calls, TakeTicket(i)
      PROVE  live' = remote' /\ Right(Waiting', Now', remote')
  <2>1. /\ calls' \in Seq(Calls) /\ DOMAIN calls' = DOMAIN calls /\ Len(calls') = Len(calls)
        /\ calls[i].at = "wait" /\ calls'[i].at = "locked" /\ calls'[i].act = calls[i].act
        /\ \A j \in DOMAIN calls : j # i => calls'[j] = calls[j]
    BY <1>1, <1>5, Tickets
  <2>2. UNCHANGED <<remote, live, dispatched, list>>  BY <1>5 DEF TakeTicket
  <2>3. Acts(calls') = Acts(calls)  BY <1>1, <2>1 DEF Acts
  <2>4. ~ Idle /\ ~ Idle' /\ 1 \in DOMAIN calls  BY <1>1, <2>1 DEF Idle
  <2>5. HeadApplied' <=> HeadApplied
    <3>1. calls'[1].at = "applied" <=> calls[1].at = "applied"  BY <2>1, <2>4
    <3> QED BY <2>4, <3>1 DEF HeadApplied
  <2>6. HeadApplied => calls'[1] = calls[1]  BY <2>1, <2>4 DEF HeadApplied
  <2>7. Waiting' = Waiting /\ Now' = Now
    BY <2>2, <2>3, <2>4, <2>5, <2>6 DEF Waiting, Now
  <2> QED BY <2>2, <2>7
<1>6. CASE Reduce
  <2>1. /\ calls' \in Seq(Calls) /\ Len(calls') = Len(calls) /\ DOMAIN calls' = DOMAIN calls
        /\ ~ Idle /\ 1 \in DOMAIN calls /\ calls[1].at = "locked" /\ calls'[1].at = "applied"
        /\ calls'[1].act = calls[1].act /\ calls'[1].result = Reduced(calls[1].act, list)
        /\ \A j \in DOMAIN calls : j # 1 => calls'[j] = calls[j]
    BY <1>1, <1>6, Reduces
  <2> DEFINE W == Acts(calls)
  <2>2. Acts(calls') = W  BY <1>1, <2>1 DEF Acts
  <2>3. ~ HeadApplied /\ HeadApplied' /\ ~ Idle'  BY <1>1, <2>1 DEF HeadApplied, Idle
  <2>4. Waiting = W /\ Now = list  BY <2>1, <2>3 DEF Waiting, Now
  <2>5. W \in Seq(Action) /\ Len(W) = Len(calls) /\ W[1] = calls[1].act /\ W # << >>
    BY <1>1, <2>1, ActsOf
  <2>6. Waiting' = Tail(W) /\ Now' = Reduced(W[1], list)
    BY <2>1, <2>2, <2>3, <2>5 DEF Waiting, Now
  <2>7. UNCHANGED remote  BY <1>6 DEF Reduce
  <2>8. live' = live
    <3>1. W[1] \in Action /\ W[1].name = "remove" => W[1].track \notin live[W[1].stream]
      BY <2>4, <2>5, Tailed DEF Right
    <3>2. Head(calls) = calls[1]  BY <1>1, <2>1
    <3>3. live' = IF W[1].name = "remove" /\ W[1].stream \in list
                  THEN [live EXCEPT ![W[1].stream] = @ \ {W[1].track}] ELSE live
      BY <1>6, <2>5, <3>2 DEF Reduce
    <3>4. ASSUME W[1].name = "remove"
          PROVE  [live EXCEPT ![W[1].stream] = @ \ {W[1].track}] = live
      <4>1. W[1] \in Action  BY <2>5, Tailed
      <4>2. live[W[1].stream] \ {W[1].track} = live[W[1].stream]  BY <3>1, <3>4, <4>1
      <4> QED BY <1>1, <4>2 DEF StreamTyped
    <3> QED BY <3>3, <3>4
  <2>9. Right(W, list, remote)  BY <2>4
  <2> HIDE DEF W
  <2> QED BY <1>1, <2>5, <2>6, <2>7, <2>8, <2>9, ReducedRight
<1>7. CASE Return
  <2>1. /\ calls' \in Seq(Calls) /\ Len(calls') = Len(calls) - 1
        /\ HeadApplied /\ 1 \in DOMAIN calls /\ dispatched' = << >> /\ dispatched = << >>
        /\ list' = calls[1].result /\ UNCHANGED <<remote, live, dispatched>>
        /\ \A j \in DOMAIN calls' : j + 1 \in DOMAIN calls /\ calls'[j] = calls[j + 1]
    BY <1>1, <1>7, Returns
  <2>2. Acts(calls) \in Seq(Action) /\ Acts(calls) # << >>
        /\ Len(Acts(calls)) = Len(calls)
        /\ \A i \in 1..Len(calls) : Acts(calls)[i] = calls[i].act
    BY <1>1, <2>1, ActsOf
  <2>3. Acts(calls') = Tail(Acts(calls))
    <3> DEFINE V == Acts(calls')
               T == Tail(Acts(calls))
    <3>1. /\ V \in Seq(Action) /\ Len(V) = Len(calls') /\ Len(calls') \in Nat
          /\ \A i \in 1..Len(calls') : V[i] = calls'[i].act
      BY <2>1, ActsOf
    <3>2. /\ T \in Seq(Action) /\ Len(T) = Len(calls')
          /\ \A i \in 1..Len(T) : T[i] = Acts(calls)[i + 1]
      BY <2>1, <2>2, Tailed
    <3> HIDE DEF V, T
    <3>3. \A i \in 1..Len(T) : V[i] = T[i]
      <4> SUFFICES ASSUME NEW i \in 1..Len(T) PROVE V[i] = T[i]  OBVIOUS
      <4>1. i \in DOMAIN calls' /\ i + 1 \in 1..Len(calls)  BY <1>1, <2>1, <3>1, <3>2
      <4> QED BY <2>1, <2>2, <3>1, <3>2, <4>1
    <3>4. V = T  BY <3>1, <3>2, <3>3, SameActs
    <3> QED BY <3>4 DEF V, T
  <2>4. Waiting = Tail(Acts(calls)) /\ Now = list'  BY <2>1 DEF Waiting, Now, HeadApplied
  <2>5. \A j \in DOMAIN calls' : calls'[j].at # "applied"
    <3> SUFFICES ASSUME NEW j \in DOMAIN calls' PROVE calls'[j].at # "applied"  OBVIOUS
    <3>1. j \in Nat \ {0} /\ j + 1 \in DOMAIN calls /\ calls'[j] = calls[j + 1]  BY <2>1
    <3> QED BY <1>1, <3>1 DEF OneAtATime
  <2>6. ~ HeadApplied'
    <3>1. SUFFICES ASSUME ~ Idle' PROVE 1 \in DOMAIN calls'  BY <2>5 DEF HeadApplied
    <3> QED BY <2>1, <3>1 DEF Idle
  <2>7. Now' = list'  BY <2>6 DEF Now
  <2>8. Waiting' = Tail(Acts(calls))
    <3>1. CASE Idle'
      <4>1. Acts(calls') = << >>  BY <3>1 DEF Idle, Acts
      <4> QED BY <2>1, <2>3, <3>1, <4>1 DEF Waiting
    <3>2. CASE ~ Idle'  BY <2>3, <2>6, <3>2 DEF Waiting
    <3> QED BY <3>1, <3>2
  <2> QED BY <2>1, <2>4, <2>7, <2>8
<1> QED BY <1>3, <1>4, <1>5, <1>6, <1>7 DEF StreamStep, Reducing

(* useRoom shows the list of a render's last call. *)
LEMMA ShownStep ==
  ASSUME StreamInv, StreamStep, Idle => shown = list, shown \subseteq Streams
  PROVE  shown' \subseteq Streams /\ (Idle' => shown' = list')
<1>1. /\ ListInv /\ StreamTyped /\ mutex.taken \in Nat
      /\ calls \in Seq(Calls) /\ dispatched \in Seq(Action)
  BY DEF StreamInv, ListInv, InTurn, StreamTyped
<1>2. CASE ChangePeer \/ \E s \in Streams, track \in Kinds : OnTrack(s, track) \/ OnRemoveTrack(s, track)
  BY <1>1, <1>2, Dispatches
<1>3. CASE Render
  <2>1. calls' \in Seq(Calls) /\ Len(calls') = Len(dispatched) /\ dispatched # << >>
    BY <1>1, <1>3, Renders
  <2>2. ~ Idle'  BY <1>1, <2>1 DEF Idle
  <2> QED BY <1>3, <2>2 DEF Render
<1>4. ASSUME NEW i \in DOMAIN calls, TakeTicket(i) PROVE ~ Idle' /\ shown' = shown
  <2>1. DOMAIN calls' = DOMAIN calls  BY <1>1, <1>4, Tickets
  <2> QED BY <1>1, <1>4, <2>1 DEF Idle, TakeTicket
<1>5. CASE Reduce
  <2>1. DOMAIN calls' = DOMAIN calls /\ 1 \in DOMAIN calls  BY <1>1, <1>5, Reduces
  <2> QED BY <1>1, <1>5, <2>1 DEF Idle, Reduce
<1>6. CASE Return
  <2>1. /\ calls' \in Seq(Calls) /\ Len(calls') = Len(calls) - 1 /\ 1 \in DOMAIN calls
        /\ list' = calls[1].result /\ calls[1].result \subseteq Streams
    BY <1>1, <1>6, Returns
  <2>2. Head(calls) = calls[1]  BY <1>1, <2>1
  <2>3. shown' = IF EndsRender THEN list' ELSE shown  BY <1>6, <2>1, <2>2 DEF Return
  <2>4. Idle' => EndsRender  BY <1>1, <2>1 DEF Idle, EndsRender
  <2> QED BY <2>1, <2>3, <2>4
<1> QED BY <1>2, <1>3, <1>4, <1>5, <1>6 DEF StreamStep, Reducing

LEMMA InitRest == Init => RestInv
<1> SUFFICES ASSUME Init PROVE RestInv  OBVIOUS
<1>1. Idle /\ ~ HeadApplied  BY DEF Init, StreamInit, Idle, HeadApplied
<1>2. Waiting = << >> /\ Now = {} /\ live = remote /\ remote = [s \in Streams |-> {}]
  BY <1>1 DEF Init, StreamInit, Waiting, Now
<1>3. Right(<< >>, {}, remote)  BY <1>2 DEF Right, WillBeOut
<1>4. /\ shown = list /\ shown = {} /\ tile = [s \in Streams |-> "none"]
  BY DEF Init, StreamInit
<1> QED BY <1>2, <1>3, <1>4 DEF RestInv

LEMMA AlwaysRight == Spec => []RestInv
<1>1. StreamInv /\ RestInv /\ [Next]_vars => RestInv'
  <2> SUFFICES ASSUME StreamInv, RestInv, [Next]_vars PROVE RestInv'  OBVIOUS
  <2>1. CASE Streaming
    <3>1. StreamStep /\ ShowTiles  BY <2>1 DEF Streaming
    <3>2. PromptRender => live' = remote' /\ Right(Waiting', Now', remote')
      BY <3>1, RestStep DEF RestInv
    <3>3. shown' \subseteq Streams /\ (Idle' => shown' = list')
      BY <3>1, ShownStep DEF RestInv
    <3>4. /\ tile' \in [Streams -> {"none", "loading", "playing"}]
          /\ \A s \in Streams : tile'[s] = "none" <=> ~onPage' \/ s \notin shown'
      BY <3>1 DEF ShowTiles, RestInv
    <3> QED BY <3>2, <3>3, <3>4 DEF RestInv
  <2>2. ASSUME UNCHANGED streamVars,
               /\ tile' \in [Streams -> {"none", "loading", "playing"}]
               /\ \A s \in Streams : tile'[s] = "none" <=> ~onPage' \/ s \notin shown'
        PROVE  RestInv'
    <3>1. Waiting' = Waiting /\ Now' = Now /\ (Idle' <=> Idle)
      BY <2>2 DEF streamVars, Waiting, Now, HeadApplied, Idle
    <3>2. UNCHANGED <<remote, live, list, shown>>  BY <2>2 DEF streamVars
    <3> QED BY <2>2, <3>1, <3>2 DEF RestInv
  <2>3. ASSUME NEW s \in Streams, GetStats(s)
        PROVE  RestInv'
    <3>1. /\ UNCHANGED streamVars /\ tile[s] = "loading"
          /\ onPage' = onPage /\ shown' = shown
      BY <2>3 DEF GetStats, streamVars, layoutVars
    <3>2. PICK t \in {"loading", "playing"} : tile' = [tile EXCEPT ![s] = t]
      BY <2>3 DEF GetStats
    <3>3. /\ tile' \in [Streams -> {"none", "loading", "playing"}]
          /\ \A u \in Streams : tile'[u] = "none" <=> tile[u] = "none"
      BY <3>1, <3>2 DEF RestInv
    <3> QED BY <2>2, <3>1, <3>3 DEF RestInv
  <2>4. CASE UNCHANGED <<streamVars, layoutVars, tile>>
    <3>1. onPage' = onPage /\ shown' = shown /\ UNCHANGED streamVars /\ tile' = tile
      BY <2>4 DEF streamVars, layoutVars
    <3> QED BY <2>2, <3>1 DEF RestInv
  <2>5. CASE Arranging(LayoutStep)
    <3>1. UNCHANGED streamVars /\ ShowTiles  BY <2>5 DEF Arranging
    <3>2. /\ tile' \in [Streams -> {"none", "loading", "playing"}]
          /\ \A s \in Streams : tile'[s] = "none" <=> ~onPage' \/ s \notin shown'
      BY <3>1 DEF ShowTiles, RestInv
    <3> QED BY <2>2, <3>1, <3>2
  <2> QED BY <2>1, <2>3, <2>4, <2>5 DEF Next, vars, tileVars, Decode
<1> QED BY <1>1, InitRest, AlwaysListed, PTL DEF Spec

(* When no call of the reducer is out and nothing is dispatched, a mounted   *)
(* page has one tile per stream that has a track, and no other, and a        *)
(* MediaStream has exactly the tracks the server sends: no order of tracks, *)
(* removals, renders and promises loses a stream or leaves one behind.      *)
AtRest ==
  PromptRender /\ Idle /\ dispatched = << >> =>
    /\ live = remote
    /\ shown = {s \in Streams : remote[s] # {}}
    /\ \A s \in Streams : tile[s] # "none" <=> onPage /\ remote[s] # {}

THEOREM RestingPageIsRight == Spec => []AtRest
<1>1. RestInv => AtRest
  <2> SUFFICES ASSUME RestInv, PromptRender, Idle, dispatched = << >>
               PROVE  /\ live = remote
                      /\ shown = {s \in Streams : remote[s] # {}}
                      /\ \A s \in Streams : tile[s] # "none" <=> onPage /\ remote[s] # {}
    BY DEF AtRest
  <2>1. Waiting = << >> /\ Now = list /\ shown = list  BY DEF Waiting, Now, HeadApplied, RestInv
  <2>2. live = remote /\ Right(<< >>, shown, remote)  BY <2>1 DEF RestInv
  <2>3. \A s \in Streams : s \in shown <=> remote[s] # {}
    BY <2>2 DEF Right, WillBeIn, WillBeOut
  <2> QED BY <2>2, <2>3 DEF RestInv
<1> QED BY <1>1, AlwaysRight, PTL
=============================================================================
