------------------------------ MODULE Gallery -------------------------------
(***************************************************************************)
(* The gallery of a room page: the tiles of the streams StreamList shows, in *)
(* the grid Layout selects for their number.  A tile (RoomStream in App.tsx) *)
(* says "Loading" until the statistics of the peer connection count a        *)
(* decoded frame; it reads them every half second.                          *)
(***************************************************************************)
EXTENDS StreamList, Layout, TLC

VARIABLES
  tile,      \* per stream: its tile says it is loading, plays, or there is none
  decoded    \* the browser has decoded a frame of the stream's video

tileVars == <<tile, decoded>>
vars == <<streamVars, layoutVars, tileVars>>

Init ==
  /\ StreamInit /\ LayoutInit
  /\ tile = [s \in Streams |-> "none"] /\ decoded = [s \in Streams |-> FALSE]

(* RoomPage shows the list of a render's last call, and of the last render   *)
(* when it is mounted: tiles come, in the state a new RoomStream has, and    *)
(* go, all of them with the page.  RoomStream is keyed by the stream's id.  *)
ShowTiles ==
  tile' = [s \in Streams |-> IF ~onPage' \/ s \notin shown' THEN "none"
                             ELSE IF tile[s] = "none" THEN "loading" ELSE tile[s]]

(* A statistics object; a codec has no frames and names its kind only in    *)
(* its MIME type.                                                           *)
Inbound(kind, frames) == [type |-> "inbound-rtp", kind |-> kind]
                         @@ IF kind = "video" THEN [framesDecoded |-> frames] ELSE << >>
Codec(kind) == [type |-> "codec", mimeType |-> kind]

Reports(s) ==
  UNION {{Inbound(k, IF decoded[s] THEN 1 ELSE 0), Codec(k)} : k \in live[s]}

IsOf(stat, kind) ==
  \/ "kind" \in DOMAIN stat /\ stat.kind = kind
  \/ "mimeType" \in DOMAIN stat /\ stat.mimeType = kind

(* StatByKind: the statistics of a kind merged, the fields of earlier ones  *)
(* first.                                                                   *)
StatByKind(stats, kind) ==
  FoldLeft(LAMBDA merged, stat : IF IsOf(stat, kind) THEN merged @@ stat ELSE merged,
           << >>, stats)

PlaysAfter(stat) == "framesDecoded" \in DOMAIN stat /\ stat.framesDecoded >= 1

-----------------------------------------------------------------------------
Streaming ==
  /\ StreamStep /\ UNCHANGED layoutVars /\ ShowTiles
  /\ decoded' = [s \in Streams |-> decoded[s] /\ "video" \in live'[s]]

Arranging(step) == Idle /\ step /\ UNCHANGED <<streamVars, decoded>> /\ ShowTiles

(* The browser decodes the first frame of a video. *)
Decode(s) ==
  /\ ~decoded[s] /\ "video" \in live[s]
  /\ decoded' = [decoded EXCEPT ![s] = TRUE]
  /\ UNCHANGED <<streamVars, layoutVars, tile>>

(* getStats, for all tracks of the stream at once and in any order, and the *)
(* effect on what it returned.                                              *)
GetStats(s) ==
  /\ Idle /\ tile[s] = "loading"
  /\ \E stats \in SetToSeqs(Reports(s)) :
       tile' = [tile EXCEPT ![s] = IF PlaysAfter(StatByKind(stats, "video"))
                                   THEN "playing" ELSE "loading"]
  /\ UNCHANGED <<streamVars, layoutVars, decoded>>

Next == Streaming \/ Arranging(LayoutStep) \/ \E s \in Streams : Decode(s) \/ GetStats(s)

(* Promise continuations, renders, animation frames and timers run; so does *)
(* the decoder.  Nobody has to publish, leave or resize.                    *)
Fairness ==
  /\ WF_vars(Streaming /\ Reducing)
  /\ WF_vars(Arranging(Deliver)) /\ WF_vars(Arranging(Observe)) /\ WF_vars(Arranging(MountPage))
  /\ \A s \in Streams : WF_vars(Decode(s)) /\ WF_vars(GetStats(s))

Spec == Init /\ [][Next]_vars /\ Fairness

-----------------------------------------------------------------------------
(* The grid RoomPage uses is the best for its items and the width it knows: *)
(* the recursion of selectSize, which gives up a grid after the other and   *)
(* looks again with fewer items, ends at none that is too wide or too small *)
(* without need.                                                            *)
GridIsBest ==
  \A items \in 0 .. Cardinality(Streams) + 2 :
    LET width == size["grid"]
    IN width > 0 => UseGridSize(items, width) = BestGrid(items, width)

(* The asynchronous reducer, with a mutex that is new in every render and   *)
(* promises that wait for each other, applies every action once, in the     *)
(* order of its dispatch, and never stops doing so.                         *)
ListIsApplied == Log!Spec

(* Whatever order tracks, renders, promises, frames and statistics come in, *)
(* the page comes to rest showing one tile per stream that still has a      *)
(* track, playing if it has a video, and knowing its own width.             *)
PageSettles ==
  <>[](/\ shown = {s \in Streams : remote[s] # {}}
       /\ live = remote
       /\ \A s \in Streams : tile[s] \in IF s \notin shown THEN {"none"}
                                       ELSE IF "video" \in live[s] THEN {"playing"}
                                       ELSE {"loading", "playing"}
       /\ Measured)
=============================================================================
