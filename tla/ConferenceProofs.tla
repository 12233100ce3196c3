-------------------------- MODULE ConferenceProofs --------------------------
(***************************************************************************)
(* Theorems about Conference, for any rooms and every bound.                *)
(*                                                                          *)
(* Joins are numbered as they are asked for, and a layout's joins by its    *)
(* mount.  While every update is rendered before the next event, a socket    *)
(* that opens is the next signal, so no earlier one is left open, whatever   *)
(* the order; and its connection is committed before an offer reaches it.   *)
(***************************************************************************)
EXTENDS Conference, TLAPS

Opened == {"open", "dropped", "closed"}

MadeBefore == \A j \in Joins : made[j] <= mount

Numbered == \A j \in Joins : step[j] = "none" <=> joins < j

(* A connection has no senders before its socket opens, nor before it is     *)
(* committed; the committed connection is one whose socket has opened.      *)
SendersComeLate ==
  /\ \A j \in Joins : step[j] \notin Opened => sends[j] = "new"
  /\ next # 0 => step[next] \in Opened /\ sends[next] = "new"
  /\ signal # 0 => step[signal] \in Opened

ConnectionInv ==
  MadeBefore /\ NoOrphan /\ StreamsAreCurrent /\ SendersComeLate /\ MediaBeforeOffer
-----------------------------------------------------------------------------
LEMMA Typed ==
  ASSUME TypeOK
  PROVE  /\ joins \in 0..MaxJoins /\ mount \in 0..MaxMounts
         /\ joins \in Int /\ mount \in Int /\ seen \in 0..joins
         /\ signal \in 0..joins /\ next \in 0..joins
         /\ \A j \in Joins : made[j] \in Int /\ sees[j] \in Int
BY ConferenceAssumption DEF TypeOK, ConferenceAssumption

(* A new join takes the next number. *)
LEMMA AskTyped ==
  ASSUME TypeOK, NEW r \in Routes, NEW s \in 0..joins, NEW m \in 0..MaxMounts, Ask(r, s, m)
  PROVE  /\ joins + 1 \in Joins /\ joins' = joins + 1 /\ joins' \in 0..MaxJoins
         /\ 0..joins \subseteq 0..joins'
         /\ room' \in [Joins -> Routes] /\ sees' \in [Joins -> 0..MaxJoins]
         /\ made' \in [Joins -> 0..MaxMounts] /\ step' \in [Joins -> Steps]
<1>1. joins \in 0..MaxJoins /\ joins < MaxJoins /\ joins' = joins + 1  BY DEF TypeOK, Ask
<1>2. joins + 1 \in Joins /\ joins' \in 0..MaxJoins /\ 0..joins \subseteq 0..joins'
  BY <1>1, ConferenceAssumption DEF ConferenceAssumption, Joins
<1>3. s \in 0..MaxJoins  BY <1>1, ConferenceAssumption DEF ConferenceAssumption
<1>4. room' \in [Joins -> Routes] /\ sees' \in [Joins -> 0..MaxJoins]
  BY <1>3 DEF TypeOK, Ask
<1>5. made' \in [Joins -> 0..MaxMounts]  BY DEF TypeOK, Ask
<1>6. step' \in [Joins -> Steps]  BY DEF TypeOK, Ask, Steps
<1> QED BY <1>1, <1>2, <1>4, <1>5, <1>6

(* What a new join is, and that the others are as they were. *)
LEMMA AskPointwise ==
  ASSUME TypeOK, NEW r, NEW s, NEW m, Ask(r, s, m)
  PROVE  \A j \in Joins :
           /\ step'[j] = IF j = joins + 1 THEN "gated" ELSE step[j]
           /\ made'[j] = IF j = joins + 1 THEN m ELSE made[j]
           /\ room'[j] = IF j = joins + 1 THEN r ELSE room[j]
           /\ sees'[j] = IF j = joins + 1 THEN s ELSE sees[j]
BY DEF TypeOK, Ask

LEMMA Destroys ==
  ASSUME TypeOK, NEW i, step' = Destroyed(i)
  PROVE  /\ step' \in [Joins -> Steps]
         /\ \A j \in Joins : step'[j] = IF j = i /\ i # 0 /\ step[j] = "open" THEN "closed" ELSE step[j]
BY DEF TypeOK, Destroyed, Steps

LEMMA SinkTyped ==
  ASSUME TypeOK, NEW i
  PROVE  /\ Sink(i) \in [Joins -> {"new", "bare", "media"}]
         /\ \A j \in Joins : Sink(i)[j] = IF j = i /\ sends[j] = "new" THEN "media" ELSE sends[j]
BY DEF TypeOK, Sink

(* The handlers that move one join's socket and nothing the rest is about. *)
LEMMA MoveTyped ==
  ASSUME TypeOK, NEW j \in Joins, Proceed(j) \/ Refuse(j) \/ Drop(j) \/ Open(j)
  PROVE  /\ step' \in [Joins -> Steps]
         /\ \A k \in Joins : step'[k] = IF k = j THEN step'[j] ELSE step[k]
         /\ UNCHANGED <<pageVars, media, joinVars, sends, signal, list>>
<1>1. CASE Proceed(j)
  BY <1>1 DEF TypeOK, Proceed, Steps, contextVars
<1>2. CASE Refuse(j)
  BY <1>2 DEF TypeOK, Refuse, Steps, contextVars
<1>3. CASE Drop(j)
  BY <1>3 DEF TypeOK, Drop, Steps, contextVars
<1>4. CASE Open(j)
  BY <1>4 DEF TypeOK, Open, Steps
<1> QED BY <1>1, <1>2, <1>3, <1>4
(* A join that is under way has been asked for. *)
LEMMA AskedFor ==
  ASSUME TypeOK, Numbered, NEW j \in Joins, step[j] # "none"
  PROVE  j \in 1..joins /\ j \in 0..joins
<1>1. ~ (joins < j)  BY DEF Numbered
<1> QED BY <1>1, Typed, ConferenceAssumption DEF Joins, ConferenceAssumption

-----------------------------------------------------------------------------
LEMMA InitTyped == Init => TypeOK
<1> SUFFICES ASSUME Init PROVE TypeOK  OBVIOUS
<1>1. 0 \in 0..MaxMounts /\ 0 \in 0..MaxJoins /\ 0 \in 0..0
  BY ConferenceAssumption DEF ConferenceAssumption
<1> QED BY <1>1 DEF Init, TypeOK, Routes, Steps

(* A step keeps the types. *)
LEMMA TypeStep == ASSUME TypeOK, Numbered, [Next]_vars PROVE TypeOK'
<1> USE DEF pageVars, joinVars, contextVars
<1>1. CASE MountLayout
  <2>1. mount' \in 0..MaxMounts /\ mount' = mount + 1
    BY <1>1, Typed, ConferenceAssumption DEF MountLayout, ConferenceAssumption
  <2>2. 0 \in 0..joins /\ 0 \in 0..joins'
    <3>1. joins' \in Nat /\ joins \in Nat
      <4>1. CASE at = Home  BY <1>1, <4>1, Typed DEF MountLayout
      <4>2. CASE at # Home  BY <1>1, <4>2, Typed DEF MountLayout, Ask
      <4> QED BY <4>1, <4>2
    <3> QED BY <3>1
  <2>3. CASE at = Home
    BY <1>1, <2>1, <2>2, <2>3 DEF MountLayout, TypeOK
  <2>4. CASE at # Home
    <3>1. Ask(at, 0, mount') /\ at \in Routes  BY <1>1, <2>1, <2>4 DEF MountLayout, TypeOK
    <3>2. /\ joins' \in 0..MaxJoins
          /\ room' \in [Joins -> Routes] /\ sees' \in [Joins -> 0..MaxJoins]
          /\ made' \in [Joins -> 0..MaxMounts] /\ step' \in [Joins -> Steps]
      BY <2>1, <2>2, <3>1, AskTyped
    <3> QED BY <1>1, <2>1, <2>2, <3>2 DEF MountLayout, TypeOK
  <2> QED BY <2>3, <2>4
<1>2. ASSUME NEW r \in Rooms, EnterRoom(r) PROVE TypeOK'
  <2> DEFINE s == IF at = Home THEN signal ELSE seen
  <2>1. r \in Routes /\ s \in 0..joins /\ mount \in 0..MaxMounts  BY Typed DEF Routes
  <2>2. Ask(r, s, mount)  BY <1>2 DEF EnterRoom
  <2> HIDE DEF s
  <2>3. /\ joins' \in 0..MaxJoins /\ 0..joins \subseteq 0..joins'
        /\ room' \in [Joins -> Routes] /\ sees' \in [Joins -> 0..MaxJoins]
        /\ made' \in [Joins -> 0..MaxMounts] /\ step' \in [Joins -> Steps]
    BY <2>1, <2>2, AskTyped
  <2>4. sends' \in [Joins -> {"new", "bare", "media"}]
    BY <1>2, SinkTyped DEF EnterRoom, TypeOK
  <2>5. at' = r /\ seen' = s /\ UNCHANGED <<user, mount, media, signal, next, list>>
    BY <1>2 DEF EnterRoom, s
  <2> QED BY <2>1, <2>3, <2>4, <2>5 DEF TypeOK
<1>3. CASE LeaveRoom
  BY <1>3 DEF LeaveRoom, TypeOK, Routes
<1>4. CASE UnmountLayout
  <2>1. step' \in [Joins -> Steps]  BY <1>4, Destroys DEF UnmountLayout
  <2> QED BY <1>4, <2>1 DEF UnmountLayout, TypeOK
<1>5. CASE AnswerPrompt
  BY <1>5 DEF AnswerPrompt, TypeOK
<1>6. CASE Commit
  <2>1. step' \in [Joins -> Steps]  BY <1>6, Destroys DEF Commit
  <2>2. sends' \in [Joins -> {"new", "bare", "media"}]
    BY <1>6, SinkTyped DEF Commit, TypeOK
  <2>3. 0 \in 0..joins  BY Typed
  <2> QED BY <1>6, <2>1, <2>2, <2>3 DEF Commit, TypeOK
<1>7. ASSUME NEW j \in Joins, Joining(j) PROVE TypeOK'
  <2>1. CASE Offer(j)
    <3>1. sends' \in [Joins -> {"new", "bare", "media"}]  BY <2>1 DEF Offer, TypeOK
    <3>2. list' \subseteq Joins  BY <2>1 DEF Offer, TypeOK
    <3> QED BY <2>1, <3>1, <3>2 DEF Offer, TypeOK
  <2>2. CASE Open(j)
    <3>1. step' \in [Joins -> Steps]  BY <2>2, MoveTyped
    <3>2. next' \in 0..joins
      BY <2>2, AskedFor, Typed DEF Open
    <3> QED BY <2>2, <3>1, <3>2 DEF Open, TypeOK
  <2>3. CASE Proceed(j) \/ Refuse(j) \/ Drop(j)
    <3>1. step' \in [Joins -> Steps]  BY <2>3, MoveTyped
    <3>2. UNCHANGED <<pageVars, media, joinVars, sends, contextVars>>
      BY <2>3 DEF Proceed, Refuse, Drop
    <3> QED BY <3>1, <3>2 DEF TypeOK
  <2> QED BY <1>7, <2>1, <2>2, <2>3 DEF Joining
<1>8. CASE UNCHANGED vars
  BY <1>8 DEF vars, TypeOK
<1> QED BY <1>1, <1>2, <1>3, <1>4, <1>5, <1>6, <1>7, <1>8 DEF Next
LEMMA NumberedStep == ASSUME TypeOK, Numbered, [Next]_vars PROVE Numbered'
<1> USE DEF pageVars, joinVars, contextVars
<1>1. ASSUME NEW r, NEW s, NEW m, Ask(r, s, m) PROVE Numbered'
  <2>1. \A j \in Joins : step'[j] = IF j = joins + 1 THEN "gated" ELSE step[j]
    BY <1>1, AskPointwise
  <2>2. joins' = joins + 1 /\ joins \in Int  BY <1>1, Typed DEF Ask
  <2>3. Joins \subseteq Int  BY DEF Joins
  <2> QED BY <2>1, <2>2, <2>3 DEF Numbered
<1>2. CASE MountLayout
  <2>1. CASE at = Home  BY <1>2, <2>1 DEF MountLayout, Numbered
  <2>2. CASE at # Home  BY <1>1, <1>2, <2>2 DEF MountLayout
  <2> QED BY <2>1, <2>2
<1>3. ASSUME NEW r \in Rooms, EnterRoom(r) PROVE Numbered'
  BY <1>1, <1>3 DEF EnterRoom
<1>4. CASE LeaveRoom \/ AnswerPrompt \/ UNCHANGED vars
  BY <1>4 DEF LeaveRoom, AnswerPrompt, vars, Numbered
<1>5. ASSUME NEW i, step' = Destroyed(i), UNCHANGED joins PROVE Numbered'
  <2>1. \A j \in Joins : step'[j] = "none" <=> step[j] = "none"  BY <1>5, Destroys
  <2> QED BY <1>5, <2>1 DEF Numbered
<1>6. CASE UnmountLayout  BY <1>5, <1>6 DEF UnmountLayout
<1>7. CASE Commit  BY <1>5, <1>7 DEF Commit
<1>8. ASSUME NEW j \in Joins, Joining(j) PROVE Numbered'
  <2>1. CASE Offer(j)  BY <2>1 DEF Offer, Numbered
  <2>2. CASE Proceed(j) \/ Refuse(j) \/ Drop(j) \/ Open(j)
    <3>1. \A k \in Joins : step'[k] = IF k = j THEN step'[j] ELSE step[k]  BY <2>2, MoveTyped
    <3>2. UNCHANGED joins  BY <2>2, MoveTyped
    <3>3. step[j] # "none"  BY <2>2 DEF Proceed, Refuse, Drop, Open
    <3>4. step'[j] # "none"  BY <2>2 DEF TypeOK, Proceed, Refuse, Drop, Open
    <3> QED BY <3>1, <3>2, <3>3, <3>4 DEF Numbered
  <2> QED BY <1>8, <2>1, <2>2 DEF Joining
<1> QED BY <1>2, <1>3, <1>4, <1>6, <1>7, <1>8 DEF Next

LEMMA InitNumbered == Init => Numbered
BY DEF Init, Numbered, Joins
-----------------------------------------------------------------------------
(* A new join's layout is the one that is mounted. *)
LEMMA MadeStep == ASSUME TypeOK, MadeBefore, [Next]_vars PROVE MadeBefore'
<1> USE DEF pageVars, joinVars, contextVars
<1>1. ASSUME NEW r, NEW s, Ask(r, s, mount'), mount <= mount', mount' \in Int PROVE MadeBefore'
  <2>1. \A j \in Joins : made'[j] = IF j = joins + 1 THEN mount' ELSE made[j]
    BY <1>1, AskPointwise
  <2> QED BY <1>1, <2>1, Typed DEF MadeBefore
<1>2. CASE MountLayout
  <2>1. mount' = mount + 1 /\ mount <= mount' /\ mount' \in Int  BY <1>2, Typed DEF MountLayout
  <2>2. CASE at = Home  BY <1>2, <2>1, <2>2, Typed DEF MountLayout, MadeBefore
  <2>3. CASE at # Home  BY <1>1, <1>2, <2>1, <2>3 DEF MountLayout
  <2> QED BY <2>2, <2>3
<1>3. ASSUME NEW r \in Rooms, EnterRoom(r) PROVE MadeBefore'
  <2>1. mount' = mount /\ mount <= mount' /\ mount' \in Int  BY <1>3, Typed DEF EnterRoom
  <2> QED BY <1>1, <1>3, <2>1 DEF EnterRoom
<1>4. CASE LeaveRoom \/ UnmountLayout \/ AnswerPrompt \/ Commit \/ UNCHANGED vars
  BY <1>4 DEF LeaveRoom, UnmountLayout, AnswerPrompt, Commit, vars, MadeBefore
<1>5. ASSUME NEW j \in Joins, Joining(j) PROVE MadeBefore'
  BY <1>5 DEF Joining, Proceed, Refuse, Open, Drop, Offer, MadeBefore
<1> QED BY <1>2, <1>3, <1>4, <1>5 DEF Next

LEMMA NoOrphanStep ==
  ASSUME PromptRender, TypeOK, MadeBefore, NoOrphan, [Next]_vars  PROVE NoOrphan'
<1> USE DEF pageVars, joinVars, contextVars
<1>0. \A j \in Joins : j # 0  BY DEF Joins
<1>1. CASE MountLayout
  <2>1. mount' = mount + 1 /\ mount \in Int  BY <1>1, Typed DEF MountLayout
  <2>2. CASE at = Home
    BY <1>1, <2>1, <2>2, Typed DEF MountLayout, MadeBefore, NoOrphan, Present
  <2>3. CASE at # Home
    <3>1. Ask(at, 0, mount + 1)  BY <1>1, <2>3 DEF MountLayout
    <3>2. \A j \in Joins :
            /\ step'[j] = IF j = joins + 1 THEN "gated" ELSE step[j]
            /\ made'[j] = IF j = joins + 1 THEN mount + 1 ELSE made[j]
      BY <3>1, AskPointwise
    <3>3. ASSUME NEW j \in Joins, step'[j] = "open" PROVE ~ Present(j)'
      <4>1. j # joins + 1 /\ made'[j] = made[j]  BY <3>2, <3>3
      <4>2. made[j] <= mount /\ made[j] \in Int  BY Typed DEF MadeBefore
      <4> QED BY <2>1, <4>1, <4>2 DEF Present
    <3> QED BY <3>3 DEF NoOrphan
  <2> QED BY <2>2, <2>3
<1>2. ASSUME NEW r \in Rooms, EnterRoom(r) PROVE NoOrphan'
  <2> DEFINE s == IF at = Home THEN signal ELSE seen
  <2>1. Ask(r, s, mount)  BY <1>2 DEF EnterRoom
  <2> HIDE DEF s
  <2>2. \A j \in Joins :
          /\ step'[j] = IF j = joins + 1 THEN "gated" ELSE step[j]
          /\ made'[j] = IF j = joins + 1 THEN mount ELSE made[j]
    BY <2>1, AskPointwise
  <2>3. UNCHANGED <<user, mount, signal, next>>  BY <1>2 DEF EnterRoom
  <2> QED BY <2>2, <2>3 DEF NoOrphan, Present
<1>3. CASE LeaveRoom \/ AnswerPrompt \/ UNCHANGED vars
  BY <1>3 DEF LeaveRoom, AnswerPrompt, vars, NoOrphan, Present
<1>4. CASE UnmountLayout  BY <1>4 DEF UnmountLayout, NoOrphan, Present
<1>5. CASE Commit
  <2>1. \A j \in Joins :
          step'[j] = IF j = signal /\ signal # 0 /\ step[j] = "open" THEN "closed" ELSE step[j]
    BY <1>5, Destroys DEF Commit
  <2>2. signal' = next /\ UNCHANGED <<user, mount, made>>  BY <1>5 DEF Commit
  <2>3. ASSUME NEW j \in Joins, step'[j] = "open" PROVE j \in {signal', next'} \/ ~ Present(j)'
    <3>1. step[j] = "open" /\ j # signal  BY <1>0, <2>1, <2>3
    <3> QED BY <2>2, <3>1 DEF NoOrphan, Present
  <2> QED BY <2>3 DEF NoOrphan
<1>6. ASSUME NEW j \in Joins, Joining(j) PROVE NoOrphan'
  <2>1. CASE Offer(j)  BY <2>1 DEF Offer, NoOrphan, Present
  <2>2. CASE Open(j)
    <3>1. next = 0 /\ next' = IF Present(j) THEN j ELSE next
      BY <2>2 DEF Open, Rendered
    <3>2. \A k \in Joins : step'[k] = IF k = j THEN step'[j] ELSE step[k]  BY <2>2, MoveTyped
    <3>3. UNCHANGED <<user, mount, made, signal>>  BY <2>2 DEF Open
    <3>4. ASSUME NEW k \in Joins, step'[k] = "open" PROVE k \in {signal', next'} \/ ~ Present(k)'
      <4>1. CASE k = j  BY <3>1, <3>3, <4>1 DEF Present
      <4>2. CASE k # j  BY <1>0, <3>1, <3>2, <3>3, <3>4, <4>2 DEF NoOrphan, Present
      <4> QED BY <4>1, <4>2
    <3> QED BY <3>4 DEF NoOrphan
  <2>3. CASE Proceed(j) \/ Refuse(j) \/ Drop(j)
    <3>1. \A k \in Joins : step'[k] = IF k = j THEN step'[j] ELSE step[k]  BY <2>3, MoveTyped
    <3>2. step'[j] # "open"  BY <2>3 DEF TypeOK, Proceed, Refuse, Drop
    <3>3. UNCHANGED <<user, mount, made, signal, next>>  BY <2>3 DEF Proceed, Refuse, Drop
    <3> QED BY <3>1, <3>2, <3>3 DEF NoOrphan, Present
  <2> QED BY <1>6, <2>1, <2>2, <2>3 DEF Joining
<1> QED BY <1>1, <1>2, <1>3, <1>4, <1>5, <1>6 DEF Next

(* An offer that adds a stream comes on the committed connection. *)
LEMMA StreamsStep ==
  ASSUME PromptRender, TypeOK, NoOrphan, StreamsAreCurrent, [Next]_vars
  PROVE  StreamsAreCurrent'
<1> USE DEF pageVars, joinVars, contextVars
<1>1. CASE MountLayout  BY <1>1 DEF MountLayout, StreamsAreCurrent
<1>2. CASE UnmountLayout  BY <1>2 DEF UnmountLayout, StreamsAreCurrent
<1>3. CASE Commit
  <2>1. signal = 0 => list = {}  BY <1>3 DEF Commit, TypeOK, Joins, StreamsAreCurrent
  <2> QED BY <1>3, <2>1 DEF Commit, StreamsAreCurrent
<1>4. ASSUME NEW j \in Joins, Joining(j) PROVE StreamsAreCurrent'
  <2>1. CASE Offer(j)
    <3>1. next = 0 /\ j # 0  BY <2>1 DEF Offer, Rendered, Joins
    <3>2. Present(j) => j = signal  BY <2>1, <3>1 DEF Offer, NoOrphan
    <3> QED BY <2>1, <3>2 DEF Offer, StreamsAreCurrent
  <2>2. CASE Proceed(j) \/ Refuse(j) \/ Drop(j) \/ Open(j)
    BY <2>2, MoveTyped DEF StreamsAreCurrent
  <2> QED BY <1>4, <2>1, <2>2 DEF Joining
<1>5. CASE LeaveRoom \/ AnswerPrompt \/ (\E r \in Rooms : EnterRoom(r)) \/ UNCHANGED vars
  BY <1>5 DEF LeaveRoom, AnswerPrompt, EnterRoom, vars, StreamsAreCurrent
<1> QED BY <1>1, <1>2, <1>3, <1>4, <1>5 DEF Next

(* Senders come with an offer, on a socket that is open, or with the sink of *)
(* a connection that is being committed or is.                              *)
LEMMA SendersStep ==
  ASSUME PromptRender, TypeOK, Numbered, SendersComeLate, [Next]_vars
  PROVE  SendersComeLate'
<1> USE DEF pageVars, joinVars, contextVars
<1>0. 0..joins \subseteq Joins \cup {0} /\ 0 \notin Joins
  BY Typed, ConferenceAssumption DEF Joins, ConferenceAssumption
<1>a. "none" \notin Opened /\ "gated" \notin Opened /\ "open" \in Opened /\ "closed" \in Opened
  BY DEF Opened
<1>b. /\ signal # 0 => signal \in Joins /\ signal # joins + 1
      /\ next # 0 => next \in Joins /\ next # joins + 1
  BY <1>0, Typed
<1>1. ASSUME NEW r, NEW s, NEW m, Ask(r, s, m),
             \A j \in Joins : step[j] \notin Opened => sends'[j] = "new",
             \/ signal' = 0 /\ next' = 0
             \/ UNCHANGED <<signal, next>> /\ (UNCHANGED sends \/ next = 0)
      PROVE  SendersComeLate'
  <2>1. \A j \in Joins : step'[j] = IF j = joins + 1 THEN "gated" ELSE step[j]
    BY <1>1, AskPointwise
  <2>2. \A j \in Joins : j = joins + 1 => step[j] = "none"
    BY Typed DEF Numbered
  <2>3. \A j \in Joins : step'[j] \notin Opened => sends'[j] = "new"
    BY <1>a, <1>1, <2>1, <2>2
  <2>4. next' # 0 => step'[next'] \in Opened /\ sends'[next'] = "new"
    BY <1>b, <1>1, <2>1 DEF SendersComeLate
  <2>5. signal' # 0 => step'[signal'] \in Opened
    BY <1>b, <1>1, <2>1 DEF SendersComeLate
  <2> QED BY <2>3, <2>4, <2>5 DEF SendersComeLate
<1>2. CASE MountLayout
  <2>1. CASE at = Home
    BY <1>2, <2>1 DEF MountLayout, SendersComeLate
  <2>2. CASE at # Home
    <3>1. Ask(at, 0, mount + 1)  BY <1>2, <2>2 DEF MountLayout
    <3> QED BY <1>1, <1>2, <3>1 DEF MountLayout, SendersComeLate
  <2> QED BY <2>1, <2>2
<1>3. ASSUME NEW r \in Rooms, EnterRoom(r) PROVE SendersComeLate'
  <2> DEFINE s == IF at = Home THEN signal ELSE seen
  <2>1. Ask(r, s, mount) /\ next = 0 /\ UNCHANGED <<signal, next>>
    BY <1>3 DEF EnterRoom, Rendered
  <2> HIDE DEF s
  <2>2. \A j \in Joins : step[j] \notin Opened => sends'[j] = "new"
    <3>1. CASE at = Home /\ signal # 0
      <4>1. sends' = Sink(signal)  BY <1>3, <3>1 DEF EnterRoom
      <4>2. \A j \in Joins : j # signal => sends'[j] = sends[j]  BY <4>1, SinkTyped
      <4>3. step[signal] \in Opened  BY <3>1 DEF SendersComeLate
      <4> QED BY <4>2, <4>3 DEF SendersComeLate
    <3>2. CASE ~ (at = Home /\ signal # 0)
      BY <1>3, <3>2 DEF EnterRoom, SendersComeLate
    <3> QED BY <3>1, <3>2
  <2> QED BY <1>1, <2>1, <2>2
<1>4. CASE LeaveRoom \/ AnswerPrompt \/ UNCHANGED vars
  BY <1>4 DEF LeaveRoom, AnswerPrompt, vars, SendersComeLate
<1>5. CASE UnmountLayout
  <2>1. \A j \in Joins : step'[j] \in Opened <=> step[j] \in Opened
    BY <1>5, <1>a, Destroys DEF UnmountLayout
  <2> QED BY <1>5, <1>b, <2>1 DEF UnmountLayout, SendersComeLate
<1>6. CASE Commit
  <2>1. \A j \in Joins : step'[j] \in Opened <=> step[j] \in Opened
    BY <1>6, <1>a, Destroys DEF Commit
  <2>2. signal' = next /\ next' = 0 /\ next \in Joins /\ step[next] \in Opened
    BY <1>6, <1>b DEF Commit, SendersComeLate
  <2>3. \A j \in Joins : j # next => sends'[j] = sends[j]
    BY <1>6, SinkTyped DEF Commit
  <2> QED BY <2>1, <2>2, <2>3 DEF SendersComeLate
<1>7. ASSUME NEW i \in Joins, Joining(i) PROVE SendersComeLate'
  <2>1. CASE Offer(i)
    <3>1. \A j \in Joins : j # i => sends'[j] = sends[j]  BY <2>1 DEF Offer, TypeOK
    <3>2. /\ step[i] = "open" /\ next = 0
          /\ UNCHANGED <<step, signal, next>>
      BY <2>1 DEF Offer, Rendered
    <3> QED BY <1>a, <3>1, <3>2 DEF SendersComeLate
  <2>2. CASE Open(i)
    <3>1. \A k \in Joins : step'[k] = IF k = i THEN "open" ELSE step[k]
      BY <2>2 DEF Open, TypeOK
    <3>2. step[i] = "opening" /\ UNCHANGED <<sends, signal>> /\ next = 0
          /\ next' \in {0, i}
      BY <2>2 DEF Open, Rendered
    <3>3. sends[i] = "new"  BY <3>2 DEF SendersComeLate, Opened
    <3> QED BY <1>a, <1>b, <3>1, <3>2, <3>3 DEF SendersComeLate
  <2>3. CASE (Proceed(i) \/ Refuse(i) \/ Drop(i)) /\ ~ Open(i)
    <3>1. \A k \in Joins : step'[k] = IF k = i THEN step'[i] ELSE step[k]  BY <2>3, MoveTyped
    <3>2. step'[i] \in Opened <=> step[i] \in Opened
      BY <2>3 DEF TypeOK, Proceed, Refuse, Drop, Opened
    <3>3. UNCHANGED <<sends, signal, next>>  BY <2>3 DEF Proceed, Refuse, Drop
    <3> QED BY <1>b, <3>1, <3>2, <3>3 DEF SendersComeLate
  <2> QED BY <1>7, <2>1, <2>2, <2>3 DEF Joining
<1> QED BY <1>2, <1>3, <1>4, <1>5, <1>6, <1>7 DEF Next

(* What is committed on a room page has no sender yet, and sinks; what       *)
(* RoomPage finds when it is mounted it has just seen.                      *)
LEMMA MediaStep ==
  ASSUME TypeOK, SendersComeLate, MediaBeforeOffer, [Next]_vars  PROVE MediaBeforeOffer'
<1> USE DEF pageVars, joinVars, contextVars
<1>0. 0..joins \subseteq Joins \cup {0}
  BY Typed, ConferenceAssumption DEF Joins, ConferenceAssumption
<1>1. CASE MountLayout  BY <1>1 DEF MountLayout, MediaBeforeOffer
<1>2. ASSUME NEW r \in Rooms, EnterRoom(r) PROVE MediaBeforeOffer'
  <2>1. CASE at = Home /\ signal # 0
    <3>1. /\ signal \in Joins /\ sends' = Sink(signal)
          /\ signal' = signal /\ seen' = signal
      BY <1>0, <1>2, <2>1, Typed DEF EnterRoom
    <3>2. sends'[signal] \in {"bare", "media"}
      BY <3>1, SinkTyped DEF TypeOK
    <3> QED BY <3>1, <3>2 DEF MediaBeforeOffer
  <2>2. CASE at # Home \/ signal = 0
    BY <1>2, <2>2 DEF EnterRoom, MediaBeforeOffer, OnRoomPage
  <2> QED BY <2>1, <2>2
<1>3. CASE Commit
  <2>1. CASE OnRoomPage
    <3>1. /\ next \in Joins /\ sends' = Sink(next) /\ signal' = next
          /\ sends[next] = "new"
      BY <1>0, <1>3, <2>1, Typed DEF Commit, SendersComeLate
    <3>2. sends'[next] = "media"  BY <3>1, SinkTyped
    <3> QED BY <3>1, <3>2 DEF MediaBeforeOffer
  <2>2. CASE ~ OnRoomPage  BY <1>3, <2>2 DEF Commit, OnRoomPage, MediaBeforeOffer
  <2> QED BY <2>1, <2>2
<1>4. ASSUME NEW j \in Joins, Joining(j) PROVE MediaBeforeOffer'
  <2>1. CASE Offer(j)
    <3>1. \A k \in Joins : sends[k] # "new" => sends'[k] = sends[k]  BY <2>1 DEF Offer, TypeOK
    <3>2. signal # 0 => signal \in Joins  BY <1>0, Typed
    <3> QED BY <2>1, <3>1, <3>2 DEF Offer, MediaBeforeOffer, OnRoomPage
  <2>2. CASE Proceed(j) \/ Refuse(j) \/ Drop(j) \/ Open(j)
    BY <2>2, MoveTyped DEF MediaBeforeOffer, OnRoomPage
  <2> QED BY <1>4, <2>1, <2>2 DEF Joining
<1>5. CASE LeaveRoom \/ UnmountLayout \/ AnswerPrompt \/ UNCHANGED vars
  BY <1>5 DEF LeaveRoom, UnmountLayout, AnswerPrompt, vars, MediaBeforeOffer, OnRoomPage
<1> QED BY <1>1, <1>2, <1>3, <1>4, <1>5 DEF Next

-----------------------------------------------------------------------------
LEMMA Numbering == Spec => [](TypeOK /\ Numbered)
<1>1. Init => TypeOK /\ Numbered  BY InitTyped, InitNumbered
<1>2. TypeOK /\ Numbered /\ [Next]_vars => (TypeOK /\ Numbered)'  BY TypeStep, NumberedStep
<1> QED BY <1>1, <1>2, PTL DEF Spec

(* The state of the client's page, its joins and their sockets stays well    *)
(* typed: no handler reaches a join that was not asked for.                  *)
THEOREM PageTyped == Spec => []TypeOK
BY Numbering, PTL

LEMMA InitConnection == Init => ConnectionInv
<1> SUFFICES ASSUME Init PROVE ConnectionInv  OBVIOUS
<1>1. MadeBefore /\ NoOrphan  BY DEF Init, MadeBefore, NoOrphan
<1>2. StreamsAreCurrent /\ SendersComeLate /\ MediaBeforeOffer
  BY DEF Init, StreamsAreCurrent, SendersComeLate, MediaBeforeOffer
<1> QED BY <1>1, <1>2 DEF ConnectionInv

LEMMA ConnectionStep ==
  ASSUME PromptRender, TypeOK, Numbered, ConnectionInv, [Next]_vars  PROVE ConnectionInv'
<1>1. MadeBefore'  BY MadeStep DEF ConnectionInv
<1>2. NoOrphan'  BY NoOrphanStep DEF ConnectionInv
<1>3. StreamsAreCurrent'  BY StreamsStep DEF ConnectionInv
<1>4. SendersComeLate'  BY SendersStep DEF ConnectionInv
<1>5. MediaBeforeOffer'  BY MediaStep DEF ConnectionInv
<1> QED BY <1>1, <1>2, <1>3, <1>4, <1>5 DEF ConnectionInv

LEMMA Connection == ASSUME PromptRender PROVE Spec => []ConnectionInv
<1>1. Init => ConnectionInv  BY InitConnection
<1>2. TypeOK /\ Numbered /\ ConnectionInv /\ [Next]_vars => ConnectionInv'  BY ConnectionStep
<1> QED BY <1>1, <1>2, Numbering, PTL DEF Spec

(* However often the user changes rooms, signs in and out, and however long  *)
(* sockets take to open, no socket of the mounted layout is left open beside *)
(* the committed one, if React renders each update before the next event.   *)
THEOREM PageIsInOneRoom == ASSUME PromptRender PROVE Spec => []NoOrphan
<1>1. ConnectionInv => NoOrphan  BY DEF ConnectionInv
<1> QED BY <1>1, Connection, PTL

(* The gallery shows no stream of a room that was left, under the same       *)
(* assumption: the clear action reaches the list before any newer stream.    *)
THEOREM GalleryIsOfTheRoom == ASSUME PromptRender PROVE Spec => []StreamsAreCurrent
<1>1. ConnectionInv => StreamsAreCurrent  BY DEF ConnectionInv
<1> QED BY <1>1, Connection, PTL

(* On a room page the committed connection sends the camera, in whatever     *)
(* order sockets open: the sink of its commit came before any offer, but for *)
(* the connection the page found when it was mounted.                       *)
THEOREM CameraIsFirst == ASSUME PromptRender PROVE Spec => []MediaBeforeOffer
<1>1. ConnectionInv => MediaBeforeOffer  BY DEF ConnectionInv
<1> QED BY <1>1, Connection, PTL

=============================================================================
