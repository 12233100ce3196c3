---------------------------- MODULE FiltersProofs ----------------------------
(***************************************************************************)
(* Theorems about Filters, for any peers and every bound.                   *)
(***************************************************************************)
EXTENDS Filters, TLAPS

Places == {"no", "attach", "stored", "select", "switch", "sanitize", "unref", "gone"}

(* Types without the bounds. *)
Typed ==
  /\ switcher \in FilterNames \cup {"idle", "dead"} /\ filter \in FilterNames
  /\ media \in Nat \ {0} /\ switches \in Nat
  /\ track \in {"live", "ended", "removed"}
  /\ sub \in [Subs -> Places] /\ observers \subseteq Subs
  /\ spawned \in [Subs -> Nat] /\ blocked \in [Subs -> Nat]
  /\ sends \in [Subs -> Seq(Nat)] /\ running \in [Subs -> SUBSET Nat]
  /\ current \in [Subs -> Nat] /\ stored \in [Subs -> Nat]
  /\ server \in {"up", "aborted"} /\ faults \in 0..MaxFaults

(* A media for every switch whose filter has been set. *)
MediaCounted ==
  /\ switches <= MaxSwitches /\ media <= switches + 1
  /\ switcher \in FilterNames => media <= switches

(* A peer has a sender for its attachment and for each change it was told.   *)
Counted(s) ==
  /\ sub[s] = "no" => Len(sends[s]) = 0
  /\ sub[s] \in {"no", "attach", "stored"} => spawned[s] = 0 /\ blocked[s] = 0
  /\ Len(sends[s]) + spawned[s] + blocked[s] <= media
  /\ \A n \in 1..Len(sends[s]) : sends[s][n] \in 1..media

(* The observer's channel is open while the peer listens to it. *)
Observed(s) ==
  /\ sub[s] \in {"no", "attach", "stored"} => s \notin observers
  /\ sub[s] \in {"select", "switch", "sanitize"} => s \in observers
  /\ sub[s] \in {"unref", "gone"} => Ended

(* The sender of the transceiver is the last one made, but within a switch. *)
Placed(s) ==
  /\ sub[s] = "no" => current[s] = 0
  /\ sub[s] = "attach" => Len(sends[s]) = 1 /\ current[s] = 0
  /\ sub[s] = "stored" => Len(sends[s]) = 1
  /\ sub[s] = "switch" => Len(sends[s]) = current[s] + 1
  /\ sub[s] \notin {"no", "attach", "switch"} => Len(sends[s]) = current[s]
  /\ sub[s] \in {"no", "attach"} => stored[s] = 0 /\ running[s] = {}
  /\ sub[s] \notin {"no", "attach"} => stored[s] = 1 /\ current[s] >= 1
  /\ running[s] \subseteq 1..Len(sends[s])

(* Of two senders the first, which is stored, is stopped by the switch. *)
Runs(s) ==
  Len(sends[s]) <= 2 =>
    /\ sub[s] \in {"stored", "select", "switch", "sanitize"} => running[s] = {current[s]}
    /\ sub[s] \in {"unref", "gone"} => running[s] = {}

FiltersInv ==
  /\ Typed /\ MediaCounted
  /\ \A s \in Subs : Counted(s) /\ Observed(s) /\ Placed(s) /\ Runs(s)

(* An old track that is sent is about to be replaced, but for one a peer     *)
(* has attached and not been told to switch.                                 *)
Follows(s) ==
  sub[s] \in {"select", "sanitize"} /\ Senders(s) >= 2 =>
    \/ sends[s][current[s]] = media
    \/ spawned[s] + blocked[s] > 0
    \/ Ended \/ faults > 0

-----------------------------------------------------------------------------
LEMMA InitFilters == Init => FiltersInv /\ \A s \in Subs : Follows(s)
<1> SUFFICES ASSUME Init PROVE FiltersInv /\ \A s \in Subs : Follows(s)  OBVIOUS
<1>1. Typed
  BY FiltersAssumption DEF Init, Typed, FilterNames, Places
<1>2. MediaCounted
  BY FiltersAssumption DEF Init, MediaCounted, FilterNames
<1>3. ASSUME NEW s \in Subs PROVE Counted(s) /\ Observed(s) /\ Placed(s) /\ Runs(s) /\ Follows(s)
  <2>1. sub[s] = "no" /\ s \notin observers /\ spawned[s] = 0 /\ blocked[s] = 0 /\ media = 1
    BY DEF Init
  <2>2. sends[s] = <<>> /\ running[s] = {} /\ current[s] = 0 /\ stored[s] = 0
    BY DEF Init
  <2> QED BY <2>1, <2>2 DEF Counted, Observed, Placed, Runs, Follows
<1> QED BY <1>1, <1>2, <1>3 DEF FiltersInv

PeerInv(s) == Counted(s) /\ Observed(s) /\ Placed(s) /\ Runs(s)

(* Steps of the publisher that set no filter. *)
LEMMA PublisherKeeps ==
  ASSUME FiltersInv, Typed', MediaCounted', UNCHANGED <<media, sub, observers, spawned, senderVars>>,
         UNCHANGED blocked \/ blocked' = [s \in Subs |-> 0], Ended => Ended'
  PROVE  FiltersInv'
<1> SUFFICES ASSUME NEW s \in Subs PROVE PeerInv(s)'
  BY DEF FiltersInv, PeerInv
<1>1. Counted(s) /\ Observed(s) /\ Placed(s) /\ Runs(s)  BY DEF FiltersInv
<1>2. blocked'[s] \in {blocked[s], 0} /\ spawned[s] \in Nat /\ blocked[s] \in Nat
      /\ media \in Nat /\ sends[s] \in Seq(Nat) /\ Len(sends[s]) \in Nat
  BY DEF FiltersInv, Typed
<1>3. UNCHANGED <<media, sub, observers, spawned, sends, running, current, stored>>
  BY DEF senderVars
<1>4. Counted(s)'  BY <1>1, <1>2, <1>3 DEF Counted
<1>5. Observed(s)'  BY <1>1, <1>3 DEF Observed
<1>6. Placed(s)' /\ Runs(s)'  BY <1>1, <1>3 DEF Placed, Runs
<1> QED BY <1>4, <1>5, <1>6 DEF PeerInv

LEMMA PublisherStep ==
  ASSUME FiltersInv, SwitchFilter \/ AllocateFails \/ EndTrack \/ Unpublish
  PROVE  FiltersInv'
<1> USE DEF busVars, senderVars, endVars, trackVars, Ended
<1>0. Typed /\ MediaCounted  BY DEF FiltersInv
<1>1. CASE SwitchFilter
  <2>1. MediaCounted'
    <3>1. switcher = "idle" /\ switches < MaxSwitches /\ switches' = switches + 1 /\ UNCHANGED media
          /\ switches \in Nat /\ media \in Nat /\ media <= switches + 1
      BY <1>0, <1>1 DEF SwitchFilter, Typed, MediaCounted
    <3> QED BY <3>1, FiltersAssumption DEF MediaCounted
  <2>2. Typed'
    BY <1>0, <1>1 DEF SwitchFilter, Typed
  <2> QED BY <1>1, <2>1, <2>2, PublisherKeeps DEF SwitchFilter
<1>2. CASE AllocateFails
  <2>1. /\ switcher' = "dead" /\ track' \in {track, "ended"} /\ blocked' = [s \in Subs |-> 0]
        /\ faults < MaxFaults /\ faults' = faults + 1
        /\ UNCHANGED <<filter, media, switches, sub, observers, spawned, senderVars, server>>
    BY <1>2 DEF AllocateFails, Fault
  <2>2. MediaCounted'  BY <1>0, <2>1 DEF MediaCounted, FilterNames
  <2>3. faults' \in 0..MaxFaults
    <3>1. faults \in 0..MaxFaults  BY <1>0 DEF Typed
    <3> QED BY <2>1, <3>1, FiltersAssumption
  <2>4. Typed'
    BY <1>0, <2>1, <2>3 DEF Typed
  <2>5. Ended => Ended'  BY <1>2 DEF AllocateFails
  <2> QED BY <2>1, <2>2, <2>4, <2>5, PublisherKeeps
<1>3. CASE EndTrack
  <2>1. Typed' /\ MediaCounted'
    BY <1>0, <1>3 DEF EndTrack, Typed, MediaCounted
  <2> QED BY <1>3, <2>1, PublisherKeeps DEF EndTrack
<1>4. CASE Unpublish
  <2>1. Typed' /\ MediaCounted'
    BY <1>0, <1>4 DEF Unpublish, Typed, MediaCounted
  <2> QED BY <1>4, <2>1, PublisherKeeps DEF Unpublish
<1> QED BY <1>1, <1>2, <1>3, <1>4

(* A new local track, and one more message for every observer. *)
LEMMA SetFilterStep == ASSUME FiltersInv, SetFilter PROVE FiltersInv'
<1> USE DEF senderVars, endVars
<1>0. Typed /\ MediaCounted  BY DEF FiltersInv
<1>1. /\ switcher \in FilterNames /\ filter' = switcher /\ media' = media + 1 /\ switcher' = "idle"
      /\ spawned' = [s \in Subs |-> IF s \in observers THEN spawned[s] + 1 ELSE spawned[s]]
      /\ UNCHANGED <<switches, track, sub, observers, blocked, sends, running, current, stored, server, faults>>
  BY DEF SetFilter
<1>2. MediaCounted'
  BY <1>0, <1>1 DEF MediaCounted, Typed, FilterNames
<1>3. Typed'
  BY <1>0, <1>1 DEF Typed, FilterNames
<1>4. ASSUME NEW s \in Subs PROVE PeerInv(s)'
  <2>1. Counted(s) /\ Observed(s) /\ Placed(s) /\ Runs(s)  BY DEF FiltersInv
  <2>2. spawned'[s] \in {spawned[s], spawned[s] + 1} /\ (s \notin observers => spawned'[s] = spawned[s])
    BY <1>1
  <2>3. spawned[s] \in Nat /\ blocked[s] \in Nat /\ media \in Nat
        /\ sends[s] \in Seq(Nat) /\ Len(sends[s]) \in Nat
    BY <1>0 DEF Typed
  <2>4. Counted(s)'
    <3>1. 1..media \subseteq 1..media'  BY <1>1, <2>3
    <3>2. \A n \in 1..Len(sends'[s]) : sends'[s][n] \in 1..media'
      BY <1>1, <2>1, <3>1 DEF Counted
    <3>3. Len(sends'[s]) + spawned'[s] + blocked'[s] <= media'
      BY <1>1, <2>1, <2>2, <2>3 DEF Counted
    <3>4. sub[s] \in {"no", "attach", "stored"} => spawned'[s] = 0
      BY <2>1, <2>2 DEF Counted, Observed
    <3> QED BY <1>1, <2>1, <3>2, <3>3, <3>4 DEF Counted
  <2>5. Observed(s)' /\ Placed(s)' /\ Runs(s)'
    BY <1>1, <2>1 DEF Observed, Placed, Runs, Ended
  <2> QED BY <2>4, <2>5 DEF PeerInv
<1> QED BY <1>2, <1>3, <1>4 DEF FiltersInv, PeerInv

(* A step of one peer leaves the invariants of the others alone. *)
LEMMA OtherPeers ==
  ASSUME FiltersInv, UNCHANGED <<trackVars, track>>, Typed', NEW s \in Subs, PeerInv(s)',
         \A q \in Subs \ {s} :
           /\ sub'[q] = sub[q] /\ spawned'[q] = spawned[q] /\ blocked'[q] = blocked[q]
           /\ (q \in observers' <=> q \in observers)
           /\ sends'[q] = sends[q] /\ running'[q] = running[q]
           /\ current'[q] = current[q] /\ stored'[q] = stored[q]
  PROVE  FiltersInv'
<1>1. MediaCounted'  BY DEF FiltersInv, MediaCounted, trackVars
<1>2. ASSUME NEW q \in Subs \ {s} PROVE PeerInv(q)'
  <2>1. Counted(q) /\ Observed(q) /\ Placed(q) /\ Runs(q)  BY DEF FiltersInv
  <2>2. Counted(q)'  BY <2>1 DEF Counted, trackVars
  <2>3. Observed(q)'  BY <2>1 DEF Observed, Ended
  <2>4. Placed(q)' /\ Runs(q)'  BY <2>1 DEF Placed, Runs
  <2> QED BY <2>2, <2>3, <2>4 DEF PeerInv
<1> QED BY <1>1, <1>2 DEF FiltersInv, PeerInv

-----------------------------------------------------------------------------
(* The dispatch goroutines: a message leaves spawned, and may be blocked.    *)
LEMMA DispatchingStep ==
  ASSUME FiltersInv, NEW s \in Subs, Blocks(s) \/ Returns(s) \/ SendsOnClosed(s)
  PROVE  FiltersInv'
<1> USE DEF trackVars, senderVars, busVars, endVars
<1>0. Typed /\ PeerInv(s)  BY DEF FiltersInv, PeerInv
<1>1. /\ UNCHANGED <<trackVars, track, sub, observers, sends, running, current, stored, faults>>
      /\ server' \in {"up", "aborted"}
  BY <1>0 DEF Blocks, Returns, SendsOnClosed, Typed
<1>2. spawned \in [Subs -> Nat] /\ blocked \in [Subs -> Nat] /\ media \in Nat
      /\ sends[s] \in Seq(Nat) /\ Len(sends[s]) \in Nat
  BY <1>0 DEF Typed
<1>3. /\ spawned' \in [Subs -> Nat] /\ blocked' \in [Subs -> Nat]
      /\ \A q \in Subs \ {s} : spawned'[q] = spawned[q] /\ blocked'[q] = blocked[q]
      /\ spawned'[s] + blocked'[s] <= spawned[s] + blocked[s]
      /\ spawned[s] = 0 => spawned'[s] = 0 /\ blocked'[s] = blocked[s]
  <2>1. CASE Blocks(s)
    <3>1. spawned[s] > 0 /\ spawned' = [spawned EXCEPT ![s] = spawned[s] - 1]
          /\ blocked' = [blocked EXCEPT ![s] = blocked[s] + 1]
      BY <2>1 DEF Blocks
    <3> QED BY <1>2, <3>1
  <2>2. CASE Returns(s)
    <3>1. spawned[s] > 0 /\ spawned' = [spawned EXCEPT ![s] = spawned[s] - 1] /\ blocked' = blocked
      BY <2>2 DEF Returns
    <3> QED BY <1>2, <3>1
  <2>3. CASE SendsOnClosed(s)
    <3>1. spawned' = spawned /\ blocked' = blocked  BY <2>3 DEF SendsOnClosed
    <3> QED BY <1>2, <3>1
  <2> QED BY <2>1, <2>2, <2>3
<1>4. Typed'  BY <1>0, <1>1, <1>3 DEF Typed
<1>5. PeerInv(s)'
  <2>1. spawned[s] \in Nat /\ blocked[s] \in Nat /\ spawned'[s] \in Nat /\ blocked'[s] \in Nat
    BY <1>2, <1>3
  <2>2. Len(sends[s]) + spawned'[s] + blocked'[s] <= media
    BY <1>0, <1>2, <1>3, <2>1 DEF PeerInv, Counted
  <2>3. Counted(s)'
    BY <1>0, <1>1, <1>3, <2>2 DEF PeerInv, Counted
  <2>4. Observed(s)' /\ Placed(s)' /\ Runs(s)'
    BY <1>0, <1>1 DEF PeerInv, Observed, Placed, Runs, Ended
  <2> QED BY <2>3, <2>4 DEF PeerInv
<1> QED BY <1>1, <1>3, <1>4, <1>5, OtherPeers

(* The first sender: made, stored, observed. *)
LEMMA AttachingStep ==
  ASSUME FiltersInv, NEW s \in Subs, Attach(s) \/ Stores(s) \/ Observes(s)
  PROVE  FiltersInv'
<1> USE DEF trackVars, senderVars, busVars, endVars, Goto
<1>0. Typed /\ PeerInv(s)  BY DEF FiltersInv, PeerInv
<1>1. CASE Attach(s)
  <2>1. /\ sub[s] = "no" /\ sub' = [sub EXCEPT ![s] = "attach"]
        /\ sends' = [sends EXCEPT ![s] = <<media>>]
        /\ UNCHANGED <<trackVars, track, observers, spawned, blocked, running, current, stored, endVars>>
    BY <1>1 DEF Attach
  <2>2. <<media>> \in Seq(Nat) /\ Len(<<media>>) = 1 /\ <<media>>[1] = media /\ media \in Nat \ {0}
    BY <1>0 DEF Typed
  <2>3. sub' \in [Subs -> Places] /\ sends' \in [Subs -> Seq(Nat)]
        /\ sub'[s] = "attach" /\ sends'[s] = <<media>>
    BY <1>0, <2>1, <2>2 DEF Typed, Places
  <2>4. Typed'  BY <1>0, <2>1, <2>3 DEF Typed
  <2>5. PeerInv(s)'
    <3>1. Counted(s)'  BY <1>0, <2>1, <2>2, <2>3 DEF PeerInv, Counted
    <3>2. Observed(s)'  BY <1>0, <2>1, <2>3 DEF PeerInv, Observed
    <3>3. Placed(s)' /\ Runs(s)'  BY <1>0, <2>1, <2>2, <2>3 DEF PeerInv, Placed, Runs
    <3> QED BY <3>1, <3>2, <3>3 DEF PeerInv
  <2> QED BY <1>0, <2>1, <2>4, <2>5, OtherPeers DEF Typed
<1>2. CASE Stores(s)
  <2>1. /\ sub[s] = "attach" /\ sub' = [sub EXCEPT ![s] = "stored"]
        /\ running' = [running EXCEPT ![s] = {1}]
        /\ current' = [current EXCEPT ![s] = 1] /\ stored' = [stored EXCEPT ![s] = 1]
        /\ UNCHANGED <<trackVars, track, observers, spawned, blocked, sends, endVars>>
    BY <1>2 DEF Stores
  <2>3. /\ sub' \in [Subs -> Places] /\ running' \in [Subs -> SUBSET Nat]
        /\ current' \in [Subs -> Nat] /\ stored' \in [Subs -> Nat]
        /\ sub'[s] = "stored" /\ running'[s] = {1} /\ current'[s] = 1 /\ stored'[s] = 1
    BY <1>0, <2>1 DEF Typed, Places
  <2>4. Typed'  BY <1>0, <2>1, <2>3 DEF Typed
  <2>5. PeerInv(s)'
    <3>1. Counted(s)'  BY <1>0, <2>1, <2>3 DEF PeerInv, Counted
    <3>2. Observed(s)'  BY <1>0, <2>1, <2>3 DEF PeerInv, Observed
    <3>3. Len(sends'[s]) = 1  BY <1>0, <2>1 DEF PeerInv, Placed
    <3>4. Placed(s)'
      <4>1. running'[s] \subseteq 1..Len(sends'[s])  BY <2>3, <3>3
      <4>2. current'[s] >= 1 /\ Len(sends'[s]) = current'[s]  BY <2>3, <3>3
      <4> QED BY <2>3, <3>3, <4>1, <4>2 DEF Placed
    <3>5. Runs(s)'  BY <2>3, <3>3 DEF Runs
    <3> QED BY <3>1, <3>2, <3>4, <3>5 DEF PeerInv
  <2> QED BY <1>0, <2>1, <2>4, <2>5, OtherPeers DEF Typed
<1>3. CASE Observes(s)
  <2>1. /\ sub[s] = "stored" /\ sub' = [sub EXCEPT ![s] = "select"]
        /\ observers' = observers \cup {s}
        /\ UNCHANGED <<trackVars, track, spawned, blocked, sends, running, current, stored, endVars>>
    BY <1>3 DEF Observes
  <2>3. sub' \in [Subs -> Places] /\ sub'[s] = "select"
    BY <1>0, <2>1 DEF Typed, Places
  <2>4. Typed'  BY <1>0, <2>1, <2>3 DEF Typed
  <2>5. PeerInv(s)'
    <3>1. Counted(s)'  BY <1>0, <2>1, <2>3 DEF PeerInv, Counted
    <3>2. Observed(s)'  BY <1>0, <2>1, <2>3 DEF PeerInv, Observed
    <3>3. Placed(s)' /\ Runs(s)'  BY <1>0, <2>1, <2>3 DEF PeerInv, Placed, Runs
    <3> QED BY <3>1, <3>2, <3>3 DEF PeerInv
  <2> QED BY <1>0, <2>1, <2>4, <2>5, OtherPeers DEF Typed
<1> QED BY <1>1, <1>2, <1>3

(* A change is received: one message less, one sender more. *)
LEMMA ReceiveStep == ASSUME FiltersInv, NEW s \in Subs, Receive(s) PROVE FiltersInv'
<1> USE DEF trackVars, senderVars, busVars, endVars, Goto
<1>0. Typed /\ PeerInv(s)  BY DEF FiltersInv, PeerInv
<1>1. /\ blocked[s] > 0 /\ sub[s] = "select" /\ sub' = [sub EXCEPT ![s] = "switch"]
      /\ blocked' = [blocked EXCEPT ![s] = @ - 1]
      /\ sends' = [sends EXCEPT ![s] = Append(@, media)]
      /\ UNCHANGED <<trackVars, track, observers, spawned, running, current, stored, endVars>>
  BY DEF Receive
<1>2. sends[s] \in Seq(Nat) /\ Len(sends[s]) \in Nat /\ media \in Nat \ {0} /\ spawned[s] \in Nat
      /\ blocked[s] \in Nat
  BY <1>0 DEF Typed
<1>3. /\ Append(sends[s], media) \in Seq(Nat) /\ Len(Append(sends[s], media)) = Len(sends[s]) + 1
      /\ \A n \in 1..Len(sends[s]) : Append(sends[s], media)[n] = sends[s][n]
      /\ Append(sends[s], media)[Len(sends[s]) + 1] = media
  BY <1>2
<1>4. /\ sub' \in [Subs -> Places] /\ blocked' \in [Subs -> Nat] /\ sends' \in [Subs -> Seq(Nat)]
      /\ sub'[s] = "switch" /\ blocked'[s] = blocked[s] - 1 /\ sends'[s] = Append(sends[s], media)
  BY <1>0, <1>1, <1>2, <1>3 DEF Typed, Places
<1>5. Typed'  BY <1>0, <1>1, <1>4 DEF Typed
<1>6. PeerInv(s)'
  <2>1. Counted(s)'
    <3>1. Len(sends'[s]) + spawned'[s] + blocked'[s] <= media'
      BY <1>0, <1>1, <1>2, <1>3, <1>4 DEF PeerInv, Counted
    <3>2. \A n \in 1..Len(sends'[s]) : sends'[s][n] \in 1..media'
      <4> SUFFICES ASSUME NEW n \in 1..(Len(sends[s]) + 1)
                   PROVE  Append(sends[s], media)[n] \in 1..media
        BY <1>1, <1>3, <1>4
      <4>1. CASE n = Len(sends[s]) + 1  BY <4>1, <1>2, <1>3
      <4>2. CASE n \in 1..Len(sends[s])  BY <4>2, <1>0, <1>3 DEF PeerInv, Counted
      <4> QED BY <4>1, <4>2, <1>2
    <3> QED BY <1>4, <3>1, <3>2 DEF Counted
  <2>2. Observed(s)'  BY <1>0, <1>1, <1>4 DEF PeerInv, Observed
  <2>3. Placed(s)'
    <3>1. current[s] = Len(sends[s]) /\ stored[s] = 1 /\ current[s] >= 1
          /\ running[s] \subseteq 1..Len(sends[s])
      BY <1>0, <1>1 DEF PeerInv, Placed
    <3>2. running[s] \subseteq 1..(Len(sends[s]) + 1)  BY <1>2, <3>1
    <3> QED BY <1>1, <1>3, <1>4, <3>1, <3>2 DEF Placed
  <2>4. Runs(s)'
    <3>1. Len(sends'[s]) <= 2 => Len(sends[s]) <= 2  BY <1>2, <1>3, <1>4
    <3> QED BY <1>0, <1>1, <1>4, <3>1 DEF PeerInv, Runs
  <2> QED BY <2>1, <2>2, <2>3, <2>4 DEF PeerInv
<1> QED BY <1>0, <1>1, <1>5, <1>6, OtherPeers DEF Typed

(* A failure: nothing is switched. *)
LEMMA ReceiveFailsStep == ASSUME FiltersInv, NEW s \in Subs, ReceiveFails(s) PROVE FiltersInv'
<1> USE DEF trackVars, senderVars, busVars, Goto
<1>0. Typed /\ PeerInv(s)  BY DEF FiltersInv, PeerInv
<1>1. /\ blocked[s] > 0 /\ sub[s] = "select" /\ sub' = [sub EXCEPT ![s] = "sanitize"]
      /\ blocked' = [blocked EXCEPT ![s] = @ - 1]
      /\ faults < MaxFaults /\ faults' = faults + 1
      /\ UNCHANGED <<trackVars, track, observers, spawned, senderVars, server>>
  BY DEF ReceiveFails, Fault
<1>2. Len(sends[s]) \in Nat /\ media \in Nat /\ spawned[s] \in Nat /\ blocked[s] \in Nat
      /\ faults \in 0..MaxFaults
  BY <1>0 DEF Typed
<1>3. /\ sub' \in [Subs -> Places] /\ blocked' \in [Subs -> Nat]
      /\ sub'[s] = "sanitize" /\ blocked'[s] = blocked[s] - 1 /\ faults' \in 0..MaxFaults
  BY <1>0, <1>1, <1>2, FiltersAssumption DEF Typed, Places
<1>4. Typed'  BY <1>0, <1>1, <1>3 DEF Typed
<1>5. PeerInv(s)'
  <2>1. Len(sends[s]) + spawned[s] + blocked'[s] <= media
    BY <1>0, <1>2, <1>3 DEF PeerInv, Counted
  <2>2. Counted(s)'  BY <1>0, <1>1, <1>3, <2>1 DEF PeerInv, Counted
  <2>3. Observed(s)' /\ Placed(s)' /\ Runs(s)'
    BY <1>0, <1>1, <1>3 DEF PeerInv, Observed, Placed, Runs
  <2> QED BY <2>2, <2>3 DEF PeerInv
<1> QED BY <1>0, <1>1, <1>4, <1>5, OtherPeers DEF Typed

LEMMA SwitchStep == ASSUME FiltersInv, NEW s \in Subs, SwitchActiveTrackMedia(s) PROVE FiltersInv'
<1> USE DEF trackVars, senderVars, busVars, endVars, Goto, Senders
<1> DEFINE n == Len(sends[s])
<1>0. Typed /\ PeerInv(s)  BY DEF FiltersInv, PeerInv
<1>1. /\ sub[s] = "switch" /\ sub' = [sub EXCEPT ![s] = "sanitize"]
      /\ running' = [running EXCEPT ![s] = (@ \ {stored[s]}) \cup {n}]
      /\ current' = [current EXCEPT ![s] = n]
      /\ sends' = [sends EXCEPT ![s] = [sends[s] EXCEPT ![n] = media]]
      /\ UNCHANGED <<trackVars, track, busVars, stored, endVars>>
  BY DEF SwitchActiveTrackMedia
<1>2. sends[s] \in Seq(Nat) /\ media \in Nat \ {0} /\ running[s] \subseteq Nat
  BY <1>0 DEF Typed
<1>3. /\ n \in Nat /\ n = current[s] + 1 /\ current[s] >= 1 /\ stored[s] = 1
      /\ running[s] \subseteq 1..n
      /\ n <= 2 => running[s] = {current[s]}
  BY <1>0, <1>1, <1>2 DEF PeerInv, Placed, Runs
<1>4. /\ [sends[s] EXCEPT ![n] = media] \in Seq(Nat) /\ Len([sends[s] EXCEPT ![n] = media]) = n
      /\ \A i \in 1..n : [sends[s] EXCEPT ![n] = media][i] = IF i = n THEN media ELSE sends[s][i]
  BY <1>2, <1>3
<1>5. current[s] \in Nat  BY <1>0 DEF Typed
<1> HIDE DEF n
<1>6. /\ sub' \in [Subs -> Places] /\ sub'[s] = "sanitize"
      /\ running' \in [Subs -> SUBSET Nat] /\ running'[s] = (running[s] \ {1}) \cup {n}
      /\ current' \in [Subs -> Nat] /\ current'[s] = n
      /\ sends' \in [Subs -> Seq(Nat)] /\ sends'[s] = [sends[s] EXCEPT ![n] = media]
  BY <1>0, <1>1, <1>3, <1>4 DEF Typed, Places
<1>7. Typed'  BY <1>0, <1>1, <1>6 DEF Typed
<1>8. PeerInv(s)'
  <2>1. Counted(s)'
    <3>1. n + spawned[s] + blocked[s] <= media /\ \A i \in 1..n : sends[s][i] \in 1..media
      BY <1>0 DEF PeerInv, Counted, n
    <3>2. media \in 1..media  BY <1>2
    <3> QED BY <1>1, <1>4, <1>6, <3>1, <3>2 DEF Counted
  <2>2. Observed(s)'  BY <1>0, <1>1, <1>6 DEF PeerInv, Observed, Ended
  <2>3. Placed(s)'
    <3>1. (running[s] \ {1}) \cup {n} \subseteq 1..n  BY <1>3, <1>5
    <3> QED BY <1>1, <1>3, <1>4, <1>5, <1>6, <3>1 DEF Placed
  <2>4. Runs(s)'
    <3>1. n <= 2 => n = 2 /\ running[s] = {1}  BY <1>3, <1>5
    <3> QED BY <1>4, <1>6, <3>1 DEF Runs
  <2> QED BY <2>1, <2>2, <2>3, <2>4 DEF PeerInv
<1> QED BY <1>0, <1>1, <1>7, <1>8, OtherPeers DEF Typed

(* The end of a peer's attachment. *)
LEMMA EndingStep ==
  ASSUME FiltersInv, NEW s \in Subs, Sanitized(s) \/ DeleteTrack(s) \/ TrackObserverUnref(s)
  PROVE  FiltersInv'
<1> USE DEF trackVars, senderVars, busVars, endVars, Goto
<1>0. Typed /\ PeerInv(s)  BY DEF FiltersInv, PeerInv
<1>1. CASE Sanitized(s)
  <2>1. sub[s] = "sanitize" /\ sub' = [sub EXCEPT ![s] = "select"]
        /\ UNCHANGED <<trackVars, track, busVars, senderVars, endVars>>
    BY <1>1 DEF Sanitized
  <2>2. sub' \in [Subs -> Places] /\ sub'[s] = "select"  BY <1>0, <2>1 DEF Typed, Places
  <2>3. Typed'  BY <1>0, <2>1, <2>2 DEF Typed
  <2>4. PeerInv(s)'
    <3>1. Counted(s)' /\ Observed(s)'  BY <1>0, <2>1, <2>2 DEF PeerInv, Counted, Observed
    <3>2. Placed(s)' /\ Runs(s)'  BY <1>0, <2>1, <2>2 DEF PeerInv, Placed, Runs
    <3> QED BY <3>1, <3>2 DEF PeerInv
  <2> QED BY <1>0, <2>1, <2>3, <2>4, OtherPeers DEF Typed
<1>2. CASE DeleteTrack(s)
  <2>1. Ended /\ sub[s] = "select" /\ sub' = [sub EXCEPT ![s] = "unref"]
        /\ running' = [running EXCEPT ![s] = @ \ {current[s]}]
        /\ UNCHANGED <<trackVars, track, busVars, sends, current, stored, endVars>>
    BY <1>2 DEF DeleteTrack
  <2>2. sub' \in [Subs -> Places] /\ sub'[s] = "unref"
        /\ running' \in [Subs -> SUBSET Nat] /\ running'[s] = running[s] \ {current[s]}
    BY <1>0, <2>1 DEF Typed, Places
  <2>3. Typed'  BY <1>0, <2>1, <2>2 DEF Typed
  <2>4. PeerInv(s)'
    <3>1. Counted(s)'  BY <1>0, <2>1, <2>2 DEF PeerInv, Counted
    <3>2. Observed(s)'  BY <2>1, <2>2 DEF Observed, Ended
    <3>3. Placed(s)'  BY <1>0, <2>1, <2>2 DEF PeerInv, Placed
    <3>4. Runs(s)'  BY <1>0, <2>1, <2>2 DEF PeerInv, Runs
    <3> QED BY <3>1, <3>2, <3>3, <3>4 DEF PeerInv
  <2> QED BY <1>0, <2>1, <2>3, <2>4, OtherPeers DEF Typed
<1>3. CASE TrackObserverUnref(s)
  <2>1. sub[s] = "unref" /\ sub' = [sub EXCEPT ![s] = "gone"] /\ observers' = observers \ {s}
        /\ UNCHANGED <<trackVars, track, spawned, blocked, senderVars, endVars>>
    BY <1>3 DEF TrackObserverUnref
  <2>2. sub' \in [Subs -> Places] /\ sub'[s] = "gone"  BY <1>0, <2>1 DEF Typed, Places
  <2>3. Typed'  BY <1>0, <2>1, <2>2 DEF Typed
  <2>4. PeerInv(s)'
    <3>1. Counted(s)'  BY <1>0, <2>1, <2>2 DEF PeerInv, Counted
    <3>2. Observed(s)'  BY <1>0, <2>1, <2>2 DEF PeerInv, Observed, Ended
    <3>3. Placed(s)' /\ Runs(s)'  BY <1>0, <2>1, <2>2 DEF PeerInv, Placed, Runs
    <3> QED BY <3>1, <3>2, <3>3 DEF PeerInv
  <2> QED BY <1>0, <2>1, <2>3, <2>4, OtherPeers DEF Typed
<1> QED BY <1>1, <1>2, <1>3

LEMMA FiltersStep == ASSUME FiltersInv, [Next]_vars PROVE FiltersInv'
<1>1. CASE UNCHANGED vars
  <2>1. Typed' /\ MediaCounted'
    BY <1>1 DEF FiltersInv, Typed, MediaCounted, vars, trackVars, busVars, senderVars, endVars
  <2> QED BY <1>1, <2>1, PublisherKeeps
         DEF vars, trackVars, busVars, senderVars, endVars, Ended
<1>2. CASE Next
  BY <1>2, PublisherStep, SetFilterStep, DispatchingStep, AttachingStep, ReceiveStep,
     ReceiveFailsStep, SwitchStep, EndingStep DEF Next, Observing, Dispatching
<1> QED BY <1>1, <1>2

(* A sequence is one over any set that holds its elements. *)
LEMMA SequenceOver ==
  ASSUME NEW S, NEW T, NEW q \in Seq(S), \A i \in 1..Len(q) : q[i] \in T
  PROVE  q \in Seq(T)
<1>1. Len(q) \in Nat /\ q = [i \in 1..Len(q) |-> q[i]]  OBVIOUS
<1> QED BY <1>1

-----------------------------------------------------------------------------
(* Every variable keeps its type: no more changes are on their way to a peer *)
(* than there were switches, and no peer makes more senders than media.     *)
THEOREM TypeCorrect == Spec => []TypeOK
<1>1. FiltersInv => TypeOK
  <2> SUFFICES ASSUME FiltersInv PROVE TypeOK  OBVIOUS
  <2>1. Typed /\ MediaCounted  BY DEF FiltersInv
  <2>2. switches \in 0..MaxSwitches /\ media \in Medias /\ media <= MaxSwitches + 1
    BY <2>1, FiltersAssumption DEF Typed, MediaCounted, Medias
  <2>3. ASSUME NEW s \in Subs
        PROVE  /\ spawned[s] \in 0..MaxSwitches /\ blocked[s] \in 0..MaxSwitches
               /\ sends[s] \in Seq(Medias) /\ running[s] \subseteq SenderIds
               /\ current[s] \in SenderIds \cup {0} /\ stored[s] \in SenderIds \cup {0}
    <3>1. /\ sends[s] \in Seq(Nat) /\ Len(sends[s]) \in Nat /\ spawned[s] \in Nat /\ blocked[s] \in Nat
          /\ media \in Nat /\ current[s] \in Nat /\ stored[s] \in Nat
      BY <2>1 DEF Typed
    <3>2. Counted(s) /\ Placed(s)  BY DEF FiltersInv
    <3>3. Len(sends[s]) + spawned[s] + blocked[s] <= MaxSwitches + 1 /\ MaxSwitches \in Nat
      BY <2>2, <3>1, <3>2, FiltersAssumption DEF Counted
    <3>4. spawned[s] \in 0..MaxSwitches /\ blocked[s] \in 0..MaxSwitches
      <4>1. CASE sub[s] \in {"no", "attach", "stored"}
        BY <4>1, <3>2, <3>3 DEF Counted
      <4>2. CASE sub[s] \notin {"no", "attach", "stored"}
        <5>1. Len(sends[s]) >= 1  BY <4>2, <3>1, <3>2 DEF Placed
        <5> QED BY <3>1, <3>3, <5>1
      <4> QED BY <4>1, <4>2
    <3>5. Len(sends[s]) <= MaxSwitches + 1  BY <3>1, <3>3
    <3>6. 1..media \subseteq Medias /\ 1..Len(sends[s]) \subseteq SenderIds
      BY <2>2, <3>1, <3>3, <3>5 DEF Medias, SenderIds
    <3>7. sends[s] \in Seq(Medias)
      <4>1. \A i \in 1..Len(sends[s]) : sends[s][i] \in Medias  BY <3>2, <3>6 DEF Counted
      <4> QED BY <3>1, <4>1, SequenceOver
    <3>8. running[s] \subseteq SenderIds  BY <3>2, <3>6 DEF Placed
    <3>9. current[s] \in SenderIds \cup {0}
      <4>1. current[s] <= Len(sends[s])
        BY <2>1, <3>1, <3>2 DEF Typed, Placed, Places
      <4> QED BY <3>1, <3>3, <3>5, <4>1 DEF SenderIds
    <3>10. stored[s] \in SenderIds \cup {0}
      BY <3>2, <3>3 DEF Placed, SenderIds
    <3> QED BY <3>4, <3>7, <3>8, <3>9, <3>10
  <2> QED BY <2>1, <2>2, <2>3 DEF TypeOK, Typed, Places
<1>2. FiltersInv /\ [Next]_vars => FiltersInv'  BY FiltersStep
<1> QED BY InitFilters, <1>1, <1>2, PTL DEF Spec

(* A peer has one running sender of the track, that of its transceiver, and  *)
(* none when the track is deleted, as long as it has switched at most once.  *)
THEOREM FirstSwitchStopsItsSender == Spec => []OneRunningSender
<1>1. FiltersInv => OneRunningSender
  <2> SUFFICES ASSUME FiltersInv, NEW s \in Subs, sub[s] \notin {"attach", "switch"}, Senders(s) <= 2
               PROVE  running[s] = IF sub[s] \in {"no", "unref", "gone"} THEN {} ELSE {current[s]}
    BY DEF OneRunningSender
  <2>1. sub[s] \in Places /\ Placed(s) /\ Runs(s)  BY DEF FiltersInv, Typed
  <2> QED BY <2>1 DEF Placed, Runs, Senders, Places
<1>2. FiltersInv /\ [Next]_vars => FiltersInv'  BY FiltersStep
<1> QED BY InitFilters, <1>1, <1>2, PTL DEF Spec

-----------------------------------------------------------------------------
(* Steps that change nothing a peer sends. *)
LEMMA FollowsSame ==
  ASSUME Typed, NEW s \in Subs, Follows(s),
         UNCHANGED <<media, sub[s], sends[s], current[s], spawned[s], blocked[s]>>,
         faults' \in {faults, faults + 1}, Ended => Ended'
  PROVE  Follows(s)'
<1>1. faults \in Nat /\ faults' \in Nat /\ (faults > 0 => faults' > 0)
  BY FiltersAssumption DEF Typed
<1> QED BY <1>1 DEF Follows, Senders

LEMMA FollowsPublisher ==
  ASSUME FiltersInv, NEW s \in Subs, Follows(s),
         SwitchFilter \/ AllocateFails \/ SetFilter \/ EndTrack \/ Unpublish
  PROVE  Follows(s)'
<1> USE DEF trackVars, busVars, senderVars, endVars
<1>0. Typed /\ Counted(s) /\ Observed(s)  BY DEF FiltersInv
<1>1. CASE SwitchFilter \/ Unpublish
  <2>1. UNCHANGED <<media, sub, sends, current, spawned, blocked, faults>> /\ (Ended => Ended')
    BY <1>1 DEF SwitchFilter, Unpublish, Ended
  <2> QED BY <1>0, <2>1, FollowsSame
<1>2. CASE AllocateFails \/ EndTrack
  <2>1. Ended' /\ UNCHANGED <<media, sub, sends, current>>
    BY <1>2 DEF AllocateFails, EndTrack, Ended
  <2> QED BY <2>1 DEF Follows
<1>3. CASE SetFilter
  <2>2. UNCHANGED sub /\ blocked' = blocked
        /\ spawned' = [t \in Subs |-> IF t \in observers THEN spawned[t] + 1 ELSE spawned[t]]
    BY <1>3 DEF SetFilter
  <2>3. sub[s] \in {"select", "sanitize"} => spawned'[s] + blocked'[s] > 0
    BY <1>0, <2>2 DEF Observed, Typed
  <2> QED BY <2>2, <2>3 DEF Follows
<1> QED BY <1>1, <1>2, <1>3

LEMMA FollowsOther ==
  ASSUME FiltersInv, NEW s \in Subs, NEW q \in Subs \ {s}, Follows(q),
         \/ Attach(s) \/ Observing(s) \/ ReceiveFails(s) \/ Dispatching(s) \/ SendsOnClosed(s)
  PROVE  Follows(q)'
<1> USE DEF trackVars, busVars, senderVars, endVars, Goto
<1>0. Typed  BY DEF FiltersInv
<1>1. UNCHANGED <<trackVars, track>> /\ faults' \in {faults, faults + 1}
  BY DEF Attach, Observing, Stores, Observes, Receive, SwitchActiveTrackMedia, Sanitized, DeleteTrack,
         TrackObserverUnref, ReceiveFails, Fault, Dispatching, Blocks, Returns, SendsOnClosed
<1>2. UNCHANGED sub[q] /\ UNCHANGED current[q]
  BY <1>0 DEF Attach, Observing, Stores, Observes, Receive, SwitchActiveTrackMedia, Sanitized, DeleteTrack,
         TrackObserverUnref, ReceiveFails, Fault, Dispatching, Blocks, Returns, SendsOnClosed, Typed
<1>3. UNCHANGED spawned[q] /\ UNCHANGED blocked[q]
  BY <1>0 DEF Attach, Observing, Stores, Observes, Receive, SwitchActiveTrackMedia, Sanitized, DeleteTrack,
         TrackObserverUnref, ReceiveFails, Fault, Dispatching, Blocks, Returns, SendsOnClosed, Typed
<1>4. UNCHANGED sends[q]
  BY <1>0 DEF Attach, Observing, Stores, Observes, Receive, SwitchActiveTrackMedia, Sanitized, DeleteTrack,
         TrackObserverUnref, ReceiveFails, Fault, Dispatching, Blocks, Returns, SendsOnClosed, Typed
<1> QED BY <1>0, <1>1, <1>2, <1>3, <1>4, FollowsSame DEF Ended

LEMMA FollowsOwn ==
  ASSUME FiltersInv, NEW s \in Subs, Follows(s),
         \/ Attach(s) \/ Observing(s) \/ ReceiveFails(s) \/ Dispatching(s) \/ SendsOnClosed(s)
  PROVE  Follows(s)'
<1> USE DEF trackVars, busVars, senderVars, endVars, Goto
<1>0. Typed /\ Counted(s) /\ Placed(s) /\ Observed(s)  BY DEF FiltersInv
<1>1. CASE Attach(s)
  <2>1. sub'[s] = "attach"
    BY <1>0, <1>1 DEF Attach, Typed
  <2> QED BY <2>1 DEF Follows
<1>2. CASE Stores(s)
  <2>1. sub'[s] = "stored"
    BY <1>0, <1>2 DEF Stores, Typed
  <2> QED BY <2>1 DEF Follows
<1>3. CASE Observes(s) \/ Sanitized(s)
  <2>1. sub[s] \in {"stored", "sanitize"} /\ sub'[s] = "select"
        /\ UNCHANGED <<media, sends, current, spawned, blocked, track, faults>>
    BY <1>0, <1>3 DEF Observes, Sanitized, Typed
  <2>2. sub[s] = "stored" => Senders(s) = 1
    BY <1>0 DEF Placed, Senders
  <2>3. UNCHANGED <<Senders(s), Ended>>
    BY <2>1 DEF Senders, Ended
  <2>4. CASE sub[s] = "stored"
    BY <2>1, <2>2, <2>3, <2>4 DEF Follows
  <2>5. CASE sub[s] = "sanitize"
    BY <2>1, <2>3, <2>5 DEF Follows
  <2> QED BY <2>1, <2>4, <2>5
<1>4. CASE Receive(s) \/ DeleteTrack(s) \/ TrackObserverUnref(s)
  <2>1. sub'[s] \in {"switch", "unref", "gone"}
    BY <1>0, <1>4 DEF Receive, DeleteTrack, TrackObserverUnref, Typed
  <2> QED BY <2>1 DEF Follows
<1>5. CASE ReceiveFails(s)
  <2>1. sub'[s] = "sanitize" /\ faults' = faults + 1 /\ faults \in Nat
    BY <1>0, <1>5, FiltersAssumption DEF ReceiveFails, Fault, Typed
  <2>2. faults' > 0  BY <2>1
  <2> QED BY <2>1, <2>2 DEF Follows
<1>6. CASE SwitchActiveTrackMedia(s)
  <2>1. /\ sub[s] = "switch" /\ sub'[s] = "sanitize" /\ current'[s] = Len(sends[s]) /\ media' = media
        /\ sends'[s] = [sends[s] EXCEPT ![Len(sends[s])] = media]
    BY <1>0, <1>6 DEF SwitchActiveTrackMedia, Senders, Typed
  <2>2. sends[s] \in Seq(Nat) /\ Len(sends[s]) \in Nat /\ current[s] \in Nat  BY <1>0 DEF Typed
  <2>3. Len(sends[s]) >= 1  BY <1>0, <2>1, <2>2 DEF Placed
  <2>4. sends'[s][current'[s]] = media  BY <2>1, <2>2, <2>3
  <2> QED BY <2>1, <2>4 DEF Follows
<1>7. CASE Blocks(s)
  <2>1. spawned[s] > 0 /\ spawned' = [spawned EXCEPT ![s] = spawned[s] - 1]
        /\ blocked' = [blocked EXCEPT ![s] = blocked[s] + 1]
        /\ UNCHANGED <<media, sub, sends, current, track, faults>>
    BY <1>7 DEF Blocks
  <2>2. spawned'[s] + blocked'[s] = spawned[s] + blocked[s]
    BY <1>0, <2>1 DEF Typed
  <2> QED BY <2>1, <2>2 DEF Follows, Ended, Senders
<1>8. CASE Returns(s) \/ SendsOnClosed(s)
  <2>1. Ended' /\ UNCHANGED <<media, sub, sends, current>>
    BY <1>8 DEF Returns, SendsOnClosed, Ended
  <2> QED BY <2>1 DEF Follows
<1> QED BY <1>1, <1>2, <1>3, <1>4, <1>5, <1>6, <1>7, <1>8 DEF Observing, Dispatching

(* A peer that was told of a switch and has received every change sends the  *)
(* local track of the filter that is set, whatever reads of GetLocalTrack,    *)
(* dispatches and switches overlap, one before it observed included.          *)
THEOREM LastFilterIsSent == Spec => []CurrentMediaIsSent
<1> DEFINE AllFollow == \A s \in Subs : Follows(s)
<1>1. FiltersInv /\ AllFollow => CurrentMediaIsSent
  <2> SUFFICES ASSUME FiltersInv, NEW s \in Subs, Follows(s),
                      sub[s] = "select", spawned[s] = 0, blocked[s] = 0, Senders(s) >= 2,
                      ~Ended, faults = 0
               PROVE  sends[s][current[s]] = media
    BY DEF CurrentMediaIsSent
  <2> QED BY DEF Follows
<1>2. FiltersInv /\ AllFollow /\ [Next]_vars => FiltersInv' /\ AllFollow'
  <2> SUFFICES ASSUME FiltersInv, AllFollow, [Next]_vars, NEW q \in Subs PROVE Follows(q)'
    BY FiltersStep
  <2>1. CASE UNCHANGED vars
    BY <2>1, FollowsSame DEF FiltersInv, vars, trackVars, busVars, senderVars, endVars, Ended
  <2>2. CASE SwitchFilter \/ AllocateFails \/ SetFilter \/ EndTrack \/ Unpublish
    BY <2>2, FollowsPublisher
  <2>3. ASSUME NEW s \in Subs,
               Attach(s) \/ Observing(s) \/ ReceiveFails(s) \/ Dispatching(s) \/ SendsOnClosed(s)
        PROVE  Follows(q)'
    BY <2>3, FollowsOther, FollowsOwn
  <2> QED BY <2>1, <2>2, <2>3 DEF Next
<1> QED BY InitFilters, <1>1, <1>2, PTL DEF Spec
=============================================================================
