---------------------------- MODULE Negotiation ----------------------------
(***************************************************************************)
(* The offer/answer exchange of ONE peer of the SFU:                        *)
(*   - Signal.DispatchOffer (pkg/sfu/signal.go), the retry loop that every  *)
(*     goroutine wanting a renegotiation runs under signalMu;               *)
(*   - PeerContext.Offer and SessionDesc.SetPendingDesc / Submit            *)
(*     (pkg/sfu/peercontext.go), the "pending offer" protected by a         *)
(*     sessionMu that is taken by the offer's producer, released by the     *)
(*     client's commit, and thrown away when a one second deadline passes;  *)
(*   - the websocket read loop of RoomControllerRoomJoin, and the browser's *)
(*     offer handler (client/src/App.tsx), joined by two FIFO channels.     *)
(*                                                                          *)
(* The n-th offer pion creates is the number n; its SHA-256 is n as well    *)
(* (pion raises the session version of every offer, so no two offers have   *)
(* one hash).  0 is the nil description and the EmptyOfferHash.             *)
(***************************************************************************)
EXTENDS Naturals, Sequences

CONSTANTS
  Dispatchers,   \* server goroutines that call DispatchOffer (sanitizers, tickers)
  ReadLoop,      \* the goroutine that reads the peer's websocket
  Retry,         \* the goroutines DispatchOffer spawns when it gives up
  NoOne,         \* signalMu is free
  MaxAttempts,   \* attempts of one DispatchOffer (25 in the code)
  MaxCalls,      \* bound: calls of the Dispatchers
  MaxFaults      \* bound: failures of pion, of the websocket, of the browser

Callers == Dispatchers \cup {ReadLoop, Retry}

ASSUME NegotiationAssumption ==
  /\ ReadLoop # Retry
  /\ {ReadLoop, Retry} \cap Dispatchers = {}
  /\ NoOne \notin Callers
  /\ MaxAttempts \in Nat
  /\ MaxCalls \in Nat
  /\ MaxFaults \in Nat

VARIABLES
  holder,          \* who holds signalMu
  waiting,         \* who is blocked in signalMu.Lock
  retries,         \* retry goroutines still in their 100ms sleep
  pc,              \* where the holder is in DispatchOffer / Offer / SetPendingDesc
  attempt,         \* the holder's loop counter
  made,            \* offers created so far
  draft,           \* the offer handed to SetPendingDesc
  msg,             \* what Offer returns: the sdp and the hash state
  sessionMu,       \* SessionDesc.sessionMu: locked or unlocked
  sessionMuLocked, \* the flag of that name: set by the first lock, never reset
  deadline,        \* the context of the pending offer: none, armed or expired
  pendingHash, pending, negotiatedHash, negotiated,
  signaling,       \* pion's signaling state
  local,           \* the offer last set as local description
  answered,        \* the offer whose answer pion last accepted
  toClient,        \* offers on the websocket
  toServer,        \* subscribe, answers and commits on the websocket
  reader,          \* where the read loop is
  commit,          \* the hash the read loop is submitting
  close,           \* open, cancelled (ctx done), closed (pion closed too)
  panicked,        \* the Go runtime aborted the process
  calls, faults

lockVars    == <<sessionMu, sessionMuLocked, deadline>>
pendingVars == <<pendingHash, pending>>
doneVars    == <<negotiatedHash, negotiated>>
pionVars    == <<signaling, local, answered>>
wsVars      == <<toClient, toServer>>
readVars    == <<reader, commit>>
mutexVars   == <<holder, waiting, retries>>
workVars    == <<pc, attempt, made, draft, msg>>
boundVars   == <<calls, faults>>
vars == <<lockVars, pendingVars, doneVars, pionVars, wsVars, readVars,
          mutexVars, workVars, boundVars, close, panicked>>

Nil == 0
NoMsg == [sdp |-> Nil, hash |-> Nil]

SubmitSteps == {"cas", "swap", "unlock"}
PendingSteps == {"try", "loop", "reset", "retry", "stamp", "hash", "pend"}

ClientMessages == [type : {"answer", "commit"}, offer : Nat]
                    \cup [type : {"subscribe"}, offer : {Nil}]

(* Whatever is unset is told from an offer: SetPendingDesc always has an     *)
(* offer to store, and no nil description is ever sent (Offer dereferences  *)
(* the pending one after a test).                                           *)
TypeOK ==
  /\ holder \in Callers \cup {NoOne}
  /\ waiting \in SUBSET Callers
  /\ retries \in Nat
  /\ pc \in {"idle", "offer", "local", "fallback", "load", "write"} \cup PendingSteps
  /\ attempt \in Nat
  /\ made \in Nat
  /\ draft \in Nat
  /\ pc \in PendingSteps \cup {"local"} => draft # Nil
  /\ msg \in [sdp : Nat, hash : Nat]
  /\ pc \in {"load", "write"} => msg.sdp # Nil
  /\ sessionMu \in {"locked", "unlocked"}
  /\ sessionMuLocked \in BOOLEAN
  /\ deadline \in {"none", "armed", "expired"}
  /\ pendingHash \in Nat
  /\ pending \in Nat
  /\ negotiatedHash \in Nat
  /\ negotiated \in Nat
  /\ signaling \in {"stable", "have-local-offer"}
  /\ local \in Nat
  /\ answered \in Nat
  /\ toClient \in Seq([sdp : Nat \ {Nil}, hash : Nat])
  /\ toServer \in Seq(ClientMessages)
  /\ reader \in {"read", "dispatching", "exit", "done"} \cup SubmitSteps
  /\ commit \in Nat
  /\ close \in {"open", "cancelled", "closed"}
  /\ panicked \in BOOLEAN
  /\ calls \in 0..MaxCalls
  /\ faults \in 0..MaxFaults

(* NewPeerContext; the browser's signal.subscribe() is already on its way. *)
Init ==
  /\ holder = NoOne /\ waiting = {} /\ retries = 0
  /\ pc = "idle" /\ attempt = 0 /\ made = 0 /\ draft = Nil /\ msg = NoMsg
  /\ sessionMu = "unlocked" /\ sessionMuLocked = FALSE /\ deadline = "none"
  /\ pendingHash = Nil /\ pending = Nil
  /\ negotiatedHash = Nil /\ negotiated = Nil
  /\ signaling = "stable" /\ local = Nil /\ answered = Nil
  /\ toClient = <<>>
  /\ toServer = <<[type |-> "subscribe", offer |-> Nil]>>
  /\ reader = "read" /\ commit = Nil
  /\ close = "open" /\ panicked = FALSE
  /\ calls = 0 /\ faults = 0

(* A failure outside this code: from the budget, or free once pion is closed. *)
Fault ==
  \/ faults < MaxFaults /\ faults' = faults + 1 /\ UNCHANGED calls
  \/ close = "closed" /\ UNCHANGED boundVars

-----------------------------------------------------------------------------
(* DispatchOffer: the mutex and the way out *)

Call(d) ==
  /\ d \in Dispatchers /\ d \notin waiting /\ d # holder
  /\ calls < MaxCalls
  /\ calls' = calls + 1
  /\ waiting' = waiting \cup {d}
  /\ UNCHANGED <<holder, retries, workVars, lockVars, pendingVars, doneVars,
                 pionVars, wsVars, readVars, close, panicked, faults>>

(* go func() { sleep(); s.DispatchOffer() }() *)
RetryWakes ==
  /\ retries > 0 /\ Retry \notin waiting /\ holder # Retry
  /\ retries' = retries - 1
  /\ waiting' = waiting \cup {Retry}
  /\ UNCHANGED <<holder, workVars, lockVars, pendingVars, doneVars, pionVars,
                 wsVars, readVars, close, panicked, boundVars>>

Acquire(c) ==
  /\ holder = NoOne /\ c \in waiting
  /\ holder' = c
  /\ waiting' = waiting \ {c}
  /\ pc' = "offer" /\ attempt' = 0
  /\ UNCHANGED <<retries, made, draft, msg, lockVars, pendingVars, doneVars,
                 pionVars, wsVars, readVars, close, panicked, boundVars>>

(* DispatchOffer returns, its local variables with it; the read loop leaves   *)
(* on an error and else reads on.                                            *)
Return(ok) ==
  /\ holder' = NoOne /\ pc' = "idle"
  /\ attempt' = 0 /\ draft' = Nil /\ msg' = NoMsg
  /\ reader' = IF holder # ReadLoop THEN reader ELSE IF ok THEN "read" ELSE "exit"
  /\ UNCHANGED <<waiting, commit>>

NextAttempt == /\ attempt' = attempt + 1 /\ pc' = "offer"
               /\ draft' = Nil /\ msg' = NoMsg

(* The attempt bound is looked at only after Offer, whatever Offer returned. *)
AfterOffer(outcome) ==
  \/ /\ attempt >= MaxAttempts
     /\ retries' = retries + 1
     /\ Return(FALSE)
  \/ /\ attempt < MaxAttempts /\ outcome = "closed"
     /\ Return(FALSE) /\ UNCHANGED retries
  \/ /\ attempt < MaxAttempts /\ outcome = "error"
     /\ NextAttempt
     /\ UNCHANGED <<mutexVars, readVars>>
  \/ /\ attempt < MaxAttempts /\ outcome = "ok"
     /\ pc' = "write" /\ msg' = [sdp |-> msg.sdp, hash |-> pendingHash]
     /\ UNCHANGED <<attempt, draft, mutexVars, readVars>>

WriteOffer ==
  /\ pc = "write"
  /\ toClient' = Append(toClient, msg)
  /\ Return(TRUE)
  /\ UNCHANGED <<retries, made, lockVars, pendingVars, doneVars,
                 pionVars, toServer, close, panicked, boundVars>>

(* websocket.ErrCloseSent *)
WriteCloseSent ==
  /\ pc = "write" /\ close # "open"
  /\ Return(FALSE)
  /\ UNCHANGED <<retries, made, lockVars, pendingVars, doneVars,
                 pionVars, wsVars, close, panicked, boundVars>>

WriteFails ==
  /\ pc = "write" /\ Fault
  /\ NextAttempt
  /\ UNCHANGED <<mutexVars, made, lockVars, pendingVars, doneVars,
                 pionVars, wsVars, readVars, close, panicked>>

-----------------------------------------------------------------------------
(* PeerContext.Offer *)

CreateOffer ==
  /\ pc = "offer" /\ close # "closed"
  /\ made' = made + 1 /\ draft' = made + 1
  /\ pc' = "try"
  /\ UNCHANGED <<mutexVars, attempt, msg, lockVars, pendingVars, doneVars,
                 pionVars, wsVars, readVars, close, panicked, boundVars>>

OfferFindsClosed ==
  /\ pc = "offer" /\ close = "closed"
  /\ AfterOffer("closed")
  /\ UNCHANGED <<made, lockVars, pendingVars, doneVars, pionVars,
                 wsVars, close, panicked, boundVars>>

CreateOfferFails ==
  /\ pc = "offer" /\ close # "closed" /\ Fault
  /\ AfterOffer("error")
  /\ UNCHANGED <<made, lockVars, pendingVars, doneVars, pionVars,
                 wsVars, close, panicked>>

(* SetLocalDescription takes an offer in the stable state only. *)
SetLocalDescription ==
  /\ pc = "local" /\ close # "closed" /\ signaling = "stable"
  /\ signaling' = "have-local-offer" /\ local' = draft
  /\ msg' = [sdp |-> draft, hash |-> msg.hash]
  /\ pc' = "load"
  /\ UNCHANGED <<mutexVars, attempt, made, draft, answered, lockVars, pendingVars,
                 doneVars, wsVars, readVars, close, panicked, boundVars>>

(* InvalidModificationError: an earlier local offer is still unanswered. *)
LocalOfferRefused ==
  /\ pc = "local" /\ close # "closed" /\ signaling = "have-local-offer"
  /\ pc' = "fallback"
  /\ UNCHANGED <<mutexVars, attempt, made, draft, msg, lockVars, pendingVars,
                 doneVars, pionVars, wsVars, readVars, close, panicked, boundVars>>

SetLocalFails ==
  /\ pc = "local" /\ Fault
  /\ AfterOffer("error")
  /\ UNCHANGED <<made, lockVars, pendingVars, doneVars, pionVars,
                 wsVars, close, panicked>>

(* Mutant: the pending description is dereferenced without a test. *)
UsePendingUnchecked ==
  /\ pc = "fallback"
  /\ msg' = [sdp |-> pending, hash |-> msg.hash]
  /\ pc' = "load"
  /\ UNCHANGED <<mutexVars, attempt, made, draft, lockVars, pendingVars, doneVars,
                 pionVars, wsVars, readVars, close, panicked, boundVars>>

(* offerSdp = *GetPending(): the newest pending offer, not the local one *)
UsePending ==
  /\ pc = "fallback" /\ pending # Nil
  /\ msg' = [sdp |-> pending, hash |-> msg.hash]
  /\ pc' = "load"
  /\ UNCHANGED <<mutexVars, attempt, made, draft, lockVars, pendingVars, doneVars,
                 pionVars, wsVars, readVars, close, panicked, boundVars>>

NoPending ==
  /\ pc = "fallback" /\ pending = Nil
  /\ AfterOffer("error")
  /\ UNCHANGED <<made, lockVars, pendingVars, doneVars, pionVars,
                 wsVars, close, panicked, boundVars>>

LoadHash ==
  /\ pc = "load"
  /\ AfterOffer("ok")
  /\ UNCHANGED <<made, lockVars, pendingVars, doneVars, pionVars, wsVars,
                 close, panicked, boundVars>>

-----------------------------------------------------------------------------
(* SessionDesc.SetPendingDesc *)

(* From the decision to drop or take sessionMu to the last store under it. *)
Stealing == \/ pc \in {"reset", "stamp", "hash", "pend"}
            \/ pc = "retry" /\ sessionMu = "unlocked"

SetPendingStep(from, to) == pc = from /\ pc' = to

TryLock ==
  /\ SetPendingStep("try", IF sessionMu = "locked" THEN "loop" ELSE "stamp")
  /\ sessionMu' = "locked"
  /\ UNCHANGED <<mutexVars, attempt, made, draft, msg, sessionMuLocked, deadline,
                 pendingVars, doneVars, pionVars, wsVars, readVars, close,
                 panicked, boundVars>>

(* The deadline context is a child of the peer's context. *)
DeadlineDone == deadline = "expired" \/ (deadline = "armed" /\ close # "open")

(* Mutant: the deadline is never looked at. *)
CheckNoDeadline ==
  /\ SetPendingStep("loop", "retry")
  /\ UNCHANGED <<mutexVars, attempt, made, draft, msg, lockVars, pendingVars,
                 doneVars, pionVars, wsVars, readVars, close, panicked, boundVars>>

CheckDeadline ==
  /\ SetPendingStep("loop", IF DeadlineDone THEN "reset" ELSE "retry")
  /\ UNCHANGED <<mutexVars, attempt, made, draft, msg, lockVars, pendingVars,
                 doneVars, pionVars, wsVars, readVars, close, panicked, boundVars>>

(* s.sessionMu = sync.Mutex{} *)
ResetMutex ==
  /\ SetPendingStep("reset", "retry")
  /\ sessionMu' = "unlocked"
  /\ UNCHANGED <<mutexVars, attempt, made, draft, msg, sessionMuLocked, deadline,
                 pendingVars, doneVars, pionVars, wsVars, readVars, close,
                 panicked, boundVars>>

(* The loop gives up with the peer, else tries again every 200ms. *)
RetryLock ==
  /\ close = "open"
  /\ SetPendingStep("retry", IF sessionMu = "locked" THEN "loop" ELSE "stamp")
  /\ sessionMu' = "locked"
  /\ UNCHANGED <<mutexVars, attempt, made, draft, msg, sessionMuLocked, deadline,
                 pendingVars, doneVars, pionVars, wsVars, readVars, close,
                 panicked, boundVars>>

RetryFindsClosed ==
  /\ pc = "retry" /\ close # "open"
  /\ AfterOffer("closed")
  /\ UNCHANGED <<made, lockVars, pendingVars, doneVars, pionVars,
                 wsVars, close, panicked, boundVars>>

(* Mutant: StoreDeadlineContext is forgotten. *)
ArmNoDeadline ==
  /\ SetPendingStep("stamp", "hash")
  /\ sessionMuLocked' = TRUE
  /\ UNCHANGED <<mutexVars, attempt, made, draft, msg, sessionMu, deadline,
                 pendingVars, doneVars, pionVars, wsVars, readVars, close,
                 panicked, boundVars>>

(* Mutant: the mutex is never marked as locked. *)
ArmUnmarked ==
  /\ SetPendingStep("stamp", "hash")
  /\ deadline' = "armed"
  /\ UNCHANGED <<mutexVars, attempt, made, draft, msg, sessionMu, sessionMuLocked,
                 pendingVars, doneVars, pionVars, wsVars, readVars, close, panicked,
                 boundVars>>

ArmDeadline ==
  /\ SetPendingStep("stamp", "hash")
  /\ sessionMuLocked' = TRUE /\ deadline' = "armed"
  /\ UNCHANGED <<mutexVars, attempt, made, draft, msg, sessionMu, pendingVars,
                 doneVars, pionVars, wsVars, readVars, close, panicked, boundVars>>

StoreHash ==
  /\ SetPendingStep("hash", "pend")
  /\ pendingHash' = draft
  /\ UNCHANGED <<mutexVars, attempt, made, draft, msg, lockVars, pending, doneVars,
                 pionVars, wsVars, readVars, close, panicked, boundVars>>

StorePending ==
  /\ SetPendingStep("pend", "local")
  /\ pending' = draft
  /\ UNCHANGED <<mutexVars, attempt, made, draft, msg, lockVars, pendingHash,
                 doneVars, pionVars, wsVars, readVars, close, panicked, boundVars>>

(* One second after ArmDeadline. *)
Expire ==
  /\ deadline = "armed"
  /\ deadline' = "expired"
  /\ UNCHANGED <<mutexVars, workVars, sessionMu, sessionMuLocked, pendingVars,
                 doneVars, pionVars, wsVars, readVars, close, panicked, boundVars>>

-----------------------------------------------------------------------------
(* The websocket read loop, and SessionDesc.Submit which it runs *)

Received(type) ==
  /\ reader = "read" /\ toServer # <<>>
  /\ close = "open"
  /\ Head(toServer).type = type
  /\ toServer' = Tail(toServer)

ReadSubscribe ==
  /\ Received("subscribe")
  /\ reader' = "dispatching"
  /\ waiting' = waiting \cup {ReadLoop}
  /\ UNCHANGED <<holder, retries, workVars, lockVars, pendingVars, doneVars,
                 pionVars, toClient, commit, close, panicked, boundVars>>

(* Mutant: the error of OnAnswer is only logged, as that of the commit is. *)
ReadAnswerLogsError ==
  /\ Received("answer")
  /\ \/ signaling # "have-local-offer" /\ UNCHANGED boundVars
     \/ Fault
  /\ UNCHANGED <<mutexVars, workVars, lockVars, pendingVars, doneVars, pionVars,
                 toClient, readVars, close, panicked>>

(* SetRemoteDescription takes the answer ... *)
ReadAnswer ==
  /\ Received("answer")
  /\ signaling = "have-local-offer"
  /\ signaling' = "stable" /\ answered' = Head(toServer).offer
  /\ UNCHANGED <<mutexVars, workVars, lockVars, pendingVars, doneVars, toClient,
                 local, readVars, close, panicked, boundVars>>

(* ... or fails: an answer nobody waits for, one pion cannot apply, or a      *)
(* closed connection.  Its error ends the read loop.                         *)
ReadAnswerFails ==
  /\ Received("answer")
  /\ \/ signaling # "have-local-offer" /\ UNCHANGED boundVars
     \/ Fault
  /\ reader' = "exit"
  /\ UNCHANGED <<mutexVars, workVars, lockVars, pendingVars, doneVars, pionVars,
                 toClient, commit, close, panicked>>

(* Submit up to its tests of the pending description and of the hash; their   *)
(* errors are only logged.                                                   *)
ReadCommit ==
  /\ Received("commit")
  /\ IF pending = Nil \/ Head(toServer).offer = Nil
     THEN UNCHANGED readVars
     ELSE reader' = "cas" /\ commit' = Head(toServer).offer
  /\ UNCHANGED <<mutexVars, workVars, lockVars, pendingVars, doneVars, pionVars,
                 toClient, close, panicked, boundVars>>

(* Mutant: a store in the place of the compare-and-swap. *)
SubmitStores ==
  /\ reader = "cas"
  /\ pendingHash' = Nil /\ negotiatedHash' = commit
  /\ reader' = "swap" /\ commit' = Nil
  /\ UNCHANGED <<mutexVars, workVars, lockVars, pending, negotiated, pionVars,
                 wsVars, close, panicked, boundVars>>

(* Mutant: the hash is compared but not cleared. *)
SubmitComparesOnly ==
  /\ reader = "cas"
  /\ \/ /\ pendingHash = commit
        /\ negotiatedHash' = commit
        /\ reader' = "swap"
     \/ /\ pendingHash # commit
        /\ reader' = "read"
        /\ UNCHANGED negotiatedHash
  /\ commit' = Nil
  /\ UNCHANGED <<mutexVars, workVars, lockVars, pendingVars, negotiated, pionVars,
                 wsVars, close, panicked, boundVars>>

(* CompareAndSwap(offerHash, ""), and the store of negotiatedHash *)
SubmitCAS ==
  /\ reader = "cas"
  /\ \/ /\ pendingHash = commit
        /\ pendingHash' = Nil /\ negotiatedHash' = commit
        /\ reader' = "swap"
     \/ /\ pendingHash # commit
        /\ reader' = "read"
        /\ UNCHANGED <<pendingHash, negotiatedHash>>
  /\ commit' = Nil
  /\ UNCHANGED <<mutexVars, workVars, lockVars, pending, negotiated, pionVars,
                 wsVars, close, panicked, boundVars>>

(* Mutant: the description taken out of pending is dropped. *)
SubmitDropsPending ==
  /\ reader = "swap"
  /\ pending' = Nil
  /\ reader' = "unlock"
  /\ UNCHANGED <<mutexVars, workVars, lockVars, pendingHash, doneVars, pionVars,
                 wsVars, commit, close, panicked, boundVars>>

SubmitSwap ==
  /\ reader = "swap"
  /\ negotiated' = pending /\ pending' = Nil
  /\ reader' = "unlock"
  /\ UNCHANGED <<mutexVars, workVars, lockVars, pendingHash, negotiatedHash,
                 pionVars, wsVars, commit, close, panicked, boundVars>>

(* sync.Mutex.Unlock aborts the process when the mutex is not locked. *)
SubmitUnlock ==
  /\ reader = "unlock"
  /\ reader' = "read"
  /\ \/ sessionMuLocked /\ sessionMu = "locked" /\ sessionMu' = "unlocked" 
        /\ UNCHANGED panicked
     \/ sessionMuLocked /\ sessionMu = "unlocked" /\ panicked' = TRUE
        /\ UNCHANGED sessionMu
     \/ ~sessionMuLocked /\ UNCHANGED <<sessionMu, panicked>>
  /\ UNCHANGED <<mutexVars, workVars, sessionMuLocked, deadline, pendingVars,
                 doneVars, pionVars, wsVars, commit, close, boundVars>>

(* The message read after the peer's context is done is dropped. *)
ReadAfterClose ==
  /\ reader = "read" /\ toServer # <<>> /\ close # "open"
  /\ toServer' = Tail(toServer)
  /\ reader' = "exit"
  /\ UNCHANGED <<mutexVars, workVars, lockVars, pendingVars, doneVars, pionVars,
                 toClient, commit, close, panicked, boundVars>>

(* ReadJSON fails: the browser has closed the websocket. *)
ClientLeaves ==
  /\ reader = "read" /\ toServer = <<>>
  /\ reader' = "exit"
  /\ UNCHANGED <<mutexVars, workVars, lockVars, pendingVars, doneVars, pionVars,
                 wsVars, commit, close, panicked, boundVars>>

-----------------------------------------------------------------------------
(* PeerContext.Close: first the context is cancelled, then pion is closed. *)

Cancel ==
  close' = IF close = "open" THEN "cancelled" ELSE close

ReadLoopExits ==
  /\ reader = "exit"
  /\ reader' = "done" /\ Cancel
  /\ UNCHANGED <<mutexVars, workVars, lockVars, pendingVars, doneVars, pionVars,
                 wsVars, commit, panicked, boundVars>>

(* The connection-state handler on Failed or Closed. *)
ConnectionFails ==
  /\ close = "open" /\ Cancel
  /\ UNCHANGED <<mutexVars, workVars, lockVars, pendingVars, doneVars, pionVars,
                 wsVars, readVars, panicked, boundVars>>

ConnectionCloses ==
  /\ close = "cancelled" /\ close' = "closed"
  /\ UNCHANGED <<mutexVars, workVars, lockVars, pendingVars, doneVars, pionVars,
                 wsVars, readVars, panicked, boundVars>>

-----------------------------------------------------------------------------
(* The browser: SignalEvent.Offer handler.  createAnswer resolves in the    *)
(* order of the offers, and the answer and the commit leave in one task.    *)

ClientAnswers ==
  /\ toClient # <<>>
  /\ toServer' = Append(Append(toServer,
                   [type |-> "answer", offer |-> Head(toClient).sdp]),
                   [type |-> "commit", offer |-> Head(toClient).hash])
  /\ toClient' = Tail(toClient)
  /\ UNCHANGED <<mutexVars, workVars, lockVars, pendingVars, doneVars, pionVars,
                 readVars, close, panicked, boundVars>>

(* The handler throws: no answer and no commit for this offer. *)
ClientThrows ==
  /\ toClient # <<>> /\ faults < MaxFaults
  /\ faults' = faults + 1
  /\ toClient' = Tail(toClient)
  /\ UNCHANGED <<mutexVars, workVars, lockVars, pendingVars, doneVars, pionVars,
                 toServer, readVars, close, panicked, calls>>

-----------------------------------------------------------------------------
Dispatching ==
  \/ WriteOffer \/ WriteCloseSent \/ WriteFails
  \/ CreateOffer \/ OfferFindsClosed \/ CreateOfferFails
  \/ SetLocalDescription \/ LocalOfferRefused \/ SetLocalFails
  \/ UsePending \/ NoPending \/ LoadHash
  \/ TryLock \/ CheckDeadline \/ ResetMutex \/ RetryLock \/ RetryFindsClosed
  \/ ArmDeadline \/ StoreHash \/ StorePending

Reading ==
  \/ ReadSubscribe \/ ReadAnswer \/ ReadAnswerFails \/ ReadCommit \/ ReadAfterClose
  \/ SubmitCAS \/ SubmitSwap \/ SubmitUnlock \/ ReadLoopExits

Next ==
  /\ ~panicked
  /\ \/ \E d \in Dispatchers : Call(d)
     \/ \E c \in Callers : Acquire(c)
     \/ RetryWakes
     \/ Dispatching
     \/ Reading
     \/ Expire
     \/ ClientLeaves
     \/ ConnectionFails \/ ConnectionCloses
     \/ ClientAnswers \/ ClientThrows

Spec == Init /\ [][Next]_vars

(* Every goroutine that can run does run, a waiter on signalMu gets it in   *)
(* turn (Go hands a contended mutex over after 1ms), the timer fires, the   *)
(* pool's ticker sanitizes every peer again (every ten seconds), and the    *)
(* browser handles the offers it received.  Nothing else is fair.           *)
Fairness ==
  /\ WF_vars(~panicked /\ \E d \in Dispatchers : Call(d))
  /\ WF_vars(~panicked /\ Dispatching)
  /\ WF_vars(~panicked /\ Reading)
  /\ WF_vars(~panicked /\ RetryWakes)
  /\ WF_vars(~panicked /\ Expire)
  /\ WF_vars(~panicked /\ ConnectionCloses)
  /\ WF_vars(~panicked /\ ClientAnswers)
  /\ \A c \in Callers : SF_vars(~panicked /\ Acquire(c))

FairSpec == Spec /\ Fairness

-----------------------------------------------------------------------------
(* Safety *)

(* PeerContext.Offer reads the description and the hash it sends from two    *)
(* atomics at two times, with Submit free to change either in between: every *)
(* offer that reaches the browser still carries the hash of its own SDP.     *)
OfferCarriesOwnHash ==
  \A i \in 1..Len(toClient) : toClient[i].sdp = toClient[i].hash

(* The hash the server takes as negotiated is that of the offer whose answer *)
(* pion accepted last: a commit whose answer was refused never gets through. *)
CommittedWasAnswered ==
  [][negotiatedHash' # negotiatedHash => answered = negotiatedHash']_vars

(* What Submit promises about the pending offer, for every interleaving of   *)
(* its three atomics with SetPendingDesc: see OfferLog.                      *)
Log == INSTANCE OfferLog WITH last <- made, open <- pendingHash,
                              committed <- negotiatedHash
LogSpec == Log!Spec

(* The process is not aborted by Submit's Unlock of a mutex that             *)
(* SetPendingDesc has just replaced by a new, unlocked one.                  *)
NoPanic == ~panicked

(* Once its offer is committed the exchange is free again: with no hash left *)
(* to commit, and neither a SetPendingDesc nor a Submit under way, sessionMu *)
(* is unlocked and the next offer need not wait for a deadline.              *)
ClosedOfferIsUnlocked ==
  pendingHash = Nil /\ ~Stealing /\ reader \notin {"swap", "unlock"} /\ ~panicked
  => sessionMu = "unlocked"

(* Submit swaps out whatever description is pending, which a SetPendingDesc  *)
(* may have replaced since the hash was compared: the description taken as   *)
(* negotiated is never nil, nor of an offer older than the committed hash.   *)
NegotiatedNotOlder ==
  reader # "swap" => negotiated >= negotiatedHash

-----------------------------------------------------------------------------
(* Liveness *)

(* Every call of DispatchOffer returns, although its loop waits for a commit *)
(* only another goroutine can bring.                                         *)
DispatchReturns ==
  \A c \in Callers :
    c \in waiting ~> panicked \/ (c \notin waiting /\ holder # c)

(* No offer stays open for ever: whatever fails on its way, be it the write, *)
(* the browser or a commit that finds nothing pending, the next sanitizer's  *)
(* DispatchOffer gets past its mutex and replaces it, if it is not committed *)
(* before or the peer gone.                                                  *)
OfferIsRenewed ==
  \A n \in 1..(MaxCalls + 1) * (MaxAttempts + 1) :
    pendingHash = n /\ calls < MaxCalls
      ~> pendingHash # n \/ close # "open" \/ panicked

=============================================================================
