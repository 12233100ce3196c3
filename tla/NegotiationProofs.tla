-------------------------- MODULE NegotiationProofs --------------------------
(***************************************************************************)
(* What Negotiation guarantees for any number of goroutines, attempts,      *)
(* calls and failures.                                                      *)
(***************************************************************************)
EXTENDS Negotiation, TLAPS

-----------------------------------------------------------------------------
(* What travels on the websocket, and that every step keeps every variable   *)
(* in its set.                                                               *)
LEMMA ToClientType ==
  ASSUME TypeOK, NEW j \in 1..Len(toClient)
  PROVE  toClient[j].sdp \in Nat /\ toClient[j].hash \in Nat
<1> DEFINE Offers == [sdp : Nat \ {Nil}, hash : Nat]
<1>1. toClient \in Seq(Offers)
  BY DEF TypeOK
<1>2. toClient[j] \in Offers
  <2> HIDE DEF Offers
  <2> QED BY <1>1
<1>3. QED
  BY <1>2

LEMMA ToServerType ==
  ASSUME TypeOK, NEW j \in 1..Len(toServer)
  PROVE  toServer[j].offer \in Nat
<1>1. toServer[j] \in ClientMessages
  BY DEF TypeOK
<1>2. QED
  BY <1>1 DEF ClientMessages, Nil

LEMMA TypeStep ==
  TypeOK /\ [Next]_vars => TypeOK'
<1> SUFFICES ASSUME TypeOK, [Next]_vars
             PROVE  TypeOK'
  OBVIOUS
<1> USE NegotiationAssumption
       DEF TypeOK, Callers, Nil, NoMsg, SubmitSteps, PendingSteps, ClientMessages,
           lockVars, pendingVars, doneVars, pionVars,
           wsVars, readVars, mutexVars, workVars, boundVars
<1>1. ASSUME NEW c \in Dispatchers, Call(c)
      PROVE  TypeOK'
  BY <1>1 DEF Call
<1>2. ASSUME NEW c \in Callers, Acquire(c)
      PROVE  TypeOK'
  BY <1>2 DEF Acquire
<1>3. CASE WriteOffer
  BY <1>3 DEF WriteOffer, Return
<1>4. CASE WriteCloseSent
  BY <1>4 DEF WriteCloseSent, Return
<1>5. CASE WriteFails
  BY <1>5 DEF WriteFails, NextAttempt, Fault
<1>6. CASE CreateOffer
  BY <1>6 DEF CreateOffer
<1>7. CASE OfferFindsClosed
  BY <1>7 DEF OfferFindsClosed, AfterOffer, Return, NextAttempt
<1>8. CASE CreateOfferFails
  <2>1. CASE attempt >= MaxAttempts
    BY <1>8, <2>1 DEF CreateOfferFails, AfterOffer, Return, NextAttempt, Fault
  <2>2. CASE attempt < MaxAttempts
    BY <1>8, <2>2 DEF CreateOfferFails, AfterOffer, Return, NextAttempt, Fault
  <2> QED
    BY <2>1, <2>2
<1>9. CASE SetLocalDescription
  BY <1>9 DEF SetLocalDescription
<1>10. CASE LocalOfferRefused
  BY <1>10 DEF LocalOfferRefused
<1>11. CASE SetLocalFails
  <2>1. CASE attempt >= MaxAttempts
    BY <1>11, <2>1 DEF SetLocalFails, AfterOffer, Return, NextAttempt, Fault
  <2>2. CASE attempt < MaxAttempts
    BY <1>11, <2>2 DEF SetLocalFails, AfterOffer, Return, NextAttempt, Fault
  <2> QED
    BY <2>1, <2>2
<1>12. CASE UsePending
  BY <1>12 DEF UsePending
<1>13. CASE NoPending
  BY <1>13 DEF NoPending, AfterOffer, Return, NextAttempt
<1>14. CASE LoadHash
  BY <1>14 DEF LoadHash, AfterOffer, Return, NextAttempt
<1>15. CASE TryLock
  BY <1>15 DEF TryLock, SetPendingStep
<1>16. CASE CheckDeadline
  BY <1>16 DEF CheckDeadline, SetPendingStep
<1>17. CASE ResetMutex
  BY <1>17 DEF ResetMutex, SetPendingStep
<1>18. CASE RetryLock
  BY <1>18 DEF RetryLock, SetPendingStep
<1>19. CASE RetryFindsClosed
  BY <1>19 DEF RetryFindsClosed, AfterOffer, Return, NextAttempt
<1>20. CASE ArmDeadline
  BY <1>20 DEF ArmDeadline, SetPendingStep
<1>21. CASE StoreHash
  BY <1>21 DEF StoreHash, SetPendingStep
<1>22. CASE StorePending
  BY <1>22 DEF StorePending, SetPendingStep
<1>23. CASE ReadSubscribe
  BY <1>23 DEF ReadSubscribe, Received
<1>24. CASE ReadAnswer
  <2>1. Head(toServer) \in ClientMessages /\ Tail(toServer) \in Seq(ClientMessages)
    BY <1>24 DEF ReadAnswer, Received
  <2>2. Head(toServer).offer \in Nat
    BY <2>1
  <2> HIDE DEF ClientMessages
  <2> QED
    BY <1>24, <2>1, <2>2 DEF ReadAnswer, Received
<1>40. CASE ReadAnswerFails
  BY <1>40 DEF ReadAnswerFails, Received, Fault
<1>25. CASE ReadCommit
  BY <1>25 DEF ReadCommit, Received
<1>26. CASE ReadAfterClose
  BY <1>26 DEF ReadAfterClose
<1>27. CASE SubmitCAS
  BY <1>27 DEF SubmitCAS
<1>28. CASE SubmitSwap
  BY <1>28 DEF SubmitSwap
<1>29. CASE SubmitUnlock
  <2>1. panicked' \in BOOLEAN /\ sessionMuLocked' \in BOOLEAN
    BY <1>29, Zenon DEF SubmitUnlock
  <2> QED
    BY <1>29, <2>1 DEF SubmitUnlock
<1>30. CASE ReadLoopExits
  BY <1>30 DEF ReadLoopExits, Cancel
<1>31. CASE RetryWakes
  BY <1>31 DEF RetryWakes
<1>32. CASE Expire
  BY <1>32 DEF Expire
<1>33. CASE ClientLeaves
  BY <1>33 DEF ClientLeaves
<1>34. CASE ConnectionFails
  BY <1>34 DEF ConnectionFails, Cancel
<1>35. CASE ConnectionCloses
  BY <1>35 DEF ConnectionCloses
<1>36. CASE ClientAnswers
  <2> DEFINE answer == [type |-> "answer", offer |-> Head(toClient).sdp]
             commits == [type |-> "commit", offer |-> Head(toClient).hash]
  <2> DEFINE Offers == [sdp : Nat \ {Nil}, hash : Nat]
  <2>1. /\ Head(toClient) \in Offers
        /\ Tail(toClient) \in Seq(Offers)
    <3>1. toClient \in Seq(Offers) /\ toClient # <<>>
      BY <1>36 DEF ClientAnswers
    <3> HIDE DEF Offers
    <3> QED BY <3>1
  <2>2. answer \in ClientMessages /\ commits \in ClientMessages
    BY <2>1
  <2>3. Append(Append(toServer, answer), commits) \in Seq(ClientMessages)
    BY <2>2
  <2> QED
    BY <1>36, <2>1, <2>3 DEF ClientAnswers
<1>37. CASE ClientThrows
  BY <1>37 DEF ClientThrows
<1>38. CASE UNCHANGED vars
  BY <1>38 DEF vars
<1>39. QED
  BY <1>1, <1>2, <1>3, <1>4, <1>5, <1>6, <1>7, <1>8, <1>9, <1>10, <1>11,
     <1>12, <1>13, <1>14, <1>15, <1>16, <1>17, <1>18, <1>19, <1>20, <1>21,
     <1>22, <1>23, <1>24, <1>25, <1>26, <1>27, <1>28, <1>29, <1>30, <1>31,
     <1>32, <1>33, <1>34, <1>35, <1>36, <1>37, <1>38, <1>40 DEF Next,
     Dispatching, Reading

(* The state of the offer exchange stays within its types: SetPendingDesc    *)
(* always has an offer to store, and no nil description reaches a browser.   *)
THEOREM TypeCorrect == Spec => []TypeOK
<1>1. ASSUME Init PROVE TypeOK
  <2> DEFINE subscribe == [type |-> "subscribe", offer |-> Nil]
  <2>1. subscribe \in ClientMessages
    BY DEF ClientMessages, Nil
  <2>2. <<subscribe>> \in Seq(ClientMessages)
    BY <2>1
  <2>3. toServer \in Seq(ClientMessages) /\ toClient \in Seq([sdp : Nat \ {Nil}, hash : Nat])
    BY <1>1, <2>2 DEF Init
  <2>4. sessionMuLocked \in BOOLEAN /\ panicked \in BOOLEAN
    BY <1>1, Zenon DEF Init
  <2>5. holder \in Callers \cup {NoOne} /\ waiting \in SUBSET Callers
    BY <1>1 DEF Init
  <2>6. msg \in [sdp : Nat, hash : Nat]
    BY <1>1 DEF Init, NoMsg, Nil
  <2>7. calls \in 0..MaxCalls /\ faults \in 0..MaxFaults
    BY <1>1, NegotiationAssumption DEF Init
  <2> QED
    BY <1>1, <2>3, <2>4, <2>5, <2>6, <2>7
    DEF Init, TypeOK, Nil, SubmitSteps, PendingSteps
<1>2. QED
  BY <1>1, TypeStep, PTL DEF Spec

-----------------------------------------------------------------------------
(* SessionDesc implements OfferLog *)

(* While an offer is made and its lock awaited, both hashes are of older     *)
(* offers; an open offer is newer than the committed one.                    *)
LogInv ==
  /\ pendingHash <= made /\ negotiatedHash <= made
  /\ pendingHash # Nil => negotiatedHash < pendingHash
  /\ pc \in {"try", "loop", "reset", "retry", "stamp", "hash"} =>
       draft = made /\ pendingHash < made /\ negotiatedHash < made
  /\ reader = "cas" => commit # Nil

LEMMA LogInvStep ==
  TypeOK /\ LogInv /\ [Next]_vars => LogInv'
<1> SUFFICES ASSUME TypeOK, LogInv, [Next]_vars
             PROVE  LogInv'
  OBVIOUS
<1> USE DEF TypeOK, LogInv, Nil,
           lockVars, pendingVars, doneVars, pionVars, wsVars, readVars,
           mutexVars, workVars, boundVars
<1>1. ASSUME NEW c \in Dispatchers, Call(c)
      PROVE  LogInv'
  BY <1>1 DEF Call
<1>2. ASSUME NEW c \in Callers, Acquire(c)
      PROVE  LogInv'
  BY <1>2 DEF Acquire
<1>3. CASE WriteOffer
  BY <1>3 DEF WriteOffer, Return
<1>4. CASE WriteCloseSent
  BY <1>4 DEF WriteCloseSent, Return
<1>5. CASE WriteFails
  BY <1>5 DEF WriteFails, NextAttempt, Fault
<1>6. CASE CreateOffer
  BY <1>6 DEF CreateOffer
<1>7. CASE OfferFindsClosed
  BY <1>7 DEF OfferFindsClosed, AfterOffer, Return, NextAttempt
<1>8. CASE CreateOfferFails
  BY <1>8 DEF CreateOfferFails, AfterOffer, Return, NextAttempt, Fault
<1>9. CASE SetLocalDescription
  BY <1>9 DEF SetLocalDescription
<1>10. CASE LocalOfferRefused
  BY <1>10 DEF LocalOfferRefused
<1>11. CASE SetLocalFails
  BY <1>11 DEF SetLocalFails, AfterOffer, Return, NextAttempt, Fault
<1>12. CASE UsePending
  BY <1>12 DEF UsePending
<1>13. CASE NoPending
  BY <1>13 DEF NoPending, AfterOffer, Return, NextAttempt
<1>14. CASE LoadHash
  BY <1>14 DEF LoadHash, AfterOffer, Return, NextAttempt
<1>15. CASE TryLock
  BY <1>15 DEF TryLock, SetPendingStep
<1>16. CASE CheckDeadline
  BY <1>16 DEF CheckDeadline, SetPendingStep
<1>17. CASE ResetMutex
  BY <1>17 DEF ResetMutex, SetPendingStep
<1>18. CASE RetryLock
  BY <1>18 DEF RetryLock, SetPendingStep
<1>19. CASE RetryFindsClosed
  BY <1>19 DEF RetryFindsClosed, AfterOffer, Return, NextAttempt
<1>20. CASE ArmDeadline
  BY <1>20 DEF ArmDeadline, SetPendingStep
<1>21. CASE StoreHash
  BY <1>21 DEF StoreHash, SetPendingStep
<1>22. CASE StorePending
  BY <1>22 DEF StorePending, SetPendingStep
<1>23. CASE ReadSubscribe
  BY <1>23 DEF ReadSubscribe, Received
<1>24. CASE ReadAnswer
  BY <1>24 DEF ReadAnswer, Received
<1>40. CASE ReadAnswerFails
  BY <1>40 DEF ReadAnswerFails, Received, Fault
<1>25. CASE ReadCommit
  BY <1>25 DEF ReadCommit, Received
<1>26. CASE ReadAfterClose
  BY <1>26 DEF ReadAfterClose
<1>27. CASE SubmitCAS
  BY <1>27 DEF SubmitCAS
<1>28. CASE SubmitSwap
  BY <1>28 DEF SubmitSwap
<1>29. CASE SubmitUnlock
  BY <1>29 DEF SubmitUnlock
<1>30. CASE ReadLoopExits
  BY <1>30 DEF ReadLoopExits, Cancel
<1>31. CASE RetryWakes
  BY <1>31 DEF RetryWakes
<1>32. CASE Expire
  BY <1>32 DEF Expire
<1>33. CASE ClientLeaves
  BY <1>33 DEF ClientLeaves
<1>34. CASE ConnectionFails
  BY <1>34 DEF ConnectionFails, Cancel
<1>35. CASE ConnectionCloses
  BY <1>35 DEF ConnectionCloses
<1>36. CASE ClientAnswers
  BY <1>36 DEF ClientAnswers
<1>37. CASE ClientThrows
  BY <1>37 DEF ClientThrows
<1>38. CASE UNCHANGED vars
  BY <1>38 DEF vars
<1>39. QED
  BY <1>1, <1>2, <1>3, <1>4, <1>5, <1>6, <1>7, <1>8, <1>9, <1>10, <1>11,
     <1>12, <1>13, <1>14, <1>15, <1>16, <1>17, <1>18, <1>19, <1>20, <1>21,
     <1>22, <1>23, <1>24, <1>25, <1>26, <1>27, <1>28, <1>29, <1>30, <1>31,
     <1>32, <1>33, <1>34, <1>35, <1>36, <1>37, <1>38, <1>40 DEF Next,
     Dispatching, Reading

LEMMA LogInvariant == Spec => []LogInv
<1>1. Init => LogInv
  BY DEF Init, LogInv, Nil
<1>2. QED
  BY <1>1, LogInvStep, TypeCorrect, PTL DEF Spec

LEMMA LogStep ==
  TypeOK /\ LogInv /\ [Next]_vars => [Log!Next]_<<made, pendingHash, negotiatedHash>>
<1> SUFFICES ASSUME TypeOK, LogInv, [Next]_vars
             PROVE  [Log!Next]_<<made, pendingHash, negotiatedHash>>
  OBVIOUS
<1> USE DEF TypeOK, LogInv, Nil, Log!Next, Log!Make, Log!Open, Log!Commit,
           lockVars, pendingVars, doneVars, pionVars, wsVars, readVars,
           mutexVars, workVars, boundVars
<1>1. ASSUME NEW c \in Dispatchers, Call(c)
      PROVE  [Log!Next]_<<made, pendingHash, negotiatedHash>>
  BY <1>1 DEF Call
<1>2. ASSUME NEW c \in Callers, Acquire(c)
      PROVE  [Log!Next]_<<made, pendingHash, negotiatedHash>>
  BY <1>2 DEF Acquire
<1>3. CASE WriteOffer
  BY <1>3 DEF WriteOffer, Return
<1>4. CASE WriteCloseSent
  BY <1>4 DEF WriteCloseSent, Return
<1>5. CASE WriteFails
  BY <1>5 DEF WriteFails, NextAttempt, Fault
<1>6. CASE CreateOffer
  BY <1>6 DEF CreateOffer
<1>7. CASE OfferFindsClosed
  BY <1>7 DEF OfferFindsClosed, AfterOffer, Return, NextAttempt
<1>8. CASE CreateOfferFails
  BY <1>8 DEF CreateOfferFails, AfterOffer, Return, NextAttempt, Fault
<1>9. CASE SetLocalDescription
  BY <1>9 DEF SetLocalDescription
<1>10. CASE LocalOfferRefused
  BY <1>10 DEF LocalOfferRefused
<1>11. CASE SetLocalFails
  BY <1>11 DEF SetLocalFails, AfterOffer, Return, NextAttempt, Fault
<1>12. CASE UsePending
  BY <1>12 DEF UsePending
<1>13. CASE NoPending
  BY <1>13 DEF NoPending, AfterOffer, Return, NextAttempt
<1>14. CASE LoadHash
  BY <1>14 DEF LoadHash, AfterOffer, Return, NextAttempt
<1>15. CASE TryLock
  BY <1>15 DEF TryLock, SetPendingStep
<1>16. CASE CheckDeadline
  BY <1>16 DEF CheckDeadline, SetPendingStep
<1>17. CASE ResetMutex
  BY <1>17 DEF ResetMutex, SetPendingStep
<1>18. CASE RetryLock
  BY <1>18 DEF RetryLock, SetPendingStep
<1>19. CASE RetryFindsClosed
  BY <1>19 DEF RetryFindsClosed, AfterOffer, Return, NextAttempt
<1>20. CASE ArmDeadline
  BY <1>20 DEF ArmDeadline, SetPendingStep
<1>21. CASE StoreHash
  BY <1>21 DEF StoreHash, SetPendingStep
<1>22. CASE StorePending
  BY <1>22 DEF StorePending, SetPendingStep
<1>23. CASE ReadSubscribe
  BY <1>23 DEF ReadSubscribe, Received
<1>24. CASE ReadAnswer
  BY <1>24 DEF ReadAnswer, Received
<1>40. CASE ReadAnswerFails
  BY <1>40 DEF ReadAnswerFails, Received, Fault
<1>25. CASE ReadCommit
  BY <1>25 DEF ReadCommit, Received
<1>26. CASE ReadAfterClose
  BY <1>26 DEF ReadAfterClose
<1>27. CASE SubmitCAS
  BY <1>27 DEF SubmitCAS
<1>28. CASE SubmitSwap
  BY <1>28 DEF SubmitSwap
<1>29. CASE SubmitUnlock
  BY <1>29 DEF SubmitUnlock
<1>30. CASE ReadLoopExits
  BY <1>30 DEF ReadLoopExits, Cancel
<1>31. CASE RetryWakes
  BY <1>31 DEF RetryWakes
<1>32. CASE Expire
  BY <1>32 DEF Expire
<1>33. CASE ClientLeaves
  BY <1>33 DEF ClientLeaves
<1>34. CASE ConnectionFails
  BY <1>34 DEF ConnectionFails, Cancel
<1>35. CASE ConnectionCloses
  BY <1>35 DEF ConnectionCloses
<1>36. CASE ClientAnswers
  BY <1>36 DEF ClientAnswers
<1>37. CASE ClientThrows
  BY <1>37 DEF ClientThrows
<1>38. CASE UNCHANGED vars
  BY <1>38 DEF vars
<1>39. QED
  BY <1>1, <1>2, <1>3, <1>4, <1>5, <1>6, <1>7, <1>8, <1>9, <1>10, <1>11,
     <1>12, <1>13, <1>14, <1>15, <1>16, <1>17, <1>18, <1>19, <1>20, <1>21,
     <1>22, <1>23, <1>24, <1>25, <1>26, <1>27, <1>28, <1>29, <1>30, <1>31,
     <1>32, <1>33, <1>34, <1>35, <1>36, <1>37, <1>38, <1>40 DEF Next,
     Dispatching, Reading

(* However Submit and SetPendingDesc interleave, at most one offer is open,  *)
(* it is committed at most once, and never after a newer one.                *)
THEOREM ImplementsLog == Spec => LogSpec
<1>1. Init => Log!Init
  BY DEF Init, Log!Init, Nil
<1>2. QED
  BY <1>1, LogStep, LogInvariant, TypeCorrect, PTL DEF Spec, LogSpec, Log!Spec

-----------------------------------------------------------------------------
(* An offer carries its own hash *)

OfferSteps == PendingSteps \cup {"local", "fallback", "load", "write"}

(* The browser can know n: it is older than the offer being prepared. *)
Sent(n) == n <= made /\ (pc \in OfferSteps => n < made)

(* No commit of the offer being prepared can be on its way, so Submit leaves *)
(* its hash alone; it may still take its description out of pending.         *)
HashInv ==
  /\ pc \in OfferSteps => draft = made
  /\ pc \in {"pend", "local", "fallback", "load"} => pendingHash = draft
  /\ pc \in {"local", "fallback"} => pending \in {Nil, draft}
  /\ pc \in {"load", "write"} => msg.sdp = draft
  /\ pc = "write" => msg.hash = draft
  /\ \A i \in 1..Len(toClient) :
       toClient[i].sdp = toClient[i].hash /\ Sent(toClient[i].hash)
  /\ \A i \in 1..Len(toServer) : Sent(toServer[i].offer)
  /\ reader = "cas" => Sent(commit)

LEMMA OwnHash ==
  ASSUME HashInv, NEW j \in 1..Len(toClient)
  PROVE  toClient[j].sdp = toClient[j].hash
BY DEF HashInv

LEMMA HashInvStep ==
  TypeOK /\ HashInv /\ [Next]_vars
    => HashInv'
<1> SUFFICES ASSUME TypeOK, HashInv, [Next]_vars
             PROVE  HashInv'
  OBVIOUS
<1> USE DEF TypeOK, HashInv, Sent, OfferSteps, PendingSteps, Nil,
           lockVars, pendingVars, doneVars, pionVars, wsVars, readVars,
           mutexVars, workVars, boundVars
<1>1. ASSUME NEW c \in Dispatchers, Call(c)
      PROVE  HashInv'
  BY <1>1 DEF Call
<1>2. ASSUME NEW c \in Callers, Acquire(c)
      PROVE  HashInv'
  BY <1>2 DEF Acquire
<1>3. CASE WriteOffer
  BY <1>3 DEF WriteOffer, Return
<1>4. CASE WriteCloseSent
  BY <1>4 DEF WriteCloseSent, Return
<1>5. CASE WriteFails
  BY <1>5 DEF WriteFails, NextAttempt, Fault
<1>6. CASE CreateOffer
  <2>1. /\ made' = made + 1 /\ draft' = made' /\ pc' = "try"
        /\ UNCHANGED <<toClient, toServer, reader, commit>>
    BY <1>6 DEF CreateOffer
  <2>2. ASSUME NEW n \in Nat, Sent(n) PROVE Sent(n)'
    BY <2>1, <2>2
  <2> HIDE DEF Sent
  <2>3. (\A j \in 1..Len(toClient) :
           toClient[j].sdp = toClient[j].hash /\ Sent(toClient[j].hash))'
    BY <2>1, <2>2, ToClientType
  <2>4. (\A j \in 1..Len(toServer) : Sent(toServer[j].offer))'
    BY <2>1, <2>2, ToServerType
  <2> QED
    BY <2>1, <2>2, <2>3, <2>4
<1>7. CASE OfferFindsClosed
  BY <1>7 DEF OfferFindsClosed, AfterOffer, Return, NextAttempt
<1>8. CASE CreateOfferFails
  BY <1>8 DEF CreateOfferFails, AfterOffer, Return, NextAttempt, Fault
<1>9. CASE SetLocalDescription
  BY <1>9 DEF SetLocalDescription
<1>10. CASE LocalOfferRefused
  BY <1>10 DEF LocalOfferRefused
<1>11. CASE SetLocalFails
  BY <1>11 DEF SetLocalFails, AfterOffer, Return, NextAttempt, Fault
<1>12. CASE UsePending
  BY <1>12 DEF UsePending
<1>13. CASE NoPending
  BY <1>13 DEF NoPending, AfterOffer, Return, NextAttempt
<1>14. CASE LoadHash
  <2>1. /\ \/ pc' = "idle"
           \/ pc' = "write" /\ draft' = draft
              /\ msg' = [sdp |-> msg.sdp, hash |-> pendingHash]
        /\ UNCHANGED <<made, toClient, toServer, commit>>
        /\ reader' = "cas" => reader = "cas"
    BY <1>14, NegotiationAssumption DEF LoadHash, AfterOffer, Return, NextAttempt
  <2>2. \A n : Sent(n) => Sent(n)'
    BY <1>14, <2>1 DEF LoadHash
  <2>3. pc = "load" /\ draft = made /\ pendingHash = draft /\ msg.sdp = draft
    BY <1>14 DEF LoadHash
  <2>4. pc' = "write" => msg'.sdp = draft' /\ msg'.hash = draft' /\ draft' = made'
    BY <2>1, <2>3
  <2>5. pc' = "idle" \/ pc' = "write"
    BY <2>1
  <2> HIDE DEF Sent
  <2>6. (\A j \in 1..Len(toClient) :
           toClient[j].sdp = toClient[j].hash /\ Sent(toClient[j].hash))'
    BY <2>1, <2>2
  <2>7. (\A j \in 1..Len(toServer) : Sent(toServer[j].offer))'
    BY <2>1, <2>2
  <2>8. (reader = "cas" => Sent(commit))'
    BY <2>1, <2>2
  <2> QED
    BY <2>4, <2>5, <2>6, <2>7, <2>8
<1>15. CASE TryLock
  BY <1>15 DEF TryLock, SetPendingStep
<1>16. CASE CheckDeadline
  BY <1>16 DEF CheckDeadline, SetPendingStep
<1>17. CASE ResetMutex
  BY <1>17 DEF ResetMutex, SetPendingStep
<1>18. CASE RetryLock
  BY <1>18 DEF RetryLock, SetPendingStep
<1>19. CASE RetryFindsClosed
  BY <1>19 DEF RetryFindsClosed, AfterOffer, Return, NextAttempt
<1>20. CASE ArmDeadline
  BY <1>20 DEF ArmDeadline, SetPendingStep
<1>21. CASE StoreHash
  BY <1>21 DEF StoreHash, SetPendingStep
<1>22. CASE StorePending
  BY <1>22 DEF StorePending, SetPendingStep
<1>23. CASE ReadSubscribe
  BY <1>23 DEF ReadSubscribe, Received
<1>24. CASE ReadAnswer
  BY <1>24 DEF ReadAnswer, Received
<1>40. CASE ReadAnswerFails
  BY <1>40 DEF ReadAnswerFails, Received, Fault
<1>25. CASE ReadCommit
  BY <1>25 DEF ReadCommit, Received
<1>26. CASE ReadAfterClose
  BY <1>26 DEF ReadAfterClose
<1>27. CASE SubmitCAS
  BY <1>27 DEF SubmitCAS
<1>28. CASE SubmitSwap
  BY <1>28 DEF SubmitSwap
<1>29. CASE SubmitUnlock
  BY <1>29 DEF SubmitUnlock
<1>30. CASE ReadLoopExits
  BY <1>30 DEF ReadLoopExits, Cancel
<1>31. CASE RetryWakes
  BY <1>31 DEF RetryWakes
<1>32. CASE Expire
  BY <1>32 DEF Expire
<1>33. CASE ClientLeaves
  BY <1>33 DEF ClientLeaves
<1>34. CASE ConnectionFails
  BY <1>34 DEF ConnectionFails, Cancel
<1>35. CASE ConnectionCloses
  BY <1>35 DEF ConnectionCloses
<1>36. CASE ClientAnswers
  <2> DEFINE o == Head(toClient)
             a == [type |-> "answer", offer |-> o.sdp]
             m == [type |-> "commit", offer |-> o.hash]
  <2>1. /\ toClient # <<>> /\ toClient' = Tail(toClient)
        /\ toServer' = Append(Append(toServer, a), m)
        /\ UNCHANGED <<made, pc, draft, msg, pending, pendingHash, reader, commit>>
    BY <1>36 DEF ClientAnswers
  <2>2. o.sdp = o.hash /\ Sent(o.hash)
    BY <2>1
  <2>3. a.offer = o.hash /\ m.offer = o.hash
    BY <2>2
  <2>4. \A j \in 1..Len(toClient') :
          toClient'[j].sdp = toClient'[j].hash /\ Sent(toClient'[j].hash)
    BY <2>1
  <2>5. \A j \in 1..Len(toServer') : Sent(toServer'[j].offer)
    <3> HIDE DEF a, m
    <3>1. ASSUME NEW j \in 1..Len(toServer')
          PROVE  \/ j \in 1..Len(toServer) /\ toServer'[j] = toServer[j]
                 \/ toServer'[j] = a
                 \/ toServer'[j] = m
      BY <2>1
    <3> HIDE DEF Sent, o
    <3> QED
      BY <3>1, <2>2, <2>3
  <2>6. \A n : Sent(n)' <=> Sent(n)
    BY <2>1
  <2> HIDE DEF a, m, o, Sent
  <2> QED
    BY <2>1, <2>4, <2>5, <2>6
<1>37. CASE ClientThrows
  BY <1>37 DEF ClientThrows
<1>38. CASE UNCHANGED vars
  BY <1>38 DEF vars
<1>39. QED
  BY <1>1, <1>2, <1>3, <1>4, <1>5, <1>6, <1>7, <1>8, <1>9, <1>10, <1>11,
     <1>12, <1>13, <1>14, <1>15, <1>16, <1>17, <1>18, <1>19, <1>20, <1>21,
     <1>22, <1>23, <1>24, <1>25, <1>26, <1>27, <1>28, <1>29, <1>30, <1>31,
     <1>32, <1>33, <1>34, <1>35, <1>36, <1>37, <1>38, <1>40 DEF Next,
     Dispatching, Reading

LEMMA HashInvariant == Spec => []HashInv
<1>1. Init => HashInv
  BY DEF Init, HashInv, Sent, OfferSteps, PendingSteps, Nil, NoMsg
<1>2. QED
  BY <1>1, HashInvStep, TypeCorrect, PTL DEF Spec

(* Every offer on its way to a browser carries the hash of its own SDP.      *)
THEOREM OfferHashCorrect == Spec => []OfferCarriesOwnHash
<1>1. HashInv => OfferCarriesOwnHash
  BY DEF HashInv, OfferCarriesOwnHash
<1>2. QED
  BY <1>1, HashInvariant, PTL

-----------------------------------------------------------------------------
(* The read loop waits for signalMu or holds it only while it dispatches,    *)
(* and a free signalMu means that no offer is being made.                    *)
ReaderInv ==
  /\ ReadLoop \in waiting \cup {holder} => reader = "dispatching"
  /\ holder = ReadLoop => ReadLoop \notin waiting
  /\ holder = NoOne => pc = "idle"

LEMMA ReaderInvStep ==
  TypeOK /\ ReaderInv /\ [Next]_vars
    => ReaderInv'
<1> SUFFICES ASSUME TypeOK, ReaderInv, [Next]_vars
             PROVE  ReaderInv'
  OBVIOUS
<1> USE NegotiationAssumption
       DEF TypeOK, ReaderInv, Callers, lockVars, pendingVars, doneVars, pionVars, wsVars, readVars,
           mutexVars, workVars, boundVars
<1>1. ASSUME NEW c \in Dispatchers, Call(c)
      PROVE  ReaderInv'
  BY <1>1 DEF Call
<1>2. ASSUME NEW c \in Callers, Acquire(c)
      PROVE  ReaderInv'
  BY <1>2 DEF Acquire
<1>3. CASE WriteOffer
  BY <1>3 DEF WriteOffer, Return
<1>4. CASE WriteCloseSent
  BY <1>4 DEF WriteCloseSent, Return
<1>5. CASE WriteFails
  BY <1>5 DEF WriteFails, NextAttempt, Fault
<1>6. CASE CreateOffer
  BY <1>6 DEF CreateOffer
<1>7. CASE OfferFindsClosed
  BY <1>7 DEF OfferFindsClosed, AfterOffer, Return, NextAttempt
<1>8. CASE CreateOfferFails
  BY <1>8 DEF CreateOfferFails, AfterOffer, Return, NextAttempt, Fault
<1>9. CASE SetLocalDescription
  BY <1>9 DEF SetLocalDescription
<1>10. CASE LocalOfferRefused
  BY <1>10 DEF LocalOfferRefused
<1>11. CASE SetLocalFails
  BY <1>11 DEF SetLocalFails, AfterOffer, Return, NextAttempt, Fault
<1>12. CASE UsePending
  BY <1>12 DEF UsePending
<1>13. CASE NoPending
  BY <1>13 DEF NoPending, AfterOffer, Return, NextAttempt
<1>14. CASE LoadHash
  BY <1>14 DEF LoadHash, AfterOffer, Return, NextAttempt
<1>15. CASE TryLock
  BY <1>15 DEF TryLock, SetPendingStep
<1>16. CASE CheckDeadline
  BY <1>16 DEF CheckDeadline, SetPendingStep
<1>17. CASE ResetMutex
  BY <1>17 DEF ResetMutex, SetPendingStep
<1>18. CASE RetryLock
  BY <1>18 DEF RetryLock, SetPendingStep
<1>19. CASE RetryFindsClosed
  BY <1>19 DEF RetryFindsClosed, AfterOffer, Return, NextAttempt
<1>20. CASE ArmDeadline
  BY <1>20 DEF ArmDeadline, SetPendingStep
<1>21. CASE StoreHash
  BY <1>21 DEF StoreHash, SetPendingStep
<1>22. CASE StorePending
  BY <1>22 DEF StorePending, SetPendingStep
<1>23. CASE ReadSubscribe
  BY <1>23 DEF ReadSubscribe, Received
<1>24. CASE ReadAnswer
  BY <1>24 DEF ReadAnswer, Received
<1>40. CASE ReadAnswerFails
  BY <1>40 DEF ReadAnswerFails, Received, Fault
<1>25. CASE ReadCommit
  BY <1>25 DEF ReadCommit, Received
<1>26. CASE ReadAfterClose
  BY <1>26 DEF ReadAfterClose
<1>27. CASE SubmitCAS
  BY <1>27 DEF SubmitCAS
<1>28. CASE SubmitSwap
  BY <1>28 DEF SubmitSwap
<1>29. CASE SubmitUnlock
  BY <1>29 DEF SubmitUnlock
<1>30. CASE ReadLoopExits
  BY <1>30 DEF ReadLoopExits, Cancel
<1>31. CASE RetryWakes
  BY <1>31 DEF RetryWakes
<1>32. CASE Expire
  BY <1>32 DEF Expire
<1>33. CASE ClientLeaves
  BY <1>33 DEF ClientLeaves
<1>34. CASE ConnectionFails
  BY <1>34 DEF ConnectionFails, Cancel
<1>35. CASE ConnectionCloses
  BY <1>35 DEF ConnectionCloses
<1>36. CASE ClientAnswers
  BY <1>36 DEF ClientAnswers
<1>37. CASE ClientThrows
  BY <1>37 DEF ClientThrows
<1>38. CASE UNCHANGED vars
  BY <1>38 DEF vars
<1>39. QED
  BY <1>1, <1>2, <1>3, <1>4, <1>5, <1>6, <1>7, <1>8, <1>9, <1>10, <1>11,
     <1>12, <1>13, <1>14, <1>15, <1>16, <1>17, <1>18, <1>19, <1>20, <1>21,
     <1>22, <1>23, <1>24, <1>25, <1>26, <1>27, <1>28, <1>29, <1>30, <1>31,
     <1>32, <1>33, <1>34, <1>35, <1>36, <1>37, <1>38, <1>40 DEF Next,
     Dispatching, Reading

LEMMA ReaderInvariant == Spec => []ReaderInv
<1>1. Init => ReaderInv
  BY NegotiationAssumption DEF Init, ReaderInv, Callers
<1>2. QED
  BY <1>1, ReaderInvStep, TypeCorrect, PTL DEF Spec

-----------------------------------------------------------------------------
(* What a Submit leaves behind, whatever SetPendingDesc does meanwhile *)

(* The offer being stored cannot be committed yet, a locked mutex has been    *)
(* marked but for the moment before, and only Submit's last two steps find a  *)
(* mutex locked for an offer whose hash is gone.                              *)
FreeInv ==
  /\ pc = "pend" => pendingHash # Nil
  /\ sessionMu = "locked" /\ pc # "stamp" => sessionMuLocked
  /\ pendingHash = Nil /\ ~Stealing /\ reader \notin {"swap", "unlock"} /\ ~panicked
       => sessionMu = "unlocked"

LEMMA FreeStep == ASSUME TypeOK, HashInv, ReaderInv, FreeInv, [Next]_vars PROVE FreeInv'
<1> USE DEF FreeInv, Stealing, Nil, lockVars, workVars, pendingVars
<1>1. CASE TryLock \/ CheckDeadline \/ ResetMutex \/ RetryLock \/ ArmDeadline
  BY <1>1 DEF TryLock, CheckDeadline, ResetMutex, RetryLock, ArmDeadline, SetPendingStep,
              readVars, TypeOK
<1>2. CASE StoreHash \/ StorePending
  BY <1>2 DEF StoreHash, StorePending, SetPendingStep, readVars, TypeOK, PendingSteps
<1>3. CASE RetryFindsClosed \/ OfferFindsClosed \/ NoPending \/ LoadHash
  BY <1>3 DEF RetryFindsClosed, OfferFindsClosed, NoPending, LoadHash, AfterOffer, Return,
              NextAttempt, readVars, ReaderInv, TypeOK
<1>4. CASE CreateOffer \/ SetLocalDescription \/ LocalOfferRefused \/ UsePending
  BY <1>4 DEF CreateOffer, SetLocalDescription, LocalOfferRefused, UsePending, readVars
<1>5. CASE CreateOfferFails \/ SetLocalFails
  BY <1>5 DEF CreateOfferFails, SetLocalFails, AfterOffer, Return, NextAttempt, readVars,
              ReaderInv, TypeOK
<1>6. CASE WriteOffer \/ WriteCloseSent \/ WriteFails
  BY <1>6 DEF WriteOffer, WriteCloseSent, WriteFails, Return, NextAttempt, readVars,
              ReaderInv, TypeOK
<1>7. CASE ReadSubscribe \/ ReadAnswer \/ ReadAnswerFails \/ ReadCommit \/ ReadAfterClose
  BY <1>7 DEF ReadSubscribe, ReadAnswer, ReadAnswerFails, ReadCommit, ReadAfterClose,
              Received, readVars
<1>8. CASE SubmitCAS
  BY <1>8 DEF SubmitCAS, HashInv, Sent, OfferSteps, PendingSteps, TypeOK
<1>9. CASE SubmitSwap \/ ReadLoopExits
  BY <1>9 DEF SubmitSwap, ReadLoopExits
<1>10. CASE SubmitUnlock
  <2>1. /\ panicked \in BOOLEAN /\ sessionMuLocked \in BOOLEAN
        /\ sessionMu \in {"locked", "unlocked"}
    BY DEF TypeOK
  <2>2. CASE panicked'
    BY <1>10, <2>2, <2>1 DEF SubmitUnlock
  <2>3. CASE ~panicked'
    BY <1>10, <2>3, <2>1 DEF SubmitUnlock
  <2> QED BY <2>2, <2>3
<1>11. ASSUME NEW c \in Callers, Acquire(c) PROVE FreeInv'
  BY <1>11 DEF Acquire, ReaderInv, readVars
<1>12. CASE \/ \E d \in Dispatchers : Call(d)
            \/ RetryWakes \/ Expire \/ ClientLeaves
  BY <1>12 DEF Call, RetryWakes, Expire, ClientLeaves, readVars
<1>13. CASE ConnectionFails \/ ConnectionCloses \/ ClientAnswers \/ ClientThrows \/ UNCHANGED vars
  BY <1>13 DEF ConnectionFails, ConnectionCloses, ClientAnswers, ClientThrows, vars, readVars
<1> QED
  BY <1>1, <1>2, <1>3, <1>4, <1>5, <1>6, <1>7, <1>8, <1>9, <1>10, <1>11, <1>12, <1>13
  DEF Next, Dispatching, Reading

(* Whether or not SetPendingDesc replaced the mutex, the hash or the          *)
(* description in the middle of a Submit, a committed offer never leaves      *)
(* sessionMu locked.                                                         *)
THEOREM CommittedOfferFreesLock == Spec => []ClosedOfferIsUnlocked
<1>1. Init => FreeInv
  BY DEF Init, FreeInv
<1>2. FreeInv => ClosedOfferIsUnlocked
  BY DEF FreeInv, ClosedOfferIsUnlocked
<1>3. QED
  BY <1>1, <1>2, FreeStep, HashInvariant, ReaderInvariant, TypeCorrect, PTL DEF Spec

(* A pending description is that of the pending hash or newer than the        *)
(* negotiated one: stored after its hash, it is missing only in between, and   *)
(* whatever Submit swaps out is not older than the hash it compared.           *)
NewerInv ==
  /\ reader = "cas" => pending # Nil
  /\ pc # "pend" /\ pendingHash # Nil /\ pending # Nil => pending = pendingHash
  /\ reader = "swap" => pending >= negotiatedHash
  /\ NegotiatedNotOlder

LEMMA NewerStep ==
  ASSUME TypeOK, HashInv, LogInv, ReaderInv, NewerInv, [Next]_vars
  PROVE  NewerInv'
<1> USE DEF ReaderInv, NewerInv, NegotiatedNotOlder, Nil, workVars, pendingVars, doneVars, TypeOK
<1>1. CASE TryLock \/ CheckDeadline \/ ResetMutex \/ RetryLock \/ ArmDeadline
  BY <1>1 DEF TryLock, CheckDeadline, ResetMutex, RetryLock, ArmDeadline, SetPendingStep,
              readVars
<1>2. CASE StoreHash
  BY <1>2 DEF StoreHash, SetPendingStep, readVars
<1>3. CASE StorePending
  BY <1>3 DEF StorePending, SetPendingStep, readVars, HashInv, LogInv, OfferSteps,
              PendingSteps
<1>4. CASE RetryFindsClosed \/ OfferFindsClosed \/ NoPending \/ LoadHash
  BY <1>4 DEF RetryFindsClosed, OfferFindsClosed, NoPending, LoadHash, AfterOffer, Return,
              NextAttempt, readVars
<1>5. CASE CreateOffer \/ SetLocalDescription \/ LocalOfferRefused \/ UsePending
  BY <1>5 DEF CreateOffer, SetLocalDescription, LocalOfferRefused, UsePending, readVars
<1>6. CASE CreateOfferFails \/ SetLocalFails
  BY <1>6 DEF CreateOfferFails, SetLocalFails, AfterOffer, Return, NextAttempt, readVars
<1>7. CASE WriteOffer \/ WriteCloseSent \/ WriteFails
  BY <1>7 DEF WriteOffer, WriteCloseSent, WriteFails, Return, NextAttempt, readVars
<1>8. CASE ReadSubscribe \/ ReadAnswer \/ ReadAnswerFails \/ ReadCommit \/ ReadAfterClose
  BY <1>8 DEF ReadSubscribe, ReadAnswer, ReadAnswerFails, ReadCommit, ReadAfterClose,
              Received, readVars
<1>9. CASE SubmitCAS
  BY <1>9 DEF SubmitCAS, HashInv, Sent, OfferSteps, PendingSteps, LogInv
<1>10. CASE SubmitSwap \/ SubmitUnlock \/ ReadLoopExits
  BY <1>10 DEF SubmitSwap, SubmitUnlock, ReadLoopExits
<1>11. ASSUME NEW c \in Callers, Acquire(c) PROVE NewerInv'
  BY <1>11 DEF Acquire, readVars
<1>12. CASE \/ \E d \in Dispatchers : Call(d)
            \/ RetryWakes \/ Expire \/ ClientLeaves
  BY <1>12 DEF Call, RetryWakes, Expire, ClientLeaves, readVars
<1>13. CASE ConnectionFails \/ ConnectionCloses \/ ClientAnswers \/ ClientThrows \/ UNCHANGED vars
  BY <1>13 DEF ConnectionFails, ConnectionCloses, ClientAnswers, ClientThrows, vars, readVars
<1> QED
  BY <1>1, <1>2, <1>3, <1>4, <1>5, <1>6, <1>7, <1>8, <1>9, <1>10, <1>11, <1>12, <1>13
  DEF Next, Dispatching, Reading

(* The description taken as negotiated is the one that was committed or a     *)
(* newer one, also when SetPendingDesc stores another in the middle of Submit. *)
THEOREM NegotiatedIsNotOlder == Spec => []NegotiatedNotOlder
<1>1. Init => NewerInv
  BY DEF Init, NewerInv, NegotiatedNotOlder, Nil
<1>2. NewerInv => NegotiatedNotOlder
  BY DEF NewerInv
<1>3. QED
  BY <1>1, <1>2, NewerStep, HashInvariant, LogInvariant, ReaderInvariant, TypeCorrect, PTL DEF Spec

-----------------------------------------------------------------------------
(* Only an answered offer is committed *)

(* A commit travels right behind the answer to the same offer, and the read  *)
(* loop gets past an answer only if pion took it.                            *)
AnswerInv ==
  /\ \A i \in 1..Len(toServer) :
       toServer[i].type = "commit" =>
         IF i = 1 THEN \/ reader \in {"exit", "done"}
                       \/ answered = toServer[1].offer
                  ELSE /\ toServer[i - 1].type = "answer"
                       /\ toServer[i - 1].offer = toServer[i].offer
  /\ reader = "cas" => answered = commit

LEMMA AnswerInvStep ==
  TypeOK /\ HashInv /\ ReaderInv /\ AnswerInv /\ [Next]_vars
    => AnswerInv'
<1> SUFFICES ASSUME TypeOK, HashInv, ReaderInv, AnswerInv, [Next]_vars
             PROVE  AnswerInv'
  OBVIOUS
<1> USE NegotiationAssumption
       DEF TypeOK, ReaderInv, AnswerInv, Callers, Nil, lockVars, pendingVars, doneVars, pionVars, wsVars, readVars,
           mutexVars, workVars, boundVars
<1>1. ASSUME NEW c \in Dispatchers, Call(c)
      PROVE  AnswerInv'
  BY <1>1 DEF Call
<1>2. ASSUME NEW c \in Callers, Acquire(c)
      PROVE  AnswerInv'
  BY <1>2 DEF Acquire
<1>3. CASE WriteOffer
  BY <1>3 DEF WriteOffer, Return
<1>4. CASE WriteCloseSent
  BY <1>4 DEF WriteCloseSent, Return
<1>5. CASE WriteFails
  BY <1>5 DEF WriteFails, NextAttempt, Fault
<1>6. CASE CreateOffer
  BY <1>6 DEF CreateOffer
<1>7. CASE OfferFindsClosed
  BY <1>7 DEF OfferFindsClosed, AfterOffer, Return, NextAttempt
<1>8. CASE CreateOfferFails
  BY <1>8 DEF CreateOfferFails, AfterOffer, Return, NextAttempt, Fault
<1>9. CASE SetLocalDescription
  BY <1>9 DEF SetLocalDescription
<1>10. CASE LocalOfferRefused
  BY <1>10 DEF LocalOfferRefused
<1>11. CASE SetLocalFails
  BY <1>11 DEF SetLocalFails, AfterOffer, Return, NextAttempt, Fault
<1>12. CASE UsePending
  BY <1>12 DEF UsePending
<1>13. CASE NoPending
  BY <1>13 DEF NoPending, AfterOffer, Return, NextAttempt
<1>14. CASE LoadHash
  BY <1>14 DEF LoadHash, AfterOffer, Return, NextAttempt
<1>15. CASE TryLock
  BY <1>15 DEF TryLock, SetPendingStep
<1>16. CASE CheckDeadline
  BY <1>16 DEF CheckDeadline, SetPendingStep
<1>17. CASE ResetMutex
  BY <1>17 DEF ResetMutex, SetPendingStep
<1>18. CASE RetryLock
  BY <1>18 DEF RetryLock, SetPendingStep
<1>19. CASE RetryFindsClosed
  BY <1>19 DEF RetryFindsClosed, AfterOffer, Return, NextAttempt
<1>20. CASE ArmDeadline
  BY <1>20 DEF ArmDeadline, SetPendingStep
<1>21. CASE StoreHash
  BY <1>21 DEF StoreHash, SetPendingStep
<1>22. CASE StorePending
  BY <1>22 DEF StorePending, SetPendingStep
<1>23. CASE ReadSubscribe
  BY <1>23 DEF ReadSubscribe, Received
<1>24. CASE ReadAnswer
  BY <1>24 DEF ReadAnswer, Received
<1>40. CASE ReadAnswerFails
  BY <1>40 DEF ReadAnswerFails, Received, Fault
<1>25. CASE ReadCommit
  BY <1>25 DEF ReadCommit, Received
<1>26. CASE ReadAfterClose
  BY <1>26 DEF ReadAfterClose
<1>27. CASE SubmitCAS
  BY <1>27 DEF SubmitCAS
<1>28. CASE SubmitSwap
  BY <1>28 DEF SubmitSwap
<1>29. CASE SubmitUnlock
  BY <1>29 DEF SubmitUnlock
<1>30. CASE ReadLoopExits
  BY <1>30 DEF ReadLoopExits, Cancel
<1>31. CASE RetryWakes
  BY <1>31 DEF RetryWakes
<1>32. CASE Expire
  BY <1>32 DEF Expire
<1>33. CASE ClientLeaves
  BY <1>33 DEF ClientLeaves
<1>34. CASE ConnectionFails
  BY <1>34 DEF ConnectionFails, Cancel
<1>35. CASE ConnectionCloses
  BY <1>35 DEF ConnectionCloses
<1>36. CASE ClientAnswers
  <2> DEFINE o == Head(toClient)
             a == [type |-> "answer", offer |-> o.sdp]
             m == [type |-> "commit", offer |-> o.hash]
             n == Len(toServer)
  <2>1. /\ toClient # <<>> /\ toServer' = Append(Append(toServer, a), m)
        /\ UNCHANGED <<reader, answered, commit, waiting, holder>>
    BY <1>36 DEF ClientAnswers
  <2>2. o.sdp = o.hash
    <3>1. 1 \in 1..Len(toClient) /\ o = toClient[1]
      BY <2>1
    <3> HIDE DEF o
    <3> QED
      BY <3>1, OwnHash
  <2>3. a.type = "answer" /\ m.type = "commit" /\ a.offer = m.offer
    BY <2>2
  <2> HIDE DEF a, m
  <2>4. /\ n \in Nat /\ Len(toServer') = n + 2
        /\ \A j \in 1..n : toServer'[j] = toServer[j]
        /\ toServer'[n + 1] = a /\ toServer'[n + 2] = m
    BY <2>1
  <2> HIDE DEF n
  <2>5. ASSUME NEW j \in 1..Len(toServer'), toServer'[j].type = "commit"
        PROVE  IF j = 1 THEN \/ reader' \in {"exit", "done"}
                             \/ answered' = toServer'[1].offer
                        ELSE /\ toServer'[j - 1].type = "answer"
                             /\ toServer'[j - 1].offer = toServer'[j].offer
    <3>1. j # n + 1
      BY <2>3, <2>4, <2>5
    <3>2. CASE j = n + 2
      BY <2>3, <2>4, <3>2
    <3>3. CASE j \in 1..n
      <4>1. toServer[j].type = "commit" /\ j \in 1..Len(toServer)
        BY <2>4, <2>5, <3>3 DEF n
      <4>2. j # 1 => j - 1 \in 1..n
        BY <2>4, <3>3
      <4> QED
        BY <2>1, <2>4, <3>3, <4>1, <4>2
    <3> QED
      BY <2>4, <3>1, <3>2, <3>3
  <2>6. (\A j \in 1..Len(toServer) :
           toServer[j].type = "commit" =>
             IF j = 1 THEN \/ reader \in {"exit", "done"}
                           \/ answered = toServer[1].offer
                      ELSE /\ toServer[j - 1].type = "answer"
                           /\ toServer[j - 1].offer = toServer[j].offer)'
    BY <2>5
  <2>7. (reader = "cas" => answered = commit)'
    BY <2>1
  <2> HIDE DEF o
  <2> QED
    BY <2>6, <2>7
<1>37. CASE ClientThrows
  BY <1>37 DEF ClientThrows
<1>38. CASE UNCHANGED vars
  BY <1>38 DEF vars
<1>39. QED
  BY <1>1, <1>2, <1>3, <1>4, <1>5, <1>6, <1>7, <1>8, <1>9, <1>10, <1>11,
     <1>12, <1>13, <1>14, <1>15, <1>16, <1>17, <1>18, <1>19, <1>20, <1>21,
     <1>22, <1>23, <1>24, <1>25, <1>26, <1>27, <1>28, <1>29, <1>30, <1>31,
     <1>32, <1>33, <1>34, <1>35, <1>36, <1>37, <1>38, <1>40 DEF Next,
     Dispatching, Reading

LEMMA AnswerInvariant == Spec => []AnswerInv
<1>1. Init => AnswerInv
  BY DEF Init, AnswerInv
<1>2. QED
  BY <1>1, AnswerInvStep, ReaderInvariant, HashInvariant, TypeCorrect, PTL DEF Spec

LEMMA CommitStep ==
  AnswerInv /\ [Next]_vars
    => [negotiatedHash' # negotiatedHash => answered = negotiatedHash']_vars
<1> SUFFICES ASSUME AnswerInv, [Next]_vars
             PROVE  [negotiatedHash' # negotiatedHash => answered = negotiatedHash']_vars
  OBVIOUS
<1> USE DEF AnswerInv, lockVars, pendingVars, doneVars, pionVars, wsVars, readVars,
           mutexVars, workVars, boundVars
<1>1. ASSUME NEW c \in Dispatchers, Call(c)
      PROVE  [negotiatedHash' # negotiatedHash => answered = negotiatedHash']_vars
  BY <1>1 DEF Call
<1>2. ASSUME NEW c \in Callers, Acquire(c)
      PROVE  [negotiatedHash' # negotiatedHash => answered = negotiatedHash']_vars
  BY <1>2 DEF Acquire
<1>3. CASE WriteOffer
  BY <1>3 DEF WriteOffer, Return
<1>4. CASE WriteCloseSent
  BY <1>4 DEF WriteCloseSent, Return
<1>5. CASE WriteFails
  BY <1>5 DEF WriteFails, NextAttempt, Fault
<1>6. CASE CreateOffer
  BY <1>6 DEF CreateOffer
<1>7. CASE OfferFindsClosed
  BY <1>7 DEF OfferFindsClosed, AfterOffer, Return, NextAttempt
<1>8. CASE CreateOfferFails
  BY <1>8 DEF CreateOfferFails, AfterOffer, Return, NextAttempt, Fault
<1>9. CASE SetLocalDescription
  BY <1>9 DEF SetLocalDescription
<1>10. CASE LocalOfferRefused
  BY <1>10 DEF LocalOfferRefused
<1>11. CASE SetLocalFails
  BY <1>11 DEF SetLocalFails, AfterOffer, Return, NextAttempt, Fault
<1>12. CASE UsePending
  BY <1>12 DEF UsePending
<1>13. CASE NoPending
  BY <1>13 DEF NoPending, AfterOffer, Return, NextAttempt
<1>14. CASE LoadHash
  BY <1>14 DEF LoadHash, AfterOffer, Return, NextAttempt
<1>15. CASE TryLock
  BY <1>15 DEF TryLock, SetPendingStep
<1>16. CASE CheckDeadline
  BY <1>16 DEF CheckDeadline, SetPendingStep
<1>17. CASE ResetMutex
  BY <1>17 DEF ResetMutex, SetPendingStep
<1>18. CASE RetryLock
  BY <1>18 DEF RetryLock, SetPendingStep
<1>19. CASE RetryFindsClosed
  BY <1>19 DEF RetryFindsClosed, AfterOffer, Return, NextAttempt
<1>20. CASE ArmDeadline
  BY <1>20 DEF ArmDeadline, SetPendingStep
<1>21. CASE StoreHash
  BY <1>21 DEF StoreHash, SetPendingStep
<1>22. CASE StorePending
  BY <1>22 DEF StorePending, SetPendingStep
<1>23. CASE ReadSubscribe
  BY <1>23 DEF ReadSubscribe, Received
<1>24. CASE ReadAnswer
  BY <1>24 DEF ReadAnswer, Received
<1>40. CASE ReadAnswerFails
  BY <1>40 DEF ReadAnswerFails, Received, Fault
<1>25. CASE ReadCommit
  BY <1>25 DEF ReadCommit, Received
<1>26. CASE ReadAfterClose
  BY <1>26 DEF ReadAfterClose
<1>27. CASE SubmitCAS
  BY <1>27 DEF SubmitCAS
<1>28. CASE SubmitSwap
  BY <1>28 DEF SubmitSwap
<1>29. CASE SubmitUnlock
  BY <1>29 DEF SubmitUnlock
<1>30. CASE ReadLoopExits
  BY <1>30 DEF ReadLoopExits, Cancel
<1>31. CASE RetryWakes
  BY <1>31 DEF RetryWakes
<1>32. CASE Expire
  BY <1>32 DEF Expire
<1>33. CASE ClientLeaves
  BY <1>33 DEF ClientLeaves
<1>34. CASE ConnectionFails
  BY <1>34 DEF ConnectionFails, Cancel
<1>35. CASE ConnectionCloses
  BY <1>35 DEF ConnectionCloses
<1>36. CASE ClientAnswers
  BY <1>36 DEF ClientAnswers
<1>37. CASE ClientThrows
  BY <1>37 DEF ClientThrows
<1>38. CASE UNCHANGED vars
  BY <1>38 DEF vars
<1>39. QED
  BY <1>1, <1>2, <1>3, <1>4, <1>5, <1>6, <1>7, <1>8, <1>9, <1>10, <1>11,
     <1>12, <1>13, <1>14, <1>15, <1>16, <1>17, <1>18, <1>19, <1>20, <1>21,
     <1>22, <1>23, <1>24, <1>25, <1>26, <1>27, <1>28, <1>29, <1>30, <1>31,
     <1>32, <1>33, <1>34, <1>35, <1>36, <1>37, <1>38, <1>40 DEF Next,
     Dispatching, Reading

(* The hash taken as negotiated is that of the offer answered last.          *)
THEOREM CommitCorrect == Spec => CommittedWasAnswered
  BY CommitStep, AnswerInvariant, PTL DEF Spec, CommittedWasAnswered

-----------------------------------------------------------------------------
(* What a waiting exchange waits for *)

(* The hash of the pending offer is on its way through the browser.          *)
UnderWay ==
  \/ \E i \in 1..Len(toClient) : toClient[i].hash = pendingHash
  \/ \E i \in 1..Len(toServer) : toServer[i].type = "commit" /\ toServer[i].offer = pendingHash
  \/ reader = "cas" /\ commit = pendingHash

Undisturbed == close = "open" /\ faults = 0 /\ reader \notin {"exit", "done"}

(* A goroutine is to make an offer, which supersedes the pending one. *)
Renewing == waiting # {} \/ retries > 0

(* An offer that nobody is about to supersede was sent. *)
WayInv ==
  /\ pc = "write" => pendingHash = msg.hash
  /\ holder = NoOne /\ pendingHash # Nil /\ pending # Nil /\ Undisturbed
       => UnderWay \/ Renewing

(* sessionMu is locked only with a deadline, but for the moment before it is *)
(* armed.                                                                   *)
TimedInv == pc # "stamp" /\ sessionMu = "locked" => deadline # "none"

LEMMA TimedStep == ASSUME ReaderInv, TimedInv, [Next]_vars PROVE TimedInv'
<1> USE DEF TimedInv, ReaderInv, lockVars, workVars
<1>1. CASE TryLock \/ CheckDeadline \/ ResetMutex \/ RetryLock \/ ArmDeadline
  BY <1>1 DEF TryLock, CheckDeadline, ResetMutex, RetryLock, ArmDeadline, SetPendingStep
<1>2. CASE StoreHash \/ StorePending \/ RetryFindsClosed
  BY <1>2 DEF StoreHash, StorePending, RetryFindsClosed, SetPendingStep, AfterOffer, Return,
              NextAttempt
<1>3. CASE CreateOffer \/ OfferFindsClosed \/ CreateOfferFails
  BY <1>3 DEF CreateOffer, OfferFindsClosed, CreateOfferFails, AfterOffer, Return, NextAttempt
<1>4. CASE SetLocalDescription \/ LocalOfferRefused \/ SetLocalFails
  BY <1>4 DEF SetLocalDescription, LocalOfferRefused, SetLocalFails, AfterOffer, Return,
              NextAttempt
<1>5. CASE UsePending \/ NoPending \/ LoadHash
  BY <1>5 DEF UsePending, NoPending, LoadHash, AfterOffer, Return, NextAttempt
<1>6. CASE WriteOffer \/ WriteCloseSent \/ WriteFails
  BY <1>6 DEF WriteOffer, WriteCloseSent, WriteFails, Return, NextAttempt
<1>7. CASE Reading
  BY <1>7 DEF Reading, ReadSubscribe, ReadAnswer, ReadAnswerFails, ReadCommit, ReadAfterClose, SubmitCAS,
              SubmitSwap, SubmitUnlock, ReadLoopExits
<1>8. ASSUME NEW c \in Callers, Acquire(c) PROVE TimedInv'
  BY <1>8 DEF Acquire
<1>9. CASE \/ \E d \in Dispatchers : Call(d)
           \/ RetryWakes \/ Expire \/ ClientLeaves
  BY <1>9 DEF Call, RetryWakes, Expire, ClientLeaves
<1>10. CASE ConnectionFails \/ ConnectionCloses \/ ClientAnswers \/ ClientThrows \/ UNCHANGED vars
  BY <1>10 DEF ConnectionFails, ConnectionCloses, ClientAnswers, ClientThrows, vars
<1> QED
  BY <1>1, <1>2, <1>3, <1>4, <1>5, <1>6, <1>7, <1>8, <1>9, <1>10 DEF Next, Dispatching

(* The loop of SetPendingDesc, with signalMu held, never waits for a mutex   *)
(* that only a commit could release: whoever locked it has armed a deadline  *)
(* (what DispatchReturns and OfferIsRenewed rest on).                       *)
WaitIsTimed ==
  pc \in {"loop", "retry"} /\ sessionMu = "locked" => deadline \in {"armed", "expired"}

THEOREM LockHasDeadline == Spec => []WaitIsTimed
<1>1. Init => TimedInv
  BY DEF Init, TimedInv
<1>2. TypeOK /\ TimedInv => WaitIsTimed
  BY DEF TypeOK, TimedInv, WaitIsTimed
<1>3. QED
  BY <1>1, <1>2, TimedStep, ReaderInvariant, TypeCorrect, PTL DEF Spec

(* What does not touch the websocket, the commit or the hash. *)
LEMMA WayStays ==
  ASSUME UNCHANGED <<toClient, toServer, pendingHash>>,
         reader = "cas" => reader' = "cas" /\ commit' = commit
  PROVE  UnderWay => UnderWay'
BY DEF UnderWay

LEMMA DispatchWay ==
  ASSUME TypeOK, HashInv, ReaderInv, WayInv, Dispatching PROVE WayInv'
<1> USE DEF TypeOK, HashInv, Sent, OfferSteps, PendingSteps, ReaderInv, WayInv, Undisturbed,
           Renewing, Nil, lockVars, pendingVars, doneVars, pionVars, wsVars, readVars,
           mutexVars, workVars, boundVars
<1>1. CASE WriteOffer
  <2>1. toClient' = Append(toClient, msg) /\ UNCHANGED pendingHash
        /\ pc = "write" /\ pc' = "idle"
    BY <1>1 DEF WriteOffer, Return
  <2>2. Len(toClient) + 1 \in 1..Len(toClient') /\ toClient'[Len(toClient) + 1] = msg
    BY <2>1
  <2>3. msg.hash = pendingHash'  BY <2>1
  <2>4. UnderWay'  BY <2>2, <2>3 DEF UnderWay
  <2> QED BY <2>1, <2>4
<1>2. CASE WriteCloseSent
  BY <1>2 DEF WriteCloseSent, Return
<1>3. CASE WriteFails
  BY <1>3 DEF WriteFails, NextAttempt, Fault
<1>4. CASE CreateOffer
  BY <1>4 DEF CreateOffer
<1>5. CASE OfferFindsClosed
  BY <1>5 DEF OfferFindsClosed, AfterOffer, Return, NextAttempt
<1>6. CASE CreateOfferFails
  BY <1>6 DEF CreateOfferFails, AfterOffer, Return, NextAttempt, Fault
<1>7. CASE SetLocalDescription
  BY <1>7 DEF SetLocalDescription
<1>8. CASE LocalOfferRefused
  BY <1>8 DEF LocalOfferRefused
<1>9. CASE SetLocalFails
  BY <1>9 DEF SetLocalFails, AfterOffer, Return, NextAttempt, Fault
<1>10. CASE UsePending
  BY <1>10 DEF UsePending
<1>11. CASE NoPending
  BY <1>11 DEF NoPending, AfterOffer, Return, NextAttempt
<1>12. CASE LoadHash
  BY <1>12 DEF LoadHash, AfterOffer, Return, NextAttempt
<1>13. CASE TryLock
  BY <1>13 DEF TryLock, SetPendingStep
<1>14. CASE CheckDeadline
  BY <1>14 DEF CheckDeadline, SetPendingStep
<1>15. CASE ResetMutex
  BY <1>15 DEF ResetMutex, SetPendingStep
<1>16. CASE RetryLock
  BY <1>16 DEF RetryLock, SetPendingStep
<1>17. CASE RetryFindsClosed
  BY <1>17 DEF RetryFindsClosed, AfterOffer, Return, NextAttempt
<1>18. CASE ArmDeadline
  BY <1>18 DEF ArmDeadline, SetPendingStep
<1>19. CASE StoreHash
  BY <1>19 DEF StoreHash, SetPendingStep
<1>20. CASE StorePending
  BY <1>20 DEF StorePending, SetPendingStep
<1> QED
  BY <1>1, <1>2, <1>3, <1>4, <1>5, <1>6, <1>7, <1>8, <1>9, <1>10, <1>11, <1>12, <1>13, <1>14, <1>15, <1>16, <1>17, <1>18, <1>19, <1>20 DEF Dispatching

LEMMA ReadWay ==
  ASSUME TypeOK, HashInv, ReaderInv, WayInv, Reading
  PROVE  WayInv'
<1>0. /\ \A i \in 1..Len(toServer) : toServer[i] \in ClientMessages
      /\ toServer # << >> =>
           /\ Head(toServer) = toServer[1] /\ Len(Tail(toServer)) = Len(toServer) - 1
           /\ Len(toServer) \in Nat /\ Len(toServer) >= 1
           /\ \A i \in 1..Len(Tail(toServer)) : Tail(toServer)[i] = toServer[i + 1]
  BY DEF TypeOK
<1>a. ASSUME UnderWay, toServer # << >>, toServer' = Tail(toServer),
             UNCHANGED <<toClient, pendingHash>>, reader = "read",
             \/ toServer[1].type # "commit"
             \/ toServer[1].offer # pendingHash
             \/ reader' = "cas" /\ commit' = pendingHash
      PROVE  UnderWay'
  <2>1. CASE \E i \in 1..Len(toClient) : toClient[i].hash = pendingHash
    BY <1>a, <2>1 DEF UnderWay
  <2>2. ASSUME NEW i \in 1..Len(toServer),
               toServer[i].type = "commit", toServer[i].offer = pendingHash
        PROVE  UnderWay'
    <3>1. CASE i = 1  BY <1>a, <2>2, <3>1 DEF UnderWay
    <3>2. CASE i > 1
      <4>1. i - 1 \in 1..Len(toServer') /\ toServer'[i - 1] = toServer[i]
        BY <1>0, <1>a, <3>2
      <4>2. toServer'[i - 1].type = "commit" /\ toServer'[i - 1].offer = pendingHash'
        BY <1>a, <2>2, <4>1
      <4> QED BY <4>1, <4>2 DEF UnderWay
    <3> QED BY <3>1, <3>2
  <2> QED BY <1>a, <2>1, <2>2 DEF UnderWay
<1> USE DEF ReaderInv, WayInv, Undisturbed, Renewing, lockVars, pendingVars, doneVars,
           pionVars, wsVars, readVars, mutexVars, workVars, boundVars
<1>1. CASE ReadSubscribe
  BY <1>1 DEF ReadSubscribe, Received
<1>2. CASE ReadAnswer
  <2>1. /\ toServer # << >> /\ toServer' = Tail(toServer) /\ Head(toServer).type = "answer"
        /\ UNCHANGED <<mutexVars, workVars, lockVars, pendingVars, toClient, commit, close, boundVars>>
        /\ reader = "read" /\ reader' \in {"read", "exit"}
    BY <1>2 DEF ReadAnswer, Received
  <2>2. UnderWay => UnderWay'  BY <1>0, <1>a, <2>1
  <2> QED BY <2>1, <2>2
<1>9. CASE ReadAnswerFails
  <2>1. /\ toServer # << >> /\ toServer' = Tail(toServer) /\ Head(toServer).type = "answer"
        /\ UNCHANGED <<mutexVars, workVars, lockVars, pendingVars, toClient, commit, close>>
        /\ reader = "read" /\ reader' = "exit"
    BY <1>9 DEF ReadAnswerFails, Received
  <2> QED BY <2>1
<1>3. CASE ReadCommit
  <2>1. /\ toServer # << >> /\ toServer' = Tail(toServer) /\ Head(toServer).type = "commit"
        /\ UNCHANGED <<mutexVars, workVars, lockVars, pendingVars, toClient, close, boundVars>>
        /\ reader = "read"
        /\ \/ (pending = Nil \/ Head(toServer).offer = Nil) /\ UNCHANGED readVars
           \/ reader' = "cas" /\ commit' = Head(toServer).offer
    BY <1>3 DEF ReadCommit, Received
  <2>2. ASSUME pendingHash # Nil, pending # Nil, UnderWay PROVE UnderWay'
    <3>1. \/ toServer[1].offer # pendingHash
          \/ reader' = "cas" /\ commit' = pendingHash
      BY <1>0, <2>1, <2>2
    <3>2. UNCHANGED <<toClient, pendingHash>>
      BY <2>1
    <3> QED BY <1>a, <2>1, <2>2, <3>1, <3>2
  <2> QED BY <2>1, <2>2 DEF Nil
<1>4. CASE ReadAfterClose
  BY <1>4 DEF ReadAfterClose
<1>5. CASE SubmitCAS
  <2>1. /\ UNCHANGED <<mutexVars, workVars, lockVars, pending, wsVars, close, boundVars>>
        /\ reader = "cas"
        /\ \/ pendingHash = commit /\ pendingHash' = Nil
           \/ pendingHash # commit /\ pendingHash' = pendingHash
    BY <1>5 DEF SubmitCAS
  <2>2. pendingHash # commit => (UnderWay => UnderWay')  BY <2>1 DEF UnderWay
  <2>3. pc = "write" => pendingHash # commit
    BY <2>1 DEF HashInv, Sent, OfferSteps, PendingSteps, TypeOK
  <2> QED BY <2>1, <2>2, <2>3
<1>6. CASE SubmitSwap
  <2>1. UnderWay => UnderWay'  BY <1>6, WayStays DEF SubmitSwap
  <2> QED BY <1>6, <2>1 DEF SubmitSwap
<1>7. CASE SubmitUnlock
  <2>1. UnderWay => UnderWay'  BY <1>7, WayStays DEF SubmitUnlock
  <2> QED BY <1>7, <2>1 DEF SubmitUnlock
<1>8. CASE ReadLoopExits
  BY <1>8 DEF ReadLoopExits, Cancel
<1> QED BY <1>1, <1>2, <1>3, <1>4, <1>5, <1>6, <1>7, <1>8, <1>9 DEF Reading

LEMMA OtherWay ==
  ASSUME TypeOK, ReaderInv, WayInv,
         \/ \E d \in Dispatchers : Call(d)
         \/ \E c \in Callers : Acquire(c)
         \/ RetryWakes \/ Expire \/ ClientLeaves \/ ConnectionFails \/ ConnectionCloses
         \/ ClientAnswers \/ ClientThrows \/ UNCHANGED vars
  PROVE  WayInv'
<1> USE DEF ReaderInv, WayInv, Undisturbed, Renewing, lockVars, pendingVars, doneVars,
           pionVars, wsVars, readVars, mutexVars, workVars, boundVars
<1>1. ASSUME NEW d \in Dispatchers, Call(d) PROVE WayInv'
  BY <1>1 DEF Call
<1>2. ASSUME NEW c \in Callers, Acquire(c) PROVE WayInv'
  BY <1>2, NegotiationAssumption DEF Acquire
<1>3. CASE RetryWakes
  BY <1>3 DEF RetryWakes
<1>4. CASE Expire
  <2>1. UnderWay => UnderWay'  BY <1>4, WayStays DEF Expire
  <2> QED BY <1>4, <2>1 DEF Expire
<1>5. CASE ClientLeaves
  BY <1>5 DEF ClientLeaves
<1>6. CASE ConnectionFails
  BY <1>6 DEF ConnectionFails, Cancel
<1>7. CASE ConnectionCloses
  BY <1>7 DEF ConnectionCloses
<1>8. CASE ClientAnswers
  <2> DEFINE answer == [type |-> "answer", offer |-> Head(toClient).sdp]
             committing == [type |-> "commit", offer |-> Head(toClient).hash]
             n == Len(toServer)
  <2>1. /\ toClient # << >> /\ toClient' = Tail(toClient)
        /\ toServer' = Append(Append(toServer, answer), committing)
        /\ UNCHANGED <<mutexVars, workVars, lockVars, pendingVars, readVars, close, boundVars>>
    BY <1>8 DEF ClientAnswers
  <2>2. /\ n \in Nat /\ Len(toServer') = n + 2 /\ toServer'[n + 2] = committing
        /\ \A i \in 1..n : toServer'[i] = toServer[i]
    BY <2>1 DEF TypeOK
  <2>3. /\ Head(toClient) = toClient[1] /\ Len(toClient') = Len(toClient) - 1
        /\ Len(toClient) \in Nat /\ Len(toClient) >= 1
        /\ \A i \in 1..Len(toClient') : toClient'[i] = toClient[i + 1]
    BY <2>1 DEF TypeOK
  <2>4. ASSUME NEW i \in 1..Len(toClient), toClient[i].hash = pendingHash PROVE UnderWay'
    <3>1. CASE i = 1
      <4>1. n + 2 \in 1..Len(toServer')  BY <2>2
      <4>2. toServer'[n + 2].type = "commit" /\ toServer'[n + 2].offer = pendingHash'
        BY <2>1, <2>2, <2>3, <2>4, <3>1
      <4> QED BY <4>1, <4>2 DEF UnderWay
    <3>2. CASE i > 1
      <4>1. i - 1 \in 1..Len(toClient') /\ toClient'[i - 1] = toClient[i]  BY <2>3, <3>2
      <4>2. toClient'[i - 1].hash = pendingHash'  BY <2>1, <2>4, <4>1
      <4> QED BY <4>1, <4>2 DEF UnderWay
    <3> QED BY <3>1, <3>2
  <2>5. ASSUME NEW i \in 1..n, toServer[i].type = "commit", toServer[i].offer = pendingHash
        PROVE  UnderWay'
    <3>1. i \in 1..Len(toServer') /\ toServer'[i] = toServer[i]  BY <2>2
    <3> QED BY <2>1, <2>5, <3>1 DEF UnderWay
  <2>6. reader = "cas" /\ commit = pendingHash => UnderWay'  BY <2>1 DEF UnderWay
  <2>7. UnderWay => UnderWay'  BY <2>4, <2>5, <2>6 DEF UnderWay
  <2> QED BY <2>1, <2>7
<1>9. CASE ClientThrows
  BY <1>9 DEF ClientThrows, TypeOK
<1>10. CASE UNCHANGED vars
  <2>1. UnderWay => UnderWay'  BY <1>10, WayStays DEF vars
  <2> QED BY <1>10, <2>1 DEF vars
<1> QED BY <1>1, <1>2, <1>3, <1>4, <1>5, <1>6, <1>7, <1>8, <1>9, <1>10

LEMMA WayInvariant == Spec => []WayInv
<1>1. Init => WayInv
  BY DEF Init, WayInv, Nil
<1>2. TypeOK /\ HashInv /\ ReaderInv /\ WayInv /\ [Next]_vars => WayInv'
  BY DispatchWay, ReadWay, OtherWay DEF Next
<1>3. QED
  BY <1>1, <1>2, HashInvariant, ReaderInvariant, TypeCorrect, PTL DEF Spec

(* Without a failure only a Submit of an older offer, by taking its           *)
(* description out of pending, can make the server forget an offer: while     *)
(* the description of an open peer's offer is pending and no goroutine is      *)
(* making an offer or about to, its hash is on the websocket or in a Submit.   *)
OfferIsUnderWay ==
  /\ pendingHash # Nil /\ pending # Nil /\ Undisturbed
  /\ holder = NoOne /\ ~ Renewing
  => UnderWay

THEOREM NoOfferIsForgotten == Spec => []OfferIsUnderWay
<1>1. WayInv => OfferIsUnderWay
  BY DEF WayInv, OfferIsUnderWay
<1>2. QED
  BY <1>1, WayInvariant, PTL
=============================================================================
