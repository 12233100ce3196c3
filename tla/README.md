# Verification of the conferencing platform

TLA+ models of the media server and its browser client, TLC instances that
check them, and TLAPS proofs. Paths are relative to `src/`; `sfu/` stands for
`media-server/pkg/sfu/`, `room/` for `media-server/internal/room/`.

Run a model with `tlc -workers 2 -config X.cfg MCModule`, the proofs of a
component with `tlapm XProofs.tla`: each file takes a few seconds to a minute.

## 1. Inventory

The platform is a selective forwarding unit. A browser joins a room over a
websocket; the server makes a pion `PeerConnection` for it, takes the tracks it
publishes and forwards them to every other peer of the room.

| Part | State | Operations | Talks to | What is hard | What makes it correct |
|---|---|---|---|---|---|
| Signaling and offer state: `sfu/signal.go`, `sfu/peercontext.go` | `signalMu`; per offer `pending`, `pendingHash`, `negotiated`, `negotiatedHash`, `sessionMu` and its one second deadline; pion's signaling state | `DispatchOffer`, `Offer`, `SetPendingDesc`, `Submit`, `SetAnswer` | websocket, retry goroutines, sanitizers | a mutex taken by one goroutine and released by another, or thrown away by a timer; three atomics changed one at a time; a retry that overlaps a late answer | one open offer at a time, committed at most once; the hash sent is that of the description sent; nobody waits for ever |
| Browser signaling: `client/src/App.tsx` (`useRoom`, `Signal`, `RTCEngine`), `rtc/SignalProvider.tsx`, `rtc/SubscriberProvider.tsx`, `routes/r/RoomPage.tsx` | the route, one socket and one `RTCPeerConnection` per join, two contexts that hold the page's pair | join, commit, clean-up, the offer handler (answer, then commit) | websocket, camera, stream list | joins that continue after an await on a page that has moved on; clean-ups that run at React's commit; closures that see an old render | one open connection per page; its streams only; the camera sent from every connection opened on a room's page |
| Subscriber: `sfu/subscriber.go` | `tracks`, `tracksMu`, an unbuffered channel of attach requests | `AttachTrack`, `HandleTrackAttach`, `DeleteTrack`, observers | publishers, sanitizers, transceiver pool, pion | many senders on one channel, acks, an entry deleted while it is attached again | one observer per entry; a live track is sent; a dead one leaves |
| Transceiver pool: `sfu/transceiverpool.go` | `pool` by mid | `Get`, `Release` | subscriber | the mid changes while a transceiver is in the pool | a transceiver has one user; none is lost |
| Publishing: `sfu/peercontext.go` `OnTrack`, `sfu/peercontextpool.go` | `publishTracks`, `onTrackMu` | publish, distribute, end | every subscriber of the room | a blocked subscriber blocks the publisher | every peer gets every track |
| Filters: `sfu/trackcontext.go`, `sfu/pipeline.go`, `internal/pipeline/` | filter, pipeline and writer of a track | `SetFilter`, `SwitchActiveTrackMedia` | GStreamer through cgo, observers | switching media under a running sender | one sender per subscriber and track |
| Join and pool: `room/room_controller.go`, `sfu/peercontextpool.go` | `peerConnectionMu`, the statistics channel, `pool` | `RoomJoin`, `Add`, `Remove` | pion's state handlers, notifier | three goroutines race for the pool | a peer that has left stays out of the pool; the gate pairs each join with its own statistics |
| Room notifier: `room/room_service.go`, `client/src/room/RoomProvider.tsx` | `listeners`, `updateRoomsMu`, an unbuffered channel; the page's debounce and its list | `Listen`, `DispatchUpdateRooms`, `OnUpdateRooms`, fetch | join, pages | a send under a mutex; fetches that overtake each other | every dispatch returns; every change reaches the pages that listen |
| Identity: `media-server/internal/identity/` | users, private keys, refresh tokens in SQL | sign up, sign in, verify, renew | storage, HTTP | read-then-insert, a rollback that hides an error | a token's key is committed and its user's; sessions do not share keys |
| Client session: `client/src/rtc/AuthProvider.tsx`, `AppLayout.tsx`, `hooks/useForm.ts` | the token pair in memory and in cookies, the form | sign in, sign out, reload, validate | identity over HTTP, AuthWall | cookies per directory; answers that come after a sign-out | a reload should find the session the user has, which the code does not promise (section 3); one browser's session drives its camera |
| Client camera: `client/src/rtc/MediaStreamProvider.tsx`, `rtc/ControlsProvider.tsx`, `workers/` | prompts, the default stream, face-detection streams and their workers, two mutes | start, switch, mute, sink | the browser, peer connection | promises and effects with old closures; effects of several components on one stream | muted is silent; a worker runs exactly while its stream is shown |
| Remote streams: `client/src/rtc/RoomMediaStreamListProvider.tsx`, `App.tsx` (`Mutex`, `RoomStream`) | a promise of a list, a mutex per render, statistics per tile | asynchronous reducer, `getStats` | peer connection, gallery | calls of one render race for its mutex | every action applied once, in order; one tile per stream |
| Layout: `client/src/utils/resize.ts`, `routes/r/RoomPage.tsx` | one observer's flag and entries, sizes per element | observe, deliver, select a grid | the browser | a shared flag; a recursion that looks again with fewer grids | the grid fits; the size known is the size there is |

Storage, HTTP decoding, wiring, the GStreamer bindings and the markup hold
no logic of this kind; `PROJECT.json` lists them with the reason for each.
`PROJECT.json` also lists the hazards, each at its line, with the property that
covers it or the reason none does.

## 2. Modules

| Module | Models | About |
|---|---|---|
| `OfferLog` | nothing of its own | abstract promise of `SessionDesc` |
| `Negotiation` | signaling, offer state, read loop, browser's offer handler | one peer; implements `OfferLog` |
| `NegotiationProofs` | | theorems about `Negotiation` |
| `Subscription`, `SubscriptionProofs` | subscriber, transceiver pool, sanitizers, publishers as environment | one receiving peer |
| `Rooms`, `RoomsProofs` | join gate, state handlers, pool, notifier, pages | one room |
| `Filters`, `FiltersProofs` | `SetFilter`, `SwitchActiveTrackMedia`, the observers of a track | one published track and the peers that send it on |
| `Identity`, `IdentityProofs` | sign up, sign in, verify, renew, `WithTransaction` | the accounts, keys and tokens of the server |
| `Conference`, `ConferenceProofs` | `useRoom`, `Signal`, the two contexts, `RoomPage`, `AuthWall` | one page of the browser client entering and leaving rooms |
| `Session`, `Media`, `Client`, `ClientProofs` | `AuthProvider` and the form; the camera, its workers and the mutes; both composed | one browser |
| `PromiseMutex`, `StreamList`, `ListLog` | the `Mutex` class; the asynchronous reducer; what it promises | the streams of a connection; `StreamList` implements `ListLog` |
| `Layout`, `Gallery`, `GalleryProofs` | `resize.ts`, the grids; their composition with `StreamList` and the tiles | one room page |
| `MC...` | | model values for TLC, one per run's module |

### Negotiation

An offer is its number, counting from 1; its hash is the same number, because
pion raises the session version of every offer; 0 is the nil description and
the empty hash. `signalMu` serialises `DispatchOffer`, so one program counter
`pc` with the holder's name is enough for all of its callers: the dispatchers,
the read loop (`subscribe`) and the goroutines `DispatchOffer` spawns to retry.
The steps between two atomics of `Offer` and `SetPendingDesc` are steps of the
model, and so are the compare-and-swap, the swap and the unlock of `Submit`.
`toClient` and `toServer` are the two directions of the websocket, FIFO because
`ThreadSafeWriter` writes one message at a time. `Expire` is the one second
deadline of the pending offer, at any time after it was armed. Every call of
pion and every write may fail, `MaxFaults` times. Nothing orders a
`SetPendingDesc` and a `Submit`: a deadline may expire, and the mutex, the hash
and the description be replaced, between any two steps of a commit.

`Log == INSTANCE OfferLog` maps `last`, `open`, `committed` to `made`,
`pendingHash`, `negotiatedHash`. `OfferLog` allows a step of the code only if an
offer is committed at most once and never after a newer one.

### Subscription

One subscriber. `tracks[k]` is the transceiver an attached track uses; a
transceiver is the number of its creation, with its sender, its direction and
whether it has a mid. `handler` is the goroutine `HandleTrackAttach`, the only
reader of the channel; `runs` are the goroutines that wait on it: tickers,
`SynchronizeOfferState`, `ObserveSubscriber` (`Bus`) and the sanitizer an
observer runs when its track has ended (`Leavers`). Tracks are published,
distributed and ended by the environment, in the order the publisher's `OnTrack`
does it. A publisher can join the pool after it published, a track can end
before its first offer, and a sanitizer's map can be older than an attachment.
Every `DispatchOffer` gives the mids, a sanitizer's and anybody else's. The
snapshot of `PeerPublishingSenders` is one step.

Left out: `HandleTrackDetach`, because its caller `TrackDownStopToPeers` runs
under the context of the track that has ended and sends nothing; the branch of
`removeUnpublishSenders` for a sender that differs from its track, which changes
nothing; the media switch (Filters).

### Rooms

`join[p]` is where `RoomControllerRoomJoin` is for a peer; `tasks` are the
goroutines pion starts for the state handler, which run in any order, with each
other and with the clean-up. `gate` is `peerConnectionMu`, held while
`NewPeerContext` runs and its statistics are taken from the channel. `notifyMu`
is `updateRoomsMu`; `reading` says that `OnUpdateRooms` has taken a notice and
has still to read the listeners, `writing` which of them it has still to write
to. A page fetches when it is mounted, listens at any time, and fetches again
when its debounce timer (`due`) fires; its requests (`asked`) and their answers
(`fetched`) overlap and arrive in any order. `Stop` is left out: after the
upgrade nothing cancels the context its caller waits for.

### Filters

One published track. A local track (the object a sender reads from) is the
number of its installation by `SetFilter`, a sender the number of its creation
at its peer; `media` is the local track of the moment, `sends[s][n]` the one
sender `n` of peer `s` has. `sub[s]` follows a peer from `HandleTrackAttach`
("attach", "stored") to `ObserveTrack` ("select", "switch", "sanitize"); a
switch that falls between the two finds no observer and is missed. `track` is live, ended or removed from the
publisher; `server` is aborted once a goroutine has panicked. `spawned` and
`blocked` are the goroutines of `dispatch`: one that has not run yet can still find the channel
closed, one that is blocked is woken by the end of the track. A failed
allocation makes `pipe.Start()` of a nil pipeline panic; the clean-up of the
websocket handler then closes the publisher.

Left out: packets and samples; pipelines, which only ever start; the audio stub
of `HandleTrackAttach` for a peer's own audio; a second attachment of the same
track after its deletion (`Subscription` has those).

### Identity

`at[r]` is where a request is, or how it was answered: "ok" with a pair,
"verified", "refused" with an error, "null" (a sign-in that swallowed the
error of `userNewTokenPair` and answers 200 with `null`), "aborted" (the
handler panicked). Each SQL statement is a step; a transaction shows its key to
others only at its commit, so the insert of `user_private_keys` and the commit
are one step. `WithTransaction` returns the result of the rollback: `RollsBack`
is the failure that is taken for a success. `GetUserPrivateKey` picks any key of
the user, as `LIMIT 1` without an order does. A token carries its claims, its
key and, for the property about sessions, the sign-in it goes back to. Passwords
are "right", "wrong" or "long", the last being more than bcrypt takes.

Left out: time (any token may be refused as expired), signatures (a token cannot
be forged), empty fields, sign-out, which panics as unimplemented.

### Conference

A join is one call of `useRoom`'s `join`; its number also names its `Signal` and
its `RTCEngine`. `step[j]` follows it from RoomPage's effect ("gated", until the
camera's gate opens) over `isSameRoom` ("same") to its socket. `signal` is the
committed state of both contexts, `next` what `setSignal` and `setPeerContext`
have asked for; `Commit` is React's commit, with the clean-ups of the old pair,
which clear the list and close it, and the effect of `sinkMediaStream` in their
order: passive effects, which `PromptRender` has run with the commit. The
sockets of several joins open in any order. `join` is a callback without dependencies, so `sees[j]` is the signal of
RoomPage's first render, not that of the moment. `sends[j]` tells a connection
without senders ("new") from one whose senders an offer has made without tracks
("bare"), which no sink fills.

### Session, Media and Client

A token pair stands for the user it was given to. `cookies` has one entry per
directory, "/" and "/r": the code sets and removes cookies without a path. The
start page and a room's page both show the form while `tokenPair` is none, and
the button of sign-out while it is not; requests of the form that are
under way are answered, or fail, at any later time.

In `Media` stream 1 is the default one, asked for once per load of the program;
the others have face detection and a worker of the same number. `nextStream` is
what `setMediaStream` asked for; `held` is the worker in the closure of the
clean-up effect, which is the one of the render that registered it. `enabled`
are the tracks whose `enabled` flag is set, `sent` the stream whose tracks the
peer connection has. The prompts are answered per kind, in any order.

`Client` mounts and unmounts `Media` with the token pair of `Session`.

### PromiseMutex, StreamList, Layout and Gallery

A `PromiseMutex` counts: `lock` number n resolves when n - 1 unlocks have run.
`StreamList` is a `useReducer` whose reducer is asynchronous: `Render` calls it
for all dispatched actions at once, with the render's new mutex; `TakeTicket`,
`Reduce` and `Return` are the continuations between its awaits. They wait only
for promises, so all return before the next event of the browser (`Idle`).
`ListLog` applies a queue of actions one by one: `Log!Spec` is checked as a
property. `Layout` follows widths through one `ResizeObserver`, its animation
frame and `useSize`; `SelectSize` is the recursion of the code as a recursive
function. `Gallery` composes both with the tiles, which say "Loading" until the
merged statistics of a stream count a decoded frame, and which are gone, with
what they knew, when the room's page is unmounted.

## 3. Runs

No run checks deadlock: a peer that has left, and a room whose peers have all
ended, do stop. Waiting for ever is what the liveness properties exclude.

| Run | Checks | Distinct states | Shows |
|---|---|---|---|
| `negotiation` | `TypeOK`, `OfferCarriesOwnHash`, `CommittedWasAnswered`, `NegotiatedNotOlder`, `ClosedOfferIsUnlocked`, `LogSpec` | 540,000 | with every interleaving of `SetPendingDesc` and `Submit` and one fault: hash and description agree, commits follow accepted answers, what is taken as negotiated is never older than what was committed, a committed offer leaves no lock behind, `OfferLog` is implemented |
| `negotiation_live` | `DispatchReturns`, `OfferIsRenewed` | 46,000 | every call returns, the read loop that waits for its own commit included; whatever fails, an open offer is committed or replaced |
| `negotiation_panics` | `NoPanic` | violated | finding: `Submit` unlocks a mutex that is not locked, after 24 steps |
| `subscription` | `OneObserverPerEntry`, `TransceiverOwnedOnce`, `TransceiversAreReused`, `PublishedKeepsSender` | 3,254,000 | two tracks (symmetric), in four settings: a fault beside an observer's last sanitizer, a fault and two observers at their end, the same two without a fault, or a ticker: one observer per entry, one user per transceiver, two lost per fault, and one way only to lose a sender |
| `subscription_live` | `AttachReturns`, `LiveTrackIsAttached`, `DeadTrackIsDropped` | 53,000 | no cyclic wait; tracks arrive and leave |
| `subscription_panics` | `NeverMustBeHere` | violated | finding: a reused transceiver reaches the pool's panic, after 24 steps |
| `rooms` | `GatePairs`, `UpdateReturns`, `PageHears`, `PeerLeavesForGood` | 156,000 | a peer that connects, recovers or fails, one that joins beside it, a page and one failed `NewPeerContext`; handlers, clean-ups, requests and answers in any order: the gate pairs, dispatches return, changes reach the page, who has left stays away |
| `filters` | `TypeOK`, `CurrentMediaIsSent`, `OneRunningSender`, `FilterReaches` | 41,700 | two switches at any time, two peers, one fault: every peer that was told of a switch ends up with the last filter, the first switch leaves one running sender |
| `identity` | `TypeOK`, `TokenIsOwners`, `OneSessionPerRefreshKey`, `RenewalMakesNoKey` | 56,000 | three requests of two users, one failure: keys of tokens are committed and their users', sessions share no refresh key, renewals make none |
| `gallery` | `GridIsBest`, `ListIsApplied`, `PageSettles` | 272,000 | two streams gain and lose tracks, the peer is replaced, window and page change: the list implements `ListLog`, the grid is the best for the width known, the page comes to rest on one playing tile per stream |
| `conference` | `NoOrphan`, `StreamsAreCurrent`, `MediaBeforeOffer` | 7,032,000 | two rooms, four joins, two sign-ins, with sockets refused, dropped and opening in any order: one connection, with its streams only and the camera on it |
| `client` | `MutedMeansSilent`, `WorkerIsShown` | 3,368,000 | two users, three sign-in requests on either page, four streams, reloads, prompts and mutes in any order |

### What the code does not guarantee

`PromptRender` is the only restriction of a run that the code does not enforce:
React renders an update, with its effects, before the browser's next event. In
`Conference` a socket's handshake and a click take longer than a render;
without it a connection is replaced before it was ever committed, and nobody
closes it. In `StreamList` a track does not come back before its removal was
applied, because that takes an exchange with the server.

Everything else is left to happen, and a property says only what the code keeps
through it. What it does not keep:

- Negotiation. A deadline that expires inside a `Submit` can make its `Unlock`
  abort the process (`negotiation_panics`), can leave an offer without lock, and
  lets `Submit` take another offer's description as negotiated: that of a newer
  offer, as `NegotiatedNotOlder` says. The commit of that newer offer then finds
  nothing pending (`peercontext.go:103`); its hash stays until a later
  `SetPendingDesc`, so `OfferIsRenewed` needs another call, and the pool's
  tickers make one every ten seconds. The fallback of `Offer`
  (`peercontext.go:522`) sends the newest pending offer even if
  `SetLocalDescription` has refused it; `CommittedWasAnswered` and `LogSpec`
  hold with it.
- Subscription. Once a transceiver kept under the empty mid has got a mid, it
  can be handed out twice: `TransceiverOwnedOnce` and `PublishedKeepsSender`
  speak of the time before. A track published between a sanitizer's map and its
  removal loses its sender and is never attached again, because its entry stays
  (`peercontextpool.go:209`, "here may be bug if sender not attached");
  `PublishedKeepsSender` says that this is the only way to lose one.
- Rooms. A Connected handler that reaches `Add` only after the clean-up's
  `Remove` leaves a dead peer in the pool (13 steps); `PeerLeavesForGood` excepts
  that handler alone. The Closed handler that removes such a peer again tells
  nobody. The last answer a page shows may be older than another one, and a
  change between its first request and `Listen` waits for the next notice:
  `PageHears` says that each change is shown to those that listen, not that it
  is the last thing shown. After a failed `NewPeerContext` `SetStats` on the nil
  peer panics with the gate locked, or waits for statistics with it locked:
  `GatePairs` promises progress without a failure, pairing always.
- Filters. A switch between a peer's `GetLocalTrack` and its `TrackObserver` is
  missed (5 steps), and the peer keeps the old filter until the next switch:
  `CurrentMediaIsSent` speaks of peers that were told of one, `FilterReaches` of
  those that observe when the filter is set. `SwitchActiveTrackMedia` stores the
  sender it has just stopped (`trackcontext.go:561`), so after a second switch
  two senders run (14 steps): `OneRunningSender` speaks of the first. A sender
  that cannot be made is not tried again: both media properties hold until
  something fails.
- Conference. A page may end up in another room than its route's:
  `isSameRoom` compares with the signal of RoomPage's first render, so a user
  who goes away and comes back stays in the other room (12 steps), and of two
  sockets under way the one that opens last wins, which may be the older one (9
  steps). Sockets a layout was still opening when its user signed out stay open:
  their setters do nothing, and nobody closes them; `NoOrphan` excepts them. If
  camera and microphone are denied the gate never opens, and the page joins
  nothing. A connection whose socket opens on the start page, where
  `sinkMediaStream` is not mounted, gets an offer without the camera's tracks
  and stays bare; a room's page mounted over it finds it like that, which is the
  exception of `MediaBeforeOffer`.
- Session. Cookies set on a room's page are not those of the start page (3
  steps): a reload there finds no session, and a sign-out on one page leaves the
  cookies of the other. No property is stated of a reload.
- Camera. A stream switched on the start page leaves the room with the old one,
  which the mute buttons no longer govern: `MutedMeansSilent` speaks of a room's
  page. A worker whose stream is never shown, because its start failed or was
  overtaken, is terminated by nobody: `startFaceDetectionStream` makes the
  worker first. `WorkerIsShown` excepts it.

### Bounds

| Bound | Value | Why it is enough |
|---|---|---|
| `Dispatchers` | one | dispatchers run one at a time under `signalMu`; with the read loop and the retry goroutine there are three callers |
| `MaxAttempts` | 1 (25 in the code) | a call has two attempts: one that meets an open offer and a last one; more repeat the first |
| `MaxCalls` | 2; 1 in `negotiation_live` and `negotiation_panics` | calls of the dispatchers and `subscribe` messages; with two attempts each, up to six offers |
| `MaxFaults` | 0 or 1 | one failure at any step of any call |
| `Tracks` | two, one in `subscription_live` | the second takes what the first released |
| `MaxXcvrs` | 5, 4 with one track | two stubs, one per track, and one more; a fault that costs two transceivers is reached with them |
| `Leavers` | two in `subscription`, of which one gets further than its start; else one | observers whose tracks end together sanitize one after the other |
| `MayClose` | TRUE in `subscription_live` only | closing stops the handler, which is where waiting is at risk |
| `Peers`, `Listeners` | two and one | peers meet at the gate and at the notifier only, where one peer has dispatchers of its own: its clean-up and its handlers; pages meet nowhere |
| `Subs`, `MaxSwitches` | two and two | peers meet in `dispatch` only; a second switch can overtake the first anywhere between its dispatch and the new sender |
| `Names`, `Requests`, `MaxKeys` | two, three (symmetric), four | one sign-in, and a renewal and another sign-in that race after it; a sign-in needs two keys |
| `MaxEvents`, `MaxLeaves` | two for one peer, none for the other; one | connect and fail, or connect and leave; the clean-up closes the connection besides. The other peer is at the gate |
| `Streams`, `MaxDispatches` | two and three | a removal, a mutation and a clear meet in one render and in two; each render has a new mutex |
| `Windows`, `MaxResizes` | 500 and 760; one | below and above the navigation bar's and the wide grids' widths; one change of window or page, any time |
| `Rooms`, `MaxJoins`, `MaxMounts` (`Conference`) | two (symmetric), four, two | away, back and away again while the first socket is opening; a sign-out in between |
| `Users`, `MaxSignIns` | two (symmetric), three | one session, and two answers that come after its end, of either user |
| `MaxStreams` | four | a shown face detection, one that replaces it and one that is overtaken |

### Fairness

`Negotiation`: goroutines that can run do (weak fairness); a waiter on
`signalMu` gets it in turn (strong; Go hands over a mutex contended for 1ms);
the timer fires; the browser handles what it receives; the room's ticker goes on
calling `DispatchOffer`. Nothing is assumed of faults and of leaving.

`Subscription`: handler (weak), observers and whoever sends on the channel
(strong: Go serves blocked senders in the order they came), tickers, and the
return of `OnTrack` once a track is done. Publishing, ending, closing and the
offers of others are not fair.

`Rooms`: as long as a goroutine, a write to a listener, a timer, a request or an
answer can go on, one of them does (one weak condition for all: a behaviour
has finitely many events). A write that never ends would stop every dispatch,
see the hazards. Nobody has to connect, fail, leave or listen.

`Filters`: dispatch goroutines and observers run (weak fairness), and a sanitize
returns, which is what `Negotiation` and `Subscription` are about. Nobody has to
attach, switch or end.

`Gallery`: promise continuations, renders, animation frames, the observer, the
half-second timer and the decoder run (weak fairness). Nobody has to publish,
leave or resize.

## 4. Proofs

`NegotiationProofs` proves, for every set of dispatchers and every bound, from
`NegotiationAssumption` only:

| Theorem | States | Inductive invariant |
|---|---|---|
| `TypeCorrect` | `Spec => []TypeOK` | `TypeOK` itself |
| `ImplementsLog` | `Spec => LogSpec` | `LogInv`: hashes never exceed the offers made, the open offer is newer than the negotiated one, and so is the draft on its way |
| `OfferHashCorrect` | `Spec => []OfferCarriesOwnHash` | `HashInv`: while `Offer` runs, the draft is the newest offer, and what can change under its feet becomes nil rather than another offer |
| `CommittedOfferFreesLock` | `Spec => []ClosedOfferIsUnlocked` | `FreeInv`: the offer being stored cannot be committed yet, a locked mutex has been marked as such, and only the last two steps of `Submit` find it locked for an offer whose hash is gone |
| `NegotiatedIsNotOlder` | `Spec => []NegotiatedNotOlder` | `NewerInv`: the pending description is missing only between the two stores, and what `Submit` swaps out is not older than what it compared |
| `CommitCorrect` | `Spec => CommittedWasAnswered` | `AnswerInv`: on the websocket a commit follows the answer of its offer, and the read loop reaches the commit only if pion accepted that answer |
| `LockHasDeadline` | `Spec => []WaitIsTimed` | `TimedInv`: but for the moment before it is armed, a locked `sessionMu` has a deadline |
| `NoOfferIsForgotten` | `Spec => []OfferIsUnderWay` | `WayInv`: without faults, an offer of an open peer whose description is pending is on the websocket or in a `Submit` (`UnderWay`), or a goroutine is about to supersede it (`Renewing`). Only a `Submit` of an older offer, by taking the description, can make the server forget it |

`ReaderInv` ties the read loop to its place at `signalMu` and supports all from
`CommittedOfferFreesLock` on. All hold with `SetPendingDesc` running in the
middle of a `Submit`. None of the properties is inductive by itself: each speaks of one moment of
the exchange, and the strengthening says what the program counters in between
guarantee. Every module with a theorem is free of `RECURSIVE` operators.

`IdentityProofs` proves, for any users and requests and every bound, from
`IdentityAssumption` only, `TypeCorrect` (`[]TypeOK`), `TokensCorrect`
(`[]TokenIsOwners`), `SessionsCorrect` (`[]OneSessionPerRefreshKey`) and
`RenewalsCorrect` (`[]RenewalMakesNoKey`) from one inductive invariant,
`KeyInv`, that follows a key: numbers not yet given out have no owner
(`KeysAreFresh`); a key is the last of at most one request (`KeyHasMaker`), and
nobody's until that request commits (`CommittingIsNobodys`); a request that
signs has committed keys of its user (`SignsWithOwn`); a renewal holds a refresh
token of its user (`RenewsOwn`); and a refresh token's key is the last its
sign-in made (`SessionHasKey`). Most handlers only move a request on; lemma
`MoveKeeps` treats those at once.

`SubscriptionProofs` proves, for any tracks, goroutines, bounds and settings,
from `SubscriptionAssumption` only, every safety property of `Subscription` a
passing run checks, from one inductive invariant, `PeerInv`:

| Theorem | States | Part of the inductive invariant |
|---|---|---|
| `EntriesAreWatched` | `Spec => []OneObserverPerEntry` | `WatchInv`: what `HandleTrackAttach` has read stays so, because only it makes entries |
| `TransceiversAreOwned` | `Spec => []TransceiverOwnedOnce` | `PoolInv`: a transceiver with a mid is kept under it (`KeptUnderMid`), the one being handed out is nobody's (`HandedOut`), and the exception of the property never ends (`Stale`): a stale entry keeps the pool from ever looking empty, so no transceiver is made any more, all have a mid, and no later `Release` replaces the entry |
| `AnswersReachWhoAsks` | `Spec => []Served` | `AskInv`: a goroutine waits for an ack exactly while the handler has its request in hand, so the one unbuffered channel never answers the wrong caller |
| `TransceiversAreNotLost` | `Spec => []TransceiversAreReused` | `LossInv`: besides the lost transceivers it counts the loose ones, which have no mid yet and can be put away under the same empty key as another; an attachment that has been observed makes `ObserveSubscriber` `Busy` with an offer, so there is at most one more of them than failures allow |
| `SendersAreKept` | `Spec => PublishedKeepsSender` | `SendInv`: a `DeleteTrack` that has still to remove its sender has dropped the entry, and the handler cannot make a new one meanwhile, since it looks for it under `tracksMu` (`DeletesAlone`); with `PoolInv`, the sender removed is then no other track's |

The attempt to prove the third property with one lost transceiver per failure
failed, for a reason: once two tracks can end in one behaviour TLC finds a
failure that costs two, one in the handler's hand and one of two stored under the
empty mid. The property says two since.

`GalleryProofs` proves, for any finite set of streams, any windows and bounds,
from `StreamListAssumption` and `LayoutAssumption` only:

| Theorem | States | Argument |
|---|---|---|
| `SelectedGridIsBest` | `Spec => []GridIsBest` | the recursion of `selectSize` is a recursive function over a list of four; lemma `Turns` shows that its fixed point exists, `TurnAt` that any fixed point agrees with it, without induction |
| `StillPageIsMeasured` | `Spec => [](Still => Measured)` | `LayoutInv`: the flag of `createResizeObserver` is set exactly while a frame is due (`Entered`), and what is reported and not waiting is what `useSize` returns (`Reported`) |
| `OldestCallAdvances` | `Spec => []Advances` | `InTurn`: the calls of a render hold consecutive tickets of its mutex, and those given back are exactly the earlier ones |
| `ListIsALog` | `Spec => Log!Safety` | `ListInv`: only the oldest call has been applied, with the list the call before it returned (`OneAtATime`); `LogStep` maps `Return` to `Apply`, a dispatch to `Give` and every other step to a stutter |
| `RestingPageIsRight` | `Spec => []AtRest` | `RestInv`: for every stream the last waiting action about it, or the list if there is none, agrees with the browser (`Right`); calls and renders use the actions up in order |

`FiltersProofs` proves, for any peers and bounds, from `FiltersAssumption` only,
`TypeCorrect`, `FirstSwitchStopsItsSender` (`[]OneRunningSender`) and
`LastFilterIsSent` (`[]CurrentMediaIsSent`). `FiltersInv` counts: local tracks,
a peer's senders and switches, and the goroutines on their way to an observer.
These are there whenever a peer that has been told of a switch is not up to date
(`Follows`); of a peer that has not, a switch may have been missed.

`RoomsProofs` proves, for any peers and pages, from `RoomsAssumption` only:
`GateIsPaired` (`[]GatePairs`) from `GateInv`, which says whose statistics are
in the channel, also after another join has failed in the gate;
`NotifierHasSender`, that whoever holds `updateRoomsMu` still has a notice to
send (`HolderWaits`); and `GoneStaysGone`: a peer whose connection is closed,
which is out of the pool and has no handler before its `Add`, is never added
again, because no handler starts on a closed connection but the one that removes
(`ClosedBefore`).

`ConferenceProofs` proves, for any rooms and bounds, from `ConferenceAssumption`
only, `PageTyped` (`[]TypeOK`) and, if `PromptRender`, `PageIsInOneRoom`
(`[]NoOrphan`), `GalleryIsOfTheRoom` (`[]StreamsAreCurrent`) and `CameraIsFirst`
(`[]MediaBeforeOffer`), which are inductive together with the order of the
mounts and with `SendersComeLate`: a connection has no senders before it is
committed, and only one whose socket has opened is (`ConnectionInv`). No order
of the sockets is assumed.

`ClientProofs` proves, for any users and streams, from `SessionAssumption` and
`MediaAssumption` only: `ShownFaceHasItsWorker` (`[]WorkerIsShown`) from
`WorkerInv`, which says where the worker of the next, of the shown and of the
replaced stream is; `MutedTracksAreSilent` (`[]MutedMeansSilent`) from
`SilenceInv`, which says which stream a mute governs while the next one waits
for React. Both hold however the session changes under them.

Every safety property a passing run checks is the subject of a theorem. Only
model-checked are the liveness properties: the prover has neither fairness nor
`ENABLED`. What several of them rest on is a safety fact, and that is proved,
for every instance; that the steps it speaks of are taken in the end is left to
the runs.

| Model-checked | The safety fact it rests on |
|---|---|
| `ListIsApplied` | `ListIsALog`, the safety part of its abstract specification; `OldestCallAdvances` |
| `PageSettles` | `RestingPageIsRight`: where the page comes to rest, it is right |
| `AttachReturns` | `AnswersReachWhoAsks`: who waits for an ack is who will get it |
| `DeadTrackIsDropped` | `EntriesAreWatched`: an attached track has a goroutine that will delete it |
| `DispatchReturns` | `LockHasDeadline`: the wait for the lock ends by itself |
| `OfferIsRenewed` | `LockHasDeadline`; `NoOfferIsForgotten`: without a failure there is an answer to wait for |
| `UpdateReturns`, `PageHears` | `NotifierHasSender`: the holder of the mutex gives it back |
| `PeerLeavesForGood` | `GoneStaysGone`: once it has left it does not come back |

## 5. Findings

`subscription_panics`: a transceiver released before it has a mid is stored
under the empty key, handed out and never deleted; the pool's "Never must be
here" panic follows.

`negotiation_panics`: `Submit` unlocks `sessionMu` only `if
s.sessionMuLocked.Load()` (`peercontext.go:129`). The flag is set once and never
reset, and a `SetPendingDesc` whose deadline has expired puts a new, unlocked
mutex in place (`peercontext.go:72`) while a `Submit` is past its
compare-and-swap: `Unlock` then aborts the process.

Section 3 names what else the code does not guarantee; no document of the
repository claims those.

## 6. Not modelled

- Peers with several tracks: `onTrackMu` makes a publisher distribute its tracks
  one after the other, and a subscriber that has left and is still in the pool
  keeps it from the next one for good (`subscriber.go:250`). `Subscription`
  shows the wait (`AttachReturns` excepts closed subscribers) but not the queue
  behind it.
- The kind of a transceiver: the pool hands a video transceiver out for audio.
- More than one room: rooms share the notifier's mutex only; `CreateRoom` adds
  to a map under a lock and notifies like a join does.
- Listeners that leave: `Stop` waits for a context nothing cancels after the
  upgrade (`room_controller.go:74`), so none does.
- Pipelines and RTP: data; the GStreamer objects have no state of this program.
- ICE candidates: handed to pion and to the browser as they come.
- `useAuthorizedFetch` and the renewal in the browser: its only caller is a
  button of the sign-in form, shown while there is no token, without which it
  returns. The server's side of the renewal is in `Identity`.
- The filter menu of the room page: a list the server sends, and one message per
  click.
- Generated code (storage queries, HTTP decoding), wiring, the build, markup and
  styling. `ParallelExec` runs its partition above a million listeners only.
- Go map races of `PeerPublishingSenders` (`peercontextpool.go:143`), whose
  snapshot is one step, and of `getListeners` and `Stop`, which read the map of
  listeners without its lock (`room_service.go:37`, `:52`): a read is one step.
