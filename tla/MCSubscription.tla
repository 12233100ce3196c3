--------------------------- MODULE MCSubscription ---------------------------
(* TLC instance of Subscription: model values for tracks and goroutines.     *)
EXTENDS Subscription, TLC

CONSTANTS a, b, tick, sync, leave, late

Setting(f, leaving, running) == [faults |-> f, leavers |-> leaving, runners |-> running]

Calm == {Setting(0, {leave}, {leave})}
FaultyOrTicking ==
  {Setting(1, {leave}, {leave}), Setting(1, {leave, late}, {}),
   Setting(0, {leave, late}, {leave}), Setting(0, {leave}, {tick})}

Symmetry == Permutations(Tracks)
=============================================================================
