---------------------------- MODULE PromiseMutex ----------------------------
(***************************************************************************)
(* The Mutex class of client/src/App.tsx.  `wait` is a promise that lock()  *)
(* extends by one that its own unlock function resolves: ticket t is freed  *)
(* when the unlock function of the t-th lock() has been called, and `wait`, *)
(* read when w locks had been asked for, resolves once tickets 1..w are.    *)
(***************************************************************************)
EXTENDS Naturals, FiniteSets

MutexOf(taken, freed) == [taken |-> taken, freed |-> freed]

NewMutex == MutexOf(0, {})

Lock(m) == MutexOf(m.taken + 1, m.freed)

Unlock(m, ticket) == MutexOf(m.taken, m.freed \cup {ticket})

(* The promise lock() returned for this ticket has resolved. *)
Granted(m, ticket) == 1 .. ticket - 1 \subseteq m.freed

(* The promise `wait` held when w locks had been asked for has resolved. *)
Waited(m, w) == 1 .. w \subseteq m.freed
=============================================================================
