----------------------------- MODULE DurableLog -----------------------------
(***************************************************************************)
(* What session persistence promises about one live session's log: the     *)
(* stored events are at every moment a prefix of the accepted ones, with   *)
(* none lost, repeated or reordered, and a flush resolves only when every  *)
(* event accepted before the call is stored.  WriteBehind implements it.   *)
(*                                                                         *)
(* Events are numbered from 1 in the order the session accepts them.       *)
(***************************************************************************)
EXTENDS Naturals, Sequences

CONSTANTS Flush,       \* flush calls
          MaxEvents,   \* bound: events ever accepted
          SeedEvents   \* events the session was created with

VARIABLES accepted,    \* events in the session's log
          stored,      \* the events in durable storage, in order
          flushState,  \* of each flush call
          mark         \* events accepted when the flush was called

vars == <<accepted, stored, flushState, mark>>

FirstEvents(n) == [k \in 1 .. n |-> k]

(* Storage may hold part of the seed already.                              *)
Init ==
  /\ accepted = SeedEvents
  /\ \E n \in 0 .. SeedEvents : stored = FirstEvents(n)
  /\ flushState = [f \in Flush |-> "idle"]
  /\ mark = [f \in Flush |-> 0]

Accept ==
  /\ accepted < MaxEvents
  /\ accepted' = accepted + 1
  /\ UNCHANGED <<stored, flushState, mark>>

(* One durable batch: some of the accepted events that are not yet stored. *)
Persist ==
  /\ \E n \in Len(stored) + 1 .. accepted : stored' = FirstEvents(n)
  /\ UNCHANGED <<accepted, flushState, mark>>

CallFlush(f) ==
  /\ flushState[f] = "idle"
  /\ flushState' = [flushState EXCEPT ![f] = "waiting"]
  /\ mark' = [mark EXCEPT ![f] = accepted]
  /\ UNCHANGED <<accepted, stored>>

(* Concurrent callers settle together.                                     *)
ResolveFlushes ==
  /\ \E done \in SUBSET {f \in Flush : flushState[f] = "waiting"} :
       /\ \A f \in done : mark[f] <= Len(stored)
       /\ flushState' = [f \in Flush |-> IF f \in done THEN "resolved" ELSE flushState[f]]
  /\ UNCHANGED <<accepted, stored, mark>>

RejectFlushes ==
  /\ \E done \in SUBSET {f \in Flush : flushState[f] = "waiting"} :
       flushState' = [f \in Flush |-> IF f \in done THEN "rejected" ELSE flushState[f]]
  /\ UNCHANGED <<accepted, stored, mark>>

Next ==
  \/ Accept \/ Persist
  \/ \E f \in Flush : CallFlush(f)
  \/ ResolveFlushes \/ RejectFlushes

Spec == Init /\ [][Next]_vars

-----------------------------------------------------------------------------
(* What it comes to.  The store has the first of the accepted events, and  *)
(* all that was accepted before a flush that resolved (session/flush).     *)
Promise ==
  /\ Len(stored) <= accepted /\ stored = FirstEvents(Len(stored))
  /\ \A f \in Flush : flushState[f] = "resolved" => mark[f] <= Len(stored)

(* Nothing that was stored or answered is taken back.                      *)
NothingRecalled ==
  [][/\ Len(stored) <= Len(stored')
     /\ \A f \in Flush : flushState[f] \in {"resolved", "rejected"} =>
          flushState'[f] = flushState[f] /\ mark'[f] = mark[f]]_vars
=============================================================================
