------------------------------- MODULE MCRing -------------------------------
(***************************************************************************)
(* One ring under registrations, disconnects, entries that start and stop   *)
(* matching, and selections.  The ghost variable passed counts, for a       *)
(* member that is waiting for its turn, how often every other one was       *)
(* served since then.                                                       *)
(***************************************************************************)
EXTENDS RingBuffer

CONSTANT Entrants

VARIABLES
    ring,    \* the ring
    ready,   \* the keys the match predicate accepts now
    passed   \* ghost: passed[j][k], turns of k while j waits, counted up to 2

ringVars == <<ring, ready, passed>>

Nobody == [k \in Entrants |-> 0]

RingInit == ring = EmptyRing /\ ready = {} /\ passed = [j \in Entrants |-> Nobody]

Upsert(k) ==
    /\ ring' = RingUpsert(ring, k, k)
    /\ passed' = IF k \in RingMembers(ring) THEN passed ELSE [passed EXCEPT ![k] = Nobody]
    /\ UNCHANGED ready

RemoveKey(k) ==
    /\ k \in RingMembers(ring)
    /\ ring' = RingRemove(ring, k)
    /\ passed' = [j \in Entrants |-> IF j = k THEN Nobody ELSE [passed[j] EXCEPT ![k] = 0]]
    /\ UNCHANGED ready

\* What the predicate says of k changes: its wait starts over.
Toggle(k) ==
    /\ ready' = IF k \in ready THEN ready \ {k} ELSE ready \cup {k}
    /\ passed' = [passed EXCEPT ![k] = Nobody]
    /\ UNCHANGED ring

Served(k) ==
    /\ passed' = [j \in Entrants |->
                     IF j = k \/ j \notin RingMembers(ring) \cap ready THEN Nobody
                     ELSE [passed[j] EXCEPT ![k] = IF @ = 2 THEN 2 ELSE @ + 1]]
    /\ UNCHANGED ready

NextMatch ==
    /\ Matching(ring, ready) # {}
    /\ Served(At(ring, MatchPos(ring, ready)).key)
    /\ ring' = RingNextMatch(ring, ready)

\* Next gives the turn to the entry at the cursor, whatever the predicate says.
Next ==
    /\ RingLen(ring) # 0
    /\ Served(At(ring, ring.cursor).key)
    /\ ring' = RingNext(ring)

Clear ==
    /\ RingLen(ring) # 0
    /\ ring' = EmptyRing
    /\ passed' = [j \in Entrants |-> Nobody]
    /\ UNCHANGED ready

RingStep == (\E k \in Entrants : Upsert(k) \/ RemoveKey(k) \/ Toggle(k)) \/ NextMatch \/ Next \/ Clear

RingSpec == RingInit /\ [][RingStep]_ringVars

\* One turn per lap: while an entry stays in the ring and keeps matching without
\* getting its turn, no other entry that stays gets two, whatever joins,
\* leaves or stops matching meanwhile and however Next and NextMatch mix.
FairTurns == \A j \in RingMembers(ring) \cap ready : \A k \in Entrants : passed[j][k] <= 1

=============================================================================
