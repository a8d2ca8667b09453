-------------------------- MODULE ExecutorRegistry --------------------------
(***************************************************************************)
(* The registry of connected executors: the live entry of every instance,   *)
(* one ring per executor type and one per routing label.                    *)
(*                                                                          *)
(* Register, Deregister and UpdateLabels hold the registry's lock from       *)
(* their first look-up to their last ring operation; mu is the operation    *)
(* that holds it and what it still has to do.  A selection takes that lock  *)
(* only to find its ring and then scans the ring under the ring's own lock, *)
(* so the scan may fall between any two ring operations of a registration.  *)
(* The maps of entries and labels are read under the lock only, so an       *)
(* operation's changes to them are part of its first step.                  *)
(***************************************************************************)
EXTENDS Naturals, FiniteSets, RingBuffer

CONSTANTS
    Instances,     \* executor processes
    Types,         \* executor types
    Labels,        \* routing labels
    EmptyLabel,    \* the label ""
    Offers,        \* the label lists a client may send
    Support,       \* whether an executor may have, or lack, the asked function
    Requests,      \* the pairs of type and label (or NoLabel) a selection may ask for
    Capacity,      \* concurrent executions per executor, 0 = unbounded
    MaxLabels,     \* the cap on the labels of one connection
    MaxGeneration, \* bound on registrations
    MaxInFlight,   \* bound on bookings of one entry
    MaxRevisions,  \* bound on label revisions
    NoType, NoLabel

ASSUME RegistryAssumption ==
    /\ NoType \notin Types /\ NoLabel \notin Labels /\ EmptyLabel \notin Labels
    /\ Offers \subseteq SUBSET (Labels \cup {EmptyLabel})
    /\ Support \subseteq BOOLEAN /\ Requests \subseteq Types \X (Labels \cup {NoLabel})
    /\ Capacity \in Nat /\ MaxLabels \in Nat /\ MaxGeneration \in Nat
    /\ MaxInFlight \in Nat /\ MaxRevisions \in Nat

VARIABLES
    generation,  \* the registration counter
    entry,       \* the entries made so far, by generation
    entries,     \* the generation of the live entry of every registered instance
    pools,       \* the ring of every executor type
    labelPools,  \* the rings of the labels that have one
    mu,          \* the operation holding the lock, and its ring operations to come
    retiring,    \* entries about to be marked closed by whoever displaced them
    ended,       \* connections whose reader has deregistered
    call,        \* the timing loop's selection
    revisions,   \* label revisions left
    offered,     \* ghost: entries that were routable at some moment of the call
    steady       \* ghost: instances that were eligible at every moment of the call

registryVars == <<generation, entry, entries, pools, labelPools, mu, retiring, ended, revisions>>
vars == <<registryVars, call, offered, steady>>

Generations == 1 .. MaxGeneration

\* The lock is free: nothing left to do.
Free == [gen |-> 0, leave |-> NoType, drop |-> {}, join |-> FALSE, add |-> {}, close |-> 0]

NoCall == [pc |-> "idle", type |-> NoType, label |-> NoLabel, dropped |-> FALSE, got |-> 0]

RegistryInit ==
    /\ generation = 0 /\ entry = [g \in {} |-> 0] /\ entries = [i \in {} |-> 0]
    /\ pools = [t \in Types |-> EmptyRing] /\ labelPools = [l \in {} |-> EmptyRing]
    /\ mu = Free /\ retiring = {} /\ ended = {} /\ revisions = MaxRevisions
    /\ call = NoCall /\ offered = {} /\ steady = {}

-----------------------------------------------------------------------------
\* Ghosts: who is the live, open entry of its instance with the type and label of the call.
Routable ==
    {g \in {entries[i] : i \in DOMAIN entries} :
        /\ ~entry[g].closed /\ entry[g].type = call.type
        /\ call.label = NoLabel \/ call.label \in entry[g].labels}

HasCapacity(g) == Capacity = 0 \/ entry[g].inFlight < Capacity

\* A registration that displaces an entry already closed counts once it is complete.
Joining == IF mu.close # 0 /\ entry[mu.close].closed THEN {entry[mu.gen].inst} ELSE {}

Eligible == {entry[g].inst : g \in {x \in Routable : entry[x].supports /\ HasCapacity(x)}} \ Joining

\* A call that begins watches from here on, one that runs keeps watching.
Watch ==
    CASE call'.pc = "match" /\ call.pc = "match" ->
            offered' = offered \cup Routable' /\ steady' = steady \cap Eligible'
      [] call'.pc = "match" /\ call.pc # "match" ->
            offered' = Routable' /\ steady' = Eligible'
      [] OTHER -> UNCHANGED <<offered, steady>>

-----------------------------------------------------------------------------
\* Broken variant: every label of the displaced entry is detached first.
LeftBehindAll(old, labels) == entry[old].labels

\* The labels a displaced registration carried and the new one does not.
LeftBehind(old, labels) == entry[old].labels \ labels

\* An empty label is dropped from a registration.
Announced(offer) == offer \ {EmptyLabel}

Register(i, t, offer, supports) ==
    LET g == generation + 1
        labels == Announced(offer)
        replaced == IF i \in DOMAIN entries THEN entries[i] ELSE 0 IN
    /\ mu = Free /\ generation < MaxGeneration
    /\ generation' = g
    /\ entry' = [x \in 1 .. g |->
                   IF x = g THEN [inst |-> i, type |-> t, labels |-> labels,
                                  supports |-> supports, closed |-> FALSE, inFlight |-> 0]
                   ELSE entry[x]]
    /\ entries' = [x \in DOMAIN entries \cup {i} |-> IF x = i THEN g ELSE entries[x]]
    /\ mu' = [gen |-> g, join |-> TRUE, add |-> labels, close |-> replaced,
              leave |-> IF replaced # 0 /\ entry[replaced].type # t
                        THEN entry[replaced].type ELSE NoType,
              drop |-> IF replaced # 0 THEN LeftBehind(replaced, labels) ELSE {}]
    /\ UNCHANGED <<pools, labelPools, retiring, ended, revisions, call>>
    /\ Watch

\* Broken variant: a late message of a replaced connection removes its successor.
AnyLive(g) == entry[g].inst \in DOMAIN entries

\* Only the live generation of an instance may be deregistered.
StillLive(g) == entry[g].inst \in DOMAIN entries /\ entries[entry[g].inst] = g

\* The connection of generation g ended; its reader deregisters it, once.
Deregister(g) ==
    LET i == entry[g].inst IN
    /\ mu = Free /\ g \notin ended
    /\ ended' = ended \cup {g}
    /\ IF StillLive(g)
       THEN /\ entries' = [x \in DOMAIN entries \ {i} |-> entries[x]]
            /\ mu' = [gen |-> g, leave |-> entry[g].type, drop |-> entry[g].labels,
                      join |-> FALSE, add |-> {}, close |-> g]
       ELSE UNCHANGED <<entries, mu>>
    /\ UNCHANGED <<generation, entry, pools, labelPools, retiring, revisions, call>>
    /\ Watch

\* Withdrawals are applied last; a refused update changes nothing.
UpdateLabels(i, announce, withdraw) ==
    /\ mu = Free /\ revisions > 0 /\ revisions' = revisions - 1
    /\ EmptyLabel \notin announce \cup withdraw /\ i \in DOMAIN entries
    /\ LET g == entries[i]
           desired == (entry[g].labels \cup announce) \ withdraw IN
       /\ Cardinality(desired) <= MaxLabels
       /\ entry' = [entry EXCEPT ![g].labels = desired]
       /\ mu' = [Free EXCEPT !.gen = g, !.drop = entry[g].labels \ desired, !.add = desired]
    /\ UNCHANGED <<generation, entries, pools, labelPools, retiring, ended, call>>
    /\ Watch

-----------------------------------------------------------------------------
\* The ring operations of the operation that holds the lock, in its order.
LeavePool ==
    /\ mu.leave # NoType
    /\ pools' = [pools EXCEPT ![mu.leave] = RingRemove(@, entry[mu.gen].inst)]
    /\ mu' = [mu EXCEPT !.leave = NoType]
    /\ UNCHANGED <<generation, entry, entries, labelPools, retiring, ended, revisions, call>>
    /\ Watch

\* Broken variant: the ring that emptied out stays in the map.
KeptRing(l, r) == [labelPools EXCEPT ![l] = r]

\* A ring that empties out is dropped from the map.
WithoutEmpty(l, r) ==
    IF RingLen(r) = 0 THEN [x \in DOMAIN labelPools \ {l} |-> labelPools[x]]
    ELSE [labelPools EXCEPT ![l] = r]

\* detachLabels, one label: a call that found the ring keeps the dropped one.
DetachLabel(l) ==
    /\ mu.leave = NoType /\ l \in mu.drop
    /\ mu' = [mu EXCEPT !.drop = @ \ {l}]
    /\ IF l \in DOMAIN labelPools
       THEN labelPools' = WithoutEmpty(l, RingRemove(labelPools[l], entry[mu.gen].inst))
       ELSE UNCHANGED labelPools
    /\ call' = [call EXCEPT !.dropped =
                    @ \/ (call.pc = "match" /\ call.label = l /\ l \notin DOMAIN labelPools')]
    /\ UNCHANGED <<generation, entry, entries, pools, retiring, ended, revisions>>
    /\ Watch

JoinPool ==
    /\ mu.leave = NoType /\ mu.drop = {} /\ mu.join
    /\ pools' = [pools EXCEPT ![entry[mu.gen].type] = RingUpsert(@, entry[mu.gen].inst, mu.gen)]
    /\ mu' = [mu EXCEPT !.join = FALSE]
    /\ UNCHANGED <<generation, entry, entries, labelPools, retiring, ended, revisions, call>>
    /\ Watch

\* attachLabels, one label: a missing ring is made on demand.
AttachLabel(l) ==
    LET r == IF l \in DOMAIN labelPools THEN labelPools[l] ELSE EmptyRing IN
    /\ mu.leave = NoType /\ mu.drop = {} /\ ~mu.join /\ l \in mu.add
    /\ labelPools' = [x \in DOMAIN labelPools \cup {l} |->
                        IF x = l THEN RingUpsert(r, entry[mu.gen].inst, mu.gen)
                        ELSE labelPools[x]]
    /\ mu' = [mu EXCEPT !.add = @ \ {l}]
    /\ UNCHANGED <<generation, entry, entries, pools, retiring, ended, revisions, call>>
    /\ Watch

Unlock ==
    /\ mu # Free /\ mu.leave = NoType /\ mu.drop = {} /\ ~mu.join /\ mu.add = {}
    /\ mu' = Free
    /\ retiring' = retiring \cup ({mu.close} \ {0})
    /\ UNCHANGED <<generation, entry, entries, pools, labelPools, ended, revisions, call>>
    /\ Watch

\* The displaced entry is marked closed after the lock is given back.
MarkClosed(g) ==
    /\ retiring' = retiring \ {g}
    /\ entry' = [entry EXCEPT ![g].closed = TRUE]
    /\ UNCHANGED <<generation, entries, pools, labelPools, mu, ended, revisions, call>>
    /\ Watch

\* CloseAll retires every entry and leaves it where it is.
CloseAll ==
    /\ mu = Free /\ DOMAIN entries # {}
    /\ retiring' = retiring \cup {g \in {entries[i] : i \in DOMAIN entries} : ~entry[g].closed}
    /\ UNCHANGED <<generation, entry, entries, pools, labelPools, mu, ended, revisions, call>>
    /\ Watch

-----------------------------------------------------------------------------
\* Select and SelectLabeled: find the ring under the registry's lock ...
Look(t, l) ==
    /\ mu = Free /\ call.pc # "match"
    /\ call' = [pc |-> "match", type |-> t, label |-> l, got |-> 0,
                dropped |-> l # NoLabel /\ l \notin DOMAIN labelPools]
    /\ UNCHANGED registryVars
    /\ Watch

Ring ==
    IF call.dropped THEN EmptyRing
    ELSE IF call.label = NoLabel THEN pools[call.type]
    ELSE labelPools[call.label]

Candidates ==
    {g \in DOMAIN entry : /\ ~entry[g].closed /\ entry[g].supports /\ HasCapacity(g)
                          /\ call.label = NoLabel \/ entry[g].type = call.type}

\* ... then scan one lap of it.
Match ==
    /\ call.pc = "match"
    /\ IF Matching(Ring, Candidates) = {}
       THEN /\ call' = [call EXCEPT !.pc = "done"]
            /\ UNCHANGED <<pools, labelPools>>
       ELSE /\ call' = [call EXCEPT !.pc = "done", !.got = At(Ring, MatchPos(Ring, Candidates)).value]
            /\ IF call.label = NoLabel
               THEN /\ pools' = [pools EXCEPT ![call.type] = RingNextMatch(@, Candidates)]
                    /\ UNCHANGED labelPools
               ELSE /\ labelPools' = [labelPools EXCEPT ![call.label] = RingNextMatch(@, Candidates)]
                    /\ UNCHANGED pools
    /\ UNCHANGED <<generation, entry, entries, mu, retiring, ended, revisions>>
    /\ Watch

\* The timing loop books the entry it was given.
AddInFlight ==
    /\ call.pc = "done" /\ call.got # 0 /\ entry[call.got].inFlight < MaxInFlight
    /\ entry' = [entry EXCEPT ![call.got].inFlight = @ + 1]
    /\ call' = NoCall
    /\ UNCHANGED <<generation, entries, pools, labelPools, mu, retiring, ended, revisions>>
    /\ Watch

ReleaseInFlight(g) ==
    /\ entry[g].inFlight > 0
    /\ entry' = [entry EXCEPT ![g].inFlight = @ - 1]
    /\ UNCHANGED <<generation, entries, pools, labelPools, mu, retiring, ended, revisions, call>>
    /\ Watch

RegistryNext ==
    \/ \E i \in Instances, t \in Types, offer \in Offers, supports \in Support :
          Register(i, t, offer, supports)
    \/ \E g \in DOMAIN entry : Deregister(g) \/ ReleaseInFlight(g)
    \/ \E i \in Instances, announce, withdraw \in Offers : UpdateLabels(i, announce, withdraw)
    \/ LeavePool \/ JoinPool \/ Unlock \/ CloseAll \/ Match \/ AddInFlight
    \/ \E l \in Labels : DetachLabel(l) \/ AttachLabel(l)
    \/ \E g \in retiring : MarkClosed(g)
    \/ \E q \in Requests : Look(q[1], q[2])

RegistrySpec == RegistryInit /\ [][RegistryNext]_vars

-----------------------------------------------------------------------------
\* What a ring should hold: exactly the live entries of these instances.
Holds(r, who) ==
    /\ RingOK(r)
    /\ RingMembers(r) = who
    /\ \A n \in DOMAIN r.entries : r.entries[n].value = entries[r.entries[n].key]

RingIn(l) == IF l \in DOMAIN labelPools THEN labelPools[l] ELSE EmptyRing

\* Whenever the lock is free the rings agree with the entries: every type's
\* ring holds exactly the live entries of that type, every label's ring the
\* live entries announcing it, and no empty label ring is left behind.
RingsAgree ==
    mu = Free =>
        /\ \A t \in Types : Holds(pools[t], {i \in DOMAIN entries : entry[entries[i]].type = t})
        /\ \A l \in Labels : Holds(RingIn(l), {i \in DOMAIN entries : l \in entry[entries[i]].labels})
        /\ \A l \in DOMAIN labelPools : RingLen(labelPools[l]) > 0

\* A deregistration that arrives late, after its instance registered again,
\* takes nothing away: the newest connection of an instance stays registered
\* until its own reader deregisters it.
NewestStaysRegistered ==
    \A g \in DOMAIN entry \ ended :
        (\A h \in DOMAIN entry : entry[h].inst = entry[g].inst => h <= g) =>
            entry[g].inst \in DOMAIN entries /\ entries[entry[g].inst] = g

\* A selection is right although its scan runs outside the registry's lock:
\* whom it returns was the open, live registration of its instance, of the
\* asked type and announcing the asked label, at some moment of the call; and
\* when it finds nobody, no executor with capacity was routable during the
\* whole call.  Re-registering an instance, or revising its labels, never hides
\* it for a moment.
SelectionHonest ==
    call.pc = "done" => IF call.got # 0 THEN call.got \in offered ELSE steady = {}

=============================================================================
