----------------------------- MODULE RingBuffer -----------------------------
(***************************************************************************)
(* The keyed round-robin ring of package yaringbuffer, as operators on a    *)
(* ring value: the entries in insertion order, the index from key to        *)
(* position (from 0), and the cursor that marks the next turn.  Every       *)
(* operation holds the ring's lock, so each is one step.  Module            *)
(* ExecutorRegistry composes rings; module MCRing drives one alone.         *)
(***************************************************************************)
EXTENDS Naturals, Sequences

\* entries: sequence of [key, value]; index: [keys -> position]; cursor: position.
EmptyRing == [entries |-> <<>>, index |-> [k \in {} |-> 0], cursor |-> 0]

RingMembers(r) == DOMAIN r.index

RingLen(r) == Len(r.entries)

At(r, pos) == r.entries[pos + 1]

RingUpsert(r, k, v) ==
    IF k \in DOMAIN r.index
    THEN [r EXCEPT !.entries[r.index[k] + 1].value = v]
    ELSE [entries |-> Append(r.entries, [key |-> k, value |-> v]),
          index |-> [x \in DOMAIN r.index \cup {k} |-> IF x = k THEN RingLen(r) ELSE r.index[x]],
          cursor |-> r.cursor]

\* The entries without position pos.
Compacted(entries, pos) == SubSeq(entries, 1, pos) \o SubSeq(entries, pos + 2, Len(entries))

\* The index, rewritten from the removed position on.
Reindexed(r, k, kept) ==
    [x \in DOMAIN r.index \ {k} |->
        IF \E i \in r.index[k] .. Len(kept) - 1 : kept[i + 1].key = x
        THEN CHOOSE i \in r.index[k] .. Len(kept) - 1 : kept[i + 1].key = x
        ELSE r.index[x]]

\* Broken variant: the cursor does not follow the entries that moved down.
CursorKept(r, pos, left) == IF r.cursor >= left THEN 0 ELSE r.cursor

CursorAfterRemove(r, pos, left) ==
    LET c == IF pos < r.cursor THEN r.cursor - 1 ELSE r.cursor IN
    IF c >= left THEN 0 ELSE c

RingRemove(r, k) ==
    IF k \notin DOMAIN r.index THEN r
    ELSE LET kept == Compacted(r.entries, r.index[k]) IN
         [entries |-> kept, index |-> Reindexed(r, k, kept),
          cursor |-> CursorAfterRemove(r, r.index[k], Len(kept))]

\* Keys in turn order, starting at the cursor.
RingKeys(r) == [n \in 1 .. RingLen(r) |-> At(r, (r.cursor + n - 1) % RingLen(r)).key]

\* The offsets of one lap at which a value the predicate accepts stands.
Matching(r, M) == {o \in 0 .. RingLen(r) - 1 : At(r, (r.cursor + o) % RingLen(r)).value \in M}

AfterTurn(r, pos) == (pos + 1) % RingLen(r)

\* The ring after NextMatch, and the entry it returns (only when one matches).
MatchPos(r, M) ==
    (r.cursor + (CHOOSE o \in Matching(r, M) : \A x \in Matching(r, M) : o <= x)) % RingLen(r)

RingNextMatch(r, M) == [r EXCEPT !.cursor = AfterTurn(r, MatchPos(r, M))]

\* Next is NextMatch with a predicate that accepts everything.
RingNext(r) == [r EXCEPT !.cursor = (r.cursor + 1) % RingLen(r)]

\* The index is the inverse of the entries, and the cursor is inside the ring.
RingOK(r) ==
    /\ DOMAIN r.index = {r.entries[n].key : n \in DOMAIN r.entries}
    /\ \A n \in DOMAIN r.entries : r.index[r.entries[n].key] = n - 1
    /\ r.cursor \in 0 .. RingLen(r) /\ (RingLen(r) # 0 => r.cursor < RingLen(r))

=============================================================================
