------------------------------ MODULE HashMap ------------------------------
(* The HashMaps of the C runtime that every compiled program is linked with   *)
(* (codegen/runtime.rs): open addressing with linear probing, a table that    *)
(* doubles when it is three quarters full. The string-keyed map moves the     *)
(* rest of a cluster back when a key is removed (Repairs); the i32- and       *)
(* i64-keyed maps only clear the slot. All are reached by one thread.         *)
(* Keys and their hashes are abstract: which keys collide, before and after   *)
(* the table grows, is all that the code can tell of them. A map that is not  *)
(* keyed by strings has no seq, and nobody reads it there.                    *)
EXTENDS Naturals, FiniteSets, SequencesExt

CONSTANTS
  Keys, Values,
  NoValue,       \* the fallback of get
  Hashes,        \* the hash values the keys may have
  Capacity,      \* the first capacity of a table (16 in the code)
  Repairs,       \* the string-keyed map: remove closes the gap it leaves
  MaxSeq         \* bound: new keys inserted into the map

ASSUME MapAssumption ==
  /\ Capacity \in Nat \ {0} /\ Capacity % 4 = 0
  /\ Hashes \subseteq Nat
  /\ NoValue \notin Keys

VARIABLES
  slots,         \* [0..cap-1 -> entries \cup {Free}]
  len,
  next_seq,
  hash           \* [Keys -> Hashes]: the hash function at the keys used

vars == <<slots, len, next_seq, hash>>

Free == [key |-> NoValue]
Entry(k, v, q) == [key |-> k, value |-> v, seq |-> q]

Cap(t) == Cardinality(DOMAIN t)
Occupied(t) == {i \in DOMAIN t : t[i] # Free}

\* The d-th slot of the probe sequence of key k.
Probe(t, k, d) == (hash[k] + d) % Cap(t)

\* The steps at which the probe for k meets neither k nor an unoccupied slot.
Passed(t, k) ==
  {d \in DOMAIN t : \A c \in 0..d :
     LET e == t[Probe(t, k, c)] IN e # Free /\ e.key # k}

\* The slot where the probe for k stops; its first slot when all hold other keys.
Stop(t, k) == Probe(t, k, Cardinality(Passed(t, k)))

HasKey(t, k) == t[Stop(t, k)].key = k
Get(t, k) == IF HasKey(t, k) THEN t[Stop(t, k)].value ELSE NoValue

\* The first unoccupied slot of e's probe sequence takes the entry e.
Place(t, e) ==
  LET d == CHOOSE d \in DOMAIN t :
             /\ t[Probe(t, e.key, d)] = Free
             /\ \A c \in 0..(d-1) : t[Probe(t, e.key, c)] # Free
  IN [t EXCEPT ![Probe(t, e.key, d)] = e]

Empty(n) == [i \in 0..(n-1) |-> Free]

\* Bug: the entries get new numbers, in the order of their slots.
RegrowInSlotOrder(t) ==
  LET moved[n \in 0..Cap(t)] ==
        IF n = 0 THEN Empty(2 * Cap(t))
        ELSE IF t[n-1] = Free THEN moved[n-1]
        ELSE Place(moved[n-1], [t[n-1] EXCEPT !.seq = next_seq + n])
  IN moved[Cap(t)]

\* A table twice as large, the entries placed in the order of the old slots.
Regrow(t) ==
  LET moved[n \in 0..Cap(t)] ==
        IF n = 0 THEN Empty(2 * Cap(t))
        ELSE IF t[n-1] = Free THEN moved[n-1] ELSE Place(moved[n-1], t[n-1])
  IN moved[Cap(t)]

\* Bug: the table grows a key too late.
GrownLate(t) == IF len * 4 > Cap(t) * 3 THEN Regrow(t) ELSE t

\* Every insertion first makes room, even one that only replaces a value.
Grown(t) == IF len * 4 >= Cap(t) * 3 THEN Regrow(t) ELSE t

\* Bug: only the entry right after the gap is moved back.
ClosedTooSoon(t, i) ==
  LET j == (i + 1) % Cap(t)
  IN IF t[j] = Free THEN t ELSE Place([t EXCEPT ![j] = Free], t[j])

\* The entries between slot i and the next unoccupied slot, each taken out and
\* placed again. An entry is never placed after the slot it was taken from.
Closed(t, i) ==
  LET at(d) == (i + d) % Cap(t)
      cluster == {d \in 1..(Cap(t)-1) : \A c \in 1..d : t[at(c)] # Free}
      moved[n \in 0..Cardinality(cluster)] ==
        IF n = 0 THEN t
        ELSE Place([moved[n-1] EXCEPT ![at(n)] = Free], moved[n-1][at(n)])
  IN moved[Cardinality(cluster)]

Cleared(t, i) ==
  LET u == [t EXCEPT ![i] = Free]
  IN IF Repairs THEN Closed(u, i) ELSE u

-----------------------------------------------------------------------------
Init ==
  /\ slots = Empty(Capacity)
  /\ len = 0 /\ next_seq = 0
  /\ hash \in [Keys -> Hashes]

\* insert on a key the table finds, and on one it does not find
Insert(k, v) ==
  LET t == Grown(slots)
  IN \/ /\ HasKey(t, k)
        /\ slots' = [t EXCEPT ![Stop(t, k)].value = v]
        /\ UNCHANGED <<len, next_seq, hash>>
     \/ /\ ~HasKey(t, k)
        /\ next_seq < MaxSeq
        /\ slots' = Place(t, Entry(k, v, next_seq))
        /\ len' = len + 1
        /\ next_seq' = next_seq + 1
        /\ UNCHANGED hash

\* remove; on a key that is not found it returns false and changes nothing
RemoveKey(k) ==
  /\ HasKey(slots, k)
  /\ slots' = Cleared(slots, Stop(slots, k))
  /\ len' = len - 1
  /\ UNCHANGED <<next_seq, hash>>

Next == \E k \in Keys : RemoveKey(k) \/ \E v \in Values : Insert(k, v)

Spec == Init /\ [][Next]_vars

-----------------------------------------------------------------------------
(* m.keys(): the seqs and keys of the occupied slots are collected and sorted *)
(* by seq.                                                                    *)
SeqKeys(t) == {[seq |-> t[i].seq, key |-> t[i].key] : i \in Occupied(t)}
Before(S, p) == {q \in S : q.seq < p.seq}

Sorted(S) ==
  [n \in 1..Cardinality(S) |-> (CHOOSE p \in S : Cardinality(Before(S, p)) = n - 1).key]

KeyList == Sorted(SeqKeys(slots))

\* Whatever the insertions, growth and removals before it, a probe always meets
\* an unoccupied slot: the loops of insert and grow, which do not count their
\* steps, end. len counts the occupied slots, at most three quarters of a table.
ProbesEnd == len = Cardinality(Occupied(slots)) /\ 4 * len <= 3 * Cap(slots)

\* Every entry of the table is found: the probe of its key stops at its slot,
\* which the removal of a key that collides with it could prevent ("a cleared
\* slot would cut the probe chain of the keys after it in the same cluster, so
\* `get` stopped finding them", build_hmap_remove_str_f64).
EntriesFound == \A i \in Occupied(slots) : Stop(slots, slots[i].key) = i

\* The string-keyed map implements the ordered map: get, contains and keys give
\* what the insertions and removals so far promise, in the order of insertion,
\* through collisions, growth and removals.
Promise == INSTANCE OrderedMap WITH
  listed <- KeyList,
  stored <- [k \in Keys |-> Get(slots, k)]

ImplementsOrderedMap == Promise!Spec
=============================================================================
