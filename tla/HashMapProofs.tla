---------------------------- MODULE HashMapProofs ----------------------------
(* Proofs about HashMap for every number of keys, every hash function and     *)
(* every capacity: the probes end, and the string-keyed map finds all of its  *)
(* entries, after any insertions, growth and removals, and is the ordered map *)
(* a program is promised.                                                     *)
EXTENDS HashMap, FiniteSetTheorems, SequenceTheorems, SetInduction, TLAPS

Slot == [key : Keys, value : Values, seq : Nat] \cup {Free}
Table(t, N) == N \in Nat \ {0} /\ t \in [0..(N-1) -> Slot]

\* Where the probe for k begins, and how far on it comes to slot i.
Home(k, N) == hash[k] % N
Dist(k, i, N) == IF i >= Home(k, N) THEN i - Home(k, N) ELSE i + N - Home(k, N)

\* The probe for an entry does not meet an unoccupied slot before the entry's, and
\* no key has two slots.
Reached(t, i, N) == \A c \in 0..(Dist(t[i].key, i, N) - 1) : t[Probe(t, t[i].key, c)] # Free
OneSlot(t) == \A i, j \in Occupied(t) : t[i].key = t[j].key => i = j
Good(t, N) == OneSlot(t) /\ \A i \in Occupied(t) : Reached(t, i, N)

HashType == hash \in [Keys -> Hashes]

-----------------------------------------------------------------------------
(* Probes.                                                                   *)

LEMMA CapIs ==
  ASSUME NEW t, NEW N, Table(t, N)
  PROVE  Cap(t) = N /\ DOMAIN t = 0..(N-1)
<1>1. DOMAIN t = 0..(N-1) /\ 0 \in Int /\ N - 1 \in Int /\ 0 <= N - 1
  BY DEF Table
<1>2. Cardinality(0..(N-1)) = N
  BY <1>1, FS_Interval DEF Table
<1> QED
  BY <1>1, <1>2 DEF Cap

LEMMA SlotType ==
  ASSUME NEW e \in Slot
  PROVE  /\ e # Free => e.key \in Keys
         /\ e.key \in Keys => e # Free
  BY MapAssumption DEF Slot, Free

LEMMA HomeType ==
  ASSUME HashType, NEW N \in Nat \ {0}, NEW k \in Keys
  PROVE  Home(k, N) \in 0..(N-1) /\ hash[k] \in Nat
<1>1. hash[k] \in Nat
  BY MapAssumption DEF HashType
<1>2. 0 \in 0..(N-1)
  OBVIOUS
<1> QED
  BY <1>1, <1>2, WrapAround DEF Home

\* The probe for k goes from its home to the end of the table and on from its start.
LEMMA ProbeIs ==
  ASSUME HashType, NEW t, NEW N, Table(t, N), NEW k \in Keys, NEW d \in 0..(N-1)
  PROVE  /\ Probe(t, k, d) \in 0..(N-1)
         /\ Probe(t, k, d) = IF Home(k, N) + d < N THEN Home(k, N) + d ELSE Home(k, N) + d - N
<1>1. Cap(t) = N /\ N \in Nat \ {0}
  BY CapIs DEF Table
<1>2. hash[k] \in Nat /\ Home(k, N) \in 0..(N-1)
  BY <1>1, HomeType
<1>3. Probe(t, k, d) = IF Home(k, N) + d < N THEN Home(k, N) + d ELSE Home(k, N) + d - N
  BY <1>1, <1>2, WrapAround DEF Probe, Home
<1> QED
  BY <1>1, <1>2, <1>3

\* It comes to each slot, once.
LEMMA ProbeMeets ==
  ASSUME HashType, NEW t, NEW N, Table(t, N), NEW k \in Keys, NEW i \in 0..(N-1)
  PROVE  /\ Dist(k, i, N) \in 0..(N-1)
         /\ Probe(t, k, Dist(k, i, N)) = i
         /\ \A d \in 0..(N-1) : Probe(t, k, d) = i => d = Dist(k, i, N)
<1>1. N \in Nat \ {0}
  BY DEF Table
<1>2. PICK h \in 0..(N-1) : h = Home(k, N)
  BY <1>1, HomeType
<1>3. Dist(k, i, N) = IF i >= h THEN i - h ELSE i + N - h
  BY <1>2 DEF Dist
<1>4. Dist(k, i, N) \in 0..(N-1)
  BY <1>1, <1>3
<1>5. \A d \in 0..(N-1) : Probe(t, k, d) = IF h + d < N THEN h + d ELSE h + d - N
  BY <1>2, ProbeIs
<1> QED
  BY <1>1, <1>3, <1>4, <1>5

\* An entry that is reached is found.
LEMMA StopFinds ==
  ASSUME HashType, NEW t, NEW N, Table(t, N), Good(t, N), NEW i \in Occupied(t)
  PROVE  Stop(t, t[i].key) = i
<1> DEFINE k == t[i].key
           D == Dist(k, i, N)
<1>1. i \in 0..(N-1) /\ DOMAIN t = 0..(N-1) /\ N \in Nat \ {0}
  BY CapIs DEF Occupied, Table
<1>2. t[i] # Free /\ k \in Keys
  BY <1>1, SlotType DEF Occupied, Table
<1>3. /\ D \in 0..(N-1) /\ Probe(t, k, D) = i
      /\ \A d \in 0..(N-1) : Probe(t, k, d) = i => d = D
  BY <1>1, <1>2, ProbeMeets
<1>4. \A c \in 0..(D-1) : t[Probe(t, k, c)] # Free
  BY DEF Good, Reached
<1>5. \A c \in 0..(D-1) : t[Probe(t, k, c)].key # k
  <2> SUFFICES ASSUME NEW c \in 0..(D-1), t[Probe(t, k, c)].key = k PROVE FALSE
    OBVIOUS
  <2>1. c \in 0..(N-1) /\ c # D
    BY <1>1, <1>3
  <2>2. Probe(t, k, c) \in Occupied(t)
    BY <1>1, <1>2, <1>4, <2>1, ProbeIs DEF Occupied
  <2>3. Probe(t, k, c) = i
    BY <2>2 DEF Good, OneSlot
  <2> QED
    BY <1>3, <2>1, <2>3
<1> HIDE DEF D, k
<1>6. Passed(t, k) = 0..(D-1)
  <2>1. ASSUME NEW d \in 0..(D-1) PROVE d \in Passed(t, k)
    <3>1. d \in DOMAIN t /\ \A c \in 0..d : c \in 0..(D-1)
      BY <1>1, <1>3
    <3> QED
      BY <1>4, <1>5, <3>1 DEF Passed
  <2>2. ASSUME NEW d \in Passed(t, k) PROVE d \in 0..(D-1)
    <3>1. d \in 0..(N-1) /\ \A c \in 0..d : t[Probe(t, k, c)].key # k
      BY <1>1 DEF Passed
    <3>2. D \notin 0..d
      BY <1>3, <3>1 DEF k
    <3> QED
      BY <1>1, <1>3, <3>1, <3>2
  <2> QED
    BY <2>1, <2>2
<1>7. Cardinality(0..(D-1)) = D
  BY <1>1, <1>3, FS_Interval
<1> QED
  BY <1>3, <1>6, <1>7 DEF Stop, k

-----------------------------------------------------------------------------
(* Slots that are taken and cleared.                                         *)

Put(t, i, e) == [t EXCEPT ![i] = e]

Taken(t, e, d) ==
  /\ t[Probe(t, e.key, d)] = Free
  /\ \A c \in 0..(d-1) : t[Probe(t, e.key, c)] # Free

\* An entry goes to the first unoccupied slot of its probe, if the table has one.
LEMMA PlaceTakes ==
  ASSUME HashType, NEW t, NEW N, Table(t, N), NEW e \in Slot, e # Free,
         NEW i \in 0..(N-1), t[i] = Free
  PROVE  \E d \in 0..(N-1) : /\ d <= Dist(e.key, i, N)
                             /\ Taken(t, e, d)
                             /\ Place(t, e) = [t EXCEPT ![Probe(t, e.key, d)] = e]
<1> DEFINE D == Dist(e.key, i, N)
           T == {d \in 0..(N-1) : t[Probe(t, e.key, d)] = Free}
<1>1. e.key \in Keys /\ DOMAIN t = 0..(N-1) /\ N \in Nat \ {0}
  BY SlotType, CapIs DEF Table
<1>2. D \in 0..(N-1) /\ D \in T
  BY <1>1, ProbeMeets
<1>3. T \subseteq Nat /\ T # {}
  BY <1>1, <1>2
<1> HIDE DEF T, D
<1>4. PICK d \in T : \A c \in T : d <= c
  BY <1>3, Least
<1>5. d \in 0..(N-1) /\ d <= D
  BY <1>2, <1>4 DEF T
<1>6. ASSUME NEW c \in 0..(d-1) PROVE t[Probe(t, e.key, c)] # Free
  <2>1. c \in 0..(N-1) /\ ~(d <= c)
    BY <1>1, <1>5
  <2> QED
    BY <1>4, <2>1 DEF T
<1>7. Taken(t, e, d)
  BY <1>4, <1>6 DEF T, Taken
<1> DEFINE found == CHOOSE b \in DOMAIN t : Taken(t, e, b)
<1>8. found \in 0..(N-1) /\ Taken(t, e, found)
  BY <1>1, <1>5, <1>7
<1>9. Place(t, e) = [t EXCEPT ![Probe(t, e.key, found)] = e]
  BY DEF Place, Taken
<1> HIDE DEF found
<1>10. found <= D
  <2> SUFFICES ASSUME d < found PROVE FALSE
    BY <1>1, <1>5, <1>8, <1>2
  <2>1. d \in 0..(found-1)
    BY <1>1, <1>5, <1>8
  <2> QED
    BY <1>7, <1>8, <2>1 DEF Taken
<1> QED
  BY <1>8, <1>9, <1>10 DEF D

LEMMA OccupiedType ==
  ASSUME NEW t, NEW N, Table(t, N)
  PROVE  /\ IsFiniteSet(Occupied(t)) /\ Cardinality(Occupied(t)) \in Nat
         /\ Occupied(t) = {i \in 0..(N-1) : t[i] # Free}
         /\ Cardinality(Occupied(t)) < N => \E i \in 0..(N-1) : t[i] = Free
<1>1. Occupied(t) = {i \in 0..(N-1) : t[i] # Free} /\ N \in Nat \ {0}
  BY CapIs DEF Occupied, Table
<1>2. IsFiniteSet(0..(N-1)) /\ Cardinality(0..(N-1)) = N
  <2>1. 0 \in Int /\ N - 1 \in Int /\ 0 <= N - 1
    BY <1>1
  <2> QED
    BY <1>1, <2>1, FS_Interval
<1>3. Occupied(t) \subseteq 0..(N-1)
  BY <1>1
<1>4. IsFiniteSet(Occupied(t)) /\ Cardinality(Occupied(t)) \in Nat
  BY <1>2, <1>3, FS_Subset, FS_CardinalityType
<1>5. ASSUME \A i \in 0..(N-1) : t[i] # Free PROVE Cardinality(Occupied(t)) = N
  <2>1. Occupied(t) = 0..(N-1)
    BY <1>1, <1>5
  <2> QED
    BY <1>2, <2>1
<1> QED
  BY <1>1, <1>4, <1>5

\* Filling an unoccupied slot makes one more, and clearing an occupied one one fewer.
LEMMA FillOne ==
  ASSUME NEW t, NEW N, Table(t, N), NEW e \in Slot, e # Free,
         NEW i \in 0..(N-1), t[i] = Free
  PROVE  /\ Table(Put(t, i, e), N)
         /\ Occupied(Put(t, i, e)) = Occupied(t) \cup {i}
         /\ Cardinality(Occupied(Put(t, i, e))) = Cardinality(Occupied(t)) + 1
<1> DEFINE u == Put(t, i, e)
<1>1. Table(u, N)
  BY DEF Table, Put
<1>2. /\ Occupied(t) = {j \in 0..(N-1) : t[j] # Free}
      /\ Occupied(u) = {j \in 0..(N-1) : u[j] # Free}
  BY <1>1, OccupiedType
<1>3. \A j \in 0..(N-1) : u[j] = IF j = i THEN e ELSE t[j]
  BY DEF Table, Put
<1>4. Occupied(u) = Occupied(t) \cup {i} /\ i \notin Occupied(t)
  BY <1>2, <1>3
<1>5. IsFiniteSet(Occupied(t))
  BY OccupiedType
<1>6. Cardinality(Occupied(t) \cup {i}) = Cardinality(Occupied(t)) + 1
  BY <1>4, <1>5, FS_AddElement
<1> QED
  BY <1>1, <1>4, <1>6

LEMMA ClearOne ==
  ASSUME NEW t, NEW N, Table(t, N), NEW i \in 0..(N-1), t[i] # Free
  PROVE  /\ Table(Put(t, i, Free), N)
         /\ Occupied(Put(t, i, Free)) = Occupied(t) \ {i}
         /\ Cardinality(Occupied(t)) = Cardinality(Occupied(Put(t, i, Free))) + 1
<1> DEFINE u == Put(t, i, Free)
<1>1. Table(u, N)
  BY DEF Table, Slot, Put
<1>2. /\ Occupied(t) = {j \in 0..(N-1) : t[j] # Free}
      /\ Occupied(u) = {j \in 0..(N-1) : u[j] # Free}
  BY <1>1, OccupiedType
<1>3. \A j \in 0..(N-1) : u[j] = IF j = i THEN Free ELSE t[j]
  BY DEF Table, Put
<1>4. /\ Occupied(u) = Occupied(t) \ {i} /\ i \notin Occupied(u)
      /\ Occupied(t) = Occupied(u) \cup {i}
  BY <1>2, <1>3
<1>5. IsFiniteSet(Occupied(u))
  BY <1>1, OccupiedType
<1>6. Cardinality(Occupied(u) \cup {i}) = Cardinality(Occupied(u)) + 1
  BY <1>4, <1>5, FS_AddElement
<1> QED
  BY <1>1, <1>4, <1>6

\* What the table holds, wherever it is.
Entries(t) == {t[i] : i \in Occupied(t)}

LEMMA FillEntries ==
  ASSUME NEW t, NEW N, Table(t, N), NEW e \in Slot, e # Free,
         NEW i \in 0..(N-1), t[i] = Free
  PROVE  Entries(Put(t, i, e)) = Entries(t) \cup {e}
<1> DEFINE u == Put(t, i, e)
<1>1. Occupied(u) = Occupied(t) \cup {i} /\ i \notin Occupied(t)
  <2>1. i \notin Occupied(t)
    BY DEF Occupied
  <2> QED
    BY <2>1, FillOne
<1>2. \A j \in DOMAIN t : u[j] = IF j = i THEN e ELSE t[j]
  BY DEF Put
<1>3. i \in DOMAIN t /\ Occupied(t) \subseteq DOMAIN t
  BY DEF Table, Occupied
<1> HIDE DEF u
<1>4. u[i] = e /\ \A j \in Occupied(t) : u[j] = t[j]
  BY <1>1, <1>2, <1>3
<1> QED
  BY <1>1, <1>4 DEF Entries, u

LEMMA ClearEntries ==
  ASSUME NEW t, NEW N, Table(t, N), OneSlot(t), NEW i \in 0..(N-1), t[i] # Free
  PROVE  Entries(Put(t, i, Free)) = Entries(t) \ {t[i]}
<1> DEFINE u == Put(t, i, Free)
<1>1. Occupied(u) = Occupied(t) \ {i}
  BY ClearOne
<1>2. i \in Occupied(t) /\ \A j \in Occupied(t) : t[j] = t[i] => j = i
  BY DEF OneSlot, Occupied, Table
<1>3. \A j \in Occupied(u) : u[j] = t[j]
  BY <1>1 DEF Put, Occupied
<1> HIDE DEF u
<1> QED
  BY <1>1, <1>2, <1>3 DEF Entries, u

\* Placing an entry whose key the table does not hold keeps all entries reached.
LEMMA PlaceGood ==
  ASSUME HashType, NEW t, NEW N, Table(t, N), NEW e \in Slot, e # Free,
         NEW f \in 0..(N-1), t[f] = Free
  PROVE  \E i \in 0..(N-1) :
           /\ t[i] = Free
           /\ Place(t, e) = Put(t, i, e)
           /\ Table(Place(t, e), N)
           /\ Cardinality(Occupied(Place(t, e))) = Cardinality(Occupied(t)) + 1
           /\ Occupied(Place(t, e)) = Occupied(t) \cup {i}
           /\ Good(t, N) /\ (\A j \in Occupied(t) : t[j].key # e.key) => Good(Place(t, e), N)
<1>1. e.key \in Keys /\ DOMAIN t = 0..(N-1) /\ N \in Nat \ {0} /\ t \in [0..(N-1) -> Slot]
  BY SlotType, CapIs DEF Table
<1>2. PICK d \in 0..(N-1) : /\ Taken(t, e, d)
                            /\ Place(t, e) = [t EXCEPT ![Probe(t, e.key, d)] = e]
  BY PlaceTakes
<1>3. PICK i \in 0..(N-1) : i = Probe(t, e.key, d)
  BY <1>1, ProbeIs
<1>4. t[i] = Free /\ \A c \in 0..(d-1) : t[Probe(t, e.key, c)] # Free
  BY <1>2, <1>3 DEF Taken
<1> DEFINE u == Put(t, i, e)
<1>5. Place(t, e) = u
  BY <1>2, <1>3 DEF Put
<1>6. /\ Table(u, N)
      /\ Occupied(u) = Occupied(t) \cup {i}
      /\ Cardinality(Occupied(u)) = Cardinality(Occupied(t)) + 1
  BY <1>4, FillOne
<1>7. \A j \in 0..(N-1) : u[j] = IF j = i THEN e ELSE t[j]
  BY <1>1 DEF Put
<1>8. ASSUME Good(t, N), \A j \in Occupied(t) : t[j].key # e.key PROVE Good(u, N)
  <2>1. \A j \in Occupied(u) : j \in 0..(N-1) /\ (j = i \/ j \in Occupied(t))
    BY <1>1, <1>6 DEF Occupied
  <2>2. OneSlot(u)
    BY <1>7, <1>8, <2>1 DEF OneSlot, Good
  <2>3. \A k, c : Probe(u, k, c) = Probe(t, k, c)
    BY <1>6, CapIs DEF Probe
  <2>4. ASSUME NEW j \in Occupied(u), NEW c \in 0..(Dist(u[j].key, j, N) - 1)
        PROVE  u[Probe(u, u[j].key, c)] # Free
    <3>1. u[j].key \in Keys /\ j \in 0..(N-1)
      BY <1>1, <1>6, <2>1, SlotType DEF Occupied, Table
    <3>2. Dist(u[j].key, j, N) \in 0..(N-1)
      BY <3>1, <1>6, ProbeMeets
    <3>3. c \in 0..(N-1)
      BY <1>1, <3>2
    <3>4. Probe(t, u[j].key, c) \in 0..(N-1)
      BY <3>1, <3>3, ProbeIs
    <3>5. t[Probe(t, u[j].key, c)] # Free
      <4>1. CASE j = i
        <5>1. Dist(e.key, i, N) = d
          BY <1>1, <1>3, ProbeMeets
        <5> QED
          BY <1>4, <1>7, <4>1, <5>1
      <4>2. CASE j # i
        <5>1. j \in Occupied(t) /\ u[j] = t[j]
          BY <1>7, <2>1, <4>2
        <5> QED
          BY <1>8, <5>1 DEF Good, Reached
      <4> QED
        BY <4>1, <4>2
    <3> HIDE DEF u
    <3> QED
      BY <1>7, <2>3, <3>4, <3>5
  <2> HIDE DEF u
  <2> QED
    BY <2>2, <2>4 DEF Good, Reached
<1> QED
  BY <1>4, <1>5, <1>6, <1>8

-----------------------------------------------------------------------------
(* The larger table.                                                         *)

LEMMA EmptyGood ==
  ASSUME NEW N \in Nat \ {0}
  PROVE  /\ Table(Empty(N), N) /\ Occupied(Empty(N)) = {}
         /\ Cardinality(Occupied(Empty(N))) = 0
         /\ Good(Empty(N), N)
<1>1. Table(Empty(N), N)
  BY DEF Table, Empty, Slot
<1>2. Occupied(Empty(N)) = {i \in 0..(N-1) : Empty(N)[i] # Free}
  BY <1>1, OccupiedType
<1>3. Occupied(Empty(N)) = {}
  BY <1>2 DEF Empty
<1>4. Good(Empty(N), N)
  BY <1>3 DEF Good, OneSlot
<1> QED
  BY <1>1, <1>3, <1>4, FS_EmptySet

\* The larger table u holds what t has below slot n.
Lower(t, n) == {i \in Occupied(t) : i < n}
Holds(u, t, n, M) ==
  /\ Table(u, M)
  /\ Cardinality(Occupied(u)) = Cardinality(Lower(t, n))
  /\ Entries(u) = {t[i] : i \in Lower(t, n)}
  /\ OneSlot(t) => Good(u, M)

RegrowStep(u, t, n) == IF t[n-1] = Free THEN u ELSE Place(u, t[n-1])

LEMMA RegrowOne ==
  ASSUME HashType, NEW t, NEW N, Table(t, N), NEW n \in 1..N, NEW u, Holds(u, t, n - 1, 2 * N)
  PROVE  Holds(RegrowStep(u, t, n), t, n, 2 * N)
<1>1. /\ N \in Nat \ {0} /\ t \in [0..(N-1) -> Slot] /\ n - 1 \in 0..(N-1)
      /\ Occupied(t) = {i \in 0..(N-1) : t[i] # Free} /\ IsFiniteSet(Occupied(t))
  <2>1. N \in Nat \ {0} /\ t \in [0..(N-1) -> Slot]
    BY DEF Table
  <2>2. n - 1 \in 0..(N-1)
    BY <2>1
  <2> QED
    BY <2>1, <2>2, OccupiedType
<1>2. /\ Table(u, 2 * N) /\ 2 * N \in Nat \ {0}
      /\ Cardinality(Occupied(u)) = Cardinality(Lower(t, n - 1))
      /\ Entries(u) = {t[i] : i \in Lower(t, n - 1)}
      /\ OneSlot(t) => Good(u, 2 * N)
  BY <1>1 DEF Holds
<1>3. CASE t[n-1] = Free
  <2>1. Lower(t, n) = Lower(t, n - 1)
    BY <1>1, <1>3 DEF Lower
  <2> QED
    BY <1>2, <1>3, <2>1 DEF Holds, RegrowStep
<1>4. CASE t[n-1] # Free
  <2> DEFINE e == t[n-1]
  <2>1. /\ Lower(t, n) = Lower(t, n - 1) \cup {n - 1} /\ n - 1 \notin Lower(t, n - 1)
        /\ Lower(t, n - 1) \subseteq Occupied(t)
    BY <1>1, <1>4 DEF Lower
  <2>2. IsFiniteSet(Lower(t, n - 1))
    BY <1>1, <2>1, FS_Subset
  <2>3. Cardinality(Lower(t, n)) = Cardinality(Lower(t, n - 1)) + 1
    BY <2>1, <2>2, FS_AddElement
  <2>4. Cardinality(Lower(t, n - 1)) < 2 * N
    <3>1. Lower(t, n - 1) \subseteq 0..(N-1)
      BY <1>1, <2>1
    <3>2. 0 \in Int /\ N - 1 \in Int /\ 0 <= N - 1
      BY <1>1
    <3>3. IsFiniteSet(0..(N-1)) /\ Cardinality(0..(N-1)) = N
      BY <1>1, <3>2, FS_Interval
    <3>4. /\ Cardinality(Lower(t, n - 1)) \in Nat
          /\ Cardinality(Lower(t, n - 1)) <= N
      BY <2>2, <3>1, <3>3, FS_Subset, FS_CardinalityType
    <3> QED
      BY <1>1, <3>4
  <2>5. PICK f \in 0..(2*N-1) : u[f] = Free
    BY <1>2, <2>4, OccupiedType
  <2>6. e \in Slot /\ e # Free
    BY <1>1, <1>4
  <2> HIDE DEF e
  <2>7. PICK i \in 0..(2*N-1) :
          /\ u[i] = Free
          /\ Place(u, e) = Put(u, i, e)
          /\ Table(Place(u, e), 2 * N)
          /\ Cardinality(Occupied(Place(u, e))) = Cardinality(Occupied(u)) + 1
          /\ Occupied(Place(u, e)) = Occupied(u) \cup {i}
          /\ Good(u, 2 * N) /\ (\A j \in Occupied(u) : u[j].key # e.key)
               => Good(Place(u, e), 2 * N)
    BY <1>2, <2>5, <2>6, PlaceGood DEF Put
  <2>8. Entries(Place(u, e)) = {t[b] : b \in Lower(t, n)}
    <3>1. Entries(Place(u, e)) = Entries(u) \cup {e}
      BY <1>2, <2>6, <2>7, FillEntries
    <3> QED
      BY <1>2, <2>1, <3>1 DEF e
  <2>9. ASSUME OneSlot(t) PROVE Good(Place(u, e), 2 * N)
    <3>1. n - 1 \in Occupied(t)
      BY <1>1, <1>4
    <3>2. ASSUME NEW j \in Occupied(u) PROVE u[j].key # e.key
      <4>1. PICK b \in Lower(t, n - 1) : u[j] = t[b]
        BY <1>2, <3>2 DEF Entries
      <4>2. b \in Occupied(t) /\ b # n - 1
        BY <1>1, <4>1 DEF Lower
      <4> QED
        BY <2>9, <3>1, <4>1, <4>2 DEF OneSlot, e
    <3> QED
      BY <1>2, <2>7, <2>9, <3>2
  <2>10. RegrowStep(u, t, n) = Place(u, e)
    BY <1>4 DEF RegrowStep, e
  <2> QED
    BY <1>2, <2>3, <2>7, <2>8, <2>9, <2>10 DEF Holds
<1> QED
  BY <1>3, <1>4

\* The larger table has the entries of the old one, and all of them are reached.
LEMMA RegrowGood ==
  ASSUME HashType, NEW t, NEW N, Table(t, N)
  PROVE  /\ Table(Regrow(t), 2 * N)
         /\ Cardinality(Occupied(Regrow(t))) = Cardinality(Occupied(t))
         /\ Entries(Regrow(t)) = Entries(t)
         /\ OneSlot(t) => Good(Regrow(t), 2 * N)
<1> DEFINE Slots == [0..(2*N-1) -> Slot]
           Q == [n \in 0..N |-> {u \in Slots : Holds(u, t, n, 2 * N)}]
           next == [n \in 1..N |-> [u \in Q[n-1] |-> RegrowStep(u, t, n)]]
           Defines(g) == g = [n \in 0..Cap(t) |->
                                IF n = 0 THEN Empty(2 * Cap(t))
                                ELSE IF t[n-1] = Free THEN g[n-1] ELSE Place(g[n-1], t[n-1])]
<1>1. N \in Nat \ {0} /\ 2 * N \in Nat \ {0} /\ Cap(t) = N
  <2>1. N \in Nat \ {0} /\ Cap(t) = N
    BY CapIs DEF Table
  <2> QED
    BY <2>1
<1>2. \A n \in 0..N : \A u : u \in Q[n] <=> Holds(u, t, n, 2 * N)
  BY <1>1 DEF Holds, Table
<1>3. Empty(2 * N) \in Q[0]
  <2>1. Lower(t, 0) = {}
    BY OccupiedType DEF Lower
  <2>2. Cardinality(Lower(t, 0)) = 0
    BY <2>1, FS_EmptySet
  <2>3. Entries(Empty(2 * N)) = {}
    BY <1>1, EmptyGood DEF Entries
  <2>4. Holds(Empty(2 * N), t, 0, 2 * N)
    BY <1>1, <2>1, <2>2, <2>3, EmptyGood DEF Holds
  <2> QED
    BY <1>1, <1>2, <2>4
<1>4. \A n \in 1..N : n - 1 \in 0..N /\ n \in 0..N /\ n # 0
  BY <1>1
<1>5. \A n \in 1..N : \A u \in Q[n-1] : next[n][u] = RegrowStep(u, t, n)
  OBVIOUS
<1> HIDE DEF Q, next
<1>6. \A n \in 1..N : \A u \in Q[n-1] : RegrowStep(u, t, n) \in Q[n]
  BY <1>2, <1>4, RegrowOne
<1>7. PICK f : Steps(f, Empty(2 * N), next, N)
  BY <1>1, Iteration
<1>8. \A n \in 0..N : f[n] \in Q[n]
  <2>1. f[0] \in Q[0]
    BY <1>3, <1>7 DEF Steps
  <2>2. \A n \in 1..N : f[n-1] \in Q[n-1] => f[n] \in Q[n]
    <3> SUFFICES ASSUME NEW n \in 1..N, f[n-1] \in Q[n-1] PROVE f[n] \in Q[n]
      OBVIOUS
    <3>1. f[n] = next[n][f[n-1]]
      BY <1>7 DEF Steps
    <3>2. next[n][f[n-1]] = RegrowStep(f[n-1], t, n)
      BY <1>5
    <3> QED
      BY <1>6, <3>1, <3>2
  <2> QED
    BY <1>1, <2>1, <2>2, Stays
<1>9. Defines(f)
  <2>1. \A n \in 0..N : n = 0 \/ n \in 1..N
    BY <1>1
  <2>2. f[0] = Empty(2 * N) /\ \A n \in 1..N : f[n] = RegrowStep(f[n-1], t, n)
    BY <1>4, <1>5, <1>7, <1>8 DEF Steps
  <2>3. \A n \in 0..N : f[n] = IF n = 0 THEN Empty(2 * N)
                                ELSE IF t[n-1] = Free THEN f[n-1] ELSE Place(f[n-1], t[n-1])
    BY <1>4, <2>1, <2>2 DEF RegrowStep
  <2>4. f = [n \in 0..N |-> f[n]]
    BY <1>7 DEF Steps
  <2> QED
    BY <1>1, <2>3, <2>4
<1> DEFINE moved == CHOOSE g : Defines(g)
<1>10. Regrow(t) = moved[N]
  BY <1>1 DEF Regrow
<1> HIDE DEF Defines
<1>11. Defines(moved)
  BY <1>9
<1> HIDE DEF moved
<1> USE DEF Defines
<1>12. moved[0] = Empty(2 * N) /\ \A n \in 1..N : moved[n] = RegrowStep(moved[n-1], t, n)
  <2>1. \A n \in 0..N : moved[n] = IF n = 0 THEN Empty(2 * N)
                          ELSE IF t[n-1] = Free THEN moved[n-1] ELSE Place(moved[n-1], t[n-1])
    BY <1>1, <1>11
  <2> HIDE DEF Defines
  <2> QED
    BY <1>1, <1>4, <2>1 DEF RegrowStep
<1> HIDE DEF Defines
<1>13. \A n \in 0..N : moved[n] \in Q[n]
  <2>1. \A n \in 1..N : moved[n-1] \in Q[n-1] => moved[n] \in Q[n]
    BY <1>6, <1>12
  <2> QED
    BY <1>1, <1>3, <1>12, <2>1, Stays
<1>14. Holds(Regrow(t), t, N, 2 * N)
  BY <1>1, <1>2, <1>10, <1>13
<1>15. Lower(t, N) = Occupied(t)
  BY <1>1, OccupiedType DEF Lower
<1> QED
  BY <1>14, <1>15 DEF Holds, Entries

-----------------------------------------------------------------------------
(* The table laid out as a line that ends in an unoccupied slot z, which no   *)
(* probe for an entry crosses.                                               *)

Line(x, z, N) == IF z + x < N THEN z + x ELSE z + x - N
Pos(i, z, N) == IF i > z THEN i - z ELSE i + N - z

LEMMA LineIs ==
  ASSUME NEW N \in Nat \ {0}, NEW z \in 0..(N-1)
  PROVE  /\ \A x \in 1..N : Line(x, z, N) \in 0..(N-1) /\ Pos(Line(x, z, N), z, N) = x
         /\ \A i \in 0..(N-1) : Pos(i, z, N) \in 1..N /\ Line(Pos(i, z, N), z, N) = i
         /\ \A x, y \in 1..N : Line(x, z, N) = Line(y, z, N) => x = y
         /\ Line(N, z, N) = z
  BY DEF Line, Pos

HomePos(k, z, N) == Pos(Home(k, N), z, N)

LEMMA ProbeLine ==
  ASSUME HashType, NEW t, NEW N, Table(t, N), NEW z \in 0..(N-1), NEW k \in Keys,
         NEW y, y = HomePos(k, z, N)
  PROVE  /\ y \in 1..N
         /\ \A d \in 0..(N-1) :
              Probe(t, k, d) = Line(IF y + d <= N THEN y + d ELSE y + d - N, z, N)
         /\ \A x \in 1..N : Dist(k, Line(x, z, N), N) = IF x >= y THEN x - y ELSE x + N - y
<1>1. N \in Nat \ {0}
  BY DEF Table
<1>2. PICK h \in 0..(N-1) : h = Home(k, N)
  BY <1>1, HomeType
<1>3. y = IF h > z THEN h - z ELSE h + N - z
  BY <1>2 DEF HomePos, Pos
<1>4. y \in 1..N
  BY <1>1, <1>3
<1>5. ASSUME NEW d \in 0..(N-1)
      PROVE  Probe(t, k, d) = Line(IF y + d <= N THEN y + d ELSE y + d - N, z, N)
  <2>1. Probe(t, k, d) = IF h + d < N THEN h + d ELSE h + d - N
    BY <1>2, ProbeIs
  <2> QED
    BY <1>1, <1>3, <1>4, <2>1 DEF Line
<1>6. ASSUME NEW x \in 1..N
      PROVE  Dist(k, Line(x, z, N), N) = IF x >= y THEN x - y ELSE x + N - y
  <2>1. Dist(k, Line(x, z, N), N)
          = IF Line(x, z, N) >= h THEN Line(x, z, N) - h ELSE Line(x, z, N) + N - h
    BY <1>2 DEF Dist
  <2> QED
    BY <1>1, <1>3, <1>4, <2>1 DEF Line
<1> QED
  BY <1>4, <1>5, <1>6

\* The entry at x has its home before it, and no unoccupied slot between.
Behind(t, x, z, N) ==
  /\ HomePos(t[Line(x, z, N)].key, z, N) <= x
  /\ \A w \in HomePos(t[Line(x, z, N)].key, z, N)..x : t[Line(w, z, N)] # Free

LEMMA ReachedLine ==
  ASSUME HashType, NEW t, NEW N, Table(t, N), NEW z \in 0..(N-1), t[z] = Free,
         NEW x \in 1..N, t[Line(x, z, N)] # Free
  PROVE  Reached(t, Line(x, z, N), N) <=> Behind(t, x, z, N)
<1> DEFINE i == Line(x, z, N)
           k == t[i].key
           y == HomePos(k, z, N)
           D == Dist(k, i, N)
<1>1. N \in Nat \ {0} /\ t \in [0..(N-1) -> Slot]
  BY DEF Table
<1>2. i \in 0..(N-1) /\ Line(N, z, N) = z
  BY <1>1, LineIs
<1>3. k \in Keys
  BY <1>1, <1>2, SlotType
<1>4. /\ y \in 1..N
      /\ \A d \in 0..(N-1) :
           Probe(t, k, d) = Line(IF y + d <= N THEN y + d ELSE y + d - N, z, N)
      /\ D = IF x >= y THEN x - y ELSE x + N - y
  BY <1>3, ProbeLine
<1>5. Reached(t, i, N) <=> \A c \in 0..(D-1) : t[Probe(t, k, c)] # Free
  BY DEF Reached
<1>6. Behind(t, x, z, N) <=> y <= x /\ \A w \in y..x : t[Line(w, z, N)] # Free
  BY DEF Behind
<1>7. t[Line(x, z, N)] # Free
  OBVIOUS
<1> HIDE DEF i, k, y, D
<1>8. CASE y <= x
  <2>1. D = x - y
    BY <1>4, <1>8
  <2>2. \A c \in 0..(D-1) : /\ c \in 0..(N-1) /\ y + c \in y..x
                            /\ Probe(t, k, c) = Line(y + c, z, N)
    BY <1>1, <1>4, <1>8, <2>1
  <2>3. \A w \in y..x : w = x \/ (w - y \in 0..(D-1) /\ y + (w - y) = w)
    BY <1>1, <1>4, <1>8, <2>1
  <2>4. ASSUME \A w \in y..x : t[Line(w, z, N)] # Free
        PROVE  \A c \in 0..(D-1) : t[Probe(t, k, c)] # Free
    BY <2>2, <2>4
  <2>5. ASSUME \A c \in 0..(D-1) : t[Probe(t, k, c)] # Free, NEW w \in y..x
        PROVE  t[Line(w, z, N)] # Free
    <3>1. CASE w = x
      BY <1>7, <3>1
    <3>2. CASE w - y \in 0..(D-1) /\ y + (w - y) = w
      BY <2>2, <2>5, <3>2
    <3> QED
      BY <2>3, <3>1, <3>2
  <2> QED
    BY <1>5, <1>6, <1>8, <2>4, <2>5 DEF i
<1>9. CASE ~(y <= x)
  <2>1. N - y \in 0..(D-1) /\ N - y \in 0..(N-1) /\ y + (N - y) = N
    BY <1>1, <1>4, <1>9
  <2>2. Probe(t, k, N - y) = z
    BY <1>1, <1>2, <1>4, <2>1
  <2>3. ~ Reached(t, i, N)
    BY <1>5, <2>1, <2>2
  <2> QED
    BY <1>6, <1>9, <2>3 DEF i
<1> QED
  BY <1>1, <1>4, <1>8, <1>9

-----------------------------------------------------------------------------
(* Closing the gap at position a, whose cluster ends before z: the entries at *)
(* a + 1 to a + n have been placed again.                                     *)

Moving(v, t, z, a, n, N) ==
  /\ Table(v, N)
  /\ v[z] = Free
  /\ \A x \in 1..N : x < a \/ x > a + n => v[Line(x, z, N)] = t[Line(x, z, N)]
  /\ \A x \in 1..(a + n) : v[Line(x, z, N)] # Free => Behind(v, x, z, N)
  /\ OneSlot(v)
  /\ Cardinality(Occupied(v)) + 1 = Cardinality(Occupied(t))
  /\ Entries(v) = Entries(t) \ {t[Line(a, z, N)]}

MoveStep(v, s) == Place([v EXCEPT ![s] = Free], v[s])

LEMMA MoveStart ==
  ASSUME HashType, NEW t, NEW N, Table(t, N), Good(t, N), NEW z \in 0..(N-1), t[z] = Free,
         NEW a \in 1..(N-1), t[Line(a, z, N)] # Free
  PROVE  Moving([t EXCEPT ![Line(a, z, N)] = Free], t, z, a, 0, N)
<1> DEFINE s == Line(a, z, N)
           u == Put(t, s, Free)
<1>1. N \in Nat \ {0} /\ t \in [0..(N-1) -> Slot] /\ a \in 1..N /\ N \in 1..N
  BY DEF Table
<1>2. /\ s \in 0..(N-1)
      /\ \A x \in 1..N : Line(x, z, N) \in 0..(N-1) /\ (Line(x, z, N) = s => x = a)
      /\ Line(N, z, N) = z
  BY <1>1, LineIs
<1>3. /\ Table(u, N)
      /\ Occupied(u) = Occupied(t) \ {s}
      /\ Cardinality(Occupied(t)) = Cardinality(Occupied(u)) + 1
  BY <1>2, ClearOne
<1>4. \A i \in 0..(N-1) : u[i] = IF i = s THEN Free ELSE t[i]
  BY <1>1 DEF Put
<1>5. u = [t EXCEPT ![s] = Free]
  BY DEF Put
<1> HIDE DEF u, s
<1>6. u[z] = Free
  BY <1>4
<1>7. \A x \in 1..N : x # a => u[Line(x, z, N)] = t[Line(x, z, N)]
  BY <1>2, <1>4
<1>8. ASSUME NEW x \in 1..(a + 0), u[Line(x, z, N)] # Free PROVE Behind(u, x, z, N)
  <2>1. x \in 1..N /\ x < a
    BY <1>1, <1>2, <1>4, <1>8 DEF s
  <2>2. t[Line(x, z, N)] = u[Line(x, z, N)] /\ t[Line(x, z, N)] # Free
    BY <1>7, <1>8, <2>1
  <2>3. Line(x, z, N) \in Occupied(t)
    BY <1>2, <2>1, <2>2, OccupiedType
  <2>4. Behind(t, x, z, N)
    BY <2>1, <2>2, <2>3, ReachedLine DEF Good
  <2> DEFINE y == HomePos(t[Line(x, z, N)].key, z, N)
  <2>5. y \in 1..N
    BY <1>1, <1>2, <2>1, <2>2, SlotType, ProbeLine
  <2>6. \A w \in y..x : w \in 1..N /\ w # a
    BY <1>1, <2>1, <2>5
  <2> QED
    BY <1>7, <2>2, <2>4, <2>6 DEF Behind
<1>9. OneSlot(u)
  <2>1. \A i \in Occupied(u) : i \in Occupied(t) /\ u[i] = t[i]
    BY <1>3, <1>4, OccupiedType
  <2> QED
    BY <2>1 DEF Good, OneSlot
<1>10. \A x \in 1..N : x < a \/ x > a + 0 => u[Line(x, z, N)] = t[Line(x, z, N)]
  BY <1>7
<1>11. Entries(u) = Entries(t) \ {t[s]}
  BY <1>2, ClearEntries DEF Good, u, s
<1> QED
  BY <1>3, <1>5, <1>6, <1>8, <1>9, <1>10, <1>11 DEF Moving, s

\* Taking the next entry out and placing it again brings it no further than it was,
\* and cuts off no entry placed before it.
LEMMA MoveOne ==
  ASSUME HashType, NEW t, NEW N, Table(t, N), Good(t, N), NEW z \in 0..(N-1), t[z] = Free,
         NEW a \in 1..(N-1), NEW n \in 1..(N-1-a), t[Line(a + n, z, N)] # Free,
         NEW v, Moving(v, t, z, a, n - 1, N)
  PROVE  Moving(MoveStep(v, Line(a + n, z, N)), t, z, a, n, N)
<1> DEFINE b == a + n
           s == Line(b, z, N)
           e == v[s]
           v1 == Put(v, s, Free)
           y == HomePos(e.key, z, N)
<1>1. /\ N \in Nat \ {0} /\ a \in 1..(N-1) /\ b \in 1..(N-1) /\ b \in 1..N /\ a < b
      /\ N \in 1..N /\ a + (n - 1) = b - 1
      /\ t \in [0..(N-1) -> Slot]
  BY DEF Table
<1>2. /\ \A x \in 1..N : Line(x, z, N) \in 0..(N-1)
      /\ \A x, w \in 1..N : Line(x, z, N) = Line(w, z, N) => x = w
      /\ Line(N, z, N) = z
  BY <1>1, LineIs
<1>3. /\ Table(v, N) /\ v \in [0..(N-1) -> Slot] /\ v[z] = Free /\ OneSlot(v)
      /\ \A x \in 1..N : x < a \/ x > b - 1 => v[Line(x, z, N)] = t[Line(x, z, N)]
      /\ \A x \in 1..(b-1) : v[Line(x, z, N)] # Free => Behind(v, x, z, N)
      /\ Cardinality(Occupied(v)) + 1 = Cardinality(Occupied(t))
      /\ Entries(v) = Entries(t) \ {t[Line(a, z, N)]}
  BY <1>1 DEF Moving, Table
<1>4. s \in 0..(N-1) /\ e = t[s] /\ e # Free /\ e \in Slot /\ e.key \in Keys
  BY <1>1, <1>2, <1>3, SlotType
<1>5. /\ Table(v1, N)
      /\ Occupied(v1) = Occupied(v) \ {s}
      /\ Cardinality(Occupied(v)) = Cardinality(Occupied(v1)) + 1
      /\ Entries(v1) = Entries(v) \ {e} /\ e \in Entries(v)
  <2>1. Table(v, N) /\ OneSlot(v) /\ v[s] # Free /\ s \in 0..(N-1)
    BY <1>3, <1>4
  <2>2. s \in Occupied(v)
    BY <2>1, OccupiedType
  <2>3. e \in Entries(v)
    BY <2>2 DEF Entries
  <2> HIDE DEF s
  <2>4. /\ Table(v1, N)
        /\ Occupied(v1) = Occupied(v) \ {s}
        /\ Cardinality(Occupied(v)) = Cardinality(Occupied(v1)) + 1
    BY <2>1, ClearOne
  <2>5. Entries(v1) = Entries(v) \ {e}
    BY <2>1, ClearEntries
  <2> QED
    BY <2>3, <2>4, <2>5
<1>6. \A i \in 0..(N-1) : v1[i] = IF i = s THEN Free ELSE v[i]
  BY <1>3 DEF Put
<1>7. MoveStep(v, s) = Place(v1, e)
  BY DEF MoveStep, Put
<1>8. y \in 1..N /\ y <= b /\ \A w \in y..b : t[Line(w, z, N)] # Free
  <2>1. s \in Occupied(t) /\ Reached(t, s, N)
    BY <1>4, OccupiedType DEF Good
  <2>2. Behind(t, b, z, N)
    BY <1>1, <1>4, <2>1, ReachedLine
  <2>3. y \in 1..N
    <3>1. PICK k \in Keys : k = e.key /\ y = HomePos(k, z, N)
      BY <1>4
    <3> QED
      BY <1>1, <3>1, ProbeLine
  <2>4. t[Line(b, z, N)] = e
    BY <1>4
  <2> HIDE DEF e, b
  <2> QED
    BY <2>2, <2>3, <2>4 DEF Behind
<1>9. \A x \in 1..N : x # b => v1[Line(x, z, N)] = v[Line(x, z, N)]
  BY <1>1, <1>2, <1>6
<1>10. v1[s] = Free
  BY <1>4, <1>6
<1> HIDE DEF v1
<1>11. Dist(e.key, s, N) = b - y
  <2>1. PICK k \in Keys : k = e.key /\ y = HomePos(k, z, N)
    BY <1>4
  <2>2. Dist(k, Line(b, z, N), N) = IF b >= y THEN b - y ELSE b + N - y
    BY <1>1, <2>1, ProbeLine
  <2>3. y <= b /\ b \in 1..N /\ y \in 1..N
    BY <1>1, <1>8
  <2> HIDE DEF e, b, y
  <2> QED
    BY <2>1, <2>2, <2>3
<1> HIDE DEF e, s, b, y
<1>12. PICK d \in 0..(N-1) : /\ d <= b - y
                             /\ Taken(v1, e, d)
                             /\ Place(v1, e) = [v1 EXCEPT ![Probe(v1, e.key, d)] = e]
  <2>1. \E d \in 0..(N-1) : /\ d <= Dist(e.key, s, N)
                            /\ Taken(v1, e, d)
                            /\ Place(v1, e) = [v1 EXCEPT ![Probe(v1, e.key, d)] = e]
    BY <1>4, <1>5, <1>10, PlaceTakes
  <2> QED
    BY <1>11, <2>1
<1>13. \A c \in 0..d : /\ c \in 0..(N-1) /\ y + c \in 1..N /\ y + c <= b
                       /\ Probe(v1, e.key, c) = Line(y + c, z, N)
  <2>1. \A c \in 0..d : c \in 0..(N-1) /\ y + c \in 1..N /\ y + c <= b /\ y + c <= N
    BY <1>1, <1>8, <1>12
  <2>2. \A c \in 0..(N-1) :
          Probe(v1, e.key, c) = Line(IF y + c <= N THEN y + c ELSE y + c - N, z, N)
    BY <1>4, <1>5, ProbeLine DEF y
  <2> QED
    BY <2>1, <2>2
<1> DEFINE p == y + d
           v2 == Put(v1, Line(p, z, N), e)
<1>14. /\ p \in 1..N /\ y <= p /\ p <= b
       /\ v1[Line(p, z, N)] = Free
       /\ Place(v1, e) = v2
  <2>1. d \in 0..d /\ p \in 1..N /\ y <= p /\ p <= b
    BY <1>1, <1>8, <1>12
  <2>2. Probe(v1, e.key, d) = Line(p, z, N)
    BY <1>13, <2>1
  <2>3. v1[Line(p, z, N)] = Free
    BY <1>12, <2>2 DEF Taken
  <2>4. Place(v1, e) = v2
    BY <1>12, <2>2 DEF Put
  <2> QED
    BY <2>1, <2>3, <2>4
<1>15. \A w \in y..(p-1) : v1[Line(w, z, N)] # Free
  <2> SUFFICES ASSUME NEW w \in y..(p-1) PROVE v1[Line(w, z, N)] # Free
    OBVIOUS
  <2>1. w - y \in 0..(d-1) /\ w - y \in 0..d /\ y + (w - y) = w
    BY <1>1, <1>8, <1>12
  <2>2. Probe(v1, e.key, w - y) = Line(w, z, N)
    BY <1>13, <2>1
  <2> QED
    BY <1>12, <2>1, <2>2 DEF Taken
<1> HIDE DEF p
<1>16. a <= p
  <2> SUFFICES ASSUME p < a PROVE FALSE
    BY <1>1, <1>14
  <2>1. p \in y..b /\ p # b /\ p < a
    BY <1>1, <1>8, <1>14
  <2>2. v1[Line(p, z, N)] = t[Line(p, z, N)]
    BY <1>3, <1>9, <1>14, <2>1
  <2> QED
    BY <1>8, <1>14, <2>1, <2>2
<1>17. /\ Table(v2, N)
       /\ Occupied(v2) = Occupied(v1) \cup {Line(p, z, N)}
       /\ Cardinality(Occupied(v2)) = Cardinality(Occupied(v1)) + 1
       /\ Entries(v2) = Entries(v1) \cup {e}
  <2>1. PICK i \in 0..(N-1) : i = Line(p, z, N)
    BY <1>2, <1>14
  <2>2. v1[i] = Free
    BY <1>14, <2>1
  <2>3. /\ Table(Put(v1, i, e), N)
        /\ Occupied(Put(v1, i, e)) = Occupied(v1) \cup {i}
        /\ Cardinality(Occupied(Put(v1, i, e))) = Cardinality(Occupied(v1)) + 1
        /\ Entries(Put(v1, i, e)) = Entries(v1) \cup {e}
    <3>1. Table(v1, N) /\ e \in Slot /\ e # Free
      BY <1>4, <1>5
    <3> QED
      BY <2>2, <3>1, FillOne, FillEntries
  <2> QED
    BY <2>1, <2>3
<1>18. \A i \in 0..(N-1) : v2[i] = IF i = Line(p, z, N) THEN e ELSE v1[i]
  BY <1>5 DEF Put, Table
<1> HIDE DEF v2
<1>19. \A x \in 1..N : v2[Line(x, z, N)] = IF x = p THEN e ELSE v1[Line(x, z, N)]
  BY <1>2, <1>14, <1>18
<1>20. v2[z] = Free
  <2>1. N # p /\ N # b
    BY <1>1, <1>14
  <2>2. v2[Line(N, z, N)] = v[Line(N, z, N)]
    BY <1>1, <1>9, <1>19, <2>1
  <2> QED
    BY <1>2, <1>3, <2>2
<1>21. \A x \in 1..N : x < a \/ x > b => v2[Line(x, z, N)] = t[Line(x, z, N)]
  <2> SUFFICES ASSUME NEW x \in 1..N, x < a \/ x > b
               PROVE  v2[Line(x, z, N)] = t[Line(x, z, N)]
    OBVIOUS
  <2>1. x # p /\ x # b /\ (x < a \/ x > b - 1)
    BY <1>1, <1>14, <1>16
  <2> QED
    BY <1>3, <1>9, <1>19, <2>1
<1>22. ASSUME NEW x \in 1..b, v2[Line(x, z, N)] # Free PROVE Behind(v2, x, z, N)
  <2>1. x \in 1..N
    BY <1>1
  <2>2. CASE x = p
    <3>1. v2[Line(x, z, N)] = e
      BY <1>19, <2>1, <2>2
    <3>2. \A w \in y..p : w = p \/ (w \in y..(p-1) /\ w \in 1..N)
      BY <1>1, <1>8, <1>14
    <3>3. \A w \in y..p : v2[Line(w, z, N)] # Free
      BY <1>4, <1>14, <1>15, <1>19, <3>2
    <3> QED
      BY <1>14, <2>2, <3>1, <3>3 DEF Behind, y
  <2>3. CASE x # p
    <3>1. v2[Line(x, z, N)] = v1[Line(x, z, N)] /\ x # b
      BY <1>10, <1>19, <1>22, <2>1, <2>3 DEF s
    <3>2. v2[Line(x, z, N)] = v[Line(x, z, N)] /\ x \in 1..(b-1)
      BY <1>1, <1>9, <2>1, <3>1
    <3>3. Behind(v, x, z, N)
      BY <1>3, <1>22, <3>2
    <3> DEFINE yx == HomePos(v[Line(x, z, N)].key, z, N)
    <3>4. yx \in 1..N
      <4>1. v[Line(x, z, N)].key \in Keys
        BY <1>2, <1>3, <1>22, <2>1, <3>2, SlotType
      <4> QED
        BY <1>3, <4>1, ProbeLine
    <3>5. \A w \in yx..x : w \in 1..N /\ w # b
      BY <1>1, <2>1, <3>2, <3>4
    <3>6. \A w \in yx..x : v2[Line(w, z, N)] # Free
      BY <1>4, <1>9, <1>19, <3>3, <3>5 DEF Behind
    <3> QED
      BY <3>2, <3>3, <3>6 DEF Behind
  <2> QED
    BY <2>2, <2>3
<1>23. OneSlot(v2)
  <2>1. \A i \in Occupied(v2) : i \in 0..(N-1) /\ v2[i] # Free
    BY <1>17, OccupiedType
  <2>2. ASSUME NEW i \in Occupied(v2), i # Line(p, z, N)
        PROVE  i \in Occupied(v) /\ v2[i] = v[i] /\ i # s
    BY <1>5, <1>6, <1>17, <1>18, <2>1, <2>2, <1>10, OccupiedType DEF v1
  <2>3. s \in Occupied(v) /\ v[s] = e
    BY <1>3, <1>4, OccupiedType DEF e
  <2>4. v2[Line(p, z, N)] = e
    BY <1>2, <1>14, <1>18
  <2> QED
    BY <1>3, <2>2, <2>3, <2>4 DEF OneSlot
<1>24. /\ Cardinality(Occupied(v2)) + 1 = Cardinality(Occupied(t))
       /\ Entries(v2) = Entries(t) \ {t[Line(a, z, N)]}
  BY <1>3, <1>5, <1>17
<1>25. Moving(v2, t, z, a, n, N)
  BY <1>17, <1>20, <1>21, <1>22, <1>23, <1>24 DEF Moving, b
<1> QED
  BY <1>7, <1>14, <1>25 DEF s, b

LEMMA MoveEnd ==
  ASSUME HashType, NEW t, NEW N, NEW z \in 0..(N-1), NEW a \in 1..(N-1),
         NEW v, Moving(v, t, z, a, N - 1 - a, N)
  PROVE  Good(v, N)
<1>1. /\ N \in Nat \ {0} /\ Table(v, N) /\ v[z] = Free /\ OneSlot(v)
      /\ a + (N - 1 - a) = N - 1
  BY DEF Moving, Table
<1>2. \A x \in 1..(N-1) : v[Line(x, z, N)] # Free => Behind(v, x, z, N)
  BY <1>1 DEF Moving
<1>3. ASSUME NEW i \in Occupied(v) PROVE Reached(v, i, N)
  <2>1. i \in 0..(N-1) /\ v[i] # Free
    BY <1>1, <1>3, OccupiedType
  <2>2. PICK x \in 1..N : Line(x, z, N) = i
    BY <1>1, <2>1, LineIs
  <2>3. x # N
    BY <1>1, <2>1, <2>2, LineIs
  <2>4. Behind(v, x, z, N)
    BY <1>1, <1>2, <2>1, <2>2, <2>3
  <2> QED
    BY <1>1, <2>1, <2>2, <2>4, ReachedLine
<1> QED
  BY <1>1, <1>3 DEF Good

\* Removing an entry of the string-keyed map leaves all the others reached.
LEMMA ClosedGood ==
  ASSUME HashType, NEW t, NEW N, Table(t, N), Good(t, N), NEW i \in 0..(N-1), t[i] # Free,
         NEW j \in 0..(N-1), t[j] = Free
  PROVE  LET w == Closed(Put(t, i, Free), i)
         IN  /\ Table(w, N) /\ Good(w, N) /\ Cardinality(Occupied(w)) + 1 = Cardinality(Occupied(t))
             /\ Entries(w) = Entries(t) \ {t[i]}
<1> DEFINE u == Put(t, i, Free)
           at(d) == (i + d) % Cap(u)
           T == {d \in 1..(N-1) : u[at(d)] = Free}
<1>1. /\ N \in Nat \ {0} /\ Table(u, N) /\ Cap(u) = N
      /\ \A x \in 0..(N-1) : u[x] = IF x = i THEN Free ELSE t[x]
  <2>1. Table(u, N)
    BY ClearOne
  <2> QED
    BY <2>1, CapIs DEF Table, Put
<1>2. \A d \in 0..(N-1) : at(d) = IF i + d < N THEN i + d ELSE i + d - N
  <2>1. N * 0 + i = i /\ 0 \in Nat
    BY <1>1
  <2>2. i % N = i
    BY <1>1, <2>1, RemainderIs
  <2>3. i \in Nat
    OBVIOUS
  <2> QED
    <3> SUFFICES ASSUME NEW d \in 0..(N-1)
                 PROVE  at(d) = IF i + d < N THEN i + d ELSE i + d - N
      OBVIOUS
    <3>1. (i + d) % N = IF (i % N) + d < N THEN (i % N) + d ELSE (i % N) + d - N
      BY <1>1, <2>3, WrapAround
    <3> HIDE DEF u
    <3> QED
      BY <1>1, <2>2, <3>1
<1> HIDE DEF u
<1>3. T \subseteq Nat /\ T # {}
  <2>1. PICK d \in 1..(N-1) : d = IF j > i THEN j - i ELSE j + N - i
    <3>1. j # i
      OBVIOUS
    <3>2. CASE j > i
      <4>1. j - i \in 1..(N-1)
        BY <1>1, <3>2
      <4> QED
        BY <3>2, <4>1
    <3>3. CASE ~(j > i)
      <4>1. j + N - i \in 1..(N-1)
        BY <1>1, <3>1, <3>3
      <4> QED
        BY <3>3, <4>1
    <3> QED
      BY <3>2, <3>3
  <2>2. at(d) = j
    BY <1>1, <1>2, <2>1
  <2>3. u[j] = Free
    BY <1>1
  <2> QED
    BY <2>1, <2>2, <2>3
<1> HIDE DEF T, at
<1>4. PICK q \in T : \A d \in T : q <= d
  BY <1>3, Least
<1>5. /\ q \in 1..(N-1) /\ u[at(q)] = Free
      /\ \A c \in 1..(q-1) : u[at(c)] # Free
  <2>1. q \in 1..(N-1) /\ u[at(q)] = Free
    BY DEF T
  <2>2. \A c \in 1..(q-1) : c \in 1..(N-1) /\ ~(q <= c)
    BY <1>1, <2>1
  <2> QED
    BY <1>4, <2>1, <2>2 DEF T
<1>6. PICK m \in 0..(N-2) : m = q - 1
  BY <1>1, <1>5
<1>7. PICK a \in 1..(N-1) : a = N - q
  BY <1>1, <1>5
<1>8. PICK z \in 0..(N-1) : z = at(q)
  BY <1>1, <1>2, <1>5
<1>9. m = N - 1 - a /\ m \in Nat
  BY <1>1, <1>5, <1>6, <1>7
<1>10. /\ \A n \in 1..m : at(n) \in 0..(N-1) /\ at(n) # i /\ at(n) = Line(a + n, z, N)
       /\ i = Line(a, z, N) /\ z # i
  <2>1. z = IF i + q < N THEN i + q ELSE i + q - N
    BY <1>2, <1>5, <1>8
  <2>2. \A n \in 1..m : n \in 0..(N-1) /\ at(n) = IF i + n < N THEN i + n ELSE i + n - N
    BY <1>1, <1>2, <1>6
  <2> QED
    BY <1>1, <1>5, <1>6, <1>7, <2>1, <2>2 DEF Line
<1>11. t[z] = Free /\ \A n \in 1..m : t[at(n)] # Free
  BY <1>1, <1>5, <1>6, <1>8, <1>10
<1>12. Moving(u, t, z, a, 0, N)
  <2>1. Moving([t EXCEPT ![Line(a, z, N)] = Free], t, z, a, 0, N)
    BY <1>10, <1>11, MoveStart
  <2> QED
    BY <1>10, <2>1 DEF u, Put
<1> DEFINE cluster == {d \in 1..(Cap(u)-1) : \A c \in 1..d : u[at(c)] # Free}
<1>13. Cardinality(cluster) = m
  <2>1. ASSUME NEW d \in 1..m PROVE d \in cluster
    <3>1. d \in 1..(N-1) /\ \A c \in 1..d : c \in 1..(q-1)
      BY <1>1, <1>5, <1>6
    <3> QED
      BY <1>1, <1>5, <3>1
  <2>2. ASSUME NEW d \in cluster PROVE d \in 1..m
    <3>1. d \in 1..(N-1) /\ q \notin 1..d
      BY <1>1, <1>5
    <3> QED
      BY <1>1, <1>5, <1>6, <3>1
  <2>3. cluster = 1..m
    BY <2>1, <2>2
  <2> HIDE DEF cluster
  <2>4. Cardinality(1..m) = m
    <3>1. 1 \in Int /\ m \in Int /\ m >= 0
      BY <1>9
    <3> QED
      BY <3>1, FS_Interval
  <2> QED
    BY <2>3, <2>4
<1> HIDE DEF cluster
<1> DEFINE Slots == [0..(N-1) -> Slot]
           Q == [n \in 0..m |-> {v \in Slots : Moving(v, t, z, a, n, N)}]
           next == [n \in 1..m |-> [v \in Q[n-1] |-> MoveStep(v, at(n))]]
           Defines(g) == g = [n \in 0..Cardinality(cluster) |->
                                IF n = 0 THEN u
                                ELSE Place([g[n-1] EXCEPT ![at(n)] = Free], g[n-1][at(n)])]
<1>14. \A n \in 0..m : \A v : v \in Q[n] <=> Moving(v, t, z, a, n, N)
  BY DEF Moving, Table
<1>15. u \in Q[0]
  BY <1>9, <1>12, <1>14
<1>16. \A n \in 1..m : n - 1 \in 0..m /\ n \in 0..m /\ n # 0
  BY <1>9
<1>17. \A n \in 1..m : \A v \in Q[n-1] : next[n][v] = MoveStep(v, at(n))
  OBVIOUS
<1> HIDE DEF Q, next
<1>18. \A n \in 1..m : \A v \in Q[n-1] : MoveStep(v, at(n)) \in Q[n]
  <2> SUFFICES ASSUME NEW n \in 1..m, NEW v \in Q[n-1] PROVE MoveStep(v, at(n)) \in Q[n]
    OBVIOUS
  <2>1. n \in 1..(N-1-a) /\ Moving(v, t, z, a, n - 1, N)
    BY <1>9, <1>14, <1>16
  <2>2. t[Line(a + n, z, N)] # Free
    BY <1>10, <1>11
  <2>3. Moving(MoveStep(v, Line(a + n, z, N)), t, z, a, n, N)
    BY <1>11, <2>1, <2>2, MoveOne
  <2> QED
    BY <1>10, <1>14, <1>16, <2>3
<1>19. PICK f : Steps(f, u, next, m)
  BY <1>9, Iteration
<1>20. \A n \in 0..m : f[n] \in Q[n]
  <2>1. f[0] \in Q[0]
    BY <1>15, <1>19 DEF Steps
  <2>2. \A n \in 1..m : f[n-1] \in Q[n-1] => f[n] \in Q[n]
    <3> SUFFICES ASSUME NEW n \in 1..m, f[n-1] \in Q[n-1] PROVE f[n] \in Q[n]
      OBVIOUS
    <3>1. f[n] = next[n][f[n-1]]
      BY <1>19 DEF Steps
    <3>2. next[n][f[n-1]] = MoveStep(f[n-1], at(n))
      BY <1>17
    <3> QED
      BY <1>18, <3>1, <3>2
  <2> QED
    BY <1>9, <2>1, <2>2, Stays
<1>21. Defines(f)
  <2>1. \A n \in 0..m : n = 0 \/ n \in 1..m
    BY <1>9
  <2>2. f[0] = u /\ \A n \in 1..m : f[n] = MoveStep(f[n-1], at(n))
    BY <1>16, <1>17, <1>19, <1>20 DEF Steps
  <2>3. \A n \in 0..m : f[n] = IF n = 0 THEN u
                                ELSE Place([f[n-1] EXCEPT ![at(n)] = Free], f[n-1][at(n)])
    BY <1>16, <2>1, <2>2 DEF MoveStep
  <2>4. f = [n \in 0..m |-> f[n]]
    BY <1>19 DEF Steps
  <2> QED
    BY <1>13, <2>3, <2>4
<1> DEFINE moved == CHOOSE g : Defines(g)
<1>22. Closed(u, i) = moved[m]
  <2>1. Closed(u, i) = moved[Cardinality(cluster)]
    BY DEF Closed, at, cluster
  <2> QED
    BY <1>13, <2>1
<1> HIDE DEF Defines
<1>23. Defines(moved)
  BY <1>21
<1> HIDE DEF moved
<1>24. moved[0] = u /\ \A n \in 1..m : moved[n] = MoveStep(moved[n-1], at(n))
  <2>1. \A n \in 0..m : moved[n] = IF n = 0 THEN u
                          ELSE Place([moved[n-1] EXCEPT ![at(n)] = Free], moved[n-1][at(n)])
    BY <1>13, <1>23 DEF Defines
  <2>2. moved[0] = u
    <3>1. 0 \in 0..m
      BY <1>9
    <3> QED
      BY <2>1, <3>1, Zenon
  <2>3. ASSUME NEW n \in 1..m PROVE moved[n] = MoveStep(moved[n-1], at(n))
    BY <1>16, <2>1 DEF MoveStep
  <2> QED
    BY <2>2, <2>3
<1>25. \A n \in 0..m : moved[n] \in Q[n]
  <2>1. \A n \in 1..m : moved[n-1] \in Q[n-1] => moved[n] \in Q[n]
    BY <1>18, <1>24
  <2> QED
    BY <1>9, <1>15, <1>24, <2>1, Stays
<1>26. Moving(Closed(u, i), t, z, a, N - 1 - a, N)
  BY <1>9, <1>14, <1>22, <1>25
<1>27. Good(Closed(u, i), N)
  BY <1>26, MoveEnd
<1> QED
  BY <1>10, <1>26, <1>27 DEF Moving, u

-----------------------------------------------------------------------------
(* The inductive invariant.                                                  *)

Counts(t, l, N) ==
  /\ Table(t, N)
  /\ l = Cardinality(Occupied(t))
  /\ Repairs => Good(t, N)

\* A table of the map that holds l entries, and one that has room for another.
Holding(t, l) == \E q \in Nat \ {0} : \E N \in Nat : N = 4 * q /\ Counts(t, l, N) /\ 4 * l <= 3 * N
Room(t, l) == \E q \in Nat \ {0} : \E N \in Nat : N = 4 * q /\ Counts(t, l, N) /\ 4 * l + 4 <= 3 * N

MapInv == HashType /\ next_seq \in Nat /\ Holding(slots, len)

LEMMA MapInvInit == Init => MapInv
<1> SUFFICES ASSUME Init PROVE MapInv
  OBVIOUS
<1>1. PICK q \in Nat, r \in 0..3 : Capacity = 4 * q + r
  <2>1. PICK q \in Nat, r \in 0..(4-1) : Capacity = 4 * q + r
    BY Quotient, MapAssumption
  <2> QED
    BY <2>1
<1>2. Capacity % 4 = r
  <2>1. 4 \in Nat \ {0} /\ r \in 0..(4-1)
    OBVIOUS
  <2> QED
    BY <1>1, <2>1, RemainderIs
<1>3. Capacity = 4 * q /\ Capacity \in Nat \ {0} /\ q \in Nat \ {0}
  BY <1>1, <1>2, MapAssumption
<1>4. /\ Table(Empty(Capacity), Capacity)
      /\ Cardinality(Occupied(Empty(Capacity))) = 0
      /\ Good(Empty(Capacity), Capacity)
  BY <1>3, EmptyGood
<1>5. Counts(Empty(Capacity), 0, Capacity)
  BY <1>4 DEF Counts
<1>6. Holding(Empty(Capacity), 0)
  BY <1>3, <1>5 DEF Holding
<1> QED
  BY <1>6 DEF Init, MapInv, HashType

LEMMA GrownRoom ==
  ASSUME HashType, NEW t, Holding(t, len), t = slots
  PROVE  Room(Grown(t), len)
<1>1. PICK q \in Nat \ {0}, N \in Nat : N = 4 * q /\ Counts(t, len, N) /\ 4 * len <= 3 * N
  BY DEF Holding
<1>2. Table(t, N) /\ len = Cardinality(Occupied(t)) /\ (Repairs => Good(t, N))
  BY <1>1 DEF Counts
<1>3. Cap(t) = N /\ len \in Nat
  BY <1>2, CapIs, OccupiedType
<1>4. CASE len * 4 >= Cap(t) * 3
  <2>1. /\ Table(Regrow(t), 2 * N)
        /\ Cardinality(Occupied(Regrow(t))) = Cardinality(Occupied(t))
        /\ OneSlot(t) => Good(Regrow(t), 2 * N)
    BY <1>2, RegrowGood
  <2>2. Counts(Regrow(t), len, 2 * N)
    BY <1>2, <2>1 DEF Counts, Good
  <2>3. 2 * q \in Nat \ {0} /\ 2 * N \in Nat /\ 2 * N = 4 * (2 * q) /\ 4 * len + 4 <= 3 * (2 * N)
    BY <1>1, <1>3
  <2>4. Grown(t) = Regrow(t)
    BY <1>4 DEF Grown
  <2> QED
    BY <2>2, <2>3, <2>4 DEF Room
<1>5. CASE ~(len * 4 >= Cap(t) * 3)
  <2>1. 4 * len + 4 <= 3 * N
    BY <1>1, <1>3, <1>5
  <2>2. Grown(t) = t
    BY <1>5 DEF Grown
  <2> QED
    BY <1>1, <2>1, <2>2 DEF Room
<1> QED
  BY <1>4, <1>5

\* The probe for a key stops at a slot of the table, and at the key's when it has one.
LEMMA StopType ==
  ASSUME HashType, NEW t, NEW N, Table(t, N), NEW k \in Keys
  PROVE  /\ Stop(t, k) \in 0..(N-1)
         /\ HasKey(t, k) => t[Stop(t, k)] \in Slot \ {Free} /\ t[Stop(t, k)].key = k
         /\ Good(t, N) /\ ~HasKey(t, k) => \A j \in Occupied(t) : t[j].key # k
<1>1. Cap(t) = N /\ N \in Nat \ {0} /\ t \in [0..(N-1) -> Slot] /\ DOMAIN t = 0..(N-1)
  BY CapIs DEF Table
<1>2. Cardinality(Passed(t, k)) \in Nat
  <2>1. Passed(t, k) \subseteq 0..(N-1)
    BY <1>1 DEF Passed
  <2>2. IsFiniteSet(0..(N-1))
    <3>1. 0 \in Int /\ N - 1 \in Int
      BY <1>1
    <3> QED
      BY <3>1, FS_Interval
  <2> QED
    BY <2>1, <2>2, FS_Subset, FS_CardinalityType
<1>3. hash[k] \in Nat
  BY <1>1, HomeType
<1>4. hash[k] + Cardinality(Passed(t, k)) \in Nat /\ 0 \in 0..(N-1)
  BY <1>1, <1>2, <1>3
<1>5. (hash[k] + Cardinality(Passed(t, k))) % N \in 0..(N-1)
  BY <1>1, <1>4, WrapAround
<1>6. Stop(t, k) \in 0..(N-1)
  BY <1>1, <1>5 DEF Stop, Probe
<1>7. HasKey(t, k) => t[Stop(t, k)] \in Slot \ {Free} /\ t[Stop(t, k)].key = k
  BY <1>1, <1>6, SlotType DEF HasKey
<1>8. ASSUME Good(t, N), ~HasKey(t, k), NEW j \in Occupied(t), t[j].key = k PROVE FALSE
  <2>1. Stop(t, k) = j
    BY <1>8, StopFinds
  <2> QED
    BY <1>8, <2>1 DEF HasKey
<1> QED
  BY <1>6, <1>7, <1>8

\* insert on a key the table finds
LEMMA ReplaceHolds ==
  ASSUME HashType, NEW t, NEW l, Room(t, l), NEW k \in Keys, NEW v \in Values, HasKey(t, k)
  PROVE  Holding([t EXCEPT ![Stop(t, k)].value = v], l)
<1>1. PICK q \in Nat \ {0}, N \in Nat : N = 4 * q /\ Counts(t, l, N) /\ 4 * l + 4 <= 3 * N
  BY DEF Room
<1>2. /\ Table(t, N) /\ t \in [0..(N-1) -> Slot] /\ N \in Nat \ {0}
      /\ l = Cardinality(Occupied(t)) /\ l \in Nat /\ (Repairs => Good(t, N))
  BY <1>1, OccupiedType DEF Counts, Table
<1>3. PICK s \in 0..(N-1) : s = Stop(t, k)
  BY <1>2, StopType
<1>4. t[s] \in Slot \ {Free} /\ t[s].key = k
  BY <1>2, <1>3, StopType
<1> DEFINE e == [t[s] EXCEPT !.value = v]
           u == Put(t, s, e)
<1>5. e \in Slot /\ e.key = k
  BY <1>4 DEF Slot
<1>6. e # Free
  BY <1>5, SlotType
<1>7. [t EXCEPT ![Stop(t, k)].value = v] = u
  BY <1>2, <1>3 DEF Put
<1> HIDE DEF e
<1>8. Table(u, N) /\ \A j \in 0..(N-1) : u[j] = IF j = s THEN e ELSE t[j]
  BY <1>2, <1>5 DEF Put, Table
<1> HIDE DEF u
<1>9. \A j \in 0..(N-1) : (u[j] # Free <=> t[j] # Free) /\ (u[j] # Free => u[j].key = t[j].key)
  BY <1>4, <1>5, <1>6, <1>8
<1>10. Occupied(u) = Occupied(t) /\ \A j \in Occupied(t) : j \in 0..(N-1) /\ u[j].key = t[j].key
  <2>1. /\ Occupied(t) = {j \in 0..(N-1) : t[j] # Free}
        /\ Occupied(u) = {j \in 0..(N-1) : u[j] # Free}
    BY <1>2, <1>8, OccupiedType
  <2> QED
    BY <1>9, <2>1
<1>11. ASSUME Good(t, N) PROVE Good(u, N)
  <2>1. OneSlot(u)
    BY <1>10, <1>11 DEF OneSlot, Good
  <2>2. \A j, c : Probe(u, j, c) = Probe(t, j, c)
    BY <1>2, <1>8, CapIs DEF Probe
  <2>3. ASSUME NEW i \in Occupied(u), NEW c \in 0..(Dist(u[i].key, i, N) - 1)
        PROVE  u[Probe(u, u[i].key, c)] # Free
    <3>1. u[i].key = t[i].key /\ i \in Occupied(t) /\ i \in 0..(N-1) /\ t[i].key \in Keys
      <4>1. u[i].key = t[i].key /\ i \in Occupied(t) /\ i \in 0..(N-1)
        BY <1>10
      <4> QED
        BY <1>2, <4>1, SlotType DEF Occupied
    <3>2. Dist(t[i].key, i, N) \in 0..(N-1)
      BY <1>2, <3>1, ProbeMeets
    <3>3. c \in 0..(N-1)
      BY <1>2, <3>1, <3>2
    <3>4. Probe(t, t[i].key, c) \in 0..(N-1)
      BY <1>2, <3>1, <3>3, ProbeIs
    <3>5. t[Probe(t, t[i].key, c)] # Free
      BY <1>11, <3>1 DEF Good, Reached
    <3> QED
      BY <1>9, <2>2, <3>1, <3>4, <3>5
  <2> QED
    BY <2>1, <2>3 DEF Good, Reached
<1>12. Counts(u, l, N)
  BY <1>2, <1>8, <1>10, <1>11 DEF Counts
<1>13. 4 * l <= 3 * N
  BY <1>1, <1>2
<1> QED
  BY <1>1, <1>7, <1>12, <1>13 DEF Holding

\* insert on a key the table does not find
LEMMA PlaceHolds ==
  ASSUME HashType, NEW t, NEW l, Room(t, l), NEW k \in Keys, NEW v \in Values, ~HasKey(t, k),
         NEW m \in Nat
  PROVE  Holding(Place(t, Entry(k, v, m)), l + 1)
<1>1. PICK q \in Nat \ {0}, N \in Nat : N = 4 * q /\ Counts(t, l, N) /\ 4 * l + 4 <= 3 * N
  BY DEF Room
<1>2. /\ Table(t, N)
      /\ l = Cardinality(Occupied(t)) /\ l \in Nat /\ (Repairs => Good(t, N))
  BY <1>1, OccupiedType DEF Counts
<1>3. PICK f \in 0..(N-1) : t[f] = Free
  <2>1. l < N
    BY <1>1, <1>2
  <2> QED
    BY <1>2, <2>1, OccupiedType
<1>4. PICK e \in Slot : e = Entry(k, v, m) /\ e.key = k
  <2>1. Entry(k, v, m) \in Slot /\ Entry(k, v, m).key = k
    BY DEF Slot, Entry
  <2> QED
    BY <2>1
<1>5. e # Free
  BY <1>4, SlotType
<1>6. /\ Table(Place(t, e), N)
      /\ Cardinality(Occupied(Place(t, e))) = l + 1
      /\ Good(t, N) /\ (\A j \in Occupied(t) : t[j].key # e.key) => Good(Place(t, e), N)
  BY <1>2, <1>3, <1>5, PlaceGood
<1>7. Good(t, N) => \A j \in Occupied(t) : t[j].key # e.key
  BY <1>2, <1>4, StopType
<1>8. Counts(Place(t, e), l + 1, N)
  BY <1>2, <1>6, <1>7 DEF Counts
<1>9. 4 * (l + 1) <= 3 * N
  BY <1>1, <1>2
<1> QED
  BY <1>1, <1>4, <1>8, <1>9 DEF Holding

\* remove
LEMMA ClearedHolds ==
  ASSUME HashType, NEW t, NEW l, Holding(t, l), NEW k \in Keys, HasKey(t, k)
  PROVE  Holding(Cleared(t, Stop(t, k)), l - 1)
<1>1. PICK q \in Nat \ {0}, N \in Nat : N = 4 * q /\ Counts(t, l, N) /\ 4 * l <= 3 * N
  BY DEF Holding
<1>2. /\ Table(t, N)
      /\ l = Cardinality(Occupied(t)) /\ l \in Nat /\ (Repairs => Good(t, N))
  BY <1>1, OccupiedType DEF Counts
<1>3. PICK s \in 0..(N-1) : s = Stop(t, k)
  BY <1>2, StopType
<1>4. t[s] # Free
  BY <1>2, <1>3, StopType
<1>5. PICK f \in 0..(N-1) : t[f] = Free
  <2>1. l < N
    BY <1>1, <1>2
  <2> QED
    BY <1>2, <2>1, OccupiedType
<1>6. Counts(Cleared(t, s), l - 1, N)
  <2>1. CASE Repairs
    <3>1. /\ Table(Closed(Put(t, s, Free), s), N)
          /\ Good(Closed(Put(t, s, Free), s), N)
          /\ Cardinality(Occupied(Closed(Put(t, s, Free), s))) + 1 = l
      BY <1>2, <1>4, <1>5, <2>1, ClosedGood
    <3>2. Cleared(t, s) = Closed(Put(t, s, Free), s)
      BY <2>1 DEF Cleared, Put
    <3>3. Cardinality(Occupied(Cleared(t, s))) \in Nat
      BY <3>1, <3>2, OccupiedType
    <3> QED
      BY <1>2, <3>1, <3>2, <3>3 DEF Counts
  <2>2. CASE ~Repairs
    <3>1. Table(Put(t, s, Free), N) /\ l = Cardinality(Occupied(Put(t, s, Free))) + 1
      BY <1>2, <1>4, ClearOne
    <3>2. Cleared(t, s) = Put(t, s, Free)
      BY <2>2 DEF Cleared, Put
    <3>3. Cardinality(Occupied(Cleared(t, s))) \in Nat
      BY <3>1, <3>2, OccupiedType
    <3> QED
      BY <1>2, <2>2, <3>1, <3>2, <3>3 DEF Counts
  <2> QED
    BY <2>1, <2>2
<1>7. 4 * (l - 1) <= 3 * N
  BY <1>1, <1>2
<1> QED
  BY <1>1, <1>3, <1>6, <1>7 DEF Holding

LEMMA MapInvNext == MapInv /\ [Next]_vars => MapInv'
<1> SUFFICES ASSUME MapInv, [Next]_vars PROVE MapInv'
  OBVIOUS
<1>1. HashType /\ next_seq \in Nat /\ Holding(slots, len)
  BY DEF MapInv
<1>2. ASSUME hash' = hash, next_seq' \in Nat, Holding(slots', len') PROVE MapInv'
  <2>1. HashType'
    BY <1>1, <1>2 DEF HashType
  <2>2. \A t, i, N : Reached(t, i, N)' <=> Reached(t, i, N)
    BY <1>2 DEF Reached, Dist, Home, Probe, Cap
  <2> QED
    BY <1>2, <2>1, <2>2 DEF MapInv, Holding, Counts, Good, OneSlot, Occupied, Table
<1>3. ASSUME NEW k \in Keys, RemoveKey(k) PROVE MapInv'
  BY <1>1, <1>2, <1>3, ClearedHolds DEF RemoveKey
<1>4. ASSUME NEW k \in Keys, NEW v \in Values, Insert(k, v) PROVE MapInv'
  <2>1. Room(Grown(slots), len)
    BY <1>1, GrownRoom
  <2>2. CASE /\ HasKey(Grown(slots), k)
             /\ slots' = [Grown(slots) EXCEPT ![Stop(Grown(slots), k)].value = v]
             /\ UNCHANGED <<len, next_seq, hash>>
    BY <1>1, <1>2, <2>1, <2>2, ReplaceHolds
  <2>3. CASE /\ ~HasKey(Grown(slots), k)
             /\ slots' = Place(Grown(slots), Entry(k, v, next_seq))
             /\ len' = len + 1
             /\ next_seq' = next_seq + 1
             /\ UNCHANGED hash
    BY <1>1, <1>2, <2>1, <2>3, PlaceHolds
  <2> QED
    BY <1>4, <2>2, <2>3 DEF Insert
<1>5. CASE UNCHANGED vars
  BY <1>1, <1>2, <1>5 DEF vars
<1> QED
  BY <1>3, <1>4, <1>5 DEF Next

LEMMA MapInvariance == Spec => []MapInv
<1> QED
  BY MapInvInit, MapInvNext, PTL DEF Spec

-----------------------------------------------------------------------------
\* Through any insertions, growth and removals of any of the maps, len counts the
\* occupied slots and a quarter of the table is unoccupied, so the probes of
\* get, insert, remove and grow come to an end.
THEOREM ProbesAlwaysEnd == Spec => []ProbesEnd
<1>1. MapInv => ProbesEnd
  <2> SUFFICES ASSUME MapInv PROVE ProbesEnd
    OBVIOUS
  <2>1. PICK q \in Nat \ {0}, N \in Nat : N = 4 * q /\ Counts(slots, len, N) /\ 4 * len <= 3 * N
    BY DEF MapInv, Holding
  <2>2. Table(slots, N) /\ len = Cardinality(Occupied(slots))
    BY <2>1 DEF Counts
  <2> QED
    BY <2>1, <2>2, CapIs DEF ProbesEnd
<1> QED
  BY <1>1, MapInvariance, PTL

\* The string-keyed map finds each of its entries, whichever keys collide and
\* whichever of them were removed: closing the gap a removed key leaves cuts no
\* other key's probe.
THEOREM EntriesAlwaysFound ==
  ASSUME Repairs
  PROVE  Spec => []EntriesFound
<1>1. MapInv => EntriesFound
  <2> SUFFICES ASSUME MapInv PROVE EntriesFound
    OBVIOUS
  <2>1. PICK q \in Nat \ {0}, N \in Nat : N = 4 * q /\ Counts(slots, len, N) /\ 4 * len <= 3 * N
    BY DEF MapInv, Holding
  <2>2. Table(slots, N) /\ Good(slots, N) /\ HashType
    BY <2>1 DEF Counts, MapInv
  <2> QED
    BY <2>2, StopFinds DEF EntriesFound
<1> QED
  BY <1>1, MapInvariance, PTL
-----------------------------------------------------------------------------
(* The list of the keys.                                                     *)

SeqKey == [seq : Nat, key : Keys]

Ranked(S) ==
  /\ IsFiniteSet(S) /\ S \subseteq SeqKey
  /\ \A p, q \in S : p.seq = q.seq => p = q

Rank(S, p) == Cardinality(Before(S, p))

\* The members of a set take the ranks below its size, one each.
LEMMA RankBelow ==
  ASSUME NEW S, Ranked(S)
  PROVE  /\ Cardinality(S) \in Nat
         /\ \A p \in S : Rank(S, p) \in 0..(Cardinality(S) - 1)
         /\ \A p, q \in S : q.seq < p.seq => Rank(S, q) < Rank(S, p)
         /\ \A p, q \in S : Rank(S, p) = Rank(S, q) => p = q
<1>1. IsFiniteSet(S) /\ Cardinality(S) \in Nat /\ \A p \in S : p.seq \in Nat
  BY FS_CardinalityType DEF Ranked, SeqKey
<1>2. ASSUME NEW T, T \subseteq S, NEW p \in T, NEW U, U \subseteq T \ {p}
      PROVE  Cardinality(U) \in Nat /\ Cardinality(T) \in Nat /\ Cardinality(U) < Cardinality(T)
  <2>1. IsFiniteSet(T) /\ IsFiniteSet(T \ {p}) /\ IsFiniteSet(U)
    BY <1>1, <1>2, FS_Subset
  <2>2. Cardinality(T \ {p}) = Cardinality(T) - 1
    BY <2>1, FS_RemoveElement
  <2>3. Cardinality(U) <= Cardinality(T \ {p})
    BY <1>2, <2>1, FS_Subset
  <2>4. Cardinality(T) \in Nat /\ Cardinality(U) \in Nat
    BY <2>1, FS_CardinalityType
  <2> QED
    BY <2>2, <2>3, <2>4
<1>3. ASSUME NEW p \in S PROVE Rank(S, p) \in 0..(Cardinality(S) - 1)
  <2>1. Before(S, p) \subseteq S \ {p}
    BY <1>1 DEF Before
  <2>2. Rank(S, p) \in Nat /\ Rank(S, p) < Cardinality(S)
    BY <1>2, <2>1 DEF Rank
  <2> QED
    BY <1>1, <2>2
<1>4. ASSUME NEW p \in S, NEW q \in S, q.seq < p.seq PROVE Rank(S, q) < Rank(S, p)
  <2>1. Before(S, p) \subseteq S /\ q \in Before(S, p)
    BY <1>4 DEF Before
  <2>2. Before(S, q) \subseteq Before(S, p) \ {q}
    BY <1>1, <1>4 DEF Before
  <2> QED
    BY <1>2, <2>1, <2>2 DEF Rank
<1>5. ASSUME NEW p \in S, NEW q \in S, Rank(S, p) = Rank(S, q) PROVE p = q
  <2>1. ~(q.seq < p.seq) /\ ~(p.seq < q.seq)
    BY <1>1, <1>3, <1>4, <1>5
  <2> QED
    BY <1>1, <2>1 DEF Ranked
<1> QED
  BY <1>1, <1>3, <1>4, <1>5

LEMMA RankOnto ==
  ASSUME NEW S, Ranked(S), NEW n \in 1..Cardinality(S)
  PROVE  \E p \in S : Rank(S, p) = n - 1
<1> DEFINE C == Cardinality(S)
           T == 0..(C-1)
           f == [p \in S |-> Rank(S, p)]
<1>1. /\ C \in Nat /\ IsFiniteSet(S)
      /\ \A p \in S : Rank(S, p) \in T
      /\ \A p, q \in S : Rank(S, p) = Rank(S, q) => p = q
  BY RankBelow DEF Ranked
<1>2. IsFiniteSet(T) /\ Cardinality(T) = C
  <2>1. 0 \in Int /\ C - 1 \in Int /\ (0 > C - 1 <=> C = 0)
    BY <1>1
  <2> QED
    BY <1>1, <2>1, FS_Interval
<1>3. n - 1 \in T
  BY <1>1
<1> HIDE DEF C, T
<1>4. f \in Injection(S, T)
  BY <1>1 DEF Injection, IsInjective
<1>5. f \in Surjection(S, T)
  BY <1>2, <1>4, FS_Injection DEF C
<1> QED
  BY <1>3, <1>5 DEF Surjection

LEMMA SortedIs ==
  ASSUME NEW S, Ranked(S)
  PROVE  /\ Cardinality(S) \in Nat
         /\ Sorted(S) \in [1..Cardinality(S) -> Keys]
         /\ Sorted(S) \in Seq(Keys) /\ Len(Sorted(S)) = Cardinality(S)
         /\ \A p \in S : /\ Rank(S, p) + 1 \in 1..Cardinality(S)
                         /\ Sorted(S)[Rank(S, p) + 1] = p.key
<1> DEFINE C == Cardinality(S)
           at(n) == CHOOSE p \in S : Rank(S, p) = n - 1
<1>1. /\ C \in Nat
      /\ \A p \in S : Rank(S, p) \in 0..(C-1) /\ p.key \in Keys
      /\ \A p, q \in S : Rank(S, p) = Rank(S, q) => p = q
  BY RankBelow DEF Ranked, SeqKey
<1>2. Sorted(S) = [n \in 1..C |-> at(n).key]
  BY DEF Sorted, Rank
<1>3. \A n \in 1..C : at(n) \in S /\ Rank(S, at(n)) = n - 1
  BY RankOnto
<1> HIDE DEF C, at
<1>4. Sorted(S) \in [1..C -> Keys]
  BY <1>1, <1>2, <1>3
<1>5. ASSUME NEW p \in S PROVE Rank(S, p) + 1 \in 1..C /\ Sorted(S)[Rank(S, p) + 1] = p.key
  <2>1. PICK r \in 0..(C-1) : r = Rank(S, p)
    BY <1>1
  <2>2. r + 1 \in 1..C /\ r + 1 - 1 = r
    BY <1>1
  <2>3. at(r + 1) = p
    BY <1>1, <1>3, <2>1, <2>2
  <2> QED
    BY <1>2, <2>1, <2>2, <2>3
<1>6. Sorted(S) \in Seq(Keys) /\ Len(Sorted(S)) = C
  BY <1>1, <1>4
<1> QED
  BY <1>1, <1>4, <1>5, <1>6 DEF C

\* A key with the greatest seq is listed last.
LEMMA SortedAdd ==
  ASSUME NEW S, Ranked(S), NEW q \in SeqKey, \A p \in S : p.seq < q.seq
  PROVE  /\ Ranked(S \cup {q})
         /\ Sorted(S \cup {q}) = Append(Sorted(S), q.key)
<1> DEFINE U == S \cup {q}
           C == Cardinality(S)
<1>1. /\ IsFiniteSet(S) /\ q \notin S /\ q.seq \in Nat /\ q.key \in Keys
      /\ \A p \in S : p.seq \in Nat /\ p.seq # q.seq
  BY DEF Ranked, SeqKey
<1>2. IsFiniteSet(U) /\ Cardinality(U) = C + 1
  BY <1>1, FS_AddElement
<1>3. Ranked(U)
  BY <1>1, <1>2 DEF Ranked
<1>4. ASSUME NEW p \in S PROVE Rank(U, p) = Rank(S, p)
  <2>1. Before(U, p) = Before(S, p)
    BY <1>1 DEF Before
  <2> QED
    BY <2>1 DEF Rank
<1>5. Rank(U, q) = C
  <2>1. Before(U, q) = S
    BY <1>1 DEF Before
  <2> QED
    BY <2>1 DEF Rank
<1>6. q \in U /\ S \subseteq U
  OBVIOUS
<1> HIDE DEF U
<1>7. /\ C \in Nat /\ Sorted(S) \in Seq(Keys) /\ Len(Sorted(S)) = C
      /\ \A p \in S : Sorted(S)[Rank(S, p) + 1] = p.key
  BY SortedIs
<1>8. /\ Sorted(U) \in [1..(C+1) -> Keys]
      /\ \A p \in U : Sorted(U)[Rank(U, p) + 1] = p.key
  BY <1>2, <1>3, SortedIs
<1>9. ASSUME NEW n \in 1..C PROVE Sorted(U)[n] = Sorted(S)[n]
  <2>1. PICK p \in S : Rank(S, p) = n - 1
    BY RankOnto
  <2>2. Rank(S, p) + 1 = n
    BY <1>7, <2>1
  <2> QED
    BY <1>4, <1>6, <1>7, <1>8, <2>2
<1>10. Sorted(U)[C+1] = q.key
  BY <1>5, <1>6, <1>8
<1> HIDE DEF C
<1> DEFINE longer == Append(Sorted(S), q.key)
<1>11. longer \in Seq(Keys) /\ Len(longer) = C + 1
  BY <1>1, <1>7
<1>12. longer[C+1] = q.key /\ \A n \in 1..C : longer[n] = Sorted(S)[n]
  BY <1>1, <1>7
<1> HIDE DEF longer, C
<1>13. longer \in [1..(C+1) -> Keys]
  BY <1>11
<1>14. \A n \in 1..(C+1) : Sorted(U)[n] = longer[n]
  <2>1. \A n \in 1..(C+1) : n = C + 1 \/ n \in 1..C
    BY <1>7
  <2> QED
    BY <1>9, <1>10, <1>12, <2>1
<1>15. Sorted(U) = longer
  <2>1. PICK D : D = 1..(C+1)
    OBVIOUS
  <2>2. /\ Sorted(U) \in [D -> Keys] /\ longer \in [D -> Keys]
        /\ \A n \in D : Sorted(U)[n] = longer[n]
    BY <1>8, <1>13, <1>14, <2>1
  <2> QED
    BY <2>2
<1> QED
  BY <1>3, <1>15 DEF U, longer

LEMMA RemoveAtIs ==
  ASSUME NEW X, NEW s \in Seq(X), NEW i \in 1..Len(s)
  PROVE  /\ RemoveAt(s, i) \in [1..(Len(s)-1) -> X]
         /\ \A n \in 1..(Len(s)-1) : RemoveAt(s, i)[n] = IF n < i THEN s[n] ELSE s[n+1]
<1> DEFINE a == SubSeq(s, 1, i - 1)
           b == SubSeq(s, i + 1, Len(s))
<1>1. Len(s) \in Nat /\ i \in Nat /\ \A n \in 1..Len(s) : s[n] \in X
  OBVIOUS
<1>2. a \in Seq(X) /\ Len(a) = i - 1 /\ \A n \in 1..(i-1) : a[n] = s[n]
  BY <1>1
<1>3. b \in Seq(X) /\ Len(b) = Len(s) - i /\ \A n \in 1..(Len(s)-i) : b[n] = s[n+i]
  BY <1>1
<1> HIDE DEF a, b
<1> DEFINE c == a \o b
<1>4. c \in Seq(X) /\ Len(c) = Len(s) - 1
  <2>1. c \in Seq(X)
    BY <1>2, <1>3
  <2>2. Len(c) = Len(a) + Len(b)
    BY <1>2, <1>3, ConcatProperties
  <2> QED
    BY <1>1, <1>2, <1>3, <2>1, <2>2
<1>5. ASSUME NEW n \in 1..(Len(s)-1) PROVE c[n] = IF n < i THEN a[n] ELSE b[n - (i - 1)]
  BY <1>1, <1>2, <1>3
<1> HIDE DEF c
<1>6. ASSUME NEW n \in 1..(Len(s)-1) PROVE c[n] = IF n < i THEN s[n] ELSE s[n+1]
  <2>1. CASE n < i
    BY <1>1, <1>2, <1>5, <2>1
  <2>2. CASE ~(n < i)
    <3>1. n - (i - 1) \in 1..(Len(s)-i) /\ n - (i - 1) + i = n + 1
      BY <1>1, <2>2
    <3> QED
      BY <1>3, <1>5, <2>2, <3>1
  <2> QED
    BY <2>1, <2>2
<1>7. RemoveAt(s, i) = c
  BY DEF RemoveAt, a, b, c
<1>8. c \in [1..(Len(s)-1) -> X]
  BY <1>4
<1> QED
  BY <1>6, <1>7, <1>8

\* Without one of the keys the others are listed as they were.
LEMMA SortedDrop ==
  ASSUME NEW S, Ranked(S), NEW q \in S
  PROVE  /\ Ranked(S \ {q})
         /\ Sorted(S \ {q}) = RemoveAt(Sorted(S), Rank(S, q) + 1)
<1> DEFINE U == S \ {q}
<1>1. PICK C \in Nat : C = Cardinality(S)
  BY RankBelow
<1>2. PICK r \in 0..(C-1) : r = Rank(S, q)
  BY <1>1, RankBelow
<1>3. /\ IsFiniteSet(S) /\ q.seq \in Nat
      /\ \A p \in S : p.seq \in Nat /\ p.key \in Keys
      /\ \A p \in U : p \in S /\ p.seq # q.seq
  BY DEF Ranked, SeqKey
<1>4. IsFiniteSet(U) /\ Cardinality(U) = C - 1
  BY <1>1, <1>3, FS_RemoveElement
<1>5. Ranked(U)
  BY <1>4 DEF Ranked
<1>6. ASSUME NEW p \in U, p.seq < q.seq PROVE Rank(U, p) = Rank(S, p)
  <2>1. Before(U, p) = Before(S, p)
    BY <1>3, <1>6 DEF Before
  <2> QED
    BY <2>1 DEF Rank
<1>7. ASSUME NEW p \in U, q.seq < p.seq PROVE Rank(S, p) = Rank(U, p) + 1
  <2>1. Before(S, p) = Before(U, p) \cup {q} /\ q \notin Before(U, p)
    BY <1>3, <1>7 DEF Before
  <2>2. Before(U, p) \subseteq U
    BY DEF Before
  <2>3. IsFiniteSet(Before(U, p))
    BY <1>4, <2>2, FS_Subset
  <2> QED
    BY <2>1, <2>3, FS_AddElement DEF Rank
<1> HIDE DEF U
<1>8. /\ Sorted(S) \in Seq(Keys) /\ Len(Sorted(S)) = C
      /\ \A p \in S : Rank(S, p) \in 0..(C-1) /\ Sorted(S)[Rank(S, p) + 1] = p.key
      /\ \A p \in S : (p.seq < q.seq => Rank(S, p) < r) /\ (q.seq < p.seq => r < Rank(S, p))
  BY <1>1, <1>2, SortedIs, RankBelow
<1>9. /\ Sorted(U) \in [1..(C-1) -> Keys]
      /\ \A p \in U : Sorted(U)[Rank(U, p) + 1] = p.key
  BY <1>4, <1>5, SortedIs
<1>10. r + 1 \in 1..C
  BY <1>1, <1>2
<1>11. /\ RemoveAt(Sorted(S), r + 1) \in [1..(C-1) -> Keys]
       /\ \A n \in 1..(C-1) : RemoveAt(Sorted(S), r + 1)[n]
                                = IF n < r + 1 THEN Sorted(S)[n] ELSE Sorted(S)[n+1]
  BY <1>8, <1>10, RemoveAtIs
<1>12. ASSUME NEW n \in 1..(C-1) PROVE Sorted(U)[n] = RemoveAt(Sorted(S), r + 1)[n]
  <2>1. PICK p \in U : Rank(U, p) = n - 1
    BY <1>4, <1>5, RankOnto
  <2>2. Sorted(U)[n] = p.key /\ p \in S /\ p.seq \in Nat /\ p.seq # q.seq
    <3>1. Rank(U, p) + 1 = n
      BY <1>1, <2>1
    <3> QED
      BY <1>3, <1>9, <3>1
  <2>3. CASE p.seq < q.seq
    <3>1. Rank(S, p) + 1 = n /\ Rank(S, p) < r
      BY <1>1, <1>6, <1>8, <2>1, <2>2, <2>3
    <3>2. n < r + 1
      BY <1>2, <3>1, <1>8, <2>2
    <3> QED
      BY <1>8, <1>11, <2>2, <3>1, <3>2
  <2>4. CASE q.seq < p.seq
    <3>1. Rank(S, p) = n /\ r < Rank(S, p)
      BY <1>1, <1>7, <1>8, <2>1, <2>2, <2>4
    <3>2. ~(n < r + 1)
      BY <1>2, <3>1
    <3> QED
      BY <1>8, <1>11, <2>2, <3>1, <3>2
  <2> QED
    BY <1>3, <2>2, <2>3, <2>4
<1>13. Sorted(U) = RemoveAt(Sorted(S), r + 1)
  BY <1>9, <1>11, <1>12
<1> QED
  BY <1>2, <1>5, <1>13 DEF U

\* The keys listed are those of the set.
LEMMA SortedKeys ==
  ASSUME NEW S, Ranked(S), NEW k
  PROVE  k \in Range(Sorted(S)) <=> \E p \in S : p.key = k
<1>1. /\ DOMAIN Sorted(S) = 1..Cardinality(S) /\ Cardinality(S) \in Nat
      /\ \A p \in S : /\ Rank(S, p) + 1 \in 1..Cardinality(S)
                      /\ Sorted(S)[Rank(S, p) + 1] = p.key
  BY SortedIs
<1>2. ASSUME NEW n \in 1..Cardinality(S) PROVE \E p \in S : p.key = Sorted(S)[n]
  <2>1. PICK p \in S : Rank(S, p) = n - 1
    BY RankOnto
  <2>2. Rank(S, p) + 1 = n
    BY <1>1, <2>1
  <2> QED
    BY <1>1, <2>2
<1> QED
  BY <1>1, <1>2 DEF Range

-----------------------------------------------------------------------------
(* What a program sees of a table: its entries, wherever they are.           *)

Sound(t) == \E N : Table(t, N) /\ Good(t, N)

\* The seqs of the entries are distinct and below m.
Ordered(E, m) ==
  /\ \A e \in E : e.seq < m
  /\ \A e, f \in E : e.seq = f.seq => e = f

Listed(t) == Sorted(SeqKeys(t))
Stored(t) == [k \in Keys |-> Get(t, k)]

LEMMA EntriesType ==
  ASSUME NEW t, Sound(t)
  PROVE  /\ Entries(t) \subseteq [key : Keys, value : Values, seq : Nat]
         /\ SeqKeys(t) = {[seq |-> e.seq, key |-> e.key] : e \in Entries(t)}
         /\ IsFiniteSet(SeqKeys(t))
<1>1. PICK N : Table(t, N) /\ Good(t, N)
  BY DEF Sound
<1>2. Occupied(t) \subseteq 0..(N-1) /\ IsFiniteSet(Occupied(t)) /\ t \in [0..(N-1) -> Slot]
  <2>1. IsFiniteSet(Occupied(t)) /\ Occupied(t) = {i \in 0..(N-1) : t[i] # Free}
    BY <1>1, OccupiedType
  <2> QED
    BY <1>1, <2>1 DEF Table
<1>3. Entries(t) \subseteq [key : Keys, value : Values, seq : Nat]
  BY <1>2 DEF Entries, Slot, Occupied
<1>4. SeqKeys(t) = {[seq |-> e.seq, key |-> e.key] : e \in Entries(t)}
  BY DEF SeqKeys, Entries
<1> DEFINE f == [i \in Occupied(t) |-> [seq |-> t[i].seq, key |-> t[i].key]]
<1>5. f \in Surjection(Occupied(t), SeqKeys(t))
  BY DEF SeqKeys, Surjection
<1>6. IsFiniteSet(SeqKeys(t))
  BY <1>2, <1>5, FS_Surjection
<1> QED
  BY <1>3, <1>4, <1>6

\* get and contains give what is said of the key by the entries.
LEMMA GetIs ==
  ASSUME HashType, NEW t, Sound(t), NEW k \in Keys
  PROVE  /\ \A e \in Entries(t) : e.key = k =>
              HasKey(t, k) /\ t[Stop(t, k)] = e /\ Get(t, k) = e.value
         /\ HasKey(t, k) => t[Stop(t, k)] \in Entries(t) /\ t[Stop(t, k)].key = k
         /\ ~HasKey(t, k) => Get(t, k) = NoValue /\ \A e \in Entries(t) : e.key # k
         /\ \A e, f \in Entries(t) : e.key = f.key => e = f
<1>1. PICK N : Table(t, N) /\ Good(t, N)
  BY DEF Sound
<1>2. Occupied(t) = {i \in 0..(N-1) : t[i] # Free}
  BY <1>1, OccupiedType
<1>3. ASSUME NEW i \in Occupied(t), t[i].key = k
      PROVE  HasKey(t, k) /\ t[Stop(t, k)] = t[i] /\ Get(t, k) = t[i].value
  BY <1>1, <1>3, StopFinds DEF HasKey, Get
<1>4. ASSUME HasKey(t, k) PROVE t[Stop(t, k)] \in Entries(t) /\ t[Stop(t, k)].key = k
  BY <1>1, <1>2, <1>4, StopType DEF Entries
<1>5. ASSUME ~HasKey(t, k) PROVE Get(t, k) = NoValue /\ \A e \in Entries(t) : e.key # k
  BY <1>1, <1>5, StopType DEF Entries, Get
<1>6. \A e, f \in Entries(t) : e.key = f.key => e = f
  BY <1>1 DEF Good, OneSlot, Entries
<1> QED
  BY <1>3, <1>4, <1>5, <1>6 DEF Entries

LEMMA ListedIs ==
  ASSUME HashType, NEW t, Sound(t), NEW m, Ordered(Entries(t), m)
  PROVE  /\ Ranked(SeqKeys(t))
         /\ \A k \in Keys : k \in Range(Listed(t)) <=> HasKey(t, k)
<1>1. /\ Entries(t) \subseteq [key : Keys, value : Values, seq : Nat]
      /\ SeqKeys(t) = {[seq |-> e.seq, key |-> e.key] : e \in Entries(t)}
      /\ IsFiniteSet(SeqKeys(t))
  BY EntriesType
<1>2. Ranked(SeqKeys(t))
  BY <1>1 DEF Ordered, Ranked, SeqKey
<1>3. ASSUME NEW k \in Keys PROVE k \in Range(Listed(t)) <=> HasKey(t, k)
  <2>1. k \in Range(Listed(t)) <=> \E p \in SeqKeys(t) : p.key = k
    BY <1>2, SortedKeys DEF Listed
  <2>2. (\E p \in SeqKeys(t) : p.key = k) <=> \E e \in Entries(t) : e.key = k
    <3>1. ASSUME NEW p \in SeqKeys(t), p.key = k PROVE \E e \in Entries(t) : e.key = k
      BY <1>1, <3>1
    <3>2. ASSUME NEW e \in Entries(t), e.key = k PROVE \E p \in SeqKeys(t) : p.key = k
      <4>1. [seq |-> e.seq, key |-> e.key] \in SeqKeys(t)
        BY <1>1
      <4> QED
        BY <3>2, <4>1
    <3> QED
      BY <3>1, <3>2
  <2>3. (\E e \in Entries(t) : e.key = k) <=> HasKey(t, k)
    BY GetIs
  <2> QED
    BY <2>1, <2>2, <2>3
<1> QED
  BY <1>2, <1>3

\* Tables with the same entries are the same to a program.
LEMMA SameEntries ==
  ASSUME HashType, NEW t, Sound(t), NEW u, Sound(u), Entries(u) = Entries(t)
  PROVE  Listed(u) = Listed(t) /\ Stored(u) = Stored(t)
<1>1. SeqKeys(u) = SeqKeys(t)
  BY EntriesType
<1>2. ASSUME NEW k \in Keys PROVE Get(u, k) = Get(t, k)
  BY GetIs
<1> QED
  BY <1>1, <1>2 DEF Listed, Stored

\* What the entry e for k gives the map, its other entries being those of t.
LEMMA StoredOther ==
  ASSUME HashType, NEW t, Sound(t), NEW u, Sound(u), NEW k \in Keys, NEW w,
         \A e \in Entries(u) : e.key # k => e \in Entries(t),
         \A e \in Entries(t) : e.key # k => e \in Entries(u),
         Get(u, k) = w
  PROVE  Stored(u) = [Stored(t) EXCEPT ![k] = w]
<1>1. ASSUME NEW j \in Keys, j # k PROVE Get(u, j) = Get(t, j)
  <2>1. CASE HasKey(t, j)
    <3>1. PICK e \in Entries(t) : e.key = j
      BY <2>1, GetIs
    <3>2. e \in Entries(u)
      BY <1>1, <3>1
    <3> QED
      BY <3>1, <3>2, GetIs
  <2>2. CASE ~HasKey(t, j)
    <3>1. ~HasKey(u, j)
      <4> SUFFICES ASSUME HasKey(u, j) PROVE FALSE
        OBVIOUS
      <4>1. PICK e \in Entries(u) : e.key = j
        BY GetIs
      <4> QED
        BY <1>1, <2>2, <4>1, GetIs
    <3> QED
      BY <2>2, <3>1, GetIs
  <2> QED
    BY <2>1, <2>2
<1> QED
  BY <1>1 DEF Stored

-----------------------------------------------------------------------------
(* The steps of the ordered map, on tables.                                  *)

ListsTo(t, u, k, v) ==
  /\ Listed(u) = IF k \in Range(Listed(t)) THEN Listed(t) ELSE Append(Listed(t), k)
  /\ Stored(u) = [Stored(t) EXCEPT ![k] = v]

Drops(t, u, k) ==
  /\ \E n \in DOMAIN Listed(t) : Listed(t)[n] = k /\ Listed(u) = RemoveAt(Listed(t), n)
  /\ Stored(u) = [Stored(t) EXCEPT ![k] = NoValue]

\* A replaced value leaves the key where it is listed.
LEMMA ReplaceLists ==
  ASSUME HashType, NEW t, Sound(t), NEW m, Ordered(Entries(t), m), NEW k \in Keys, HasKey(t, k),
         NEW v \in Values, NEW u, Sound(u),
         NEW f, f.key = k, f.seq = t[Stop(t, k)].seq, f.value = v,
         Entries(u) = (Entries(t) \ {t[Stop(t, k)]}) \cup {f}
  PROVE  ListsTo(t, u, k, v) /\ Ordered(Entries(u), m)
<1>1. PICK e \in Entries(t) : e = t[Stop(t, k)] /\ e.key = k
  BY GetIs
<1>2. f.key = k /\ f.seq = e.seq /\ f.value = v /\ Entries(u) = (Entries(t) \ {e}) \cup {f}
  BY <1>1
<1>3. Ordered(Entries(u), m)
  BY <1>1, <1>2 DEF Ordered
<1>4. SeqKeys(u) = SeqKeys(t)
  <2>1. [seq |-> e.seq, key |-> e.key] = [seq |-> f.seq, key |-> f.key]
    BY <1>1, <1>2
  <2> QED
    BY <1>1, <1>2, <2>1, EntriesType
<1>5. k \in Range(Listed(t))
  BY ListedIs
<1>6. Get(u, k) = v
  BY <1>2, GetIs
<1>7. \A g \in Entries(t) : g.key = k => g = e
  BY <1>1, GetIs
<1>8. Stored(u) = [Stored(t) EXCEPT ![k] = v]
  BY <1>1, <1>2, <1>6, <1>7, StoredOther
<1> QED
  BY <1>3, <1>4, <1>5, <1>8 DEF ListsTo, Listed

\* A new key is listed last.
LEMMA PlaceLists ==
  ASSUME HashType, NEW t, Sound(t), NEW m \in Nat, Ordered(Entries(t), m),
         NEW k \in Keys, ~HasKey(t, k), NEW v \in Values, NEW u, Sound(u),
         Entries(u) = Entries(t) \cup {Entry(k, v, m)}
  PROVE  ListsTo(t, u, k, v) /\ Ordered(Entries(u), m + 1)
<1>1. PICK f : f = Entry(k, v, m)
  OBVIOUS
<1>2. /\ f.key = k /\ f.value = v /\ f.seq = m
      /\ Entries(u) = Entries(t) \cup {f}
  BY <1>1 DEF Entry
<1>3. \A e \in Entries(t) : e.seq \in Nat /\ e.seq < m /\ e.key # k
  BY EntriesType, GetIs DEF Ordered
<1>4. Ordered(Entries(u), m + 1)
  BY <1>2, <1>3 DEF Ordered
<1> DEFINE p == [seq |-> m, key |-> k]
<1>5. SeqKeys(u) = SeqKeys(t) \cup {p}
  BY <1>2, EntriesType
<1>6. p \in SeqKey /\ p.key = k /\ \A q \in SeqKeys(t) : q.seq < p.seq
  BY <1>3, EntriesType DEF SeqKey
<1>7. Ranked(SeqKeys(t)) /\ k \notin Range(Listed(t))
  BY ListedIs
<1> HIDE DEF p
<1>8. Listed(u) = Append(Listed(t), k)
  BY <1>5, <1>6, <1>7, SortedAdd DEF Listed
<1>9. Get(u, k) = v
  BY <1>2, GetIs
<1>10. Stored(u) = [Stored(t) EXCEPT ![k] = v]
  BY <1>2, <1>9, StoredOther
<1> QED
  BY <1>4, <1>7, <1>8, <1>10 DEF ListsTo

\* A removed key is listed no more, and the others as they were.
LEMMA ClearedLists ==
  ASSUME HashType, NEW t, Sound(t), NEW m, Ordered(Entries(t), m), NEW k \in Keys, HasKey(t, k),
         NEW u, Sound(u), Entries(u) = Entries(t) \ {t[Stop(t, k)]}
  PROVE  Drops(t, u, k) /\ Ordered(Entries(u), m)
<1>1. PICK e \in Entries(t) : e.key = k /\ e = t[Stop(t, k)]
  BY GetIs
<1>2. Entries(u) = Entries(t) \ {e} /\ \A g \in Entries(t) : g.key = k => g = e
  BY <1>1, GetIs
<1>3. Ordered(Entries(u), m)
  BY <1>2 DEF Ordered
<1> DEFINE p == [seq |-> e.seq, key |-> e.key]
<1>4. p.key = k /\ p \in SeqKeys(t)
  BY <1>1, EntriesType
<1>5. \A g \in Entries(t) : [seq |-> g.seq, key |-> g.key] = p => g = e
  <2> SUFFICES ASSUME NEW g \in Entries(t), [seq |-> g.seq, key |-> g.key] = p PROVE g = e
    OBVIOUS
  <2>1. g.key = e.key
    BY Zenon
  <2> QED
    BY <1>1, <1>2, <2>1
<1>6. SeqKeys(u) = SeqKeys(t) \ {p}
  <2>1. /\ SeqKeys(t) = {[seq |-> g.seq, key |-> g.key] : g \in Entries(t)}
        /\ SeqKeys(u) = {[seq |-> g.seq, key |-> g.key] : g \in Entries(u)}
    BY EntriesType
  <2> HIDE DEF p
  <2>2. [seq |-> e.seq, key |-> e.key] = p
    BY DEF p
  <2> QED
    BY <1>1, <1>2, <1>5, <2>1, <2>2
<1> HIDE DEF p
<1>7. Ranked(SeqKeys(t))
  BY ListedIs
<1>8. /\ Rank(SeqKeys(t), p) + 1 \in DOMAIN Listed(t)
      /\ Listed(t)[Rank(SeqKeys(t), p) + 1] = k
  BY <1>4, <1>7, SortedIs DEF Listed
<1>9. Listed(u) = RemoveAt(Listed(t), Rank(SeqKeys(t), p) + 1)
  BY <1>4, <1>6, <1>7, SortedDrop DEF Listed
<1>10. Get(u, k) = NoValue
  <2>1. ~HasKey(u, k)
    BY <1>2, GetIs
  <2> QED
    BY <2>1, GetIs
<1>11. Stored(u) = [Stored(t) EXCEPT ![k] = NoValue]
  BY <1>1, <1>2, <1>10, StoredOther
<1> QED
  BY <1>3, <1>8, <1>9, <1>11 DEF Drops

-----------------------------------------------------------------------------
(* The steps of the map.                                                     *)

LEMMA HoldingSound ==
  ASSUME Repairs, NEW t, NEW l, Holding(t, l) \/ Room(t, l)
  PROVE  Sound(t)
  BY DEF Holding, Room, Counts, Sound

LEMMA GrownEntries ==
  ASSUME HashType, NEW t, Holding(t, len), t = slots
  PROVE  Entries(Grown(t)) = Entries(t)
<1>1. PICK N : Table(t, N)
  BY DEF Holding, Counts
<1>2. Entries(Regrow(t)) = Entries(t)
  BY <1>1, RegrowGood
<1> QED
  BY <1>2 DEF Grown

Replaced(t, k, v) == [t EXCEPT ![Stop(t, k)].value = v]

LEMMA ReplaceEntries ==
  ASSUME HashType, NEW t, Sound(t), NEW k \in Keys, NEW v \in Values, HasKey(t, k)
  PROVE  \E f : /\ f.key = k /\ f.seq = t[Stop(t, k)].seq /\ f.value = v
                /\ Entries(Replaced(t, k, v)) = (Entries(t) \ {t[Stop(t, k)]}) \cup {f}
<1>1. PICK N : Table(t, N) /\ OneSlot(t)
  BY DEF Sound, Good
<1>2. PICK s \in 0..(N-1) : s = Stop(t, k)
  BY <1>1, StopType
<1>3. PICK f : f = [t[s] EXCEPT !.value = v]
  OBVIOUS
<1>4. t[s] # Free /\ f \in Slot /\ f # Free /\ f.key = k /\ f.seq = t[s].seq /\ f.value = v
  <2>1. t[s] \in Slot \ {Free} /\ t[s].key = k
    BY <1>1, <1>2, StopType
  <2>2. f \in Slot /\ f.key = k /\ f.seq = t[s].seq /\ f.value = v
    BY <1>3, <2>1 DEF Slot
  <2> QED
    BY <2>1, <2>2, SlotType
<1> DEFINE cleared == Put(t, s, Free)
<1>5. Table(cleared, N) /\ Entries(cleared) = Entries(t) \ {t[s]}
  BY <1>1, <1>4, ClearOne, ClearEntries
<1>6. cleared[s] = Free
  BY <1>1 DEF Table, Put
<1>7. Replaced(t, k, v) = Put(cleared, s, f)
  BY <1>1, <1>2, <1>3 DEF Put, Table, Replaced
<1> HIDE DEF cleared
<1>8. Entries(Put(cleared, s, f)) = Entries(cleared) \cup {f}
  BY <1>4, <1>5, <1>6, FillEntries
<1>9. /\ f.key = k /\ f.seq = t[Stop(t, k)].seq /\ f.value = v
      /\ Entries(Put(cleared, s, f)) = (Entries(t) \ {t[Stop(t, k)]}) \cup {f}
  BY <1>2, <1>4, <1>5, <1>8
<1> QED
  BY <1>7, <1>9

LEMMA PlaceEntries ==
  ASSUME HashType, NEW t, NEW l, Room(t, l), NEW k \in Keys, NEW v \in Values, NEW m \in Nat
  PROVE  Entries(Place(t, Entry(k, v, m))) = Entries(t) \cup {Entry(k, v, m)}
<1>1. PICK q \in Nat \ {0}, N \in Nat : N = 4 * q /\ Counts(t, l, N) /\ 4 * l + 4 <= 3 * N
  BY DEF Room
<1>2. Table(t, N) /\ l = Cardinality(Occupied(t)) /\ l \in Nat
  BY <1>1, OccupiedType DEF Counts
<1>3. PICK f \in 0..(N-1) : t[f] = Free
  <2>1. l < N
    BY <1>1, <1>2
  <2> QED
    BY <1>2, <2>1, OccupiedType
<1>4. PICK e \in Slot : e = Entry(k, v, m) /\ e # Free
  <2>1. Entry(k, v, m) \in Slot /\ Entry(k, v, m).key = k
    BY DEF Slot, Entry
  <2> QED
    BY <2>1, SlotType
<1>5. PICK i \in 0..(N-1) : t[i] = Free /\ Place(t, e) = Put(t, i, e)
  BY <1>2, <1>3, <1>4, PlaceGood
<1> QED
  BY <1>2, <1>4, <1>5, FillEntries

LEMMA ClearedEntries ==
  ASSUME Repairs, HashType, NEW t, NEW l, Holding(t, l), NEW k \in Keys, HasKey(t, k)
  PROVE  Entries(Cleared(t, Stop(t, k))) = Entries(t) \ {t[Stop(t, k)]}
<1>1. PICK q \in Nat \ {0}, N \in Nat : N = 4 * q /\ Counts(t, l, N) /\ 4 * l <= 3 * N
  BY DEF Holding
<1>2. /\ Table(t, N) /\ Good(t, N)
      /\ l = Cardinality(Occupied(t)) /\ l \in Nat
  BY <1>1, OccupiedType DEF Counts
<1>3. PICK s \in 0..(N-1) : s = Stop(t, k)
  BY <1>2, StopType
<1>4. t[s] # Free
  BY <1>2, <1>3, StopType
<1>5. PICK f \in 0..(N-1) : t[f] = Free
  <2>1. l < N
    BY <1>1, <1>2
  <2> QED
    BY <1>2, <2>1, OccupiedType
<1>6. Entries(Closed(Put(t, s, Free), s)) = Entries(t) \ {t[s]}
  BY <1>2, <1>4, <1>5, ClosedGood
<1>7. Cleared(t, s) = Closed(Put(t, s, Free), s)
  BY DEF Cleared, Put
<1> QED
  BY <1>3, <1>6, <1>7

\* insert
LEMMA InsertLists ==
  ASSUME Repairs, MapInv, Ordered(Entries(slots), next_seq),
         NEW k \in Keys, NEW v \in Values, Insert(k, v)
  PROVE  ListsTo(slots, slots', k, v) /\ Ordered(Entries(slots'), next_seq')
<1> DEFINE t == Grown(slots)
<1>1. HashType /\ next_seq \in Nat /\ Holding(slots, len) /\ Sound(slots)
  BY HoldingSound DEF MapInv
<1>2. Room(t, len) /\ Sound(t)
  BY <1>1, GrownRoom, HoldingSound
<1>3. Entries(t) = Entries(slots) /\ Listed(t) = Listed(slots) /\ Stored(t) = Stored(slots)
  BY <1>1, <1>2, GrownEntries, SameEntries
<1>4. ASSUME ListsTo(t, slots', k, v) PROVE ListsTo(slots, slots', k, v)
  BY <1>3, <1>4 DEF ListsTo
<1>5. \/ /\ HasKey(t, k)
         /\ slots' = [t EXCEPT ![Stop(t, k)].value = v]
         /\ next_seq' = next_seq
      \/ /\ ~HasKey(t, k)
         /\ slots' = Place(t, Entry(k, v, next_seq))
         /\ next_seq' = next_seq + 1
  BY DEF Insert
<1> HIDE DEF t
<1>6. CASE HasKey(t, k) /\ slots' = [t EXCEPT ![Stop(t, k)].value = v] /\ next_seq' = next_seq
  <2>1. PICK u : u = Replaced(t, k, v) /\ u = [t EXCEPT ![Stop(t, k)].value = v]
    BY DEF Replaced
  <2>2. Sound(u)
    BY <1>1, <1>2, <1>6, <2>1, ReplaceHolds, HoldingSound
  <2>3. PICK f : /\ f.key = k /\ f.seq = t[Stop(t, k)].seq /\ f.value = v
                 /\ Entries(u) = (Entries(t) \ {t[Stop(t, k)]}) \cup {f}
    <3>1. HashType /\ Sound(t) /\ HasKey(t, k)
      BY <1>1, <1>2, <1>6
    <3>2. \E f : /\ f.key = k /\ f.seq = t[Stop(t, k)].seq /\ f.value = v
                 /\ Entries(Replaced(t, k, v)) = (Entries(t) \ {t[Stop(t, k)]}) \cup {f}
      BY <3>1, ReplaceEntries
    <3> QED
      BY <2>1, <3>2, Zenon
  <2>4. ListsTo(t, u, k, v) /\ Ordered(Entries(u), next_seq)
    BY <1>1, <1>2, <1>3, <1>6, <2>2, <2>3, ReplaceLists
  <2> QED
    BY <1>4, <1>6, <2>1, <2>4
<1>7. CASE ~HasKey(t, k) /\ slots' = Place(t, Entry(k, v, next_seq)) /\ next_seq' = next_seq + 1
  <2>1. PICK u : u = Place(t, Entry(k, v, next_seq))
    OBVIOUS
  <2>2. Sound(u)
    BY <1>1, <1>2, <1>7, <2>1, PlaceHolds, HoldingSound
  <2>3. Entries(u) = Entries(t) \cup {Entry(k, v, next_seq)}
    BY <1>1, <1>2, <2>1, PlaceEntries
  <2>4. ListsTo(t, u, k, v) /\ Ordered(Entries(u), next_seq + 1)
    BY <1>1, <1>2, <1>3, <1>7, <2>2, <2>3, PlaceLists
  <2> QED
    BY <1>4, <1>7, <2>1, <2>4
<1> QED
  BY <1>5, <1>6, <1>7

\* remove
LEMMA RemoveLists ==
  ASSUME Repairs, MapInv, Ordered(Entries(slots), next_seq), NEW k \in Keys, RemoveKey(k)
  PROVE  Drops(slots, slots', k) /\ Ordered(Entries(slots'), next_seq')
<1>1. HashType /\ Holding(slots, len) /\ Sound(slots)
  BY HoldingSound DEF MapInv
<1>2. HasKey(slots, k) /\ slots' = Cleared(slots, Stop(slots, k)) /\ next_seq' = next_seq
  BY DEF RemoveKey
<1>3. PICK u : u = Cleared(slots, Stop(slots, k))
  OBVIOUS
<1>4. Sound(u)
  BY <1>1, <1>2, <1>3, ClearedHolds, HoldingSound
<1>5. Entries(u) = Entries(slots) \ {slots[Stop(slots, k)]}
  BY <1>1, <1>2, <1>3, ClearedEntries
<1>6. Drops(slots, u, k) /\ Ordered(Entries(u), next_seq)
  BY <1>1, <1>2, <1>4, <1>5, ClearedLists
<1> QED
  BY <1>2, <1>3, <1>6

\* The invariant of the string-keyed map.
ListInv == MapInv /\ Ordered(Entries(slots), next_seq)

LEMMA ListInvInit == Init => ListInv
<1> SUFFICES ASSUME Init PROVE ListInv
  OBVIOUS
<1>1. Entries(slots) = {}
  BY EmptyGood, MapAssumption DEF Init, Entries
<1> QED
  BY <1>1, MapInvInit DEF ListInv, Ordered

\* A step is one of the ordered map, or none.
LEMMA ListInvNext ==
  ASSUME Repairs, ListInv, [Next]_vars
  PROVE  /\ ListInv'
         /\ [Promise!Next]_<<KeyList, [k \in Keys |-> Get(slots, k)]>>
<1>1. MapInv /\ Ordered(Entries(slots), next_seq) /\ MapInv'
  BY MapInvNext DEF ListInv
<1>2. ASSUME Ordered(Entries(slots'), next_seq') PROVE ListInv'
  BY <1>1, <1>2 DEF ListInv, Ordered, Entries, Occupied
<1>3. hash' = hash
  BY DEF Next, Insert, RemoveKey, vars
<1>4. /\ KeyList = Listed(slots) /\ KeyList' = Listed(slots')
      /\ [k \in Keys |-> Get(slots, k)] = Stored(slots)
  BY DEF KeyList, Listed, Stored, Sorted, SeqKeys, Before, Occupied
<1>5. [k \in Keys |-> Get(slots, k)]' = Stored(slots')
  BY <1>3 DEF Stored, Get, HasKey, Stop, Passed, Probe, Cap
<1>6. ASSUME NEW k \in Keys, NEW v \in Values, Insert(k, v)
      PROVE  ListInv' /\ Promise!Next
  <2>1. ListsTo(slots, slots', k, v) /\ Ordered(Entries(slots'), next_seq')
    BY <1>1, <1>6, InsertLists
  <2>2. Promise!Insert(k, v)
    BY <1>4, <1>5, <2>1 DEF ListsTo, Promise!Insert, Promise!Range, Range
  <2> QED
    BY <1>2, <2>1, <2>2 DEF Promise!Next
<1>7. ASSUME NEW k \in Keys, RemoveKey(k) PROVE ListInv' /\ Promise!Next
  <2>1. Drops(slots, slots', k) /\ Ordered(Entries(slots'), next_seq')
    BY <1>1, <1>7, RemoveLists
  <2>2. Promise!RemoveKey(k)
    BY <1>4, <1>5, <2>1 DEF Drops, Promise!RemoveKey, Promise!RemoveAt, RemoveAt
  <2> QED
    BY <1>2, <2>1, <2>2 DEF Promise!Next
<1>8. CASE UNCHANGED vars
  <2>1. slots' = slots /\ next_seq' = next_seq
    BY <1>8 DEF vars
  <2>2. ListInv'
    BY <1>1, <1>2, <2>1
  <2>3. UNCHANGED <<KeyList, [k \in Keys |-> Get(slots, k)]>>
    BY <1>4, <1>5, <2>1
  <2> QED
    BY <2>2, <2>3
<1> QED
  BY <1>6, <1>7, <1>8 DEF Next

LEMMA PromiseInit ==
  ASSUME Init
  PROVE  Promise!Init
<1>1. Table(Empty(Capacity), Capacity) /\ slots = Empty(Capacity) /\ Occupied(slots) = {}
      /\ Capacity \in Nat \ {0}
  BY EmptyGood, MapAssumption DEF Init
<1>2. HashType
  BY DEF Init, HashType
<1>3. SeqKeys(slots) = {}
  BY <1>1 DEF SeqKeys
<1>4. Sorted({}) = <<>>
  <2>1. Cardinality({}) = 0
    BY FS_EmptySet
  <2>2. Sorted({}) = [n \in 1..0 |-> (CHOOSE p \in {} : Cardinality(Before({}, p)) = n - 1).key]
    BY <2>1 DEF Sorted
  <2> QED
    BY <2>2
<1>5. ASSUME NEW k \in Keys PROVE Get(slots, k) = NoValue
  <2>1. ~HasKey(slots, k)
    BY <1>1, <1>2, StopType, SlotType, OccupiedType
  <2> QED
    BY <2>1 DEF Get
<1> QED
  BY <1>3, <1>4, <1>5 DEF Promise!Init, KeyList

\* The string-keyed map is the ordered map: whichever keys collide, and whenever the
\* table grows or a key is removed from the middle of a cluster, get gives the value
\* last inserted and keys the order of the first insertions.
THEOREM MapIsOrderedMap ==
  ASSUME Repairs
  PROVE  Spec => ImplementsOrderedMap
<1>1. Init => ListInv /\ Promise!Init
  BY ListInvInit, PromiseInit
<1>2. ListInv /\ [Next]_vars
        => ListInv' /\ [Promise!Next]_<<KeyList, [k \in Keys |-> Get(slots, k)]>>
  BY ListInvNext
<1> QED
  BY <1>1, <1>2, PTL DEF Spec, ImplementsOrderedMap, Promise!Spec

==============================================================================
