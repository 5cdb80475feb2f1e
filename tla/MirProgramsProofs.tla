-------------------------- MODULE MirProgramsProofs --------------------------
(* Theorems about MirPrograms, for every grammar, program size, nesting depth *)
(* and table of helpers: what the lowering builds is well-formed and          *)
(* well-typed, the dominators and live sets computed for it are what their    *)
(* definitions say, what the linear check accepts spends each linear value    *)
(* once, no string is read after one of the frees that were placed, and a     *)
(* block-scoped owner is freed before it takes its next buffer.               *)
EXTENDS MirPrograms, SetInduction, FiniteSetTheorems, SequenceTheorems

-----------------------------------------------------------------------------
(* Fixpoint: the function a loop that goes on while something changed stands  *)
(* for exists, and where every round makes progress it ends in a state that a *)
(* round leaves as it is.                                                     *)

IsClosed(next, C) == \A t \in C : next[t] \in C

\* The states the rounds from s come through, and those of them where they rest.
Orbit(next, s) ==
  {t \in DOMAIN next : \A C \in SUBSET DOMAIN next : s \in C /\ IsClosed(next, C) => t \in C}
Rests(next, s) == {t \in Orbit(next, s) : next[t] = t}
Some(R) == CHOOSE t : t \in R

LEMMA OrbitIsClosed ==
  ASSUME NEW S, NEW next \in [S -> S], NEW s \in S
  PROVE  Orbit(next, s) \subseteq S /\ s \in Orbit(next, s) /\ IsClosed(next, Orbit(next, s))
  BY DEF Orbit, IsClosed

LEMMA RestsOfResting ==
  ASSUME NEW S, NEW next \in [S -> S], NEW s \in S, next[s] = s
  PROVE  Rests(next, s) = {s}
<1>1. {s} \in SUBSET DOMAIN next /\ IsClosed(next, {s})
  BY DEF IsClosed
<1>2. Orbit(next, s) \subseteq {s}
  BY <1>1 DEF Orbit
<1> QED
  BY <1>2, OrbitIsClosed DEF Rests

LEMMA RestsOfMoving ==
  ASSUME NEW S, NEW next \in [S -> S], NEW s \in S, next[s] # s
  PROVE  Rests(next, s) = Rests(next, next[s])
<1>0. DOMAIN next = S /\ next[s] \in S
  OBVIOUS
<1>1. ASSUME NEW t \in Rests(next, s) PROVE t \in Rests(next, next[s])
  <2>1. ASSUME NEW C \in SUBSET S, next[s] \in C, IsClosed(next, C) PROVE t \in C
    <3>1. C \cup {s} \in SUBSET DOMAIN next /\ IsClosed(next, C \cup {s})
      BY <1>0, <2>1 DEF IsClosed
    <3>2. t \in C \cup {s}
      BY <3>1 DEF Rests, Orbit
    <3>3. t # s
      BY DEF Rests
    <3> QED
      BY <3>2, <3>3
  <2> QED
    BY <1>0, <2>1 DEF Rests, Orbit
<1>2. ASSUME NEW t \in Rests(next, next[s]) PROVE t \in Rests(next, s)
  <2>1. ASSUME NEW C \in SUBSET S, s \in C, IsClosed(next, C) PROVE t \in C
    <3>1. next[s] \in C
      BY <2>1 DEF IsClosed
    <3> QED
      BY <1>0, <2>1, <3>1 DEF Rests, Orbit
  <2> QED
    BY <1>0, <2>1 DEF Rests, Orbit
<1> QED
  BY <1>1, <1>2

\* Fixpoint is the function its definition describes.
LEMMA FixpointEquation ==
  ASSUME NEW S, NEW next \in [S -> S]
  PROVE  \A s \in S : Fixpoint(next)[s] = IF next[s] = s THEN s ELSE Fixpoint(next)[next[s]]
<1> DEFINE IsSettled(f) ==
             f = [s \in DOMAIN next |->
                    LET t == next[s] IN IF t = s THEN s ELSE f[t]]
           settled == CHOOSE f : IsSettled(f)
           f == [s \in S |-> Some(Rests(next, s))]
<1>0. DOMAIN next = S /\ \A s \in S : next[s] \in S
  OBVIOUS
<1>1. ASSUME NEW s \in S PROVE f[s] = IF next[s] = s THEN s ELSE f[next[s]]
  <2>1. CASE next[s] = s
    BY <2>1, RestsOfResting DEF Some
  <2>2. CASE next[s] # s
    <3>1. Rests(next, s) = Rests(next, next[s]) /\ next[s] \in S
      BY <1>0, <2>2, RestsOfMoving
    <3>2. f[s] = f[next[s]]
      BY <3>1
    <3> QED
      BY <2>2, <3>2
  <2> QED
    BY <2>1, <2>2
<1>2. f = [s \in S |-> f[s]]
  OBVIOUS
<1> HIDE DEF f
<1>3. IsSettled(f)
  BY <1>0, <1>1, <1>2
<1>4. IsSettled(settled)
  BY <1>3
<1>5. Fixpoint(next) = settled
  BY DEF Fixpoint
<1> HIDE DEF settled
<1> QED
  BY <1>0, <1>4, <1>5

\* A round stays in Q and, unless it changes nothing, climbs, to N at most.
Climbs(next, Q, rank, N) ==
  /\ rank \in [Q -> 0..N]
  /\ \A s \in Q : next[s] \in Q /\ (next[s] # s => rank[next[s]] > rank[s])

LEMMA FixpointReached ==
  ASSUME NEW S, NEW next \in [S -> S], NEW Q \in SUBSET S, NEW N \in Nat,
         NEW rank, Climbs(next, Q, rank, N), NEW s \in Q
  PROVE  Fixpoint(next)[s] \in Q /\ next[Fixpoint(next)[s]] = Fixpoint(next)[s]
<1> DEFINE Settles(q) == Fixpoint(next)[q] \in Q /\ next[Fixpoint(next)[q]] = Fixpoint(next)[q]
           near == {n \in Nat : \A q \in Q : rank[q] + n >= N => Settles(q)}
<1> USE DEF Climbs
<1>0. \A q \in Q : q \in S /\ rank[q] \in 0..N
  OBVIOUS
<1>1. ASSUME NEW q \in Q, next[q] = q PROVE Settles(q)
  BY <1>1, FixpointEquation
<1>2. ASSUME NEW q \in Q, next[q] # q, Settles(next[q]) PROVE Settles(q)
  BY <1>0, <1>2, FixpointEquation
<1> HIDE DEF Settles
<1>3. 0 \in near
  <2> SUFFICES ASSUME NEW q \in Q, rank[q] + 0 >= N PROVE Settles(q)
    OBVIOUS
  <2>1. next[q] \in Q /\ ~(rank[next[q]] > rank[q])
    BY <1>0
  <2> QED
    BY <1>1, <2>1
<1>4. ASSUME NEW n \in 0..N, n \in near, n < N PROVE n + 1 \in near
  <2> SUFFICES ASSUME NEW q \in Q, rank[q] + (n + 1) >= N, next[q] # q PROVE Settles(q)
    BY <1>1
  <2>1. next[q] \in Q /\ rank[next[q]] > rank[q]
    OBVIOUS
  <2>2. rank[next[q]] + n >= N
    BY <1>0, <2>1
  <2> QED
    BY <1>2, <1>4, <2>1, <2>2
<1> HIDE DEF near
<1>5. N \in near
  BY <1>3, <1>4, UpTo
<1> USE DEF near
<1>6. rank[s] + N >= N
  BY <1>0
<1>7. Settles(s)
  BY <1>5, <1>6
<1> QED
  BY <1>7 DEF Settles

\* Progress may be measured by a finite set that grows.
Grows(next, Q, F, size) ==
  /\ size \in [Q -> SUBSET F]
  /\ \A s \in Q : /\ next[s] \in Q
                  /\ next[s] # s => size[s] \subseteq size[next[s]] /\ size[s] # size[next[s]]

LEMMA FixpointOfGrowing ==
  ASSUME NEW S, NEW next \in [S -> S], NEW Q \in SUBSET S, NEW F, IsFiniteSet(F),
         NEW size, Grows(next, Q, F, size), NEW s \in Q
  PROVE  Fixpoint(next)[s] \in Q /\ next[Fixpoint(next)[s]] = Fixpoint(next)[s]
<1> USE DEF Grows
<1> DEFINE rank == [q \in Q |-> Cardinality(size[q])]
<1>1. ASSUME NEW q \in Q PROVE IsFiniteSet(size[q]) /\ Cardinality(size[q]) \in 0..Cardinality(F)
  <2>1. size[q] \in SUBSET F
    OBVIOUS
  <2>2. IsFiniteSet(size[q]) /\ Cardinality(size[q]) <= Cardinality(F)
    BY <2>1, FS_Subset
  <2> QED
    BY <2>2, FS_CardinalityType
<1>2. PICK N \in Nat : N = Cardinality(F)
  BY FS_CardinalityType
<1>3. rank \in [Q -> 0..N]
  BY <1>1, <1>2
<1>4. ASSUME NEW q \in Q, next[q] # q PROVE rank[next[q]] > rank[q]
  <2>1. next[q] \in Q /\ size[q] \in SUBSET size[next[q]] /\ size[q] # size[next[q]]
    BY <1>4
  <2>2. Cardinality(size[q]) <= Cardinality(size[next[q]])
        /\ Cardinality(size[q]) # Cardinality(size[next[q]])
    BY <1>1, <2>1, FS_Subset
  <2> QED
    BY <1>1, <2>1, <2>2
<1>5. \A q \in Q : next[q] \in Q /\ (next[q] # q => rank[next[q]] > rank[q])
  BY <1>4
<1> HIDE DEF rank
<1>6. Climbs(next, Q, rank, N)
  BY <1>3, <1>5 DEF Climbs
<1> QED
  BY <1>6, FixpointReached

\* A worklist ends with the least set that holds the start and what each of its
\* members leads to.
LEMMA ClosureIs ==
  ASSUME NEW D, IsFiniteSet(D), NEW step \in [D -> SUBSET D], NEW T \in SUBSET D
  PROVE  /\ Closure(step, T) \subseteq D
         /\ T \subseteq Closure(step, T)
         /\ \A i \in Closure(step, T) : step[i] \subseteq Closure(step, T)
         /\ \A C : T \subseteq C /\ (\A i \in C \cap D : step[i] \subseteq C) => Closure(step, T) \subseteq C
<1> DEFINE next == [X \in SUBSET DOMAIN step |-> X \cup UNION {step[i] : i \in X}]
           Q == {X \in SUBSET D : T \subseteq X
                   /\ \A C \in SUBSET D : T \subseteq C /\ (\A i \in C : step[i] \subseteq C) => X \subseteq C}
           size == [X \in Q |-> X]
<1>1. next \in [SUBSET D -> SUBSET D]
  OBVIOUS
<1>2. Closure(step, T) = Fixpoint(next)[T]
  BY DEF Closure
<1>3. \A X \in Q : next[X] \in Q /\ X \subseteq next[X]
  OBVIOUS
<1>4. T \in Q /\ Q \in SUBSET SUBSET D /\ size \in [Q -> SUBSET D] /\ \A X \in Q : size[X] = X
  OBVIOUS
<1>5. \A X \in SUBSET D : next[X] = X => \A i \in X : step[i] \subseteq X
  OBVIOUS
<1> HIDE DEF next, size, Q
<1>6. \A X \in Q : next[X] \in Q
        /\ (next[X] # X => size[X] \subseteq size[next[X]] /\ size[X] # size[next[X]])
  BY <1>3, <1>4
<1>7. Fixpoint(next)[T] \in Q /\ next[Fixpoint(next)[T]] = Fixpoint(next)[T]
  <2>1. Grows(next, Q, D, size)
    BY <1>4, <1>6 DEF Grows
  <2> QED
    BY <1>1, <1>4, <2>1, FixpointOfGrowing
<1>8. ASSUME NEW C, T \subseteq C, \A i \in C \cap D : step[i] \subseteq C
      PROVE  Closure(step, T) \subseteq C
  <2>1. C \cap D \in SUBSET D /\ T \subseteq C \cap D /\ \A i \in C \cap D : step[i] \subseteq C \cap D
    BY <1>8
  <2>2. Fixpoint(next)[T] \subseteq C \cap D
    BY <1>7, <2>1 DEF Q
  <2> QED
    BY <1>2, <2>2
<1>9. Closure(step, T) \in SUBSET D /\ T \subseteq Closure(step, T)
  BY <1>2, <1>7 DEF Q
<1>10. \A i \in Closure(step, T) : step[i] \subseteq Closure(step, T)
  BY <1>2, <1>5, <1>7, <1>9
<1> QED
  BY <1>8, <1>9, <1>10

-----------------------------------------------------------------------------
(* Dominators, for every body whose terminators go to blocks it has.          *)

Targeted(B) ==
  /\ IsFiniteSet(DOMAIN B)
  /\ Entry \in DOMAIN B
  /\ \A i \in DOMAIN B : Succs(B, i) \subseteq DOMAIN B

LEMMA ReachableIs ==
  ASSUME NEW B, Targeted(B)
  PROVE  /\ reachable_blocks(B) \subseteq DOMAIN B
         /\ Entry \in reachable_blocks(B)
         /\ \A i \in reachable_blocks(B) : Succs(B, i) \subseteq reachable_blocks(B)
<1>1. SuccFn(B) \in [DOMAIN B -> SUBSET DOMAIN B] /\ {Entry} \in SUBSET DOMAIN B
      /\ IsFiniteSet(DOMAIN B) /\ \A i \in DOMAIN B : SuccFn(B)[i] = Succs(B, i)
  BY DEF Targeted, SuccFn
<1>2. /\ reachable_blocks(B) \subseteq DOMAIN B
      /\ {Entry} \subseteq reachable_blocks(B)
      /\ \A i \in reachable_blocks(B) : SuccFn(B)[i] \subseteq reachable_blocks(B)
  BY <1>1, ClosureIs DEF reachable_blocks
<1> QED
  BY <1>1, <1>2

LEMMA AvoidingIs ==
  ASSUME NEW B, Targeted(B), NEW x
  PROVE  /\ ReachableAvoiding(B, Entry, x) \subseteq DOMAIN B
         /\ x # Entry => Entry \in ReachableAvoiding(B, Entry, x)
         /\ x = Entry => ReachableAvoiding(B, Entry, x) = {}
         /\ \A i \in ReachableAvoiding(B, Entry, x) :
              Succs(B, i) \ {x} \subseteq ReachableAvoiding(B, Entry, x)
         /\ \A C : Entry \in C /\ (\A i \in C \cap DOMAIN B : Succs(B, i) \ {x} \subseteq C)
                     => ReachableAvoiding(B, Entry, x) \subseteq C
<1> DEFINE step == [i \in DOMAIN B |-> Succs(B, i) \ {x}]
<1>1. step \in [DOMAIN B -> SUBSET DOMAIN B] /\ {Entry} \in SUBSET DOMAIN B
      /\ IsFiniteSet(DOMAIN B) /\ \A i \in DOMAIN B : step[i] = Succs(B, i) \ {x}
  BY DEF Targeted
<1>2. ReachableAvoiding(B, Entry, x) = IF Entry = x THEN {} ELSE Closure(step, {Entry})
  BY DEF ReachableAvoiding
<1> HIDE DEF step
<1>3. /\ Closure(step, {Entry}) \subseteq DOMAIN B
      /\ {Entry} \subseteq Closure(step, {Entry})
      /\ \A i \in Closure(step, {Entry}) : step[i] \subseteq Closure(step, {Entry})
      /\ \A C : {Entry} \subseteq C /\ (\A i \in C \cap DOMAIN B : step[i] \subseteq C)
                  => Closure(step, {Entry}) \subseteq C
  BY <1>1, ClosureIs
<1>4. CASE x = Entry
  BY <1>2, <1>4
<1>5. CASE x # Entry
  <2>1. ReachableAvoiding(B, Entry, x) = Closure(step, {Entry})
    BY <1>2, <1>5
  <2>2. \A i \in ReachableAvoiding(B, Entry, x) :
          Succs(B, i) \ {x} \subseteq ReachableAvoiding(B, Entry, x)
    <3> SUFFICES ASSUME NEW i \in Closure(step, {Entry})
                 PROVE  Succs(B, i) \ {x} \subseteq Closure(step, {Entry})
      BY <2>1
    <3>1. i \in DOMAIN B /\ step[i] \subseteq Closure(step, {Entry})
      BY <1>3
    <3> QED
      BY <1>1, <3>1
  <2>3. ASSUME NEW C, Entry \in C, \A i \in C \cap DOMAIN B : Succs(B, i) \ {x} \subseteq C
        PROVE  ReachableAvoiding(B, Entry, x) \subseteq C
    <3>1. \A i \in C \cap DOMAIN B : step[i] \subseteq C
      BY <1>1, <2>3
    <3> QED
      BY <1>3, <2>1, <2>3, <3>1
  <2> QED
    BY <1>3, <1>5, <2>1, <2>2, <2>3
<1> QED
  BY <1>4, <1>5

LEMMA PredsAre ==
  ASSUME NEW B, Targeted(B)
  PROVE  /\ Preds(B) \in [DOMAIN B -> SUBSET DOMAIN B]
         /\ \A i \in DOMAIN B :
              Preds(B)[i] = {p \in reachable_blocks(B) : i \in Succs(B, p)}
  BY ReachableIs DEF Preds

\* One round of the sweep over the blocks.
Sweep(preds, D) ==
  [E \in [D -> SUBSET D] |->
     [i \in D |->
        IF i = Entry \/ preds[i] = {}
        THEN E[i]
        ELSE {i} \cup {x \in D : \A p \in preds[i] : x \in E[p]}]]

\* What lies below E in every entry.
Within(D, E, F) == \A i \in D : E[i] \subseteq F[i]

LEMMA SweepMonotone ==
  ASSUME NEW D, NEW preds \in [D -> SUBSET D],
         NEW E \in [D -> SUBSET D], NEW F \in [D -> SUBSET D], Within(D, E, F)
  PROVE  Within(D, Sweep(preds, D)[E], Sweep(preds, D)[F])
<1> SUFFICES ASSUME NEW i \in D PROVE Sweep(preds, D)[E][i] \subseteq Sweep(preds, D)[F][i]
  BY DEF Within
<1>1. \A p \in preds[i] : E[p] \subseteq F[p]
  BY DEF Within
<1>2. E[i] \subseteq F[i]
  BY DEF Within
<1>3. CASE i = Entry \/ preds[i] = {}
  BY <1>2, <1>3 DEF Sweep
<1>4. CASE ~(i = Entry \/ preds[i] = {})
  <2>1. Sweep(preds, D)[E][i] = {i} \cup {x \in D : \A p \in preds[i] : x \in E[p]}
    BY <1>4 DEF Sweep
  <2>2. Sweep(preds, D)[F][i] = {i} \cup {x \in D : \A p \in preds[i] : x \in F[p]}
    BY <1>4 DEF Sweep
  <2> QED
    BY <1>1, <2>1, <2>2
<1> QED
  BY <1>3, <1>4

\* The entries the sweeps come through: each holds itself and what cuts every path,
\* and no later sweep adds to it.
Sweeping(B) ==
  {E \in [DOMAIN B -> SUBSET DOMAIN B] :
     /\ E[Entry] = {Entry}
     /\ Within(DOMAIN B, Sweep(Preds(B), DOMAIN B)[E], E)
     /\ \A y \in reachable_blocks(B) : \A x \in DOMAIN B :
          y \notin ReachableAvoiding(B, Entry, x) => x \in E[y]}

LEMMA SweepStays ==
  ASSUME NEW B, Targeted(B), NEW E \in Sweeping(B)
  PROVE  Sweep(Preds(B), DOMAIN B)[E] \in Sweeping(B)
<1> DEFINE D == DOMAIN B
           preds == Preds(B)
           F == Sweep(preds, D)[E]
<1>0. preds \in [D -> SUBSET D] /\ E \in [D -> SUBSET D] /\ Within(D, F, E) /\ Entry \in D
  BY PredsAre DEF Sweeping, Targeted
<1>1. F \in [D -> SUBSET D]
  BY <1>0 DEF Sweep
<1>2. F[Entry] = {Entry}
  BY <1>0 DEF Sweep, Sweeping
<1>3. Within(D, Sweep(preds, D)[F], F)
  BY <1>0, <1>1, SweepMonotone
<1>4. ASSUME NEW y \in reachable_blocks(B), NEW x \in D,
             y \notin ReachableAvoiding(B, Entry, x)
      PROVE  x \in F[y]
  <2>0. y \in D
    BY ReachableIs
  <2>1. CASE y = Entry \/ preds[y] = {}
    <3>1. F[y] = E[y]
      BY <1>0, <2>0, <2>1 DEF Sweep
    <3> QED
      BY <1>4, <3>1 DEF Sweeping
  <2>2. CASE ~(y = Entry \/ preds[y] = {})
    <3>1. F[y] = {y} \cup {z \in D : \A p \in preds[y] : z \in E[p]}
      BY <1>0, <2>0, <2>2 DEF Sweep
    <3>2. ASSUME NEW p \in preds[y], x # y PROVE x \in E[p]
      <4>1. p \in reachable_blocks(B) /\ y \in Succs(B, p)
        BY <2>0, PredsAre
      <4>2. p \notin ReachableAvoiding(B, Entry, x)
        BY <1>4, <3>2, <4>1, AvoidingIs
      <4> QED
        BY <4>1, <4>2 DEF Sweeping
    <3> QED
      BY <3>1, <3>2
  <2> QED
    BY <2>1, <2>2
<1> HIDE DEF F
<1>5. /\ F \in [DOMAIN B -> SUBSET DOMAIN B] /\ F[Entry] = {Entry}
      /\ Within(DOMAIN B, Sweep(Preds(B), DOMAIN B)[F], F)
  BY <1>1, <1>2, <1>3
<1>6. F \in Sweeping(B)
  BY <1>4, <1>5 DEF Sweeping
<1> QED
  BY <1>6 DEF F

\* What the sweeps end with.
LEMMA DominatorsSettled ==
  ASSUME NEW B, Targeted(B)
  PROVE  /\ compute_dominators(B) \in Sweeping(B)
         /\ Sweep(Preds(B), DOMAIN B)[compute_dominators(B)] = compute_dominators(B)
<1> DEFINE D == DOMAIN B
           S == [D -> SUBSET D]
           next == Sweep(Preds(B), D)
           start == [i \in D |-> IF i = Entry THEN {Entry} ELSE D]
           size == [E \in Sweeping(B) |-> {c \in D \X D : c[2] \notin E[c[1]]}]
<1>0. Preds(B) \in [D -> SUBSET D] /\ Entry \in D /\ IsFiniteSet(D)
  BY PredsAre DEF Targeted
<1>1. next \in [S -> S]
  BY <1>0 DEF Sweep
<1>2. compute_dominators(B) = Fixpoint(next)[start]
  <2>1. DOMAIN start = D
    OBVIOUS
  <2> HIDE DEF start
  <2>2. DomFix(Preds(B), start) = Fixpoint(next)[start]
    BY <2>1 DEF DomFix, Sweep
  <2> QED
    BY <2>2 DEF compute_dominators, start
<1>3. start \in Sweeping(B)
  <2>1. start \in S /\ start[Entry] = {Entry}
    BY <1>0
  <2>2. Within(D, next[start], start)
    <3> SUFFICES ASSUME NEW i \in D PROVE next[start][i] \subseteq start[i]
      BY DEF Within
    <3>1. next[start] \in S
      BY <1>1, <2>1
    <3>2. CASE i = Entry
      BY <2>1, <3>2 DEF Sweep
    <3> QED
      BY <3>1, <3>2
  <2>3. ASSUME NEW y \in reachable_blocks(B), NEW x \in D, y \notin ReachableAvoiding(B, Entry, x)
        PROVE  x \in start[y]
    <3>1. y \in D
      BY ReachableIs
    <3>2. y = Entry => x = Entry
      BY <2>3, AvoidingIs
    <3> QED
      BY <3>1, <3>2
  <2> HIDE DEF start
  <2>4. start \in [DOMAIN B -> SUBSET DOMAIN B] /\ start[Entry] = {Entry}
        /\ Within(DOMAIN B, Sweep(Preds(B), DOMAIN B)[start], start)
    BY <2>1, <2>2
  <2> QED
    BY <2>3, <2>4 DEF Sweeping
<1>4. IsFiniteSet(D \X D)
  BY <1>0, FS_Product
<1>5. size \in [Sweeping(B) -> SUBSET (D \X D)]
  OBVIOUS
<1>6. ASSUME NEW E \in Sweeping(B)
      PROVE  next[E] \in Sweeping(B)
             /\ (next[E] # E => size[E] \subseteq size[next[E]] /\ size[E] # size[next[E]])
  <2>1. next[E] \in Sweeping(B)
    BY SweepStays
  <2>2. E \in [D -> SUBSET D] /\ next[E] \in [D -> SUBSET D] /\ Within(D, next[E], E)
    BY <2>1 DEF Sweeping
  <2> HIDE DEF next
  <2>3. size[E] \subseteq size[next[E]]
    BY <2>1, <2>2 DEF Within
  <2>4. ASSUME next[E] # E PROVE size[E] # size[next[E]]
    <3>1. PICK i \in D : next[E][i] # E[i]
      BY <2>2, <2>4
    <3>2. PICK x \in D : x \in E[i] /\ x \notin next[E][i]
      BY <2>2, <3>1 DEF Within
    <3>3. <<i, x>> \in size[next[E]] /\ <<i, x>> \notin size[E]
      BY <2>1, <3>2
    <3> QED
      BY <3>3
  <2> QED
    BY <2>1, <2>3, <2>4
<1>7. Sweeping(B) \in SUBSET S
  BY DEF Sweeping
<1> HIDE DEF next, start, size
<1>8. Fixpoint(next)[start] \in Sweeping(B)
      /\ next[Fixpoint(next)[start]] = Fixpoint(next)[start]
  <2>1. Grows(next, Sweeping(B), D \X D, size)
    BY <1>5, <1>6 DEF Grows
  <2> HIDE DEF S
  <2> QED
    BY <1>1, <1>3, <1>4, <1>7, <2>1, FixpointOfGrowing
<1> QED
  BY <1>2, <1>8 DEF next

\* x dominates y exactly when x cuts every path from the entry to y.
LEMMA DominatorsCut ==
  ASSUME NEW B, Targeted(B), NEW x \in reachable_blocks(B), NEW y \in reachable_blocks(B)
  PROVE  x \in compute_dominators(B)[y] <=> y \notin ReachableAvoiding(B, Entry, x)
<1> DEFINE dom == compute_dominators(B)
           D == DOMAIN B
           R == reachable_blocks(B)
           C == {z \in R : x \notin dom[z]}
<1>1. dom \in Sweeping(B) /\ Sweep(Preds(B), D)[dom] = dom
  BY DominatorsSettled
<1>2. R \subseteq D /\ Entry \in R /\ \A i \in R : Succs(B, i) \subseteq R
  BY ReachableIs
<1>3. y \notin ReachableAvoiding(B, Entry, x) => x \in dom[y]
  BY <1>1, <1>2 DEF Sweeping
<1>4. dom[Entry] = {Entry} /\ dom \in [D -> SUBSET D]
  BY <1>1 DEF Sweeping
<1>5. ASSUME NEW z \in C, NEW w \in Succs(B, z) \ {x} PROVE w \in C
  <2>1. w \in R /\ z \in Preds(B)[w]
    BY <1>2, PredsAre
  <2>2. CASE w = Entry
    BY <1>4, <1>5, <2>1, <2>2
  <2>3. CASE w # Entry
    <3>1. Sweep(Preds(B), D)[dom][w] = {w} \cup {v \in D : \A p \in Preds(B)[w] : v \in dom[p]}
      BY <1>2, <1>4, <2>1, <2>3 DEF Sweep
    <3>2. x \notin dom[w]
      BY <1>1, <1>5, <2>1, <3>1
    <3> QED
      BY <2>1, <3>2
  <2> QED
    BY <2>2, <2>3
<1>6. ASSUME x \in dom[y] PROVE y \notin ReachableAvoiding(B, Entry, x)
  <2>1. CASE x = Entry
    BY <2>1, AvoidingIs
  <2>2. CASE x # Entry
    <3>1. Entry \in C
      BY <1>2, <1>4, <2>2
    <3>2. \A i \in C \cap DOMAIN B : Succs(B, i) \ {x} \subseteq C
      BY <1>5
    <3> HIDE DEF C
    <3>3. ReachableAvoiding(B, Entry, x) \subseteq C
      BY <3>1, <3>2, AvoidingIs
    <3> USE DEF C
    <3> QED
      BY <1>6, <3>3
  <2> QED
    BY <2>1, <2>2
<1> QED
  BY <1>3, <1>6

-----------------------------------------------------------------------------
(* Liveness, for every body whose blocks are finite lists.                    *)

Listed(b) ==
  /\ Len(b.stmts) \in Nat
  /\ DOMAIN b.stmts = 1..Len(b.stmts)
  /\ IsFiniteSet(DOMAIN b.term.args)

\* From the statement at p on, x is used before it is defined, or it is still awaited
\* after the block, where out is live.
NeededFrom(b, out, p, x) ==
  \/ \E m \in p..Len(b.stmts) :
       x \in StmtUses(b.stmts[m]) /\ \A j \in p..(m - 1) : b.stmts[j].dest # x
  \/ /\ x \in TermUses(b.term) \/ (x \in out /\ x # b.term.dest)
     /\ \A j \in p..Len(b.stmts) : b.stmts[j].dest # x

Mentioned(b, out) ==
  out \cup TermUses(b.term) \cup UNION {StmtUses(b.stmts[j]) : j \in 1..Len(b.stmts)}

LEMMA NeededStep ==
  ASSUME NEW b, Listed(b), NEW out, NEW p \in 1..Len(b.stmts), NEW x
  PROVE  NeededFrom(b, out, p, x) <=>
           x \in StmtUses(b.stmts[p])
             \/ (NeededFrom(b, out, p + 1, x) /\ x # b.stmts[p].dest)
<1> DEFINE n == Len(b.stmts)
           after == x \in TermUses(b.term) \/ (x \in out /\ x # b.term.dest)
           Uses(m) == x \in StmtUses(b.stmts[m])
           Keeps(j) == b.stmts[j].dest # x
<1>0. n \in Nat /\ p \in 1..n
  BY DEF Listed
<1>1. NeededFrom(b, out, p, x) <=>
        \/ \E m \in p..n : Uses(m) /\ \A j \in p..(m - 1) : Keeps(j)
        \/ after /\ \A j \in p..n : Keeps(j)
  BY DEF NeededFrom
<1>2. NeededFrom(b, out, p + 1, x) <=>
        \/ \E m \in (p + 1)..n : Uses(m) /\ \A j \in (p + 1)..(m - 1) : Keeps(j)
        \/ after /\ \A j \in (p + 1)..n : Keeps(j)
  BY DEF NeededFrom
<1> HIDE DEF Uses, Keeps, after, n
<1>3. ASSUME NEW m \in p..n, Uses(m), \A j \in p..(m - 1) : Keeps(j), ~Uses(p)
      PROVE  Keeps(p) /\ m \in (p + 1)..n /\ \A j \in (p + 1)..(m - 1) : Keeps(j)
  <2>1. m # p
    BY <1>3
  <2> QED
    BY <1>0, <1>3, <2>1
<1>4. Uses(p) => \E m \in p..n : Uses(m) /\ \A j \in p..(m - 1) : Keeps(j)
  BY <1>0
<1>5. ASSUME Keeps(p), NEW m \in (p + 1)..n, Uses(m), \A j \in (p + 1)..(m - 1) : Keeps(j)
      PROVE  m \in p..n /\ \A j \in p..(m - 1) : Keeps(j)
  BY <1>0, <1>5
<1>6. (\A j \in p..n : Keeps(j)) <=> Keeps(p) /\ \A j \in (p + 1)..n : Keeps(j)
  BY <1>0
<1>7. Keeps(p) <=> x # b.stmts[p].dest
  BY DEF Keeps
<1>8. Uses(p) <=> x \in StmtUses(b.stmts[p])
  BY DEF Uses
<1> QED
  BY <1>1, <1>2, <1>3, <1>4, <1>5, <1>6, <1>7, <1>8

\* The backward pass over a block finds what is used in it before it is defined, and
\* what comes through it to its end.
LEMMA LiveBeforeIs ==
  ASSUME NEW b, Listed(b), NEW out
  PROVE  \A x : x \in LiveBefore(b, out) <=> Exposed(b, x) \/ (x \in out /\ ~Defines(b, x))
<1> DEFINE n == Len(b.stmts)
           IsLive(f) ==
             f = [k \in 0..n |->
                    IF k = 0
                    THEN (out \ {b.term.dest}) \cup TermUses(b.term)
                    ELSE (f[k - 1] \ {b.stmts[n + 1 - k].dest}) \cup StmtUses(b.stmts[n + 1 - k])]
           lives == CHOOSE f : IsLive(f)
           At(p) == {x \in Mentioned(b, out) : NeededFrom(b, out, p, x)}
           g == [k \in 0..n |-> At(n + 1 - k)]
<1>0. n \in Nat
  BY DEF Listed
<1>1. At(n + 1) = (out \ {b.term.dest}) \cup TermUses(b.term)
  BY <1>0 DEF NeededFrom, Mentioned
<1>2. ASSUME NEW p \in 1..n PROVE At(p) = (At(p + 1) \ {b.stmts[p].dest}) \cup StmtUses(b.stmts[p])
  <2>1. StmtUses(b.stmts[p]) \subseteq Mentioned(b, out)
    BY DEF Mentioned
  <2> QED
    BY <2>1, NeededStep
<1> HIDE DEF At
<1>3. g[0] = (out \ {b.term.dest}) \cup TermUses(b.term)
  BY <1>0, <1>1
<1>4. ASSUME NEW k \in 1..n
      PROVE  g[k] = (g[k - 1] \ {b.stmts[n + 1 - k].dest}) \cup StmtUses(b.stmts[n + 1 - k])
  <2>1. n + 1 - k \in 1..n /\ k \in 0..n /\ k - 1 \in 0..n /\ n + 1 - (k - 1) = (n + 1 - k) + 1
    BY <1>0
  <2>2. g[k] = At(n + 1 - k) /\ g[k - 1] = At((n + 1 - k) + 1)
    BY <2>1
  <2> HIDE DEF g
  <2> QED
    BY <1>2, <2>1, <2>2
<1>5. g = [k \in 0..n |-> g[k]]
  OBVIOUS
<1> HIDE DEF g
<1>6. IsLive(g)
  <2>1. \A k \in 0..n : k = 0 \/ k \in 1..n
    BY <1>0
  <2> QED
    BY <1>3, <1>4, <1>5, <2>1
<1>7. IsLive(lives)
  BY <1>6
<1>8. LiveBefore(b, out) = lives[n]
  BY DEF LiveBefore
<1> HIDE DEF lives
<1>9. lives[0] = g[0]
  BY <1>0, <1>3, <1>7
<1>10. ASSUME NEW k \in 1..n, lives[k - 1] = g[k - 1] PROVE lives[k] = g[k]
  <2>1. k \in 0..n /\ k # 0
    OBVIOUS
  <2>2. lives[k] = (lives[k - 1] \ {b.stmts[n + 1 - k].dest}) \cup StmtUses(b.stmts[n + 1 - k])
    BY <1>7, <2>1
  <2> QED
    BY <1>4, <1>10, <2>2
<1>11. lives[n] = g[n]
  <2> DEFINE S == {k \in Nat : lives[k] = g[k]}
  <2>1. 0 \in S
    BY <1>9
  <2>2. ASSUME NEW k \in 0..n, k \in S, k < n PROVE k + 1 \in S
    <3>1. k + 1 \in 1..n /\ k + 1 - 1 = k
      BY <1>0, <2>2
    <3> QED
      BY <1>10, <2>2, <3>1
  <2> HIDE DEF S, n
  <2>3. 0..n \subseteq S
    BY <1>0, <2>1, <2>2, UpTo
  <2>4. n \in S
    BY <1>0, <2>3
  <2> QED
    BY <2>4 DEF S
<1>12. g[n] = At(1)
  <2>1. n \in 0..n /\ n + 1 - n = 1
    BY <1>0
  <2> QED
    BY <2>1 DEF g
<1>13. ASSUME NEW x
       PROVE  NeededFrom(b, out, 1, x) <=> Exposed(b, x) \/ (x \in out /\ ~Defines(b, x))
  <2>1. DOMAIN b.stmts = 1..n /\ Range(b.stmts) = {b.stmts[j] : j \in 1..n}
    BY DEF Listed, Range
  <2>2. ~Defines(b, x) <=> x # b.term.dest /\ \A j \in 1..n : b.stmts[j].dest # x
    BY <2>1 DEF Defines
  <2>3. NeededFrom(b, out, 1, x) <=>
          \/ \E m \in 1..n : x \in StmtUses(b.stmts[m]) /\ \A j \in 1..(m - 1) : b.stmts[j].dest # x
          \/ /\ x \in TermUses(b.term) \/ (x \in out /\ x # b.term.dest)
             /\ \A j \in 1..n : b.stmts[j].dest # x
    BY DEF NeededFrom
  <2>4. Exposed(b, x) <=>
          \/ \E m \in 1..n : x \in StmtUses(b.stmts[m]) /\ \A j \in 1..(m - 1) : b.stmts[j].dest # x
          \/ x \in TermUses(b.term) /\ \A j \in 1..n : b.stmts[j].dest # x
    BY <2>1 DEF Exposed
  <2> QED
    BY <2>2, <2>3, <2>4
<1>14. ASSUME NEW x, NeededFrom(b, out, 1, x) PROVE x \in Mentioned(b, out)
  BY <1>14 DEF NeededFrom, Mentioned
<1>15. LiveBefore(b, out) = At(1)
  BY <1>8, <1>11, <1>12
<1> QED
  BY <1>13, <1>14, <1>15 DEF At

LEMMA FiniteRange ==
  ASSUME NEW D, IsFiniteSet(D), NEW f, DOMAIN f = D
  PROVE  IsFiniteSet(Range(f))
<1> DEFINE g == [i \in D |-> f[i]]
<1>1. g \in Surjection(D, Range(f))
  BY DEF Surjection, Range
<1> HIDE DEF g
<1> QED
  BY <1>1, FS_Surjection

WellFormed(B) == Targeted(B) /\ \A i \in DOMAIN B : Listed(B[i])

LEMMA StmtsFinite ==
  ASSUME NEW B, WellFormed(B)
  PROVE  IsFiniteSet(Stmts(B))
<1> DEFINE D == DOMAIN B
<1>0. IsFiniteSet(D) /\ \A i \in D : Listed(B[i])
  BY DEF WellFormed, Targeted
<1>1. ASSUME NEW i \in D PROVE IsFiniteSet(Range(B[i].stmts))
  <2>1. IsFiniteSet(DOMAIN B[i].stmts)
    BY <1>0, FS_Interval DEF Listed
  <2> QED
    BY <2>1, FiniteRange
<1> DEFINE f == [i \in D |-> Range(B[i].stmts)]
<1>2. Range(f) = {Range(B[i].stmts) : i \in D}
  BY DEF Range
<1>3. DOMAIN f = D
  OBVIOUS
<1> HIDE DEF f
<1>4. IsFiniteSet({Range(B[i].stmts) : i \in D})
  BY <1>0, <1>2, <1>3, FiniteRange
<1>5. \A X \in {Range(B[i].stmts) : i \in D} : IsFiniteSet(X)
  BY <1>1
<1>6. IsFiniteSet(UNION {Range(B[i].stmts) : i \in D})
  BY <1>4, <1>5, FS_UNION
<1> QED
  BY <1>6 DEF Stmts

LEMMA UsedFinite ==
  ASSUME NEW B, WellFormed(B)
  PROVE  IsFiniteSet(Used(B))
<1> DEFINE D == DOMAIN B
<1>0. IsFiniteSet(D) /\ \A i \in D : Listed(B[i])
  BY DEF WellFormed, Targeted
<1>1. ASSUME NEW i \in D PROVE IsFiniteSet(TermUses(B[i].term))
  <2>1. IsFiniteSet(Range(B[i].term.args))
    BY <1>0, FiniteRange DEF Listed
  <2> QED
    BY <2>1, FS_Difference DEF TermUses
<1>3. \A s : IsFiniteSet(StmtUses(s))
  BY FS_Singleton, FS_Difference DEF StmtUses
<1>4. IsFiniteSet(UNION {TermUses(B[i].term) : i \in D})
  <2> DEFINE f == [i \in D |-> TermUses(B[i].term)]
  <2>1. Range(f) = {TermUses(B[i].term) : i \in D}
    BY DEF Range
  <2>2. DOMAIN f = D
    OBVIOUS
  <2> HIDE DEF f
  <2>3. IsFiniteSet({TermUses(B[i].term) : i \in D})
    BY <1>0, <2>1, <2>2, FiniteRange
  <2>4. \A X \in {TermUses(B[i].term) : i \in D} : IsFiniteSet(X)
    BY <1>1
  <2> QED
    BY <2>3, <2>4, FS_UNION
<1>5. IsFiniteSet(Stmts(B))
  BY StmtsFinite
<1>6. IsFiniteSet(UNION {StmtUses(s) : s \in Stmts(B)})
  <2> DEFINE f == [s \in Stmts(B) |-> StmtUses(s)]
  <2>1. Range(f) = {StmtUses(s) : s \in Stmts(B)}
    BY DEF Range
  <2>2. DOMAIN f = Stmts(B)
    OBVIOUS
  <2> HIDE DEF f
  <2>3. IsFiniteSet({StmtUses(s) : s \in Stmts(B)})
    BY <1>5, <2>1, <2>2, FiniteRange
  <2>4. \A X \in {StmtUses(s) : s \in Stmts(B)} : IsFiniteSet(X)
    BY <1>3
  <2> QED
    BY <2>3, <2>4, FS_UNION
<1> DEFINE T == UNION {TermUses(B[i].term) : i \in D}
           V == UNION {StmtUses(s) : s \in Stmts(B)}
<1>7. Used(B) = T \cup V
  BY DEF Used
<1> HIDE DEF T, V
<1>8. IsFiniteSet(T) /\ IsFiniteSet(V)
  BY <1>4, <1>6 DEF T, V
<1> QED
  BY <1>7, <1>8, FS_Union

\* The blocks a path from block i reaches before x is defined again.
PathOf(B, x, i) ==
  Closure([b \in DOMAIN B |-> IF Defines(B[b], x) THEN {} ELSE Succs(B, b)], {i})

UsedLater(B, x, i) == \E j \in PathOf(B, x, i) : Exposed(B[j], x)

LEMMA PathIs ==
  ASSUME NEW B, Targeted(B), NEW x, NEW i \in DOMAIN B
  PROVE  /\ PathOf(B, x, i) \subseteq DOMAIN B
         /\ i \in PathOf(B, x, i)
         /\ \A b \in PathOf(B, x, i) : ~Defines(B[b], x) => Succs(B, b) \subseteq PathOf(B, x, i)
         /\ \A C : i \in C /\ (\A b \in C \cap DOMAIN B : ~Defines(B[b], x) => Succs(B, b) \subseteq C)
                     => PathOf(B, x, i) \subseteq C
<1> DEFINE step == [b \in DOMAIN B |-> IF Defines(B[b], x) THEN {} ELSE Succs(B, b)]
<1>1. step \in [DOMAIN B -> SUBSET DOMAIN B] /\ {i} \in SUBSET DOMAIN B
      /\ IsFiniteSet(DOMAIN B)
  BY DEF Targeted
<1>2. \A b \in DOMAIN B : step[b] = IF Defines(B[b], x) THEN {} ELSE Succs(B, b)
  OBVIOUS
<1>3. PathOf(B, x, i) = Closure(step, {i})
  BY DEF PathOf
<1> HIDE DEF step
<1>4. /\ Closure(step, {i}) \subseteq DOMAIN B
      /\ {i} \subseteq Closure(step, {i})
      /\ \A b \in Closure(step, {i}) : step[b] \subseteq Closure(step, {i})
  BY <1>1, ClosureIs
<1>5. \A C : {i} \subseteq C /\ (\A b \in C \cap DOMAIN B : step[b] \subseteq C)
               => Closure(step, {i}) \subseteq C
  BY <1>1, ClosureIs
<1>6. ASSUME NEW b \in PathOf(B, x, i), ~Defines(B[b], x)
      PROVE  Succs(B, b) \subseteq PathOf(B, x, i)
  <2>1. b \in DOMAIN B /\ step[b] \subseteq Closure(step, {i})
    BY <1>3, <1>4
  <2> QED
    BY <1>2, <1>3, <1>6, <2>1
<1>7. ASSUME NEW C, i \in C,
             \A b \in C \cap DOMAIN B : ~Defines(B[b], x) => Succs(B, b) \subseteq C
      PROVE  PathOf(B, x, i) \subseteq C
  <2>1. \A b \in C \cap DOMAIN B : step[b] \subseteq C
    BY <1>2, <1>7
  <2> QED
    BY <1>3, <1>5, <1>7, <2>1
<1> QED
  BY <1>3, <1>4, <1>6, <1>7

\* A use that a successor awaits is awaited, when x comes through the block.
LEMMA PathExtends ==
  ASSUME NEW B, Targeted(B), NEW x, NEW i \in DOMAIN B, ~Defines(B[i], x),
         NEW k \in Succs(B, i), UsedLater(B, x, k)
  PROVE  UsedLater(B, x, i)
<1>1. k \in DOMAIN B /\ k \in PathOf(B, x, i)
  BY PathIs DEF Targeted
<1>2. \A b \in PathOf(B, x, i) \cap DOMAIN B :
        ~Defines(B[b], x) => Succs(B, b) \subseteq PathOf(B, x, i)
  BY PathIs
<1>3. \A C : k \in C /\ (\A b \in C \cap DOMAIN B : ~Defines(B[b], x) => Succs(B, b) \subseteq C)
               => PathOf(B, x, k) \subseteq C
  BY <1>1, PathIs
<1>4. PathOf(B, x, k) \subseteq PathOf(B, x, i)
  BY <1>1, <1>2, <1>3
<1> QED
  BY <1>4 DEF UsedLater

\* One round of the backward analysis.
Round(B) ==
  [livein \in [DOMAIN B -> SUBSET Used(B)] |->
     [i \in DOMAIN B |-> LiveBefore(B[i], LiveOut(B, livein, i))]]

LEMMA RoundIs ==
  ASSUME NEW B, WellFormed(B), NEW E \in [DOMAIN B -> SUBSET Used(B)]
  PROVE  /\ Round(B)[E] \in [DOMAIN B -> SUBSET Used(B)]
         /\ \A i \in DOMAIN B : \A x :
              x \in Round(B)[E][i] <=>
                Exposed(B[i], x) \/ (~Defines(B[i], x) /\ \E k \in Succs(B, i) : x \in E[k])
<1>1. ASSUME NEW i \in DOMAIN B, NEW x
      PROVE  x \in Round(B)[E][i] <=>
                Exposed(B[i], x) \/ (~Defines(B[i], x) /\ \E k \in Succs(B, i) : x \in E[k])
  <2>1. Listed(B[i])
    BY DEF WellFormed
  <2>2. Round(B)[E][i] = LiveBefore(B[i], LiveOut(B, E, i))
    BY DEF Round
  <2>3. x \in LiveOut(B, E, i) <=> \E k \in Succs(B, i) : x \in E[k]
    BY DEF LiveOut
  <2> QED
    BY <2>1, <2>2, <2>3, LiveBeforeIs
<1>2. ASSUME NEW i \in DOMAIN B, NEW x, Exposed(B[i], x) PROVE x \in Used(B)
  <2>1. CASE x \in TermUses(B[i].term)
    BY <2>1 DEF Used
  <2>2. CASE \E k \in DOMAIN B[i].stmts : x \in StmtUses(B[i].stmts[k])
    <3>1. PICK k \in DOMAIN B[i].stmts : x \in StmtUses(B[i].stmts[k])
      BY <2>2
    <3>2. B[i].stmts[k] \in Stmts(B)
      BY DEF Stmts, Range
    <3>3. x \in UNION {StmtUses(s) : s \in Stmts(B)}
      BY <3>1, <3>2
    <3> QED
      BY <3>3 DEF Used
  <2> QED
    BY <1>2, <2>1, <2>2 DEF Exposed
<1>3. \A i \in DOMAIN B : Succs(B, i) \subseteq DOMAIN B
  BY DEF WellFormed, Targeted
<1>4. \A i \in DOMAIN B : Round(B)[E][i] \subseteq Used(B)
  BY <1>1, <1>2, <1>3
<1>5. Round(B)[E] = [i \in DOMAIN B |-> Round(B)[E][i]]
  BY DEF Round
<1> QED
  BY <1>1, <1>4, <1>5

\* The sets the rounds come through: none holds more than what is used later, and
\* the next one holds it.
Rounds(B) ==
  {E \in [DOMAIN B -> SUBSET Used(B)] :
     /\ Within(DOMAIN B, E, Round(B)[E])
     /\ \A i \in DOMAIN B : \A x \in E[i] : UsedLater(B, x, i)}

LEMMA RoundStays ==
  ASSUME NEW B, WellFormed(B), NEW E \in Rounds(B)
  PROVE  Round(B)[E] \in Rounds(B)
<1> DEFINE D == DOMAIN B
           F == Round(B)[E]
<1>0. E \in [D -> SUBSET Used(B)] /\ Within(D, E, F) /\ Targeted(B)
  BY DEF Rounds, WellFormed
<1>1. F \in [D -> SUBSET Used(B)]
  BY <1>0, RoundIs
<1>2. \A i \in D : \A x : x \in F[i] <=>
        Exposed(B[i], x) \/ (~Defines(B[i], x) /\ \E k \in Succs(B, i) : x \in E[k])
  BY <1>0, RoundIs
<1> HIDE DEF F
<1>3. \A i \in D : \A x : x \in Round(B)[F][i] <=>
        Exposed(B[i], x) \/ (~Defines(B[i], x) /\ \E k \in Succs(B, i) : x \in F[k])
  BY <1>1, RoundIs
<1>4. \A i \in D : Succs(B, i) \subseteq D
  BY <1>0 DEF Targeted
<1>5. Within(D, F, Round(B)[F])
  <2> SUFFICES ASSUME NEW i \in D, NEW x \in F[i] PROVE x \in Round(B)[F][i]
    BY DEF Within
  <2>1. \A k \in D : E[k] \subseteq F[k]
    BY <1>0 DEF Within
  <2> QED
    BY <1>2, <1>3, <1>4, <2>1
<1>6. ASSUME NEW i \in D, NEW x \in F[i] PROVE UsedLater(B, x, i)
  <2>1. CASE Exposed(B[i], x)
    BY <1>0, <2>1, PathIs DEF UsedLater
  <2>2. CASE ~Defines(B[i], x) /\ \E k \in Succs(B, i) : x \in E[k]
    <3>1. PICK k \in Succs(B, i) : x \in E[k]
      BY <2>2
    <3>2. UsedLater(B, x, k)
      BY <1>4, <3>1 DEF Rounds
    <3> QED
      BY <1>0, <2>2, <3>2, PathExtends
  <2> QED
    BY <1>2, <2>1, <2>2
<1>7. F \in Rounds(B)
  BY <1>1, <1>5, <1>6 DEF Rounds
<1> QED
  BY <1>7 DEF F

LEMMA LivenessSettled ==
  ASSUME NEW B, WellFormed(B)
  PROVE  compute(B) \in Rounds(B) /\ Round(B)[compute(B)] = compute(B)
<1> DEFINE D == DOMAIN B
           U == Used(B)
           S == [D -> SUBSET U]
           next == Round(B)
           start == [i \in D |-> {}]
           size == [E \in Rounds(B) |-> {c \in D \X U : c[2] \in E[c[1]]}]
<1>1. next \in [S -> S]
  <2>1. DOMAIN next = S /\ next = [E \in S |-> next[E]]
    BY DEF Round
  <2>2. \A E \in S : next[E] \in S
    BY RoundIs
  <2> HIDE DEF next, S
  <2> QED
    BY <2>1, <2>2
<1>2. compute(B) = Fixpoint(next)[start]
  BY DEF compute, Round
<1>3. start \in Rounds(B)
  <2>1. start \in S
    OBVIOUS
  <2> QED
    BY <2>1 DEF Rounds, Within
<1>4. IsFiniteSet(D \X U)
  BY UsedFinite, FS_Product DEF WellFormed, Targeted
<1>5. size \in [Rounds(B) -> SUBSET (D \X U)]
  OBVIOUS
<1>6. ASSUME NEW E \in Rounds(B)
      PROVE  next[E] \in Rounds(B)
             /\ (next[E] # E => size[E] \subseteq size[next[E]] /\ size[E] # size[next[E]])
  <2>1. next[E] \in Rounds(B)
    BY RoundStays
  <2>2. E \in [D -> SUBSET U] /\ next[E] \in [D -> SUBSET U] /\ Within(D, E, next[E])
    BY <2>1 DEF Rounds
  <2> HIDE DEF next
  <2>3. size[E] \subseteq size[next[E]]
    BY <2>1, <2>2 DEF Within
  <2>4. ASSUME next[E] # E PROVE size[E] # size[next[E]]
    <3>1. PICK i \in D : next[E][i] # E[i]
      BY <2>2, <2>4
    <3>2. PICK x \in U : x \in next[E][i] /\ x \notin E[i]
      BY <2>2, <3>1 DEF Within
    <3>3. <<i, x>> \in size[next[E]] /\ <<i, x>> \notin size[E]
      BY <2>1, <3>2
    <3> QED
      BY <3>3
  <2> QED
    BY <2>1, <2>3, <2>4
<1>7. Rounds(B) \in SUBSET S
  BY DEF Rounds
<1> HIDE DEF next, start, size
<1>8. Fixpoint(next)[start] \in Rounds(B)
      /\ next[Fixpoint(next)[start]] = Fixpoint(next)[start]
  <2>1. Grows(next, Rounds(B), D \X U, size)
    BY <1>5, <1>6 DEF Grows
  <2> HIDE DEF S
  <2> QED
    BY <1>1, <1>3, <1>4, <1>7, <2>1, FixpointOfGrowing
<1> QED
  BY <1>2, <1>8 DEF next

\* x is live at the start of i exactly when a path from there uses it before it is
\* defined again.
LEMMA LivenessIs ==
  ASSUME NEW B, WellFormed(B), NEW i \in DOMAIN B, NEW x
  PROVE  x \in compute(B)[i] <=> UsedLater(B, x, i)
<1> DEFINE L == compute(B)
           C == {b \in DOMAIN B : x \in L[b] => x \in L[i]}
<1>1. L \in Rounds(B) /\ Round(B)[L] = L
  BY LivenessSettled
<1>2. x \in L[i] => UsedLater(B, x, i)
  BY <1>1 DEF Rounds
<1>3. \A b \in DOMAIN B :
        x \in L[b] <=>
          Exposed(B[b], x) \/ (~Defines(B[b], x) /\ \E k \in Succs(B, b) : x \in L[k])
  <2>1. L \in [DOMAIN B -> SUBSET Used(B)]
    BY <1>1 DEF Rounds
  <2> HIDE DEF L
  <2>2. \A b \in DOMAIN B : \A y :
          y \in Round(B)[L][b] <=>
            Exposed(B[b], y) \/ (~Defines(B[b], y) /\ \E k \in Succs(B, b) : y \in L[k])
    BY <2>1, RoundIs
  <2> QED
    BY <1>1, <2>2
<1>4. ASSUME UsedLater(B, x, i) PROVE x \in L[i]
  <2>1. PICK j \in PathOf(B, x, i) : Exposed(B[j], x)
    BY <1>4 DEF UsedLater
  <2>2. Targeted(B) /\ \A b \in DOMAIN B : Succs(B, b) \subseteq DOMAIN B
    BY DEF WellFormed, Targeted
  <2>3. i \in C /\ \A b \in C \cap DOMAIN B : ~Defines(B[b], x) => Succs(B, b) \subseteq C
    <3> HIDE DEF L
    <3> QED
      BY <1>3, <2>2
  <2> HIDE DEF C
  <2>4. PathOf(B, x, i) \subseteq C
    BY <2>2, <2>3, PathIs
  <2> QED
    BY <1>3, <2>1, <2>4 DEF C
<1> QED
  BY <1>2, <1>4

-----------------------------------------------------------------------------
(* What the lowering has built is well-formed and well-typed at every moment: *)
(* every terminator goes to a block that exists, every statement mentions     *)
(* locals of the types its operation is about, and every reference comes      *)
(* about through a statement of the body.                                     *)

Types == {"string", "linear", "ref", "pointer"}
MirLocal == [type : Types, loops : Nat]
MirStmt == [op : {"move", "field", "ref", "deref"}, dest : Nat, src : Nat]
MirTerm ==
  [op : {"none", "goto", "if", "call", "return"}, to : Seq(Nat),
   fn : Helpers \cup {"", "concat", "mint", "printf", "spend"},
   args : Seq(Nat), dest : Nat]
MirBlock == [stmts : Seq(MirStmt), term : MirTerm]
MirFrame ==
  [kind : {"then", "else", "loop", "for"}, other : Nat, after : Nat, head : Nat,
   scope : SUBSET Nat]

Has(T, x, type) == x \in DOMAIN T /\ T[x].type = type

TypedStmt(s, T) ==
  /\ s \in MirStmt /\ s.src \in DOMAIN T /\ s.dest \in DOMAIN T
  /\ s.op = "move" => T[s.dest].type = T[s.src].type
  /\ s.op = "ref" => T[s.src].type = "linear" /\ T[s.dest].type = "ref"
  /\ s.op = "deref" => T[s.src].type = "ref" /\ T[s.dest].type = "linear"
  /\ s.op = "field" => T[s.src].type = "string" /\ T[s.dest].type = "pointer"

TypedCall(t, T) ==
  \/ /\ t.fn = "concat" /\ Has(T, t.dest, "string")
     /\ \A x \in Range(t.args) : Has(T, x, "string")
  \/ t.fn = "mint" /\ t.args = <<>> /\ Has(T, t.dest, "linear")
  \/ /\ t.fn \in Helpers /\ Has(T, t.dest, "linear")
     /\ t.args = <<t.args[1]>> /\ Has(T, t.args[1], "ref")
  \/ /\ t.fn = "printf" /\ t.dest = NoLocal
     /\ t.args = <<t.args[1]>> /\ Has(T, t.args[1], "pointer")
  \/ /\ t.fn = "spend" /\ t.dest = NoLocal
     /\ t.args = <<t.args[1]>>
     /\ Has(T, t.args[1], "string") \/ Has(T, t.args[1], "linear")

TypedTerm(t, T, n) ==
  /\ t \in MirTerm
  /\ Range(t.to) \subseteq 1..n
  /\ t.op # "call" => t.args = <<>> /\ t.dest = NoLocal
  /\ t.op = "call" => t.to # <<>> /\ TypedCall(t, T)

GoodBody(B, T) ==
  /\ B \in Seq(MirBlock)
  /\ Len(B) > 0
  /\ \A i \in DOMAIN B : TypedTerm(B[i].term, T, Len(B))
  /\ \A s \in Stmts(B) : TypedStmt(s, T)

GoodFrames(F, n, m) ==
  /\ F \in Seq(MirFrame)
  /\ \A i \in DOMAIN F :
       /\ F[i].other \in 1..n /\ F[i].after \in 1..n
       /\ F[i].kind = "for" => F[i].head \in 1..n
       /\ F[i].scope \subseteq 1..m

\* A reference is taken of a linear value or copied from an earlier one.
Made(x, S) ==
  \E s \in S :
    /\ s.dest = x
    /\ \/ s.op = "ref"
       \/ s.op = "move" /\ s.src < x

LowerInv ==
  /\ locals \in Seq(MirLocal)
  /\ GoodBody(blocks, locals)
  /\ current \in 1..Len(blocks)
  /\ scope \subseteq 1..Len(locals)
  /\ GoodFrames(frames, Len(blocks), Len(locals))
  /\ \A x \in DOMAIN locals : locals[x].type = "ref" => Made(x, Stmts(blocks))

\* The operations of the builder keep a good body good.
LEMMA StmtsAre ==
  ASSUME NEW B, NEW s
  PROVE  s \in Stmts(B) <=> \E i \in DOMAIN B : \E k \in DOMAIN B[i].stmts : s = B[i].stmts[k]
  BY DEF Stmts, Range

LEMMA TermTypes ==
  ASSUME NEW T, NEW n \in Nat
  PROVE  /\ EmptyBlock \in MirBlock /\ TypedTerm(NoTerm, T, n) /\ EmptyBlock.term = NoTerm
         /\ EmptyBlock.stmts = <<>>
         /\ TypedTerm(Return, T, n)
         /\ \A b \in 1..n : TypedTerm(Goto(b), T, n)
         /\ \A b, c \in 1..n : TypedTerm(If(b, c), T, n)
<1>1. <<>> \in Seq(Nat) /\ Range(<<>>) = {} /\ 0 \in Nat /\ "" \in Helpers \cup {"", "concat", "mint", "printf", "spend"}
  BY DEF Range
<1>2. NoTerm \in MirTerm /\ NoTerm.op = "none" /\ NoTerm.to = <<>>
      /\ NoTerm.args = <<>> /\ NoTerm.dest = NoLocal
  BY <1>1 DEF NoTerm, NoLocal, MirTerm
<1>3. TypedTerm(NoTerm, T, n)
  BY <1>1, <1>2 DEF TypedTerm
<1>4. Return \in MirTerm /\ Return.op = "return" /\ Return.to = <<>>
      /\ Return.args = <<>> /\ Return.dest = NoLocal
  BY <1>2 DEF Return, MirTerm
<1>5. TypedTerm(Return, T, n)
  BY <1>1, <1>4 DEF TypedTerm
<1>6. <<>> \in Seq(MirStmt)
  OBVIOUS
<1>7. EmptyBlock \in MirBlock /\ EmptyBlock.term = NoTerm /\ EmptyBlock.stmts = <<>>
  BY <1>2, <1>6 DEF EmptyBlock, MirBlock
<1>8. ASSUME NEW b \in 1..n PROVE TypedTerm(Goto(b), T, n)
  <2>1. <<b>> \in Seq(Nat) /\ Range(<<b>>) = {b}
    BY DEF Range
  <2>2. Goto(b) \in MirTerm /\ Goto(b).op = "goto" /\ Goto(b).to = <<b>>
        /\ Goto(b).args = <<>> /\ Goto(b).dest = NoLocal
    BY <1>2, <2>1 DEF Goto, MirTerm
  <2> QED
    BY <2>1, <2>2 DEF TypedTerm
<1>9. ASSUME NEW b \in 1..n, NEW c \in 1..n PROVE TypedTerm(If(b, c), T, n)
  <2>1. <<b, c>> \in Seq(Nat) /\ Range(<<b, c>>) = {b, c}
    BY DEF Range
  <2>2. If(b, c) \in MirTerm /\ If(b, c).op = "if" /\ If(b, c).to = <<b, c>>
        /\ If(b, c).args = <<>> /\ If(b, c).dest = NoLocal
    BY <1>2, <2>1 DEF If, MirTerm
  <2> QED
    BY <2>1, <2>2 DEF TypedTerm
<1> QED
  BY <1>3, <1>5, <1>7, <1>8, <1>9

LEMMA TermGrows ==
  ASSUME NEW t, NEW T, NEW n \in Nat, NEW m \in Nat, n <= m, TypedTerm(t, T, n)
  PROVE  TypedTerm(t, T, m)
<1>1. 1..n \subseteq 1..m
  OBVIOUS
<1> QED
  BY <1>1 DEF TypedTerm

LEMMA CreateGood ==
  ASSUME NEW B, NEW T, GoodBody(B, T), NEW n \in Nat
  PROVE  /\ GoodBody(create_block(B, n), T)
         /\ Len(create_block(B, n)) = Len(B) + n
         /\ Stmts(create_block(B, n)) = Stmts(B)
<1> DEFINE E == [i \in 1..n |-> EmptyBlock]
           C == create_block(B, n)
<1>0. B \in Seq(MirBlock) /\ Len(B) \in Nat /\ Len(B) > 0 /\ DOMAIN B = 1..Len(B)
      /\ \A i \in 1..Len(B) : B[i] \in MirBlock
  BY DEF GoodBody
<1>1. EmptyBlock \in MirBlock /\ EmptyBlock.term = NoTerm /\ EmptyBlock.stmts = <<>>
  BY TermTypes
<1>2. E \in Seq(MirBlock) /\ Len(E) = n /\ \A i \in 1..n : E[i] = EmptyBlock
  BY <1>1
<1> HIDE DEF E
<1>3. C = B \o E
  BY DEF create_block, E
<1> HIDE DEF C
<1>4. C \in Seq(MirBlock) /\ Len(C) = Len(B) + n /\ DOMAIN C = 1..(Len(B) + n)
  <2>1. C \in Seq(MirBlock) /\ Len(C) = Len(B) + n
    BY <1>0, <1>2, <1>3, ConcatProperties
  <2> QED
    BY <2>1, LenProperties
<1>5. \A i \in 1..Len(B) : C[i] = B[i]
  BY <1>0, <1>2, <1>3, ConcatProperties
<1>6. \A i \in (Len(B) + 1)..(Len(B) + n) : C[i] = EmptyBlock
  <2> SUFFICES ASSUME NEW i \in (Len(B) + 1)..(Len(B) + n) PROVE C[i] = EmptyBlock
    OBVIOUS
  <2>1. i \in 1..(Len(B) + n) /\ ~(i <= Len(B)) /\ i - Len(B) \in 1..n
    BY <1>0
  <2>2. C[i] = E[i - Len(B)]
    BY <1>0, <1>2, <1>3, <2>1, ConcatProperties
  <2> QED
    BY <1>2, <2>1, <2>2
<1>7. \A i \in DOMAIN C : i \in 1..Len(B) \/ i \in (Len(B) + 1)..(Len(B) + n)
  BY <1>0, <1>4
<1>8. \A i \in 1..Len(B) : i \in DOMAIN C
  BY <1>0, <1>4
<1>9. DOMAIN <<>> = {}
  OBVIOUS
<1>10. Stmts(C) = Stmts(B)
  <2>1. ASSUME NEW s PROVE s \in Stmts(C) <=> s \in Stmts(B)
    BY <1>0, <1>1, <1>5, <1>6, <1>7, <1>8, <1>9, StmtsAre
  <2> QED
    BY <2>1
<1>11. ASSUME NEW i \in DOMAIN C PROVE TypedTerm(C[i].term, T, Len(C))
  <2>1. CASE i \in 1..Len(B)
    <3>1. TypedTerm(B[i].term, T, Len(B))
      BY <1>0, <2>1 DEF GoodBody
    <3> QED
      BY <1>0, <1>4, <1>5, <2>1, <3>1, TermGrows
  <2>2. CASE i \in (Len(B) + 1)..(Len(B) + n)
    <3>1. TypedTerm(NoTerm, T, Len(C))
      BY <1>0, <1>4, TermTypes
    <3> QED
      BY <1>1, <1>6, <2>2, <3>1
  <2> QED
    BY <1>7, <2>1, <2>2
<1>12. GoodBody(C, T)
  BY <1>0, <1>4, <1>10, <1>11 DEF GoodBody
<1> QED
  BY <1>4, <1>10, <1>12 DEF C

LEMMA SetGood ==
  ASSUME NEW B, NEW T, GoodBody(B, T), NEW i \in 1..Len(B), NEW t, TypedTerm(t, T, Len(B))
  PROVE  /\ GoodBody(set_terminator(B, i, t), T)
         /\ Len(set_terminator(B, i, t)) = Len(B)
         /\ Stmts(set_terminator(B, i, t)) = Stmts(B)
<1> DEFINE C == set_terminator(B, i, t)
<1>0. B \in Seq(MirBlock) /\ Len(B) \in Nat /\ Len(B) > 0 /\ DOMAIN B = 1..Len(B)
      /\ \A j \in 1..Len(B) : B[j] \in MirBlock
  BY DEF GoodBody
<1>1. C = [B EXCEPT ![i] = [B[i] EXCEPT !.term = t]]
  BY DEF set_terminator
<1> HIDE DEF C
<1>2. t \in MirTerm
  BY DEF TypedTerm
<1>3. [B[i] EXCEPT !.term = t] \in MirBlock /\ [B[i] EXCEPT !.term = t].term = t
      /\ [B[i] EXCEPT !.term = t].stmts = B[i].stmts
  BY <1>0, <1>2 DEF MirBlock
<1>4. C \in Seq(MirBlock) /\ Len(C) = Len(B) /\ DOMAIN C = 1..Len(B)
  BY <1>0, <1>1, <1>3, ExceptSeq
<1>5. \A j \in 1..Len(B) : C[j].stmts = B[j].stmts /\ C[j].term = IF j = i THEN t ELSE B[j].term
  BY <1>0, <1>1, <1>3
<1>6. Stmts(C) = Stmts(B)
  <2>1. ASSUME NEW s PROVE s \in Stmts(C) <=> s \in Stmts(B)
    BY <1>0, <1>4, <1>5, StmtsAre
  <2> QED
    BY <2>1
<1>7. ASSUME NEW j \in DOMAIN C PROVE TypedTerm(C[j].term, T, Len(C))
  BY <1>0, <1>4, <1>5 DEF GoodBody
<1>8. GoodBody(C, T)
  BY <1>0, <1>4, <1>6, <1>7 DEF GoodBody
<1> QED
  BY <1>4, <1>6, <1>8 DEF C

LEMMA PushGood ==
  ASSUME NEW B, NEW T, GoodBody(B, T), NEW i \in 1..Len(B), NEW s, TypedStmt(s, T)
  PROVE  /\ GoodBody(push_stmt(B, i, s), T)
         /\ Len(push_stmt(B, i, s)) = Len(B)
         /\ Stmts(push_stmt(B, i, s)) = Stmts(B) \cup {s}
<1> DEFINE C == push_stmt(B, i, s)
           b == [B[i] EXCEPT !.stmts = Append(B[i].stmts, s)]
<1>0. B \in Seq(MirBlock) /\ Len(B) \in Nat /\ Len(B) > 0 /\ DOMAIN B = 1..Len(B)
      /\ \A j \in 1..Len(B) : B[j] \in MirBlock
  BY DEF GoodBody
<1>1. C = [B EXCEPT ![i] = b]
  BY DEF push_stmt
<1> HIDE DEF C
<1>2. s \in MirStmt /\ B[i].stmts \in Seq(MirStmt)
  BY <1>0 DEF TypedStmt, MirBlock
<1>3. /\ Append(B[i].stmts, s) \in Seq(MirStmt)
      /\ DOMAIN Append(B[i].stmts, s) = DOMAIN B[i].stmts \cup {Len(B[i].stmts) + 1}
      /\ \A k \in DOMAIN B[i].stmts : Append(B[i].stmts, s)[k] = B[i].stmts[k]
      /\ Append(B[i].stmts, s)[Len(B[i].stmts) + 1] = s
  BY <1>2, AppendProperties, LenProperties
<1>4. b \in MirBlock /\ b.stmts = Append(B[i].stmts, s) /\ b.term = B[i].term
  BY <1>0, <1>3 DEF MirBlock
<1> HIDE DEF b
<1>5. C \in Seq(MirBlock) /\ Len(C) = Len(B) /\ DOMAIN C = 1..Len(B)
  BY <1>0, <1>1, <1>4, ExceptSeq
<1>6. \A j \in 1..Len(B) : C[j].term = B[j].term /\ (j # i => C[j].stmts = B[j].stmts)
  BY <1>0, <1>1, <1>4
<1>7. C[i].stmts = Append(B[i].stmts, s)
  BY <1>0, <1>1, <1>4
<1>8. Stmts(C) = Stmts(B) \cup {s}
  <2>1. ASSUME NEW r \in Stmts(C) PROVE r \in Stmts(B) \cup {s}
    <3>1. PICK j \in 1..Len(B) : \E k \in DOMAIN C[j].stmts : r = C[j].stmts[k]
      BY <1>5, StmtsAre
    <3>2. CASE j = i
      BY <1>0, <1>3, <1>7, <3>1, <3>2, StmtsAre
    <3>3. CASE j # i
      BY <1>0, <1>6, <3>1, <3>3, StmtsAre
    <3> QED
      BY <3>2, <3>3
  <2>2. ASSUME NEW r \in Stmts(B) PROVE r \in Stmts(C)
    <3>1. PICK j \in 1..Len(B) : \E k \in DOMAIN B[j].stmts : r = B[j].stmts[k]
      BY <1>0, StmtsAre
    <3>2. \E k \in DOMAIN C[j].stmts : r = C[j].stmts[k]
      BY <1>3, <1>6, <1>7, <3>1
    <3> QED
      BY <1>5, <3>2, StmtsAre
  <2>3. s \in Stmts(C)
    BY <1>3, <1>5, <1>7, StmtsAre
  <2> QED
    BY <2>1, <2>2, <2>3
<1>9. ASSUME NEW j \in DOMAIN C PROVE TypedTerm(C[j].term, T, Len(C))
  BY <1>0, <1>5, <1>6 DEF GoodBody
<1>10. GoodBody(C, T)
  BY <1>0, <1>5, <1>8, <1>9 DEF GoodBody
<1> QED
  BY <1>5, <1>8, <1>10 DEF C

Longer(T, U) ==
  /\ T \in Seq(MirLocal) /\ U \in Seq(MirLocal) /\ Len(T) <= Len(U)
  /\ \A x \in DOMAIN T : U[x] = T[x]

\* More locals do no harm.
LEMMA LongerGood ==
  ASSUME NEW B, NEW T, NEW U, GoodBody(B, T), Longer(T, U)
  PROVE  GoodBody(B, U)
<1>0. DOMAIN T \subseteq DOMAIN U /\ \A x \in DOMAIN T : U[x] = T[x]
  BY DEF Longer
<1>1. ASSUME NEW x, NEW type, Has(T, x, type) PROVE Has(U, x, type)
  BY <1>0, <1>1 DEF Has
<1>2. ASSUME NEW s \in Stmts(B) PROVE TypedStmt(s, U)
  <2>1. TypedStmt(s, T)
    BY DEF GoodBody
  <2>2. s.src \in DOMAIN U /\ s.dest \in DOMAIN U /\ U[s.src] = T[s.src] /\ U[s.dest] = T[s.dest]
    BY <1>0, <2>1 DEF TypedStmt
  <2> QED
    BY <2>1, <2>2 DEF TypedStmt
<1>3. ASSUME NEW i \in DOMAIN B PROVE TypedTerm(B[i].term, U, Len(B))
  <2>1. TypedTerm(B[i].term, T, Len(B))
    BY DEF GoodBody
  <2>2. TypedCall(B[i].term, T) => TypedCall(B[i].term, U)
    BY <1>1 DEF TypedCall
  <2> QED
    BY <2>1, <2>2 DEF TypedTerm
<1> QED
  BY <1>2, <1>3 DEF GoodBody

-----------------------------------------------------------------------------
(* LowerInv is inductive.                                                     *)

LEMMA LoopsNat == ASSUME LowerInv PROVE Loops \in Nat
<1>1. frames \in Seq(MirFrame)
  BY DEF LowerInv, GoodFrames
<1>2. IsFiniteSet(DOMAIN frames)
  BY <1>1, LenProperties, FS_Interval
<1>3. IsFiniteSet(LoopFrames)
  BY <1>2, FS_Subset DEF LoopFrames
<1> QED
  BY <1>3, FS_CardinalityType DEF Loops

LEMMA LocalAdded ==
  ASSUME LowerInv, NEW T \in Seq(MirLocal), NEW type \in Types
  PROVE  /\ Longer(T, T \o NewLocal(type))
         /\ Len(T \o NewLocal(type)) = Len(T) + 1
         /\ Has(T \o NewLocal(type), Len(T) + 1, type)
<1> DEFINE new == [type |-> type, loops |-> Loops]
           U == T \o NewLocal(type)
<1>1. new \in MirLocal
  BY LoopsNat DEF MirLocal
<1>2. U = Append(T, new)
  BY <1>1, AppendIsConcat DEF NewLocal
<1> HIDE DEF U
<1>3. /\ U \in Seq(MirLocal) /\ Len(U) = Len(T) + 1
      /\ \A i \in 1..Len(T) : U[i] = T[i]
      /\ U[Len(T) + 1] = new
  BY <1>1, <1>2, AppendProperties
<1>4. Len(T) \in Nat /\ DOMAIN T = 1..Len(T) /\ DOMAIN U = 1..Len(U)
  BY <1>3, LenProperties
<1>5. Longer(T, U)
  BY <1>3, <1>4 DEF Longer
<1>6. Has(U, Len(T) + 1, type)
  BY <1>3, <1>4 DEF Has
<1> QED
  BY <1>3, <1>5, <1>6 DEF U

LEMMA LongerTransitive ==
  ASSUME NEW T, NEW U, NEW V, Longer(T, U), Longer(U, V)
  PROVE  Longer(T, V)
<1>1. DOMAIN T = 1..Len(T) /\ DOMAIN U = 1..Len(U) /\ DOMAIN T \subseteq DOMAIN U
      /\ Len(T) \in Nat /\ Len(U) \in Nat /\ Len(V) \in Nat
  BY LenProperties DEF Longer
<1> QED
  BY <1>1 DEF Longer

LEMMA LongerSame == ASSUME NEW T \in Seq(MirLocal) PROVE Longer(T, T)
  BY LenProperties DEF Longer

LEMMA HasLonger ==
  ASSUME NEW T, NEW U, Longer(T, U), NEW x, NEW type, Has(T, x, type)
  PROVE  Has(U, x, type)
<1>1. DOMAIN T \subseteq DOMAIN U
  BY LenProperties DEF Longer
<1> QED
  BY <1>1 DEF Longer, Has

LEMMA FramesLater ==
  ASSUME NEW F, NEW n \in Nat, NEW m \in Nat, NEW n1 \in Nat, NEW m1 \in Nat,
         n <= n1, m <= m1, GoodFrames(F, n, m)
  PROVE  GoodFrames(F, n1, m1)
<1>1. 1..n \subseteq 1..n1 /\ 1..m \subseteq 1..m1
  OBVIOUS
<1> QED
  BY <1>1 DEF GoodFrames

LEMMA Sizes ==
  ASSUME LowerInv
  PROVE  /\ Len(blocks) \in Nat /\ DOMAIN blocks = 1..Len(blocks) /\ Len(blocks) > 0
         /\ Len(locals) \in Nat /\ DOMAIN locals = 1..Len(locals)
  BY LenProperties DEF LowerInv, GoodBody

\* A step that only adds keeps the invariant when what it adds is in order.
LEMMA Kept ==
  ASSUME LowerInv, GoodBody(blocks', locals'), Len(blocks) <= Len(blocks'),
         Stmts(blocks) \subseteq Stmts(blocks'), Longer(locals, locals'),
         current' \in 1..Len(blocks'), scope' \subseteq 1..Len(locals'),
         GoodFrames(frames', Len(blocks'), Len(locals')),
         \A x \in (Len(locals) + 1)..Len(locals') :
           locals'[x].type = "ref" => Made(x, Stmts(blocks'))
  PROVE  LowerInv'
<1>1. locals' \in Seq(MirLocal)
  BY DEF Longer
<1>2. Len(locals') \in Nat /\ DOMAIN locals' = 1..Len(locals')
  BY <1>1, LenProperties
<1>3. ASSUME NEW x \in DOMAIN locals', locals'[x].type = "ref" PROVE Made(x, Stmts(blocks'))
  <2>1. CASE x \in 1..Len(locals)
    <3>1. locals[x].type = "ref"
      BY <1>3, <2>1, Sizes DEF Longer
    <3>2. Made(x, Stmts(blocks))
      BY <2>1, <3>1, Sizes DEF LowerInv
    <3> QED
      BY <3>2 DEF Made
  <2>2. CASE x \in (Len(locals) + 1)..Len(locals')
    BY <1>3, <2>2
  <2> QED
    BY <1>2, <2>1, <2>2, Sizes
<1> QED
  BY <1>1, <1>3 DEF LowerInv

\* The same when the frames stay and no reference is added.
LEMMA KeptFrames ==
  ASSUME LowerInv, GoodBody(blocks', locals'), Len(blocks) <= Len(blocks'),
         Stmts(blocks) \subseteq Stmts(blocks'), Longer(locals, locals'),
         current' \in 1..Len(blocks'), scope' \subseteq 1..Len(locals'),
         frames' = frames,
         \A x \in (Len(locals) + 1)..Len(locals') :
           locals'[x].type = "ref" => Made(x, Stmts(blocks'))
  PROVE  LowerInv'
<1>1. blocks' \in Seq(MirBlock) /\ locals' \in Seq(MirLocal) /\ Len(locals) <= Len(locals')
  BY DEF GoodBody, Longer
<1>2. Len(blocks') \in Nat /\ Len(locals') \in Nat
  BY <1>1, LenProperties
<1>3. GoodFrames(frames', Len(blocks'), Len(locals'))
  BY <1>1, <1>2, Sizes, FramesLater DEF LowerInv
<1> QED
  BY <1>3, Kept

CallFits(fn, args, type) ==
  /\ args \in Seq(Nat)
  /\ \/ fn = "concat" /\ type = "string" /\ \A x \in Range(args) : Has(locals, x, "string")
     \/ fn = "mint" /\ type = "linear" /\ args = <<>>
     \/ fn \in Helpers /\ type = "linear" /\ args = <<args[1]>> /\ Has(locals, args[1], "ref")

LEMMA CallTyped ==
  ASSUME NEW fn, NEW args, NEW type, CallFits(fn, args, type),
         NEW U, Longer(locals, U), NEW dest \in Nat, Has(U, dest, type),
         NEW n \in Nat, NEW b \in 1..n
  PROVE  TypedTerm(Call(fn, args, dest, b), U, n)
<1> DEFINE t == Call(fn, args, dest, b)
<1>1. t.op = "call" /\ t.to = <<b>> /\ t.fn = fn /\ t.args = args /\ t.dest = dest
  BY DEF Call
<1>2. <<b>> \in Seq(Nat) /\ Range(<<b>>) = {b} /\ <<b>> # <<>>
  BY DEF Range
<1>3. fn \in Helpers \cup {"", "concat", "mint", "printf", "spend"} /\ args \in Seq(Nat)
  BY DEF CallFits
<1>4. t \in MirTerm
  BY <1>2, <1>3 DEF Call, MirTerm
<1>5. TypedCall(t, U)
  <2>1. \A x, k : Has(locals, x, k) => Has(U, x, k)
    BY HasLonger
  <2> HIDE DEF t
  <2> QED
    BY <1>1, <2>1 DEF CallFits, TypedCall
<1> HIDE DEF t
<1>6. TypedTerm(t, U, n)
  BY <1>1, <1>2, <1>4, <1>5 DEF TypedTerm
<1> QED
  BY <1>6 DEF t

LEMMA MoveTyped ==
  ASSUME NEW U \in Seq(MirLocal), NEW type, NEW x, NEW y, Has(U, x, type), Has(U, y, type)
  PROVE  /\ TypedStmt(Stmt("move", x, y), U)
         /\ Stmt("move", x, y).op = "move" /\ Stmt("move", x, y).dest = x
         /\ Stmt("move", x, y).src = y
<1> DEFINE s == Stmt("move", x, y)
<1>1. s.op = "move" /\ s.dest = x /\ s.src = y
  BY DEF Stmt
<1>2. x \in Nat /\ y \in Nat
  BY LenProperties DEF Has
<1>3. s \in MirStmt
  BY <1>2 DEF Stmt, MirStmt
<1> HIDE DEF s
<1>4. TypedStmt(s, U)
  BY <1>1, <1>3 DEF TypedStmt, Has
<1> QED
  BY <1>1, <1>4 DEF s

LEMMA LetCallStep ==
  ASSUME LowerInv, NEW fn, NEW args, NEW type \in {"string", "linear"},
         CallFits(fn, args, type), LetCall(fn, args, type), frames' = frames
  PROVE  LowerInv'
<1> DEFINE n == Len(blocks)
           m == Len(locals)
           T1 == locals \o NewLocal(type)
           C == create_block(blocks, 1)
           t == Call(fn, args, m + 1, n + 1)
           D == set_terminator(C, current, t)
           s == Stmt("move", m + 2, m + 1)
<1>1. /\ locals' = T1 \o NewLocal(type) /\ blocks' = push_stmt(D, n + 1, s)
      /\ current' = n + 1 /\ scope' = scope \cup {m + 2}
  BY DEF LetCall
<1>0. n \in Nat /\ m \in Nat /\ current \in 1..n /\ scope \subseteq 1..m
      /\ locals \in Seq(MirLocal) /\ type \in Types
  BY Sizes DEF LowerInv, Types
<1>2. Longer(locals, T1) /\ Len(T1) = m + 1 /\ Has(T1, m + 1, type) /\ T1 \in Seq(MirLocal)
  BY <1>0, LocalAdded DEF Longer
<1> HIDE DEF T1
<1>3. Longer(T1, locals') /\ Len(locals') = m + 2 /\ Has(locals', m + 2, type)
      /\ locals' \in Seq(MirLocal)
  <2>1. Longer(T1, locals') /\ Len(locals') = m + 1 + 1 /\ Has(locals', m + 1 + 1, type)
    BY <1>0, <1>1, <1>2, LocalAdded
  <2>2. m + 1 + 1 = m + 2
    BY <1>0
  <2> QED
    BY <2>1, <2>2 DEF Longer
<1>4. Longer(locals, locals') /\ Has(locals', m + 1, type)
  BY <1>2, <1>3, LongerTransitive, HasLonger
<1>5. GoodBody(blocks, locals')
  BY <1>4, LongerGood DEF LowerInv
<1>6. GoodBody(C, locals') /\ Len(C) = n + 1 /\ Stmts(C) = Stmts(blocks)
  BY <1>5, CreateGood
<1>7. TypedTerm(t, locals', n + 1)
  BY <1>0, <1>4, CallTyped
<1> HIDE DEF C, t
<1>8. current \in 1..Len(C) /\ TypedTerm(t, locals', Len(C))
  BY <1>0, <1>6, <1>7
<1>9. GoodBody(D, locals') /\ Len(D) = n + 1 /\ Stmts(D) = Stmts(blocks)
  BY <1>6, <1>8, SetGood
<1>10. TypedStmt(s, locals')
  BY <1>3, <1>4, MoveTyped
<1> HIDE DEF D, s
<1>11. n + 1 \in 1..Len(D)
  BY <1>0, <1>9
<1>12. GoodBody(blocks', locals') /\ Len(blocks') = n + 1 /\ Stmts(blocks) \subseteq Stmts(blocks')
  BY <1>1, <1>9, <1>10, <1>11, PushGood
<1>13. \A x \in (m + 1)..Len(locals') : locals'[x].type # "ref"
  <2>1. \A x \in (m + 1)..Len(locals') : x = m + 1 \/ x = m + 2
    BY <1>0, <1>3
  <2>2. type # "ref"
    OBVIOUS
  <2> QED
    BY <1>3, <1>4, <2>1, <2>2 DEF Has
<1>14. Len(blocks) <= Len(blocks') /\ current' \in 1..Len(blocks') /\ scope' \subseteq 1..Len(locals')
  <2> HIDE DEF n, m
  <2>1. scope' \subseteq 1..Len(locals')
    BY <1>0, <1>1, <1>3
  <2>2. n <= Len(blocks') /\ n + 1 \in 1..Len(blocks')
    BY <1>0, <1>12
  <2> QED
    BY <1>1, <2>1, <2>2 DEF n
<1> QED
  BY <1>4, <1>12, <1>13, <1>14, KeptFrames

LEMMA NamedHas ==
  ASSUME LowerInv, NEW type, NEW x \in Named(type)
  PROVE  Has(locals, x, type) /\ x \in 1..Len(locals) /\ x \in Nat
  BY Sizes DEF Named, Has, LowerInv

LEMMA UsableHas ==
  ASSUME LowerInv, NEW type, NEW x \in Usable(type)
  PROVE  Has(locals, x, type) /\ x \in 1..Len(locals) /\ x \in Nat
  BY NamedHas DEF Usable

LEMMA LetConcatStep == ASSUME LowerInv, LetConcat PROVE LowerInv'
<1>0. frames' = frames
  BY DEF LetConcat
<1>1. CASE LetCall("concat", <<>>, "string")
  <2>1. CallFits("concat", <<>>, "string")
    BY DEF CallFits, Range
  <2> QED
    BY <1>0, <1>1, <2>1, LetCallStep
<1>2. ASSUME NEW x \in Usable("string"), LetCall("concat", <<x>>, "string") PROVE LowerInv'
  <2>1. Has(locals, x, "string") /\ <<x>> \in Seq(Nat) /\ Range(<<x>>) = {x}
    BY UsableHas DEF Range
  <2>2. CallFits("concat", <<x>>, "string")
    BY <2>1 DEF CallFits
  <2> QED
    BY <1>0, <1>2, <2>2, LetCallStep
<1> QED
  BY <1>1, <1>2 DEF LetConcat

LEMMA LetMintStep == ASSUME LowerInv, LetMint PROVE LowerInv'
<1>1. CallFits("mint", <<>>, "linear")
  BY DEF CallFits
<1> QED
  BY <1>1, LetCallStep DEF LetMint

LEMMA LetHelperStep == ASSUME LowerInv, LetHelper PROVE LowerInv'
<1>1. PICK h \in Helpers, p \in Named("ref") : LetCall(h, <<p>>, "linear")
  BY DEF LetHelper
<1>2. Has(locals, p, "ref") /\ <<p>> \in Seq(Nat) /\ <<p>>[1] = p
  BY NamedHas
<1>3. CallFits(h, <<p>>, "linear")
  BY <1>2 DEF CallFits
<1> QED
  BY <1>1, <1>3, LetCallStep DEF LetHelper

LEMMA AssignStep == ASSUME LowerInv, Assign PROVE LowerInv'
<1> DEFINE n == Len(blocks)
           m == Len(locals)
           C == create_block(blocks, 1)
<1>1. PICK type \in {"string", "linear"}, x \in Named("string") \cup Named("linear") :
        /\ locals[x].type = type
        /\ LET call == IF type = "string"
                       THEN Call("concat", <<x>>, m + 1, n + 1)
                       ELSE Call("mint", <<>>, m + 1, n + 1)
           IN blocks' = push_stmt(set_terminator(C, current, call), n + 1, Stmt("move", x, m + 1))
        /\ current' = n + 1
        /\ locals' = locals \o NewLocal(type)
  BY DEF Assign
<1> DEFINE fn == IF type = "string" THEN "concat" ELSE "mint"
           args == IF type = "string" THEN <<x>> ELSE <<>>
           t == Call(fn, args, m + 1, n + 1)
           D == set_terminator(C, current, t)
           s == Stmt("move", x, m + 1)
<1>2. blocks' = push_stmt(D, n + 1, s) /\ scope' = scope /\ frames' = frames
  BY <1>1 DEF Assign
<1>0. n \in Nat /\ m \in Nat /\ current \in 1..n /\ scope \subseteq 1..m
      /\ locals \in Seq(MirLocal) /\ type \in Types
  BY Sizes DEF LowerInv, Types
<1>3. Has(locals, x, type) /\ x \in Nat
  <2>1. Has(locals, x, "string") \/ Has(locals, x, "linear")
    BY NamedHas
  <2>2. x \in Nat
    BY NamedHas
  <2> QED
    BY <1>1, <2>1, <2>2 DEF Has
<1>4. Longer(locals, locals') /\ Len(locals') = m + 1 /\ Has(locals', m + 1, type)
      /\ locals' \in Seq(MirLocal)
  BY <1>0, <1>1, LocalAdded DEF Longer
<1>5. CallFits(fn, args, type)
  <2>1. CASE type = "string"
    <3>1. <<x>> \in Seq(Nat) /\ Range(<<x>>) = {x}
      BY <1>3 DEF Range
    <3> QED
      BY <1>3, <2>1, <3>1 DEF CallFits
  <2>2. CASE type = "linear"
    BY <2>2 DEF CallFits
  <2> QED
    BY <2>1, <2>2
<1> HIDE DEF fn, args
<1>6. GoodBody(blocks, locals')
  BY <1>4, LongerGood DEF LowerInv
<1>7. GoodBody(C, locals') /\ Len(C) = n + 1 /\ Stmts(C) = Stmts(blocks)
  BY <1>6, CreateGood
<1>8. TypedTerm(t, locals', n + 1)
  BY <1>0, <1>4, <1>5, CallTyped
<1> HIDE DEF C, t
<1>9. current \in 1..Len(C) /\ TypedTerm(t, locals', Len(C))
  BY <1>0, <1>7, <1>8
<1>10. GoodBody(D, locals') /\ Len(D) = n + 1 /\ Stmts(D) = Stmts(blocks)
  BY <1>7, <1>9, SetGood
<1>11. TypedStmt(s, locals')
  BY <1>3, <1>4, HasLonger, MoveTyped
<1> HIDE DEF D, s
<1>12. n + 1 \in 1..Len(D)
  BY <1>0, <1>10
<1>13. GoodBody(blocks', locals') /\ Len(blocks') = n + 1 /\ Stmts(blocks) \subseteq Stmts(blocks')
  BY <1>2, <1>10, <1>11, <1>12, PushGood
<1>14. \A y \in (m + 1)..Len(locals') : locals'[y].type # "ref"
  <2>1. \A y \in (m + 1)..Len(locals') : y = m + 1
    BY <1>0, <1>4
  <2> QED
    BY <1>4, <2>1 DEF Has
<1> HIDE DEF n, m
<1>15. scope' \subseteq 1..Len(locals') /\ n <= Len(blocks') /\ n + 1 \in 1..Len(blocks')
  BY <1>0, <1>2, <1>4, <1>13
<1> QED
  BY <1>1, <1>2, <1>4, <1>13, <1>14, <1>15, KeptFrames DEF n, m

LEMMA LetMoveStep == ASSUME LowerInv, LetMove PROVE LowerInv'
<1> DEFINE n == Len(blocks)
           m == Len(locals)
<1>1. PICK type \in {"string", "linear", "ref"}, x \in Usable("string") \cup Usable("linear") \cup Usable("ref") :
        /\ x \in Usable(type)
        /\ blocks' = push_stmt(blocks, current, Stmt("move", m + 1, x))
        /\ locals' = locals \o NewLocal(type)
        /\ scope' = scope \cup {m + 1}
  BY DEF LetMove
<1> DEFINE s == Stmt("move", m + 1, x)
<1>2. blocks' = push_stmt(blocks, current, s) /\ current' = current /\ frames' = frames
  BY <1>1 DEF LetMove
<1>0. n \in Nat /\ m \in Nat /\ current \in 1..n /\ scope \subseteq 1..m
      /\ locals \in Seq(MirLocal) /\ type \in Types
  BY Sizes DEF LowerInv, Types
<1>3. Has(locals, x, type) /\ x \in 1..m
  BY <1>1, UsableHas
<1>4. Longer(locals, locals') /\ Len(locals') = m + 1 /\ Has(locals', m + 1, type)
      /\ locals' \in Seq(MirLocal)
  BY <1>0, <1>1, LocalAdded DEF Longer
<1>5. GoodBody(blocks, locals')
  BY <1>4, LongerGood DEF LowerInv
<1>6. TypedStmt(s, locals') /\ s.op = "move" /\ s.dest = m + 1 /\ s.src = x
  BY <1>3, <1>4, HasLonger, MoveTyped
<1> HIDE DEF s
<1>7. GoodBody(blocks', locals') /\ Len(blocks') = n /\ Stmts(blocks') = Stmts(blocks) \cup {s}
  BY <1>0, <1>2, <1>5, <1>6, PushGood
<1>8. \A y \in (m + 1)..Len(locals') : Made(y, Stmts(blocks'))
  <2>1. \A y \in (m + 1)..Len(locals') : y = m + 1
    BY <1>0, <1>4
  <2>2. x < m + 1
    BY <1>0, <1>3
  <2>3. Made(m + 1, Stmts(blocks'))
    BY <1>6, <1>7, <2>2 DEF Made
  <2> QED
    BY <2>1, <2>3
<1> HIDE DEF n, m
<1>9. scope' \subseteq 1..Len(locals') /\ n <= Len(blocks') /\ current' \in 1..Len(blocks')
  BY <1>0, <1>1, <1>2, <1>4, <1>7
<1> QED
  BY <1>2, <1>4, <1>7, <1>8, <1>9, KeptFrames DEF n, m

\* let p = &c; and let d = *p;: the temporary and its copy.
LEMMA LetTempStep ==
  ASSUME LowerInv, NEW kind, NEW op, NEW from, NEW type,
         (op = "ref" /\ from = "linear" /\ type = "ref")
           \/ (op = "deref" /\ from = "ref" /\ type = "linear"),
         LetTemp(kind, op, from, type)
  PROVE  LowerInv'
<1> DEFINE n == Len(blocks)
           m == Len(locals)
           T1 == locals \o NewLocal(type)
<1>1. PICK x \in Named(from) :
        /\ blocks' = push_stmt(push_stmt(blocks, current, Stmt(op, m + 1, x)),
                               current, Stmt("move", m + 2, m + 1))
        /\ locals' = T1 \o NewLocal(type)
        /\ scope' = scope \cup {m + 2}
  BY DEF LetTemp
<1> DEFINE r == Stmt(op, m + 1, x)
           s == Stmt("move", m + 2, m + 1)
           C == push_stmt(blocks, current, r)
<1>2. blocks' = push_stmt(C, current, s) /\ current' = current /\ frames' = frames
  BY <1>1 DEF LetTemp
<1>0. n \in Nat /\ m \in Nat /\ current \in 1..n /\ scope \subseteq 1..m
      /\ locals \in Seq(MirLocal) /\ type \in Types
  BY Sizes DEF LowerInv, Types
<1>3. Longer(locals, T1) /\ Len(T1) = m + 1 /\ Has(T1, m + 1, type) /\ T1 \in Seq(MirLocal)
  BY <1>0, LocalAdded DEF Longer
<1> HIDE DEF T1
<1>4. Longer(T1, locals') /\ Len(locals') = m + 2 /\ Has(locals', m + 2, type)
      /\ locals' \in Seq(MirLocal)
  <2>1. Longer(T1, locals') /\ Len(locals') = m + 1 + 1 /\ Has(locals', m + 1 + 1, type)
    BY <1>0, <1>1, <1>3, LocalAdded
  <2>2. m + 1 + 1 = m + 2
    BY <1>0
  <2> QED
    BY <2>1, <2>2 DEF Longer
<1>5. Longer(locals, locals') /\ Has(locals', m + 1, type)
  BY <1>3, <1>4, LongerTransitive, HasLonger
<1>6. Has(locals', x, from) /\ x \in Nat
  BY <1>5, NamedHas, HasLonger
<1>7. GoodBody(blocks, locals')
  BY <1>5, LongerGood DEF LowerInv
<1>8. r.op = op /\ r.dest = m + 1 /\ r.src = x
  BY DEF Stmt
<1>9. TypedStmt(r, locals')
  <2>1. r \in MirStmt
    BY <1>0, <1>6 DEF Stmt, MirStmt
  <2> HIDE DEF r
  <2> QED
    BY <1>5, <1>6, <1>8, <2>1 DEF TypedStmt, Has
<1>10. TypedStmt(s, locals') /\ s.op = "move" /\ s.dest = m + 2 /\ s.src = m + 1
  BY <1>4, <1>5, MoveTyped
<1> HIDE DEF r, s
<1>11. GoodBody(C, locals') /\ Len(C) = n /\ Stmts(C) = Stmts(blocks) \cup {r}
  BY <1>0, <1>7, <1>9, PushGood
<1> HIDE DEF C
<1>12. current \in 1..Len(C)
  BY <1>0, <1>11
<1>13. GoodBody(blocks', locals') /\ Len(blocks') = n
       /\ Stmts(blocks') = Stmts(blocks) \cup {r} \cup {s}
  BY <1>2, <1>10, <1>11, <1>12, PushGood
<1>14. ASSUME NEW y \in (m + 1)..Len(locals'), locals'[y].type = "ref"
       PROVE  Made(y, Stmts(blocks'))
  <2>1. y = m + 1 \/ y = m + 2
    BY <1>0, <1>4
  <2>2. op = "ref"
    BY <1>4, <1>5, <1>14, <2>1 DEF Has
  <2>3. m + 1 < m + 2
    BY <1>0
  <2> QED
    BY <1>8, <1>10, <1>13, <2>1, <2>2, <2>3 DEF Made
<1> HIDE DEF n, m
<1>15. scope' \subseteq 1..Len(locals') /\ n <= Len(blocks') /\ current' \in 1..Len(blocks')
  BY <1>0, <1>1, <1>2, <1>4, <1>13
<1> QED
  BY <1>2, <1>5, <1>13, <1>14, <1>15, KeptFrames DEF n, m

LEMMA PrintLineStep == ASSUME LowerInv, PrintLine PROVE LowerInv'
<1> DEFINE n == Len(blocks)
           m == Len(locals)
           t == Call("printf", <<m + 1>>, NoLocal, n + 1)
<1>1. PICK x \in Usable("string") :
        /\ blocks' = set_terminator(create_block(push_stmt(blocks, current,
                                                           Stmt("field", m + 1, x)), 1),
                                    current, t)
        /\ current' = n + 1
        /\ locals' = locals \o NewLocal("pointer")
  BY DEF PrintLine
<1> DEFINE s == Stmt("field", m + 1, x)
           C == push_stmt(blocks, current, s)
           D == create_block(C, 1)
<1>2. blocks' = set_terminator(D, current, t) /\ scope' = scope /\ frames' = frames
  BY <1>1 DEF PrintLine
<1>0. n \in Nat /\ m \in Nat /\ current \in 1..n /\ scope \subseteq 1..m
      /\ locals \in Seq(MirLocal) /\ "pointer" \in Types
  BY Sizes DEF LowerInv, Types
<1>3. Longer(locals, locals') /\ Len(locals') = m + 1 /\ Has(locals', m + 1, "pointer")
      /\ locals' \in Seq(MirLocal)
  BY <1>0, <1>1, LocalAdded DEF Longer
<1>4. Has(locals', x, "string") /\ x \in Nat
  BY <1>3, UsableHas, HasLonger
<1>5. GoodBody(blocks, locals')
  BY <1>3, LongerGood DEF LowerInv
<1>6. TypedStmt(s, locals')
  <2>1. s.op = "field" /\ s.dest = m + 1 /\ s.src = x
    BY DEF Stmt
  <2>2. s \in MirStmt
    BY <1>0, <1>4 DEF Stmt, MirStmt
  <2> HIDE DEF s
  <2> QED
    BY <1>3, <1>4, <2>1, <2>2 DEF TypedStmt, Has
<1> HIDE DEF s
<1>7. GoodBody(C, locals') /\ Len(C) = n /\ Stmts(C) = Stmts(blocks) \cup {s}
  BY <1>0, <1>5, <1>6, PushGood
<1> HIDE DEF C
<1>8. GoodBody(D, locals') /\ Len(D) = n + 1 /\ Stmts(D) = Stmts(C)
  BY <1>7, CreateGood
<1> HIDE DEF D
<1>9. TypedTerm(t, locals', n + 1)
  <2>1. t.op = "call" /\ t.to = <<n + 1>> /\ t.fn = "printf" /\ t.args = <<m + 1>> /\ t.dest = NoLocal
    BY DEF Call
  <2>2. <<n + 1>> \in Seq(Nat) /\ Range(<<n + 1>>) = {n + 1} /\ <<n + 1>> # <<>>
        /\ <<m + 1>> \in Seq(Nat) /\ <<m + 1>>[1] = m + 1 /\ NoLocal \in Nat /\ n + 1 \in 1..(n + 1)
    BY <1>0 DEF Range, NoLocal
  <2>3. t \in MirTerm
    BY <2>2 DEF Call, MirTerm
  <2> HIDE DEF t, n, m
  <2>4. TypedCall(t, locals')
    BY <1>3, <2>1, <2>2 DEF TypedCall
  <2> QED
    BY <2>1, <2>2, <2>3, <2>4 DEF TypedTerm
<1> HIDE DEF t
<1>10. current \in 1..Len(D) /\ TypedTerm(t, locals', Len(D))
  BY <1>0, <1>8, <1>9
<1>11. GoodBody(blocks', locals') /\ Len(blocks') = n + 1 /\ Stmts(blocks) \subseteq Stmts(blocks')
  BY <1>2, <1>7, <1>8, <1>10, SetGood
<1>12. \A y \in (m + 1)..Len(locals') : locals'[y].type # "ref"
  <2>1. \A y \in (m + 1)..Len(locals') : y = m + 1
    BY <1>0, <1>3
  <2> QED
    BY <1>3, <2>1 DEF Has
<1> HIDE DEF n, m
<1>13. scope' \subseteq 1..Len(locals') /\ n <= Len(blocks') /\ n + 1 \in 1..Len(blocks')
  BY <1>0, <1>2, <1>3, <1>11
<1> QED
  BY <1>1, <1>2, <1>3, <1>11, <1>12, <1>13, KeptFrames DEF n, m

LEMMA GiveStep == ASSUME LowerInv, Give PROVE LowerInv'
<1> DEFINE n == Len(blocks)
           m == Len(locals)
           C == create_block(blocks, 1)
<1>1. PICK x \in Usable("string") \cup Named("linear") :
        /\ blocks' = set_terminator(C, current, Call("spend", <<x>>, NoLocal, n + 1))
        /\ current' = n + 1
  BY DEF Give
<1> DEFINE t == Call("spend", <<x>>, NoLocal, n + 1)
<1>2. blocks' = set_terminator(C, current, t) /\ scope' = scope /\ frames' = frames
      /\ locals' = locals
  BY <1>1 DEF Give
<1>0. n \in Nat /\ m \in Nat /\ current \in 1..n /\ scope \subseteq 1..m
      /\ locals \in Seq(MirLocal) /\ GoodBody(blocks, locals)
  BY Sizes DEF LowerInv
<1>3. x \in Nat /\ (Has(locals, x, "string") \/ Has(locals, x, "linear"))
  BY UsableHas, NamedHas
<1>4. GoodBody(C, locals) /\ Len(C) = n + 1 /\ Stmts(C) = Stmts(blocks)
  BY <1>0, CreateGood
<1> HIDE DEF C
<1>5. TypedTerm(t, locals, n + 1)
  <2>1. t.op = "call" /\ t.to = <<n + 1>> /\ t.fn = "spend" /\ t.args = <<x>> /\ t.dest = NoLocal
    BY DEF Call
  <2>2. <<n + 1>> \in Seq(Nat) /\ Range(<<n + 1>>) = {n + 1} /\ <<n + 1>> # <<>>
        /\ <<x>> \in Seq(Nat) /\ <<x>>[1] = x /\ NoLocal \in Nat /\ n + 1 \in 1..(n + 1)
    BY <1>0, <1>3 DEF Range, NoLocal
  <2>3. t \in MirTerm
    BY <2>2 DEF Call, MirTerm
  <2> HIDE DEF t, n, m
  <2>4. TypedCall(t, locals)
    BY <1>3, <2>1, <2>2 DEF TypedCall
  <2> QED
    BY <2>1, <2>2, <2>3, <2>4 DEF TypedTerm
<1> HIDE DEF t
<1>6. current \in 1..Len(C) /\ TypedTerm(t, locals, Len(C))
  BY <1>0, <1>4, <1>5
<1>7. GoodBody(blocks', locals') /\ Len(blocks') = n + 1 /\ Stmts(blocks) \subseteq Stmts(blocks')
  BY <1>2, <1>4, <1>6, SetGood
<1>8. Longer(locals, locals')
  BY <1>0, <1>2, LongerSame
<1> HIDE DEF n, m
<1>9. scope' \subseteq 1..Len(locals') /\ n <= Len(blocks') /\ n + 1 \in 1..Len(blocks')
  BY <1>0, <1>2, <1>7 DEF m
<1>10. \A y \in (m + 1)..m : FALSE
  BY <1>0
<1> QED
  BY <1>1, <1>2, <1>7, <1>8, <1>9, <1>10, KeptFrames DEF n, m

\* A condition is lowered into blocks of its own, and ends in one of them.
LEMMA ConditionGood ==
  ASSUME NEW kind, NEW B, NEW T, GoodBody(B, T), NEW i \in 1..Len(B), NEW known,
         NEW c \in Conditions(kind, B, i, known)
  PROVE  /\ GoodBody(c.blocks, T)
         /\ Len(c.blocks) \in Nat
         /\ Len(B) <= Len(c.blocks)
         /\ c.at \in 1..Len(c.blocks)
         /\ Stmts(c.blocks) = Stmts(B)
<1> DEFINE n == Len(B)
           C0 == create_block(B, 3)
           C == set_terminator(C0, i, If(n + 1, n + 2))
           D == set_terminator(C, n + 2, Goto(n + 3))
           E == set_terminator(D, n + 1, Goto(n + 3))
<1>0. n \in Nat
  BY LenProperties DEF GoodBody
<1>1. CASE c.blocks = B /\ c.at = i
  BY <1>0, <1>1
<1>2. CASE c.blocks = E /\ c.at = n + 3
  <2> HIDE DEF n
  <2>1. GoodBody(C0, T) /\ Len(C0) = n + 3 /\ Stmts(C0) = Stmts(B)
    BY CreateGood DEF n
  <2> HIDE DEF C0
  <2>2. TypedTerm(If(n + 1, n + 2), T, Len(C0)) /\ i \in 1..Len(C0)
    <3>1. n + 3 \in Nat /\ n + 1 \in 1..(n + 3) /\ n + 2 \in 1..(n + 3) /\ i \in 1..(n + 3)
      BY <1>0 DEF n
    <3> QED
      BY <2>1, <3>1, TermTypes
  <2>3. GoodBody(C, T) /\ Len(C) = n + 3 /\ Stmts(C) = Stmts(B)
    BY <2>1, <2>2, SetGood
  <2> HIDE DEF C
  <2>4. TypedTerm(Goto(n + 3), T, n + 3) /\ n + 1 \in 1..(n + 3) /\ n + 2 \in 1..(n + 3)
    <3>1. n + 3 \in Nat /\ n + 3 \in 1..(n + 3)
      BY <1>0
    <3>2. TypedTerm(Goto(n + 3), T, n + 3)
      BY <3>1, TermTypes
    <3> QED
      BY <1>0, <3>2
  <2>5. GoodBody(D, T) /\ Len(D) = n + 3 /\ Stmts(D) = Stmts(B)
    BY <2>3, <2>4, SetGood
  <2> HIDE DEF D
  <2>6. GoodBody(E, T) /\ Len(E) = n + 3 /\ Stmts(E) = Stmts(B)
    BY <2>4, <2>5, SetGood
  <2> HIDE DEF E
  <2> QED
    BY <1>0, <1>2, <2>6 DEF n
<1> QED
  BY <1>1, <1>2 DEF Conditions

\* Opening a construct changes neither the locals nor the statements, and pushes a
\* frame.
LEMMA Opened ==
  ASSUME LowerInv, GoodBody(blocks', locals), Len(blocks) <= Len(blocks'),
         Stmts(blocks') = Stmts(blocks), NEW f, Nest(f),
         f.kind \in {"then", "loop", "for"}, f \in MirFrame,
         f.other \in 1..Len(blocks'), f.after \in 1..Len(blocks'),
         f.kind = "for" => f.head \in 1..Len(blocks'), f.scope = scope,
         current' \in 1..Len(blocks')
  PROVE  LowerInv'
<1>1. frames' = Append(frames, f) /\ locals' = locals /\ scope' = scope
  BY DEF Nest
<1>2. locals \in Seq(MirLocal) /\ scope \subseteq 1..Len(locals)
      /\ GoodFrames(frames, Len(blocks), Len(locals))
  BY DEF LowerInv
<1>3. Len(blocks') \in Nat
  BY LenProperties DEF GoodBody
<1>4. GoodFrames(frames, Len(blocks'), Len(locals))
  BY <1>2, <1>3, Sizes, FramesLater
<1>5. GoodFrames(frames', Len(blocks'), Len(locals'))
  <2>1. frames \in Seq(MirFrame)
    BY <1>2 DEF GoodFrames
  <2>2. /\ frames' \in Seq(MirFrame) /\ Len(frames') = Len(frames) + 1
        /\ \A i \in 1..Len(frames) : frames'[i] = frames[i]
        /\ frames'[Len(frames) + 1] = f
    BY <1>1, <2>1, AppendProperties
  <2>3. Len(frames) \in Nat /\ DOMAIN frames = 1..Len(frames) /\ DOMAIN frames' = 1..Len(frames')
    BY <2>1, <2>2, LenProperties
  <2>4. \A i \in DOMAIN frames' : i \in 1..Len(frames) \/ i = Len(frames) + 1
    BY <2>2, <2>3
  <2>5. ASSUME NEW i \in DOMAIN frames'
        PROVE  /\ frames'[i].other \in 1..Len(blocks') /\ frames'[i].after \in 1..Len(blocks')
               /\ frames'[i].kind = "for" => frames'[i].head \in 1..Len(blocks')
               /\ frames'[i].scope \subseteq 1..Len(locals')
    <3>1. CASE i \in 1..Len(frames)
      BY <1>1, <1>4, <2>2, <2>3, <3>1 DEF GoodFrames
    <3>2. CASE i = Len(frames) + 1
      BY <1>1, <1>2, <2>2, <3>2
    <3> QED
      BY <2>4, <3>1, <3>2
  <2> QED
    BY <2>2, <2>5 DEF GoodFrames
<1>6. Longer(locals, locals') /\ \A y \in (Len(locals) + 1)..Len(locals') : FALSE
  BY <1>1, <1>2, LongerSame, Sizes
<1>7. scope' \subseteq 1..Len(locals') /\ GoodBody(blocks', locals')
  BY <1>1, <1>2
<1> QED
  BY <1>5, <1>6, <1>7, Kept

LEMMA FrameOf ==
  ASSUME LowerInv, NEW kind \in {"then", "else", "loop", "for"},
         NEW other \in Nat, NEW after \in Nat, NEW head \in Nat, NEW f,
         f = [kind |-> kind, other |-> other, after |-> after, head |-> head, scope |-> scope]
  PROVE  f \in MirFrame /\ f.kind = kind /\ f.other = other /\ f.after = after
         /\ f.head = head /\ f.scope = scope
<1>1. scope \in SUBSET Nat
  BY Sizes DEF LowerInv
<1> QED
  BY <1>1 DEF MirFrame

LEMMA OpenIfStep == ASSUME LowerInv, OpenIf PROVE LowerInv'
<1> DEFINE T == locals
<1>0. GoodBody(blocks, T) /\ current \in 1..Len(blocks)
  BY DEF LowerInv
<1>1. PICK c \in Conditions("if_and", blocks, current, intent) :
        LET n == Len(c.blocks)
        IN /\ blocks' = set_terminator(create_block(c.blocks, 3), c.at, If(n + 1, n + 2))
           /\ current' = n + 1
           /\ Nest([kind |-> "then", other |-> n + 2, after |-> n + 3, head |-> 0, scope |-> scope])
  BY DEF OpenIf
<1> DEFINE n == Len(c.blocks)
           C == create_block(c.blocks, 3)
           f == [kind |-> "then", other |-> n + 2, after |-> n + 3, head |-> 0, scope |-> scope]
<1>2. blocks' = set_terminator(C, c.at, If(n + 1, n + 2)) /\ current' = n + 1 /\ Nest(f)
  BY <1>1
<1>3. GoodBody(c.blocks, T) /\ n \in Nat /\ Len(blocks) <= n /\ c.at \in 1..n
      /\ Stmts(c.blocks) = Stmts(blocks)
  BY <1>0, ConditionGood
<1>4. GoodBody(C, T) /\ Len(C) = n + 3 /\ Stmts(C) = Stmts(blocks)
  BY <1>3, CreateGood
<1> HIDE DEF C, n
<1>5. n + 3 \in Nat /\ n + 1 \in 1..(n + 3) /\ n + 2 \in 1..(n + 3) /\ n + 3 \in 1..(n + 3)
      /\ c.at \in 1..(n + 3) /\ n + 2 \in Nat
  BY <1>3
<1>6. TypedTerm(If(n + 1, n + 2), T, n + 3)
  BY <1>5, TermTypes
<1>7. GoodBody(blocks', T) /\ Len(blocks') = n + 3 /\ Stmts(blocks') = Stmts(blocks)
  BY <1>2, <1>4, <1>5, <1>6, SetGood
<1>8. f \in MirFrame /\ f.kind = "then" /\ f.other = n + 2 /\ f.after = n + 3 /\ f.scope = scope
  BY <1>5, FrameOf
<1>9. Len(blocks) <= n + 3
  BY <1>3, Sizes
<1> HIDE DEF f
<1> QED
  BY <1>2, <1>5, <1>7, <1>8, <1>9, Opened

LEMMA OpenWhileStep == ASSUME LowerInv, OpenWhile PROVE LowerInv'
<1> DEFINE T == locals
           n == Len(blocks)
           C == create_block(blocks, 3)
           D == set_terminator(C, current, Goto(n + 1))
           f == [kind |-> "loop", other |-> n + 1, after |-> n + 3, head |-> n + 1, scope |-> scope]
<1>0. GoodBody(blocks, T) /\ current \in 1..n /\ n \in Nat
  BY Sizes DEF LowerInv
<1>1. PICK c \in Conditions("while_and", D, n + 1, intent) :
        /\ blocks' = set_terminator(c.blocks, c.at, If(n + 2, n + 3))
        /\ current' = n + 2
        /\ Nest(f)
  BY DEF OpenWhile
<1>2. n + 3 \in Nat /\ n + 1 \in 1..(n + 3) /\ n + 2 \in 1..(n + 3) /\ n + 3 \in 1..(n + 3)
      /\ current \in 1..(n + 3) /\ n + 1 \in Nat
  BY <1>0
<1>3. GoodBody(C, T) /\ Len(C) = n + 3 /\ Stmts(C) = Stmts(blocks)
  BY <1>0, CreateGood
<1> HIDE DEF C
<1>4. TypedTerm(Goto(n + 1), T, n + 3)
  BY <1>2, TermTypes
<1>5. GoodBody(D, T) /\ Len(D) = n + 3 /\ Stmts(D) = Stmts(blocks)
  BY <1>2, <1>3, <1>4, SetGood
<1>6. f \in MirFrame /\ f.kind = "loop" /\ f.other = n + 1 /\ f.after = n + 3 /\ f.scope = scope
  BY <1>2, FrameOf
<1> HIDE DEF D, n, f
<1>7. GoodBody(c.blocks, T) /\ Len(c.blocks) \in Nat /\ n + 3 <= Len(c.blocks)
      /\ c.at \in 1..Len(c.blocks) /\ Stmts(c.blocks) = Stmts(blocks)
  BY <1>2, <1>5, ConditionGood
<1>8. n + 1 \in 1..Len(c.blocks) /\ n + 2 \in 1..Len(c.blocks) /\ n + 3 \in 1..Len(c.blocks)
      /\ n <= Len(c.blocks)
  BY <1>0, <1>7
<1>9. TypedTerm(If(n + 2, n + 3), T, Len(c.blocks))
  BY <1>7, <1>8, TermTypes
<1>10. GoodBody(blocks', T) /\ Len(blocks') = Len(c.blocks) /\ Stmts(blocks') = Stmts(blocks)
  BY <1>1, <1>7, <1>9, SetGood
<1>11. Len(blocks) <= Len(blocks')
  BY <1>8, <1>10 DEF n
<1> QED
  BY <1>1, <1>6, <1>8, <1>10, <1>11, Opened

LEMMA OpenLoopStep == ASSUME LowerInv, OpenLoop PROVE LowerInv'
<1> DEFINE T == locals
           n == Len(blocks)
           C == create_block(blocks, 2)
           f == [kind |-> "loop", other |-> n + 1, after |-> n + 2, head |-> n + 1, scope |-> scope]
<1>0. GoodBody(blocks, T) /\ current \in 1..n /\ n \in Nat
  BY Sizes DEF LowerInv
<1>1. blocks' = set_terminator(C, current, Goto(n + 1)) /\ current' = n + 1 /\ Nest(f)
  BY DEF OpenLoop
<1>2. n + 2 \in Nat /\ n + 1 \in 1..(n + 2) /\ n + 2 \in 1..(n + 2)
      /\ current \in 1..(n + 2) /\ n + 1 \in Nat /\ n <= n + 2
  BY <1>0
<1>3. GoodBody(C, T) /\ Len(C) = n + 2 /\ Stmts(C) = Stmts(blocks)
  BY <1>0, CreateGood
<1> HIDE DEF C
<1>4. TypedTerm(Goto(n + 1), T, n + 2)
  BY <1>2, TermTypes
<1>5. GoodBody(blocks', T) /\ Len(blocks') = n + 2 /\ Stmts(blocks') = Stmts(blocks)
  BY <1>1, <1>2, <1>3, <1>4, SetGood
<1>6. f \in MirFrame /\ f.kind = "loop" /\ f.other = n + 1 /\ f.after = n + 2 /\ f.scope = scope
  BY <1>2, FrameOf
<1>7. Len(blocks) <= Len(blocks')
  BY <1>2, <1>5
<1> HIDE DEF n, f
<1> QED
  BY <1>1, <1>2, <1>5, <1>6, <1>7, Opened

LEMMA OpenForStep == ASSUME LowerInv, OpenFor PROVE LowerInv'
<1> DEFINE T == locals
           n == Len(blocks)
           C == create_block(blocks, 4)
           D == set_terminator(C, current, Goto(n + 1))
           f == [kind |-> "for", other |-> n + 3, after |-> n + 4, head |-> n + 1, scope |-> scope]
<1>0. GoodBody(blocks, T) /\ current \in 1..n /\ n \in Nat
  BY Sizes DEF LowerInv
<1>1. blocks' = set_terminator(D, n + 1, If(n + 4, n + 2)) /\ current' = n + 2 /\ Nest(f)
  BY DEF OpenFor
<1>2. n + 4 \in Nat /\ n + 1 \in 1..(n + 4) /\ n + 2 \in 1..(n + 4) /\ n + 3 \in 1..(n + 4)
      /\ n + 4 \in 1..(n + 4) /\ current \in 1..(n + 4) /\ n + 1 \in Nat /\ n + 3 \in Nat
      /\ n <= n + 4
  BY <1>0
<1>3. GoodBody(C, T) /\ Len(C) = n + 4 /\ Stmts(C) = Stmts(blocks)
  BY <1>0, CreateGood
<1> HIDE DEF C
<1>4. TypedTerm(Goto(n + 1), T, n + 4) /\ TypedTerm(If(n + 4, n + 2), T, n + 4)
  BY <1>2, TermTypes
<1>5. GoodBody(D, T) /\ Len(D) = n + 4 /\ Stmts(D) = Stmts(blocks)
  BY <1>2, <1>3, <1>4, SetGood
<1> HIDE DEF D
<1>6. GoodBody(blocks', T) /\ Len(blocks') = n + 4 /\ Stmts(blocks') = Stmts(blocks)
  <2>1. n + 1 \in 1..Len(D) /\ TypedTerm(If(n + 4, n + 2), T, Len(D))
    BY <1>2, <1>4, <1>5
  <2> QED
    BY <1>1, <1>5, <2>1, SetGood
<1>7. f \in MirFrame /\ f.kind = "for" /\ f.other = n + 3 /\ f.after = n + 4
      /\ f.head = n + 1 /\ f.scope = scope
  BY <1>2, FrameOf
<1>8. Len(blocks) <= Len(blocks')
  BY <1>2, <1>6
<1> HIDE DEF n, f
<1> QED
  BY <1>1, <1>2, <1>6, <1>7, <1>8, Opened

LEMMA CloseStep == ASSUME LowerInv, Close PROVE LowerInv'
<1> DEFINE n == Len(blocks)
           f == Last(frames)
           selection == f.kind \in {"then", "else"}
           to == IF selection THEN f.after ELSE f.other
           B == set_terminator(blocks, current, Goto(to))
           k == Len(frames)
<1>0. /\ n \in Nat /\ current \in 1..n /\ GoodBody(blocks, locals)
      /\ frames \in Seq(MirFrame) /\ frames # <<>>
      /\ GoodFrames(frames, n, Len(locals)) /\ locals \in Seq(MirLocal)
  BY Sizes DEF LowerInv, GoodFrames, Close
<1>1. k \in Nat /\ k > 0 /\ k \in DOMAIN frames /\ DOMAIN frames = 1..k /\ f = frames[k]
  BY <1>0, EmptySeq, LenProperties DEF Last
<1>2. /\ f \in MirFrame /\ f.other \in 1..n /\ f.after \in 1..n
      /\ f.kind = "for" => f.head \in 1..n
      /\ f.scope \subseteq 1..Len(locals)
  BY <1>0, <1>1 DEF GoodFrames
<1>3. /\ scope' = f.scope /\ locals' = locals
      /\ \/ /\ blocks' = B /\ current' = f.other
            /\ frames' = Append(Front(frames), [f EXCEPT !.kind = "else"])
         \/ /\ blocks' = CASE f.kind = "then" -> set_terminator(B, f.other, Goto(f.after))
                           [] f.kind = "for" -> set_terminator(B, f.other, Goto(f.head))
                           [] OTHER -> B
            /\ current' = f.after /\ frames' = Front(frames)
  BY DEF Close
<1> DEFINE g == [f EXCEPT !.kind = "else"]
<1>4. g \in MirFrame /\ g.kind = "else" /\ g.other = f.other /\ g.after = f.after
      /\ g.scope = f.scope
  BY <1>2 DEF MirFrame
<1>5. Front(frames) \in Seq(MirFrame) /\ Len(Front(frames)) = k - 1
      /\ \A i \in 1..(k - 1) : Front(frames)[i] = frames[i]
  <2>1. Front(frames) = SubSeq(frames, 1, k - 1)
    BY DEF Front
  <2>2. 1 \in 1..(k + 1) /\ k - 1 \in 0..k /\ k - 1 - 1 + 1 = k - 1 /\ k - 1 + 1 = k
    BY <1>1
  <2>3. /\ SubSeq(frames, 1, k - 1) \in Seq(MirFrame)
        /\ Len(SubSeq(frames, 1, k - 1)) = IF 1 <= k - 1 THEN k - 1 - 1 + 1 ELSE 0
        /\ \A i \in 1..(k - 1 - 1 + 1) : SubSeq(frames, 1, k - 1)[i] = frames[1 + i - 1]
    BY <1>0, <2>2, SubSeqProperties
  <2> QED
    BY <1>1, <2>1, <2>2, <2>3
<1> HIDE DEF f, g, selection, B, n, k
<1>6. to \in 1..n
  BY <1>2
<1> HIDE DEF to
<1>7. GoodBody(B, locals) /\ Len(B) = n /\ Stmts(B) = Stmts(blocks)
  <2>1. TypedTerm(Goto(to), locals, n)
    BY <1>0, <1>6, TermTypes
  <2> QED
    BY <1>0, <2>1, SetGood DEF B, n
<1>8. \A b \in 1..n : LET C == set_terminator(B, f.other, Goto(b))
                      IN GoodBody(C, locals) /\ Len(C) = n /\ Stmts(C) = Stmts(blocks)
  <2> SUFFICES ASSUME NEW b \in 1..n
               PROVE  LET C == set_terminator(B, f.other, Goto(b))
                      IN GoodBody(C, locals) /\ Len(C) = n /\ Stmts(C) = Stmts(blocks)
    OBVIOUS
  <2>1. f.other \in 1..Len(B) /\ TypedTerm(Goto(b), locals, Len(B))
    BY <1>0, <1>2, <1>7, TermTypes
  <2> QED
    BY <1>7, <2>1, SetGood
<1>9. GoodBody(blocks', locals) /\ Len(blocks') = n /\ Stmts(blocks') = Stmts(blocks)
  BY <1>2, <1>3, <1>7, <1>8
<1>10. GoodFrames(Front(frames), n, Len(locals))
  <2>1. DOMAIN Front(frames) = 1..(k - 1) /\ \A i \in 1..(k - 1) : i \in DOMAIN frames
    BY <1>1, <1>5, LenProperties
  <2> QED
    BY <1>0, <1>5, <2>1 DEF GoodFrames
<1>11. GoodFrames(frames', n, Len(locals))
  <2>1. CASE frames' = Front(frames)
    BY <1>10, <2>1
  <2>2. CASE frames' = Append(Front(frames), g)
    <3>1. /\ frames' \in Seq(MirFrame) /\ Len(frames') = k
          /\ \A i \in 1..(k - 1) : frames'[i] = Front(frames)[i]
          /\ frames'[k] = g
      BY <1>1, <1>4, <1>5, <2>2, AppendProperties
    <3>2. DOMAIN frames' = 1..k /\ DOMAIN Front(frames) = 1..(k - 1)
      BY <1>5, <3>1, LenProperties
    <3>3. \A i \in DOMAIN frames' : i \in 1..(k - 1) \/ i = k
      BY <1>1, <3>2
    <3>4. ASSUME NEW i \in DOMAIN frames'
          PROVE  /\ frames'[i].other \in 1..n /\ frames'[i].after \in 1..n
                 /\ frames'[i].kind = "for" => frames'[i].head \in 1..n
                 /\ frames'[i].scope \subseteq 1..Len(locals)
      <4>1. CASE i \in 1..(k - 1)
        BY <1>10, <3>1, <3>2, <4>1 DEF GoodFrames
      <4>2. CASE i = k
        BY <1>2, <1>4, <3>1, <4>2
      <4> QED
        BY <3>3, <4>1, <4>2
    <3> QED
      BY <3>1, <3>4 DEF GoodFrames
  <2> QED
    BY <1>3, <2>1, <2>2 DEF g
<1>12. Longer(locals, locals') /\ \A y \in (Len(locals) + 1)..Len(locals') : FALSE
  BY <1>0, <1>3, LongerSame, Sizes
<1>13. /\ GoodBody(blocks', locals') /\ Len(blocks) <= Len(blocks')
       /\ scope' \subseteq 1..Len(locals') /\ current' \in 1..Len(blocks')
       /\ GoodFrames(frames', Len(blocks'), Len(locals'))
  BY <1>0, <1>2, <1>3, <1>9, <1>11 DEF n
<1> QED
  BY <1>9, <1>12, <1>13, Kept

LEMMA JumpStep ==
  ASSUME LowerInv, NEW t, TypedTerm(t, locals, Len(blocks)), Jump(t)
  PROVE  LowerInv'
<1> DEFINE n == Len(blocks)
           C == set_terminator(blocks, current, t)
<1>0. n \in Nat /\ current \in 1..n /\ GoodBody(blocks, locals) /\ locals \in Seq(MirLocal)
      /\ scope \subseteq 1..Len(locals)
  BY Sizes DEF LowerInv
<1>1. blocks' = create_block(C, 1) /\ current' = n + 1 /\ locals' = locals
      /\ scope' = scope /\ frames' = frames
  BY DEF Jump
<1>2. GoodBody(C, locals) /\ Len(C) = n /\ Stmts(C) = Stmts(blocks)
  BY <1>0, SetGood
<1> HIDE DEF C
<1>3. GoodBody(blocks', locals') /\ Len(blocks') = n + 1 /\ Stmts(blocks') = Stmts(blocks)
  BY <1>1, <1>2, CreateGood
<1>4. Longer(locals, locals') /\ \A y \in (Len(locals) + 1)..Len(locals') : FALSE
  BY <1>0, <1>1, LongerSame, Sizes
<1>5. scope' \subseteq 1..Len(locals') /\ Len(blocks) <= Len(blocks') /\ current' \in 1..Len(blocks')
  BY <1>0, <1>1, <1>3
<1> QED
  BY <1>1, <1>3, <1>4, <1>5, KeptFrames

LEMMA JumpsStep == ASSUME LowerInv, Break \/ Continue \/ ReturnEarly PROVE LowerInv'
<1>0. Len(blocks) \in Nat
  BY Sizes
<1>1. CASE ReturnEarly
  BY <1>0, <1>1, TermTypes, JumpStep DEF ReturnEarly
<1>2. \A i \in LoopFrames : frames[i].after \in 1..Len(blocks) /\ frames[i].other \in 1..Len(blocks)
  BY DEF LowerInv, GoodFrames, LoopFrames
<1>3. ASSUME NEW b \in 1..Len(blocks), Jump(Goto(b)) PROVE LowerInv'
  <2>1. TypedTerm(Goto(b), locals, Len(blocks))
    BY <1>0, TermTypes
  <2> QED
    BY <1>3, <2>1, JumpStep
<1>4. CASE Break
  BY <1>2, <1>3, <1>4 DEF Break
<1>5. CASE Continue
  BY <1>2, <1>3, <1>5 DEF Continue
<1> QED
  BY <1>1, <1>4, <1>5

LEMMA FinishedStep == ASSUME LowerInv, Finished PROVE LowerInv'
<1> DEFINE n == Len(blocks)
<1>0. n \in Nat /\ n > 0 /\ current \in 1..n /\ GoodBody(blocks, locals)
      /\ locals \in Seq(MirLocal)
  BY Sizes DEF LowerInv
<1>1. blocks' = set_terminator(blocks, current, Return) /\ current' = Entry /\ locals' = locals
      /\ scope' = {} /\ frames' = frames
  BY DEF Finished
<1>2. TypedTerm(Return, locals, n)
  BY <1>0, TermTypes
<1>3. GoodBody(blocks', locals') /\ Len(blocks') = n /\ Stmts(blocks') = Stmts(blocks)
  BY <1>0, <1>1, <1>2, SetGood
<1>4. Longer(locals, locals') /\ \A y \in (Len(locals) + 1)..Len(locals') : FALSE
  BY <1>0, <1>1, LongerSame, Sizes
<1>5. scope' \subseteq 1..Len(locals') /\ Len(blocks) <= Len(blocks') /\ current' \in 1..Len(blocks')
  BY <1>0, <1>1, <1>3 DEF Entry
<1> QED
  BY <1>1, <1>3, <1>4, <1>5, KeptFrames

LEMMA LowerInvInit == InitLowering => LowerInv
<1> SUFFICES ASSUME InitLowering PROVE LowerInv
  OBVIOUS
<1>1. blocks = <<EmptyBlock>> /\ current = 1 /\ locals = <<>> /\ scope = {} /\ frames = <<>>
  BY DEF InitLowering, Entry
<1>2. EmptyBlock \in MirBlock /\ EmptyBlock.term = NoTerm /\ EmptyBlock.stmts = <<>>
      /\ TypedTerm(NoTerm, locals, 1)
  BY TermTypes
<1>3. blocks \in Seq(MirBlock) /\ Len(blocks) = 1 /\ DOMAIN blocks = {1} /\ blocks[1] = EmptyBlock
  BY <1>1, <1>2
<1>4. Stmts(blocks) = {}
  <2>1. DOMAIN <<>> = {}
    OBVIOUS
  <2> QED
    BY <1>2, <1>3, <2>1, StmtsAre
<1>5. GoodBody(blocks, locals)
  BY <1>2, <1>3, <1>4 DEF GoodBody
<1>6. GoodFrames(frames, 1, 0)
  BY <1>1 DEF GoodFrames
<1>7. locals \in Seq(MirLocal) /\ Len(locals) = 0 /\ DOMAIN locals = {}
  BY <1>1
<1> QED
  BY <1>1, <1>3, <1>5, <1>6, <1>7 DEF LowerInv

LEMMA LowerStep == ASSUME LowerInv, Lower PROVE LowerInv'
<1>1. CASE LetRef
  BY <1>1, LetTempStep DEF LetRef
<1>2. CASE LetDeref
  BY <1>2, LetTempStep DEF LetDeref
<1> QED
  BY <1>1, <1>2, LetConcatStep, LetMintStep, LetHelperStep, AssignStep, LetMoveStep,
     PrintLineStep, GiveStep, OpenIfStep, OpenWhileStep, OpenLoopStep, OpenForStep,
     CloseStep, JumpsStep DEF Lower

LEMMA LowerInvStep == LowerInv /\ [Next]_vars => LowerInv'
<1> SUFFICES ASSUME LowerInv, [Next]_vars PROVE LowerInv'
  OBVIOUS
<1>1. CASE Lower
  BY <1>1, LowerStep
<1>2. CASE Generate
  BY <1>2, FinishedStep DEF Generate
<1>3. CASE UNCHANGED lowering
  BY <1>3 DEF lowering, LowerInv
<1>4. Run => UNCHANGED lowering
  BY DEF Run, RunGoto, RunPrintf, RunConcat, RunSpend, RunMint, RunHelper, RunReturn, Running
<1> QED
  BY <1>1, <1>2, <1>3, <1>4 DEF Next, vars

\* The body of every program, at every moment of its lowering and after, is what the
\* analyses take for granted: its terminators go to its blocks and its blocks are lists.
THEOREM BodyAlwaysGood == Spec => []LowerInv
<1>1. Init => LowerInv
  BY LowerInvInit DEF Init
<1> QED
  BY <1>1, LowerInvStep, PTL DEF Spec

LEMMA WellFormedBlocks == ASSUME LowerInv PROVE WellFormed(blocks)
<1>0. blocks \in Seq(MirBlock) /\ Len(blocks) \in Nat /\ DOMAIN blocks = 1..Len(blocks)
      /\ Len(blocks) > 0 /\ \A i \in DOMAIN blocks : blocks[i] \in MirBlock
  BY Sizes DEF LowerInv, GoodBody
<1>1. Targeted(blocks)
  <2>1. IsFiniteSet(DOMAIN blocks) /\ Entry \in DOMAIN blocks
    BY <1>0, FS_Interval DEF Entry
  <2>2. \A i \in DOMAIN blocks : Succs(blocks, i) \subseteq DOMAIN blocks
    BY <1>0 DEF LowerInv, GoodBody, TypedTerm, Succs
  <2> QED
    BY <2>1, <2>2 DEF Targeted
<1>2. ASSUME NEW i \in DOMAIN blocks PROVE Listed(blocks[i])
  <2>1. blocks[i].stmts \in Seq(MirStmt) /\ blocks[i].term.args \in Seq(Nat)
    BY <1>0 DEF MirBlock, MirTerm
  <2>2. Len(blocks[i].stmts) \in Nat /\ DOMAIN blocks[i].stmts = 1..Len(blocks[i].stmts)
    BY <2>1, LenProperties
  <2>3. DOMAIN blocks[i].term.args = 1..Len(blocks[i].term.args)
        /\ Len(blocks[i].term.args) \in Nat
    BY <2>1, LenProperties
  <2>4. IsFiniteSet(DOMAIN blocks[i].term.args)
    BY <2>3, FS_Interval
  <2> QED
    BY <2>2, <2>4 DEF Listed
<1> QED
  BY <1>1, <1>2 DEF WellFormed

\* In every function that can be lowered, x is in the dominator set of y exactly when
\* every path from the entry to y goes through x.
THEOREM DominatorsAlwaysCut == Spec => []DominatorsCutPaths
<1>1. LowerInv => DominatorsCutPaths
  BY WellFormedBlocks, DominatorsCut DEF DominatorsCutPaths, WellFormed
<1> QED
  BY <1>1, BodyAlwaysGood, PTL

\* In every function that can be lowered, a local is live at the start of a block
\* exactly when a path from there uses it before it is defined again.
THEOREM LivenessAlwaysExact == Spec => []LiveMeansUsedLater
<1>1. LowerInv => LiveMeansUsedLater
  BY WellFormedBlocks, LivenessIs DEF LiveMeansUsedLater, UsedLater, PathOf
<1> QED
  BY <1>1, BodyAlwaysGood, PTL

-----------------------------------------------------------------------------
(* Linear values.                                                             *)

Linear == LocalsOf("linear")
SharedRefs == shared_linear_ref_set(blocks, Linear)
Escaping == escaping_params_fixpoint(bodies)
ExitSets == MovedFix(blocks, Preds(blocks), SharedRefs, Escaping, Linear)
MovedAt(i) == Incoming(Preds(blocks), ExitSets, i)

\* Each linear value is in one local at most that was not moved out of, and it was
\* not passed by value while it is in one.
Held(V, S, G) ==
  /\ DOMAIN V = DOMAIN locals
  /\ \A x \in Linear : V[x] \in 0..Len(S)
  /\ \A x \in Linear \ G : V[x] # 0 => S[V[x]] = 0
  /\ \A x, y \in Linear \ G : V[x] = V[y] /\ V[x] # 0 => x = y

LinearInv ==
  /\ spent \in Seq({0, 1})
  /\ stale = FALSE
  /\ stage \in {"lower", "run", "done"}
  /\ bodies \in Tables
  /\ stage = "lower" => pc = Entry /\ spent = <<>> /\ gone = {}
  /\ stage = "run" =>
       /\ check_with_context(blocks, Linear, bodies) = {}
       /\ pc \in reachable_blocks(blocks)
       /\ gone \subseteq MovedAt(pc)
       /\ Held(vals, spent, gone)

\* Every reference in the body is known to the check as a shared one.
LEMMA RefsShared ==
  ASSUME LowerInv, NEW x, Has(locals, x, "ref")
  PROVE  x \in SharedRefs
<1> DEFINE S == Stmts(blocks)
           Dst == {s.dest : s \in S}
           copies == [y \in Dst |-> {s.dest : s \in {m \in S : m.op = "move" /\ m.src = y}}]
           seeds == {s.dest : s \in {m \in S : m.op = "ref" /\ m.src \in Linear}}
           Bad == {y \in DOMAIN locals : locals[y].type = "ref" /\ y \notin SharedRefs}
<1>1. IsFiniteSet(Dst)
  <2> DEFINE f == [s \in S |-> s.dest]
  <2>1. IsFiniteSet(S)
    BY WellFormedBlocks, StmtsFinite
  <2>2. Range(f) = Dst /\ DOMAIN f = S
    BY DEF Range
  <2> HIDE DEF f, S, Dst
  <2> QED
    BY <2>1, <2>2, FiniteRange
<1>2. copies \in [Dst -> SUBSET Dst] /\ seeds \in SUBSET Dst
  OBVIOUS
<1>3. SharedRefs = Closure(copies, seeds)
  BY DEF SharedRefs, shared_linear_ref_set
<1>4. \A s \in S : s.dest \in Dst /\ (s.op = "ref" /\ s.src \in Linear => s.dest \in seeds)
  OBVIOUS
<1>5. \A s \in S : s.src \in Dst /\ s.op = "move" => s.dest \in copies[s.src]
  OBVIOUS
<1> HIDE DEF copies, seeds, Dst
<1>6. /\ SharedRefs \subseteq Dst /\ seeds \subseteq SharedRefs
      /\ \A y \in SharedRefs : copies[y] \subseteq SharedRefs
  BY <1>1, <1>2, <1>3, ClosureIs
<1>7. \A s \in S : TypedStmt(s, locals)
  BY DEF LowerInv, GoodBody
<1>8. ASSUME Bad # {} PROVE FALSE
  <2>1. Bad \subseteq Nat
    BY Sizes
  <2> HIDE DEF Bad
  <2>2. PICK y \in Bad : \A k \in Bad : y <= k
    BY <1>8, <2>1, Least
  <2> USE DEF Bad
  <2>3. PICK s \in S : s.dest = y /\ (s.op = "ref" \/ (s.op = "move" /\ s.src < y))
    BY DEF LowerInv, Made
  <2>4. TypedStmt(s, locals)
    BY <1>7
  <2>5. CASE s.op = "ref"
    <3>1. s.src \in Linear
      BY <2>4, <2>5 DEF TypedStmt, Linear, LocalsOf
    <3> QED
      BY <1>4, <1>6, <2>3, <2>5, <3>1
  <2>6. CASE s.op = "move" /\ s.src < y
    <3>1. s.src \in DOMAIN locals /\ locals[s.src].type = "ref"
      BY <2>3, <2>4, <2>6 DEF TypedStmt
    <3>2. s.src \in Nat /\ y \in Nat
      BY <2>1, <3>1, Sizes
    <3>3. s.src \notin Bad
      BY <2>2, <2>6, <3>2
    <3>4. s.src \in SharedRefs
      BY <3>1, <3>3
    <3>5. s.dest \in SharedRefs
      BY <1>5, <1>6, <2>6, <3>4
    <3> QED
      BY <2>3, <3>5
  <2> QED
    BY <2>3, <2>5, <2>6
<1> QED
  BY <1>8 DEF Has

LEMMA BodiesAre ==
  ASSUME bodies \in Tables
  PROVE  DOMAIN bodies = Helpers /\ IsFiniteSet(Helpers)
  BY TablesAssumption, HelpersAssumption

\* A helper that may return what its reference points to is one the check knows.
LEMMA EndsEscape ==
  ASSUME bodies \in Tables, NEW h \in Helpers, Ends(h) \cap {"deref", "indirect"} # {}
  PROVE  h \in Escaping
<1> DEFINE callers == [g \in DOMAIN bodies |-> {i \in DOMAIN bodies : bodies[i] = g}]
           seeds == {i \in DOMAIN bodies : bodies[i] \in {"deref", "indirect"}}
           calls == [i \in Helpers |-> {bodies[i]} \cap Helpers]
           C == {i \in Helpers : i \in Escaping => h \in Escaping}
<1>0. DOMAIN bodies = Helpers /\ IsFiniteSet(Helpers)
  BY BodiesAre
<1>1. Escaping = Closure(callers, seeds)
  BY DEF Escaping, escaping_params_fixpoint
<1>2. callers \in [Helpers -> SUBSET Helpers] /\ seeds \in SUBSET Helpers
  BY <1>0
<1>3. /\ Escaping \subseteq Helpers /\ seeds \subseteq Escaping
      /\ \A g \in Escaping : callers[g] \subseteq Escaping
  <2> HIDE DEF callers, seeds
  <2> QED
    BY <1>0, <1>1, <1>2, ClosureIs
<1>4. PICK g \in Closure(calls, {h}) : bodies[g] \in {"deref", "indirect"}
  BY DEF Ends
<1>5. calls \in [Helpers -> SUBSET Helpers] /\ {h} \in SUBSET Helpers
  OBVIOUS
<1>6. \A i \in C : calls[i] \subseteq C
  <2> SUFFICES ASSUME NEW i \in C, NEW j \in calls[i], j \in Escaping PROVE h \in Escaping
    OBVIOUS
  <2>1. j \in Helpers /\ bodies[i] = j
    OBVIOUS
  <2>2. i \in callers[j]
    BY <1>0, <2>1
  <2> QED
    BY <1>3, <2>2
<1> HIDE DEF calls
<1>7. Closure(calls, {h}) \subseteq Helpers
  BY <1>0, <1>5, ClosureIs
<1>8. {h} \subseteq C /\ \A i \in C \cap Helpers : calls[i] \subseteq C
  BY <1>6
<1> HIDE DEF C
<1>9. Closure(calls, {h}) \subseteq C
  BY <1>0, <1>5, <1>8, ClosureIs
<1>10. g \in Helpers /\ g \in seeds
  BY <1>0, <1>4, <1>7
<1> QED
  BY <1>3, <1>4, <1>9, <1>10 DEF C

\* The states transfer_block comes through, when prior was moved before it.
Transfers(f, b, shared, lin, prior) ==
  /\ f[0] = [moved |-> prior, error |-> FALSE]
  /\ \A k \in 1..Len(b.stmts) : f[k] = apply_stmt(b.stmts[k], shared, lin, f[k - 1])

LEMMA TransferIs ==
  ASSUME NEW b, Len(b.stmts) \in Nat, NEW shared, NEW escaping, NEW lin, NEW prior
  PROVE  \E f : /\ Transfers(f, b, shared, lin, prior)
                /\ transfer_block(b, shared, escaping, lin, prior) =
                     apply_terminator(b.term, shared, escaping, lin, f[Len(b.stmts)])
<1> DEFINE n == Len(b.stmts)
           Is(f, m) ==
             f = [k \in 0..m |->
                    IF k = 0 THEN [moved |-> prior, error |-> FALSE]
                    ELSE apply_stmt(b.stmts[k], shared, lin, f[k - 1])]
           after == CHOOSE f : Is(f, n)
           S == {m \in Nat : \E f : Is(f, m)}
<1>1. 0 \in S
  <2> DEFINE f == [k \in 0..0 |-> [moved |-> prior, error |-> FALSE]]
  <2>1. f = [k \in 0..0 |-> IF k = 0 THEN [moved |-> prior, error |-> FALSE]
                            ELSE apply_stmt(b.stmts[k], shared, lin, f[k - 1])]
    OBVIOUS
  <2> QED
    BY <2>1
<1>2. ASSUME NEW m \in 0..n, m \in S, m < n PROVE m + 1 \in S
  <2>1. PICK f : Is(f, m)
    BY <1>2
  <2> DEFINE last == apply_stmt(b.stmts[m + 1], shared, lin, f[m])
             g == [k \in 0..(m + 1) |-> IF k = m + 1 THEN last ELSE f[k]]
  <2>2. m \in Nat /\ m + 1 \in 0..(m + 1) /\ m + 1 # 0 /\ m + 1 - 1 = m
    OBVIOUS
  <2>3. g[m + 1] = last /\ \A k \in 0..m : g[k] = f[k]
    BY <2>2
  <2>4. g = [k \in 0..(m + 1) |-> g[k]]
    OBVIOUS
  <2> HIDE DEF g
  <2>5. ASSUME NEW k \in 0..(m + 1)
        PROVE  g[k] = IF k = 0 THEN [moved |-> prior, error |-> FALSE]
                      ELSE apply_stmt(b.stmts[k], shared, lin, g[k - 1])
    <3>1. CASE k = m + 1
      <4>1. g[k - 1] = f[m]
        BY <2>2, <2>3, <3>1
      <4> QED
        BY <2>2, <2>3, <3>1, <4>1
    <3>2. CASE k \in 0..m
      <4>1. f[k] = IF k = 0 THEN [moved |-> prior, error |-> FALSE]
                   ELSE apply_stmt(b.stmts[k], shared, lin, f[k - 1])
        BY <2>1, <3>2
      <4>2. k # 0 => k - 1 \in 0..m
        BY <3>2
      <4> QED
        BY <2>3, <3>2, <4>1, <4>2
    <3> QED
      BY <2>2, <3>1, <3>2
  <2>6. Is(g, m + 1)
    BY <2>4, <2>5
  <2> HIDE DEF Is
  <2> QED
    BY <2>2, <2>6
<1> HIDE DEF S
<1>3. 0..n \subseteq S
  BY <1>1, <1>2, UpTo
<1>4. n \in S
  BY <1>3
<1>5. Is(after, n)
  <2>1. \E f : Is(f, n)
    BY <1>4 DEF S
  <2> HIDE DEF Is
  <2> QED
    BY <2>1
<1>6. transfer_block(b, shared, escaping, lin, prior) =
        apply_terminator(b.term, shared, escaping, lin, after[n])
  BY DEF transfer_block
<1> HIDE DEF after
<1>7. Transfers(after, b, shared, lin, prior)
  <2>1. \A k \in 1..n : k \in 0..n /\ k # 0
    OBVIOUS
  <2>2. \A k \in 0..n : after[k] = IF k = 0 THEN [moved |-> prior, error |-> FALSE]
                                   ELSE apply_stmt(b.stmts[k], shared, lin, after[k - 1])
    BY <1>5
  <2>3. after[0] = [moved |-> prior, error |-> FALSE]
    <3>1. 0 \in 0..n
      OBVIOUS
    <3> HIDE DEF n
    <3> QED
      BY <2>2, <3>1, Zenon
  <2>4. \A k \in 1..n : after[k] = apply_stmt(b.stmts[k], shared, lin, after[k - 1])
    BY <2>1, <2>2
  <2> QED
    BY <2>3, <2>4 DEF Transfers
<1> QED
  BY <1>6, <1>7

\* A block moves no less when more was moved before it, and only linear locals.
LEMMA TransferMonotone ==
  ASSUME NEW b, Len(b.stmts) \in Nat, NEW shared, NEW escaping, NEW lin,
         NEW m1, NEW m2, m1 \subseteq m2, m2 \subseteq lin
  PROVE  /\ transfer_block(b, shared, escaping, lin, m1).moved
              \subseteq transfer_block(b, shared, escaping, lin, m2).moved
         /\ transfer_block(b, shared, escaping, lin, m2).moved \subseteq lin
<1> DEFINE n == Len(b.stmts)
<1>1. PICK f : /\ Transfers(f, b, shared, lin, m1)
               /\ transfer_block(b, shared, escaping, lin, m1) =
                    apply_terminator(b.term, shared, escaping, lin, f[n])
  BY TransferIs
<1>2. PICK g : /\ Transfers(g, b, shared, lin, m2)
               /\ transfer_block(b, shared, escaping, lin, m2) =
                    apply_terminator(b.term, shared, escaping, lin, g[n])
  BY TransferIs
<1> DEFINE S == {k \in 0..n : f[k].moved \subseteq g[k].moved /\ g[k].moved \subseteq lin}
<1>3. 0 \in S
  BY <1>1, <1>2 DEF Transfers
<1>4. ASSUME NEW k \in 0..n, k \in S, k < n PROVE k + 1 \in S
  <2>1. k + 1 \in 1..n /\ k + 1 \in 0..n /\ k + 1 - 1 = k
    BY <1>4
  <2>2. f[k + 1] = apply_stmt(b.stmts[k + 1], shared, lin, f[k])
        /\ g[k + 1] = apply_stmt(b.stmts[k + 1], shared, lin, g[k])
    BY <1>1, <1>2, <2>1 DEF Transfers
  <2>3. f[k + 1].moved \subseteq g[k + 1].moved /\ g[k + 1].moved \subseteq lin
    BY <1>4, <2>2 DEF apply_stmt
  <2> QED
    BY <2>1, <2>3
<1> HIDE DEF S
<1>5. 0..n \subseteq S
  BY <1>3, <1>4, UpTo
<1>6. f[n].moved \subseteq g[n].moved /\ g[n].moved \subseteq lin
  BY <1>5 DEF S
<1> QED
  BY <1>1, <1>2, <1>6 DEF apply_terminator

\* One round over the blocks.
MovedRound(B, preds, shared, escaping, lin) ==
  [exit \in [DOMAIN B -> SUBSET lin] |->
     [i \in DOMAIN B |->
        transfer_block(B[i], shared, escaping, lin, Incoming(preds, exit, i)).moved]]

LEMMA MovedSettled ==
  ASSUME NEW B, WellFormed(B), NEW lin, IsFiniteSet(lin), NEW shared, NEW escaping
  PROVE  LET exit == MovedFix(B, Preds(B), shared, escaping, lin)
         IN /\ exit \in [DOMAIN B -> SUBSET lin]
            /\ \A i \in DOMAIN B :
                 exit[i] = transfer_block(B[i], shared, escaping, lin,
                                          Incoming(Preds(B), exit, i)).moved
<1> DEFINE D == DOMAIN B
           S == [D -> SUBSET lin]
           preds == Preds(B)
           next == MovedRound(B, preds, shared, escaping, lin)
           start == [i \in D |-> {}]
           Q == {E \in S : Within(D, E, next[E])}
           size == [E \in Q |-> {c \in D \X lin : c[2] \in E[c[1]]}]
<1>0. /\ IsFiniteSet(D) /\ \A i \in D : Len(B[i].stmts) \in Nat
      /\ preds \in [D -> SUBSET D]
  BY PredsAre DEF WellFormed, Targeted, Listed
<1>1. \A E \in S : \A i \in D : Incoming(preds, E, i) \subseteq lin
  BY <1>0 DEF Incoming
<1>2. ASSUME NEW E \in S PROVE next[E] \in S
  <2>1. \A i \in D : transfer_block(B[i], shared, escaping, lin, Incoming(preds, E, i)).moved
                       \subseteq lin
    BY <1>0, <1>1, TransferMonotone
  <2> QED
    BY <2>1 DEF MovedRound
<1>3. next \in [S -> S]
  <2>1. DOMAIN next = S /\ next = [E \in S |-> next[E]]
    BY DEF MovedRound
  <2> HIDE DEF next, S
  <2> QED
    BY <1>2, <2>1
<1>4. MovedFix(B, preds, shared, escaping, lin) = Fixpoint(next)[start]
  BY DEF MovedFix, MovedRound
<1>5. start \in Q
  BY DEF Within
<1>6. ASSUME NEW E \in Q PROVE next[E] \in Q
  <2>1. E \in S /\ next[E] \in S /\ Within(D, E, next[E])
    BY <1>2
  <2>2. ASSUME NEW i \in D PROVE next[E][i] \subseteq next[next[E]][i]
    <3>1. Incoming(preds, E, i) \subseteq Incoming(preds, next[E], i)
      BY <1>0, <2>1 DEF Incoming, Within
    <3>2. Incoming(preds, next[E], i) \subseteq lin
      BY <1>1, <2>1
    <3>3. transfer_block(B[i], shared, escaping, lin, Incoming(preds, E, i)).moved
            \subseteq transfer_block(B[i], shared, escaping, lin, Incoming(preds, next[E], i)).moved
      BY <1>0, <3>1, <3>2, TransferMonotone
    <3>4. \A F \in S : next[F][i] =
            transfer_block(B[i], shared, escaping, lin, Incoming(preds, F, i)).moved
      BY DEF MovedRound
    <3> QED
      BY <2>1, <3>3, <3>4
  <2> QED
    BY <2>1, <2>2 DEF Within
<1>7. ASSUME NEW E \in Q, next[E] # E
      PROVE  size[E] \subseteq size[next[E]] /\ size[E] # size[next[E]]
  <2>1. next[E] \in Q /\ E \in S /\ next[E] \in S /\ Within(D, E, next[E])
    BY <1>6
  <2> HIDE DEF next
  <2>2. size[E] = {c \in D \X lin : c[2] \in E[c[1]]}
        /\ size[next[E]] = {c \in D \X lin : c[2] \in next[E][c[1]]}
    BY <2>1
  <2>3. PICK i \in D : next[E][i] # E[i]
    BY <1>7, <2>1
  <2>4. PICK x \in lin : x \in next[E][i] /\ x \notin E[i]
    BY <2>1, <2>3 DEF Within
  <2>5. <<i, x>> \in size[next[E]] /\ <<i, x>> \notin size[E]
    BY <2>2, <2>4
  <2>6. size[E] \subseteq size[next[E]]
    BY <2>1, <2>2 DEF Within
  <2> QED
    BY <2>5, <2>6
<1>8. IsFiniteSet(D \X lin)
  BY <1>0, FS_Product
<1>9. size \in [Q -> SUBSET (D \X lin)] /\ Q \in SUBSET S
  OBVIOUS
<1>10. \A E \in S : \A i \in D :
         next[E][i] = transfer_block(B[i], shared, escaping, lin, Incoming(preds, E, i)).moved
  BY DEF MovedRound
<1>11. Q \subseteq S
  OBVIOUS
<1> HIDE DEF next, start, size, Q
<1>12. Grows(next, Q, D \X lin, size)
  BY <1>6, <1>7, <1>9 DEF Grows
<1>13. Fixpoint(next)[start] \in Q /\ next[Fixpoint(next)[start]] = Fixpoint(next)[start]
  <2> HIDE DEF S
  <2> QED
    BY <1>3, <1>5, <1>8, <1>9, <1>12, FixpointOfGrowing
<1>14. Fixpoint(next)[start] \in S
  BY <1>11, <1>13
<1> QED
  BY <1>4, <1>10, <1>13, <1>14

-----------------------------------------------------------------------------
(* The machine follows the check: what it has moved out of, the check knows.  *)

IsMachine(M) ==
  /\ M = [vals |-> M.vals, heap |-> M.heap, live |-> M.live, gone |-> M.gone,
          stale |-> M.stale, wild |-> M.wild]
  /\ M.stale \in BOOLEAN

\* What frees and reads of buffers leave alone.
Alike(M, N) ==
  IsMachine(N) /\ N.vals = M.vals /\ N.gone = M.gone /\ N.stale = M.stale

LEMMA FreeAlike ==
  ASSUME NEW M, IsMachine(M), NEW X
  PROVE  Alike(M, Free(X, M))
<1> DEFINE Times(b) == Cardinality({x \in X : M.vals[x] = b})
           heap1 == [b \in DOMAIN M.heap |-> [M.heap[b] EXCEPT !.frees = @ + Times(b)]]
           wild1 == M.wild \/ Times(Nothing) > 0
<1>1. Free(X, M) = [M EXCEPT !.heap = heap1, !.wild = wild1]
  BY DEF Free
<1> HIDE DEF heap1, wild1
<1> QED
  BY <1>1 DEF IsMachine, Alike

LEMMA GuardedAlike ==
  ASSUME NEW M, IsMachine(M), NEW X
  PROVE  Alike(M, emit_flag_guarded_free(X, M))
<1>1. Alike(M, Free(X \cap M.live, M))
  BY FreeAlike
<1> QED
  BY <1>1 DEF IsMachine, Alike, emit_flag_guarded_free

LEMMA FreeAllAlike ==
  ASSUME NEW M, IsMachine(M), NEW X, NEW Y
  PROVE  Alike(M, FreeAll(X, Y, M))
<1>1. Alike(M, Free(X, M))
  BY FreeAlike
<1>2. Alike(Free(X, M), emit_flag_guarded_free(Y, Free(X, M)))
  BY <1>1, GuardedAlike DEF Alike
<1> QED
  BY <1>1, <1>2 DEF Alike, FreeAll

LEMMA DerefAlike ==
  ASSUME NEW M, IsMachine(M), NEW X
  PROVE  Alike(M, Deref(X, M))
  BY DEF IsMachine, Alike, Deref

LEMMA LookIs ==
  ASSUME NEW M, IsMachine(M), NEW x
  PROVE  /\ IsMachine(Look(x, M)) /\ Look(x, M).vals = M.vals /\ Look(x, M).gone = M.gone
         /\ Look(x, M).stale = (M.stale \/ x \in M.gone)
  BY DEF IsMachine, Look

LEMMA TakeIs ==
  ASSUME NEW M, IsMachine(M), NEW x
  PROVE  /\ IsMachine(Take(x, M)) /\ Take(x, M).vals = M.vals
         /\ Take(x, M).gone = IF locals[x].type = "linear" THEN M.gone \cup {x} ELSE M.gone
         /\ Take(x, M).stale => M.stale \/ x \in M.gone
<1>1. CASE locals[x].type = "linear"
  <2> DEFINE L == Look(x, M)
             gone1 == M.gone \cup {x}
  <2>1. IsMachine(L) /\ L.vals = M.vals /\ L.gone = M.gone /\ L.stale = (M.stale \/ x \in M.gone)
    BY LookIs
  <2>2. Take(x, M) = [L EXCEPT !.gone = gone1]
    BY <1>1, <2>1 DEF Take
  <2> HIDE DEF L, gone1
  <2>3. IsMachine(Take(x, M)) /\ Take(x, M).vals = L.vals /\ Take(x, M).gone = gone1
        /\ Take(x, M).stale = L.stale
    BY <2>1, <2>2 DEF IsMachine
  <2> QED
    BY <1>1, <2>1, <2>3 DEF gone1
<1>2. CASE locals[x].type # "linear"
  <2>1. Take(x, M) = M
    BY <1>2 DEF Take
  <2> QED
    BY <1>2, <2>1
<1> QED
  BY <1>1, <1>2

Updated(W, V, x, v) == W = [V EXCEPT ![x] = v]

LEMMA DefineIs ==
  ASSUME NEW M, IsMachine(M), NEW x, NEW v
  PROVE  /\ IsMachine(generate_define(x, v, M))
         /\ Updated(generate_define(x, v, M).vals, M.vals, x, v)
         /\ generate_define(x, v, M).gone = M.gone \ {x}
         /\ generate_define(x, v, M).stale = M.stale
<1> DEFINE vals1 == [M.vals EXCEPT ![x] = v]
           live1 == M.live \cup ({x} \cap plan.flag_owners)
           gone1 == M.gone \ {x}
<1>1. generate_define(x, v, M) = [M EXCEPT !.vals = vals1, !.live = live1, !.gone = gone1]
  BY DEF generate_define
<1> HIDE DEF vals1, live1, gone1
<1>2. /\ IsMachine(generate_define(x, v, M))
      /\ generate_define(x, v, M).vals = vals1
      /\ generate_define(x, v, M).gone = gone1
      /\ generate_define(x, v, M).stale = M.stale
  BY <1>1 DEF IsMachine
<1> QED
  BY <1>2 DEF vals1, gone1, Updated

\* How the values change hands.
LEMMA HeldOther ==
  ASSUME NEW V, NEW S, NEW G, Held(V, S, G), NEW x, x \notin Linear, NEW v,
         NEW W, Updated(W, V, x, v)
  PROVE  Held(W, S, G \ {x})
<1>1. DOMAIN W = DOMAIN V /\ \A y \in Linear : y \in DOMAIN V => W[y] = V[y]
  BY DEF Updated
<1>2. \A y \in Linear : y \in DOMAIN V
  BY DEF Held, Linear, LocalsOf
<1>3. \A y \in Linear : W[y] = V[y]
  BY <1>1, <1>2
<1>4. Linear \ (G \ {x}) = Linear \ G
  OBVIOUS
<1> QED
  BY <1>1, <1>3, <1>4 DEF Held

LEMMA HeldMove ==
  ASSUME NEW V, NEW S, NEW G, Held(V, S, G), NEW x \in Linear, x \notin G, NEW y \in Linear,
         NEW W, Updated(W, V, y, V[x])
  PROVE  Held(W, S, (G \cup {x}) \ {y})
<1> DEFINE H == (G \cup {x}) \ {y}
<1>1. \A z \in Linear : z \in DOMAIN V
  BY DEF Held, Linear, LocalsOf
<1>2. DOMAIN W = DOMAIN V /\ W[y] = V[x] /\ \A z \in Linear : z # y => W[z] = V[z]
  BY <1>1 DEF Updated
<1>3. \A z \in Linear \ H : z = y \/ (z # y /\ z # x /\ z \in Linear \ G)
  OBVIOUS
<1>4. \A z \in Linear : W[z] \in 0..Len(S)
  BY <1>2 DEF Held
<1>5. ASSUME NEW z \in Linear \ H, W[z] # 0 PROVE S[W[z]] = 0
  BY <1>2, <1>3, <1>5 DEF Held
<1>6. ASSUME NEW z1 \in Linear \ H, NEW z2 \in Linear \ H, W[z1] = W[z2], W[z1] # 0 PROVE z1 = z2
  BY <1>2, <1>3, <1>6 DEF Held
<1> HIDE DEF H
<1>7. Held(W, S, H)
  BY <1>2, <1>4, <1>5, <1>6 DEF Held
<1> QED
  BY <1>7 DEF H

LEMMA HeldNew ==
  ASSUME NEW V, NEW S \in Seq({0, 1}), NEW G, Held(V, S, G), NEW y \in Linear,
         NEW W, Updated(W, V, y, Len(S) + 1)
  PROVE  Held(W, Append(S, 0), G \ {y})
<1> DEFINE T == Append(S, 0)
           H == G \ {y}
<1>0. Len(S) \in Nat /\ Len(T) = Len(S) + 1 /\ T[Len(S) + 1] = 0
      /\ \A i \in 1..Len(S) : T[i] = S[i]
  BY AppendProperties, LenProperties
<1>1. \A z \in Linear : z \in DOMAIN V /\ V[z] \in 0..Len(S)
  BY DEF Held, Linear, LocalsOf
<1>2. DOMAIN W = DOMAIN V /\ W[y] = Len(S) + 1 /\ \A z \in Linear : z # y => W[z] = V[z]
  BY <1>1 DEF Updated
<1> HIDE DEF T
<1>3. \A z \in Linear \ H : z = y \/ (z # y /\ z \in Linear \ G)
  OBVIOUS
<1>4. \A z \in Linear : W[z] \in 0..Len(T)
  BY <1>0, <1>1, <1>2
<1>5. ASSUME NEW z \in Linear \ H, W[z] # 0 PROVE T[W[z]] = 0
  <2>1. CASE z = y
    BY <1>0, <1>2, <2>1
  <2>2. CASE z # y /\ z \in Linear \ G
    <3>1. W[z] = V[z] /\ V[z] \in 1..Len(S) /\ S[V[z]] = 0
      BY <1>1, <1>2, <1>5, <2>2, <1>0 DEF Held
    <3> QED
      BY <1>0, <3>1
  <2> QED
    BY <1>3, <2>1, <2>2
<1>6. ASSUME NEW z1 \in Linear \ H, NEW z2 \in Linear \ H, W[z1] = W[z2], W[z1] # 0 PROVE z1 = z2
  <2>1. \A z \in Linear : z # y => W[z] # Len(S) + 1
    BY <1>0, <1>1, <1>2
  <2>2. CASE z1 = y \/ z2 = y
    BY <1>2, <1>6, <2>1, <2>2
  <2>3. CASE z1 # y /\ z2 # y
    BY <1>2, <1>3, <1>6, <2>3 DEF Held
  <2> QED
    BY <2>2, <2>3
<1> HIDE DEF H
<1>7. Held(W, T, H)
  BY <1>2, <1>4, <1>5, <1>6 DEF Held
<1> QED
  BY <1>7 DEF T, H

LEMMA HeldSpend ==
  ASSUME NEW V, NEW S \in Seq({0, 1}), NEW G, Held(V, S, G), NEW x \in Linear, x \notin G
  PROVE  LET T == [S EXCEPT ![V[x]] = @ + 1]
         IN Held(V, T, G \cup {x}) /\ T \in Seq({0, 1})
<1> DEFINE T == [S EXCEPT ![V[x]] = @ + 1]
           H == G \cup {x}
<1>0. Len(S) \in Nat /\ DOMAIN S = 1..Len(S) /\ V[x] \in 0..Len(S) /\ \A i \in 1..Len(S) : S[i] \in {0, 1}
  BY LenProperties, ElementOfSeq DEF Held
<1>1. CASE V[x] = 0
  <2>1. T = S
    BY <1>0, <1>1
  <2>2. \A z \in Linear \ H : z \in Linear \ G
    OBVIOUS
  <2> HIDE DEF T, H
  <2>3. Held(V, S, H)
    BY <2>2 DEF Held
  <2> QED
    BY <2>1, <2>3 DEF T, H
<1>2. CASE V[x] # 0
  <2>1. V[x] \in 1..Len(S) /\ S[V[x]] = 0
    BY <1>0, <1>2 DEF Held
  <2>2. T = [S EXCEPT ![V[x]] = 1]
    BY <2>1
  <2>3. T \in Seq({0, 1}) /\ Len(T) = Len(S) /\ \A i \in 1..Len(S) : i # V[x] => T[i] = S[i]
    BY <2>1, <2>2, ExceptSeq
  <2> HIDE DEF T
  <2>4. \A z \in Linear \ H : z \in Linear \ G /\ z # x
    OBVIOUS
  <2>5. ASSUME NEW z \in Linear \ H, V[z] # 0 PROVE T[V[z]] = 0
    <3>1. V[z] # V[x] /\ V[z] \in 0..Len(S) /\ S[V[z]] = 0
      BY <1>2, <2>4, <2>5 DEF Held
    <3>2. V[z] \in 1..Len(S)
      BY <1>0, <2>5, <3>1
    <3> QED
      BY <2>3, <3>1, <3>2
  <2> HIDE DEF H
  <2>6. Held(V, T, H)
    BY <2>3, <2>4, <2>5 DEF Held
  <2> QED
    BY <2>3, <2>6 DEF T, H
<1> QED
  BY <1>1, <1>2

\* The machine M is as the check expects when prior is what may have been moved.
Follows(M, prior) ==
  /\ IsMachine(M)
  /\ ~M.stale
  /\ M.gone \subseteq prior
  /\ M.gone \subseteq Linear
  /\ Held(M.vals, spent, M.gone)

LEMMA StatementFollows ==
  ASSUME LowerInv, NEW M, NEW st, Follows(M, st.moved), NEW s, TypedStmt(s, locals),
         ~apply_stmt(s, SharedRefs, Linear, st).error
  PROVE  /\ ~st.error
         /\ Follows(generate_statement(M, s), apply_stmt(s, SharedRefs, Linear, st).moved)
<1> DEFINE to == apply_stmt(s, SharedRefs, Linear, st).moved
           N == generate_statement(M, s)
<1>1. /\ ~st.error /\ s.src \notin st.moved
      /\ ~(s.op = "deref" /\ s.src \in SharedRefs)
      /\ to = (st.moved \cup (IF s.op = "move" THEN {s.src} \cap Linear ELSE {})) \ {s.dest}
  BY DEF apply_stmt
<1> HIDE DEF to
<1>2. IsMachine(M) /\ ~M.stale /\ M.gone \subseteq st.moved /\ M.gone \subseteq Linear
      /\ Held(M.vals, spent, M.gone) /\ s.src \notin M.gone
  BY <1>1 DEF Follows
<1>3. s.op \in {"move", "field", "ref", "deref"} /\ s.src \in DOMAIN locals /\ s.dest \in DOMAIN locals
  BY DEF TypedStmt, MirStmt
<1>4. \A x \in DOMAIN locals : x \in Linear <=> locals[x].type = "linear"
  BY DEF Linear, LocalsOf
<1>5. s.op # "deref"
  <2> SUFFICES ASSUME s.op = "deref" PROVE FALSE
    OBVIOUS
  <2>1. Has(locals, s.src, "ref")
    BY DEF TypedStmt, Has
  <2> QED
    BY <1>1, <2>1, RefsShared
<1>6. CASE s.op = "ref"
  <2> DEFINE L == Look(s.src, M)
  <2>1. N = generate_define(s.dest, s.src, L)
    BY <1>6 DEF generate_statement
  <2>2. IsMachine(L) /\ L.vals = M.vals /\ L.gone = M.gone /\ ~L.stale
    BY <1>2, LookIs
  <2> HIDE DEF L, N
  <2>3. IsMachine(N) /\ Updated(N.vals, M.vals, s.dest, s.src) /\ N.gone = M.gone \ {s.dest} /\ ~N.stale
    BY <2>1, <2>2, DefineIs
  <2>4. s.dest \notin Linear
    BY <1>3, <1>4, <1>6 DEF TypedStmt
  <2>5. Held(N.vals, spent, N.gone)
    BY <1>2, <2>3, <2>4, HeldOther
  <2>6. N.gone \subseteq to /\ N.gone \subseteq Linear
    BY <1>1, <1>2, <2>3
  <2> QED
    BY <1>1, <2>3, <2>5, <2>6 DEF Follows, to, N
<1>7. CASE s.op = "field"
  <2>1. N = generate_define(s.dest, M.vals[s.src], M)
    BY <1>7 DEF generate_statement
  <2> HIDE DEF N
  <2>2. IsMachine(N) /\ Updated(N.vals, M.vals, s.dest, M.vals[s.src])
        /\ N.gone = M.gone \ {s.dest} /\ ~N.stale
    BY <1>2, <2>1, DefineIs
  <2>3. s.dest \notin Linear
    BY <1>3, <1>4, <1>7 DEF TypedStmt
  <2>4. Held(N.vals, spent, N.gone)
    BY <1>2, <2>2, <2>3, HeldOther
  <2>5. N.gone \subseteq to /\ N.gone \subseteq Linear
    BY <1>1, <1>2, <2>2
  <2> QED
    BY <1>1, <2>2, <2>4, <2>5 DEF Follows, to, N
<1>8. CASE s.op = "move"
  <2> DEFINE K == Take(s.src, M)
  <2>1. N = generate_define(s.dest, M.vals[s.src], K)
    BY <1>8 DEF generate_statement
  <2>2. IsMachine(K) /\ K.vals = M.vals /\ ~K.stale
        /\ K.gone = IF locals[s.src].type = "linear" THEN M.gone \cup {s.src} ELSE M.gone
    BY <1>2, TakeIs
  <2> HIDE DEF K, N
  <2>3. IsMachine(N) /\ Updated(N.vals, M.vals, s.dest, M.vals[s.src])
        /\ N.gone = K.gone \ {s.dest} /\ ~N.stale
    BY <2>1, <2>2, DefineIs
  <2>4. locals[s.dest].type = locals[s.src].type
    BY <1>8 DEF TypedStmt
  <2>5. CASE locals[s.src].type = "linear"
    <3>1. s.src \in Linear /\ s.dest \in Linear
      BY <1>3, <1>4, <2>4, <2>5
    <3>2. N.gone = (M.gone \cup {s.src}) \ {s.dest}
      BY <2>2, <2>3, <2>5
    <3>3. Held(N.vals, spent, N.gone)
      BY <1>2, <2>3, <3>1, <3>2, HeldMove
    <3>4. N.gone \subseteq to /\ N.gone \subseteq Linear
      BY <1>1, <1>2, <1>8, <3>1, <3>2
    <3> QED
      BY <1>1, <2>3, <3>3, <3>4 DEF Follows, to, N
  <2>6. CASE locals[s.src].type # "linear"
    <3>1. s.dest \notin Linear
      BY <1>3, <1>4, <2>4, <2>6
    <3>2. N.gone = M.gone \ {s.dest}
      BY <2>2, <2>3, <2>6
    <3>3. Held(N.vals, spent, N.gone)
      BY <1>2, <2>3, <3>1, <3>2, HeldOther
    <3>4. N.gone \subseteq to /\ N.gone \subseteq Linear
      BY <1>1, <1>2, <3>2
    <3> QED
      BY <1>1, <2>3, <3>3, <3>4 DEF Follows, to, N
  <2> QED
    BY <2>5, <2>6
<1> QED
  BY <1>3, <1>5, <1>6, <1>7, <1>8

\* The states the statements of block i come through.
Runs(f, i) ==
  /\ f[0] = FreeAll(plan.block_frees[i], plan.flag_block_frees[i], Machine)
  /\ \A k \in 1..Len(blocks[i].stmts) :
       f[k] = generate_statement(f[k - 1], blocks[i].stmts[k])

LEMMA RunIs ==
  ASSUME NEW i, Len(blocks[i].stmts) \in Nat
  PROVE  \E f : Runs(f, i) /\ RunStatements(i) = f[Len(blocks[i].stmts)]
<1> DEFINE n == Len(blocks[i].stmts)
           first == FreeAll(plan.block_frees[i], plan.flag_block_frees[i], Machine)
           Is(f, m) ==
             f = [k \in 0..m |->
                    IF k = 0 THEN first
                    ELSE generate_statement(f[k - 1], blocks[i].stmts[k])]
           after == CHOOSE f : Is(f, n)
           S == {m \in Nat : \E f : Is(f, m)}
<1>6. RunStatements(i) = after[n]
  BY DEF RunStatements
<1> HIDE DEF first
<1>1. 0 \in S
  <2> DEFINE f == [k \in 0..0 |-> first]
  <2>1. f = [k \in 0..0 |-> IF k = 0 THEN first
                            ELSE generate_statement(f[k - 1], blocks[i].stmts[k])]
    OBVIOUS
  <2> QED
    BY <2>1
<1>2. ASSUME NEW m \in 0..n, m \in S, m < n PROVE m + 1 \in S
  <2>1. PICK f : Is(f, m)
    BY <1>2
  <2> DEFINE last == generate_statement(f[m], blocks[i].stmts[m + 1])
             g == [k \in 0..(m + 1) |-> IF k = m + 1 THEN last ELSE f[k]]
  <2>2. m \in Nat /\ m + 1 \in 0..(m + 1) /\ m + 1 # 0 /\ m + 1 - 1 = m
    OBVIOUS
  <2>3. g[m + 1] = last /\ \A k \in 0..m : g[k] = f[k]
    BY <2>2
  <2>4. g = [k \in 0..(m + 1) |-> g[k]]
    OBVIOUS
  <2> HIDE DEF g
  <2>5. ASSUME NEW k \in 0..(m + 1)
        PROVE  g[k] = IF k = 0 THEN first ELSE generate_statement(g[k - 1], blocks[i].stmts[k])
    <3>1. CASE k = m + 1
      <4>1. g[k - 1] = f[m]
        BY <2>2, <2>3, <3>1
      <4> QED
        BY <2>2, <2>3, <3>1, <4>1
    <3>2. CASE k \in 0..m
      <4>1. f[k] = IF k = 0 THEN first ELSE generate_statement(f[k - 1], blocks[i].stmts[k])
        BY <2>1, <3>2
      <4>2. k # 0 => k - 1 \in 0..m
        BY <3>2
      <4> QED
        BY <2>3, <3>2, <4>1, <4>2
    <3> QED
      BY <2>2, <3>1, <3>2
  <2>6. Is(g, m + 1)
    BY <2>4, <2>5
  <2> HIDE DEF Is
  <2> QED
    BY <2>2, <2>6
<1> HIDE DEF S
<1>3. 0..n \subseteq S
  BY <1>1, <1>2, UpTo
<1>4. n \in S
  BY <1>3
<1>5. Is(after, n)
  <2>1. \E f : Is(f, n)
    BY <1>4 DEF S
  <2> HIDE DEF Is
  <2> QED
    BY <2>1
<1> HIDE DEF after
<1>7. Runs(after, i)
  <2>1. \A k \in 1..n : k \in 0..n /\ k # 0
    OBVIOUS
  <2>2. \A k \in 0..n : after[k] = IF k = 0 THEN first
                                   ELSE generate_statement(after[k - 1], blocks[i].stmts[k])
    BY <1>5
  <2>3. after[0] = first
    <3>1. 0 \in 0..n
      OBVIOUS
    <3> HIDE DEF n
    <3> QED
      BY <2>2, <3>1, Zenon
  <2>4. \A k \in 1..n : after[k] = generate_statement(after[k - 1], blocks[i].stmts[k])
    BY <2>1, <2>2
  <2> QED
    BY <2>3, <2>4 DEF Runs, first
<1> QED
  BY <1>6, <1>7

\* The statements of a block the check has no error in.
LEMMA BlockFollows ==
  ASSUME LowerInv, NEW i \in DOMAIN blocks, NEW prior, Follows(Machine, prior),
         ~transfer_block(blocks[i], SharedRefs, Escaping, Linear, prior).error
  PROVE  \E st :
           /\ Follows(RunStatements(i), st.moved)
           /\ transfer_block(blocks[i], SharedRefs, Escaping, Linear, prior) =
                apply_terminator(blocks[i].term, SharedRefs, Escaping, Linear, st)
<1> DEFINE n == Len(blocks[i].stmts)
<1>1. n \in Nat /\ DOMAIN blocks[i].stmts = 1..n
  BY WellFormedBlocks DEF WellFormed, Listed
<1>2. PICK f : Runs(f, i) /\ RunStatements(i) = f[n]
  BY <1>1, RunIs
<1>3. PICK g : /\ Transfers(g, blocks[i], SharedRefs, Linear, prior)
               /\ transfer_block(blocks[i], SharedRefs, Escaping, Linear, prior) =
                    apply_terminator(blocks[i].term, SharedRefs, Escaping, Linear, g[n])
  BY <1>1, TransferIs
<1> DEFINE S == {k \in 0..n : g[k].error \/ Follows(f[k], g[k].moved)}
<1>4. 0 \in S
  <2>1. g[0].moved = prior
    BY <1>3 DEF Transfers
  <2>2. IsMachine(Machine) /\ f[0] = FreeAll(plan.block_frees[i], plan.flag_block_frees[i], Machine)
    BY <1>2 DEF Runs, Follows
  <2>3. Alike(Machine, f[0])
    BY <2>2, FreeAllAlike
  <2>4. Follows(f[0], prior)
    BY <2>3 DEF Alike, Follows
  <2> QED
    BY <1>1, <2>1, <2>4
<1>5. ASSUME NEW k \in 0..n, k \in S, k < n PROVE k + 1 \in S
  <2>1. k + 1 \in 1..n /\ k + 1 \in 0..n /\ k + 1 - 1 = k
    BY <1>1, <1>5
  <2> DEFINE s == blocks[i].stmts[k + 1]
  <2>2. f[k + 1] = generate_statement(f[k], s)
        /\ g[k + 1] = apply_stmt(s, SharedRefs, Linear, g[k])
    BY <1>2, <1>3, <2>1 DEF Runs, Transfers
  <2>3. s \in Stmts(blocks)
    BY <1>1, <2>1, StmtsAre
  <2>4. TypedStmt(s, locals)
    BY <2>3 DEF LowerInv, GoodBody
  <2> HIDE DEF s
  <2>5. CASE ~g[k + 1].error
    <3>0. ~apply_stmt(s, SharedRefs, Linear, g[k]).error
      BY <2>2, <2>5
    <3>1. ~g[k].error
      BY <3>0 DEF apply_stmt
    <3>2. Follows(f[k], g[k].moved)
      BY <1>5, <3>1
    <3>3. Follows(f[k + 1], g[k + 1].moved)
      BY <2>2, <2>4, <3>0, <3>2, StatementFollows
    <3> QED
      BY <2>1, <3>3
  <2> QED
    BY <2>1, <2>5
<1> HIDE DEF S
<1>6. 0..n \subseteq S
  BY <1>1, <1>4, <1>5, UpTo
<1>7. n \in 0..n
  BY <1>1
<1>8. ~g[n].error
  <2>1. ~apply_terminator(blocks[i].term, SharedRefs, Escaping, Linear, g[n]).error
    BY <1>3
  <2> QED
    BY <2>1 DEF apply_terminator
<1>9. Follows(f[n], g[n].moved)
  BY <1>6, <1>7, <1>8 DEF S
<1> QED
  BY <1>2, <1>3, <1>9

LEMMA LinearFinite ==
  ASSUME LowerInv
  PROVE  /\ Linear \subseteq DOMAIN locals /\ IsFiniteSet(Linear) /\ NoLocal \notin DOMAIN locals
         /\ \A x \in DOMAIN locals : x \in Linear <=> locals[x].type = "linear"
<1>1. DOMAIN locals = 1..Len(locals) /\ Len(locals) \in Nat
  BY Sizes
<1>2. IsFiniteSet(1..Len(locals)) /\ NoLocal \notin 1..Len(locals)
  BY <1>1, FS_Interval DEF NoLocal
<1> QED
  BY <1>1, <1>2, FS_Subset DEF Linear, LocalsOf

\* What the check has settled for the block that runs.
LEMMA BlockChecked ==
  ASSUME LowerInv, LinearInv, stage = "run"
  PROVE  /\ pc \in DOMAIN blocks
         /\ MovedAt(pc) \subseteq Linear
         /\ ~transfer_block(blocks[pc], SharedRefs, Escaping, Linear, MovedAt(pc)).error
         /\ \A b \in Succs(blocks, pc) :
              /\ b \in reachable_blocks(blocks)
              /\ transfer_block(blocks[pc], SharedRefs, Escaping, Linear, MovedAt(pc)).moved
                   \subseteq MovedAt(b)
<1>1. WellFormed(blocks) /\ Targeted(blocks)
  BY WellFormedBlocks DEF WellFormed
<1>2. /\ ExitSets \in [DOMAIN blocks -> SUBSET Linear]
      /\ \A i \in DOMAIN blocks :
           ExitSets[i] = transfer_block(blocks[i], SharedRefs, Escaping, Linear, MovedAt(i)).moved
  BY <1>1, LinearFinite, MovedSettled DEF ExitSets, MovedAt
<1>3. pc \in reachable_blocks(blocks) /\ reachable_blocks(blocks) \subseteq DOMAIN blocks
      /\ \A b \in Succs(blocks, pc) : b \in reachable_blocks(blocks)
  BY <1>1, ReachableIs DEF LinearInv
<1>4. Preds(blocks) \in [DOMAIN blocks -> SUBSET DOMAIN blocks]
  BY <1>1, PredsAre
<1>5. \A b \in Succs(blocks, pc) : pc \in Preds(blocks)[b]
  BY <1>3 DEF Preds
<1>6. \A b \in Succs(blocks, pc) : ExitSets[pc] \subseteq MovedAt(b)
  BY <1>5 DEF MovedAt, Incoming
<1>7. MovedAt(pc) \subseteq Linear
  BY <1>2, <1>3, <1>4 DEF MovedAt, Incoming
<1>8. ~transfer_block(blocks[pc], SharedRefs, Escaping, Linear, MovedAt(pc)).error
  BY <1>3 DEF LinearInv, check_with_context, MovedAt, ExitSets, SharedRefs, Escaping
<1> QED
  BY <1>2, <1>3, <1>6, <1>7, <1>8

LEMMA RunFollows ==
  ASSUME LowerInv, LinearInv, stage = "run"
  PROVE  \E st :
           /\ Follows(RunStatements(pc), st.moved)
           /\ ~apply_terminator(Term, SharedRefs, Escaping, Linear, st).error
           /\ \A b \in Succs(blocks, pc) :
                /\ b \in reachable_blocks(blocks)
                /\ apply_terminator(Term, SharedRefs, Escaping, Linear, st).moved \subseteq MovedAt(b)
<1>1. Follows(Machine, MovedAt(pc))
  <2>1. IsMachine(Machine) /\ Machine.vals = vals /\ Machine.gone = gone /\ ~Machine.stale
    BY DEF IsMachine, Machine, LinearInv
  <2>2. gone \subseteq MovedAt(pc) /\ MovedAt(pc) \subseteq Linear /\ Held(vals, spent, gone)
    BY BlockChecked DEF LinearInv
  <2> QED
    BY <2>1, <2>2 DEF Follows
<1>2. PICK st :
        /\ Follows(RunStatements(pc), st.moved)
        /\ transfer_block(blocks[pc], SharedRefs, Escaping, Linear, MovedAt(pc)) =
             apply_terminator(blocks[pc].term, SharedRefs, Escaping, Linear, st)
  BY <1>1, BlockChecked, BlockFollows
<1> QED
  BY <1>2, BlockChecked DEF Term

\* The block's terminator.
LEMMA TermIs ==
  ASSUME LowerInv, pc \in DOMAIN blocks
  PROVE  /\ Term.op \in {"goto", "if", "return"} => TermUses(Term) = {} /\ Term.dest = NoLocal
         /\ Term.op = "call" => TypedCall(Term, locals) /\ Term.to[1] \in Succs(blocks, pc)
<1>1. TypedTerm(Term, locals, Len(blocks))
  BY DEF LowerInv, GoodBody, Term
<1>2. CASE Term.op = "call"
  <2>1. Term.to \in Seq(Nat) /\ Term.to # <<>> /\ TypedCall(Term, locals)
    BY <1>1, <1>2 DEF TypedTerm, MirTerm
  <2>2. 1 \in DOMAIN Term.to
    BY <2>1
  <2>3. Term.to[1] \in Succs(blocks, pc)
    BY <2>2 DEF Succs, Range, Term
  <2> QED
    BY <1>2, <2>1, <2>3
<1>3. CASE Term.op \in {"goto", "if", "return"}
  <2>1. Term.args = <<>> /\ Term.dest = NoLocal
    BY <1>1, <1>3 DEF TypedTerm
  <2>2. TermUses(Term) = {}
    BY <2>1 DEF TermUses, Range
  <2> QED
    BY <1>3, <2>1, <2>2
<1> QED
  BY <1>2, <1>3

\* The next block starts with what the check expects there.
LEMMA Landed ==
  ASSUME LinearInv, stage = "run", Running(Term.op), stage' = stage, NEW st,
         \A b \in Succs(blocks, pc) :
           /\ b \in reachable_blocks(blocks)
           /\ apply_terminator(Term, SharedRefs, Escaping, Linear, st).moved \subseteq MovedAt(b),
         pc' \in Succs(blocks, pc), spent' \in Seq({0, 1}), stale' = FALSE,
         gone' \subseteq apply_terminator(Term, SharedRefs, Escaping, Linear, st).moved,
         Held(vals', spent', gone')
  PROVE  LinearInv'
<1>1. blocks' = blocks /\ locals' = locals /\ bodies' = bodies
  BY DEF Running, lowering
<1>2. Linear' = Linear /\ SharedRefs' = SharedRefs /\ Escaping' = Escaping
  BY <1>1 DEF Linear, LocalsOf, SharedRefs, Escaping
<1>3. ExitSets' = ExitSets
  BY <1>1, <1>2 DEF ExitSets
<1>4. \A b : MovedAt(b)' = MovedAt(b)
  BY <1>1, <1>3 DEF MovedAt
<1>5. pc' \in reachable_blocks(blocks) /\ gone' \subseteq MovedAt(pc')
  OBVIOUS
<1>6. Held(vals, spent, gone)'
  BY <1>1, <1>2 DEF Held
<1>7. (gone \subseteq MovedAt(pc))'
  BY <1>1, <1>3, <1>5 DEF MovedAt
<1>8. check_with_context(blocks', Linear', bodies') = {}
  BY <1>1, <1>2 DEF LinearInv
<1> QED
  BY <1>1, <1>5, <1>6, <1>7, <1>8 DEF LinearInv

LEMMA RunGotoStep == ASSUME LowerInv, LinearInv, RunGoto PROVE LinearInv'
<1>1. stage = "run" /\ stage' = stage /\ spent' = spent /\ Running(Term.op)
      /\ Term.op \in {"goto", "if"} /\ pc' \in Succs(blocks, pc)
  BY DEF RunGoto, Running, Term, Succs
<1>2. PICK st :
        /\ Follows(RunStatements(pc), st.moved)
        /\ ~apply_terminator(Term, SharedRefs, Escaping, Linear, st).error
        /\ \A b \in Succs(blocks, pc) :
             /\ b \in reachable_blocks(blocks)
             /\ apply_terminator(Term, SharedRefs, Escaping, Linear, st).moved \subseteq MovedAt(b)
  BY <1>1, RunFollows
<1> DEFINE M == RunStatements(pc)
<1>3. vals' = M.vals /\ gone' = M.gone /\ stale' = M.stale
  BY DEF RunGoto, Becomes
<1>4. M.gone \subseteq st.moved /\ M.gone \subseteq Linear /\ M.stale = FALSE
      /\ Held(M.vals, spent, M.gone)
  BY <1>2 DEF Follows, IsMachine
<1> HIDE DEF M
<1>5. Term.dest = NoLocal /\ NoLocal \notin Linear
  BY <1>1, BlockChecked, TermIs, LinearFinite
<1>6. gone' \subseteq apply_terminator(Term, SharedRefs, Escaping, Linear, st).moved
  BY <1>3, <1>4, <1>5 DEF apply_terminator
<1>7. spent' \in Seq({0, 1}) /\ stale' = FALSE /\ Held(vals', spent', gone')
  BY <1>1, <1>3, <1>4 DEF LinearInv
<1> QED
  BY <1>1, <1>2, <1>6, <1>7, Landed

LEMMA RunReturnStep == ASSUME LowerInv, LinearInv, RunReturn PROVE LinearInv'
<1>1. stage = "run" /\ stage' = "done" /\ spent' = spent /\ bodies' = bodies
  BY DEF RunReturn, Running
<1>2. PICK st : Follows(RunStatements(pc), st.moved)
  BY <1>1, RunFollows
<1> DEFINE M == RunStatements(pc)
<1>3. IsMachine(M) /\ M.stale = FALSE
  BY <1>2 DEF Follows, IsMachine
<1>4. stale' = FreeAll(plan.freeable, plan.flag_owners, M).stale
  BY DEF RunReturn, Becomes
<1> HIDE DEF M
<1>5. stale' = FALSE
  BY <1>3, <1>4, FreeAllAlike DEF Alike
<1> QED
  BY <1>1, <1>5 DEF LinearInv

\* Only a call may print, concatenate, mint, spend or help, and only one of these.
LEMMA CallIs ==
  ASSUME LowerInv, pc \in DOMAIN blocks, Term.op = "call"
  PROVE  /\ Term.to[1] \in Succs(blocks, pc)
         /\ Term.fn = "concat" => Term.dest \notin Linear
         /\ Term.fn = "printf" => Term.dest \notin Linear
         /\ Term.fn = "mint" => Term.dest \in Linear
         /\ Term.fn = "spend" =>
              /\ Term.dest \notin Linear
              /\ Term.args[1] \in TermUses(Term)
              /\ Term.args[1] \in DOMAIN locals
         /\ Term.fn \in Helpers =>
              /\ Term.dest \in Linear
              /\ Term.args[1] \in TermUses(Term)
              /\ Has(locals, Term.args[1], "ref")
<1>1. TypedCall(Term, locals) /\ Term.to[1] \in Succs(blocks, pc)
  BY TermIs
<1>2. NoLocal \notin DOMAIN locals /\ Linear \subseteq DOMAIN locals
      /\ \A x \in DOMAIN locals : x \in Linear <=> locals[x].type = "linear"
  BY LinearFinite
<1>3. \A h \in Helpers : h \notin {"concat", "mint", "printf", "spend"}
  BY HelpersAssumption
<1>4. ASSUME Term.args = <<Term.args[1]>>, Term.args[1] \in DOMAIN locals
      PROVE  Term.args[1] \in TermUses(Term)
  <2>1. 1 \in DOMAIN Term.args
    BY <1>4
  <2> QED
    BY <1>2, <1>4, <2>1 DEF TermUses, Range
<1>5. Term.fn = "concat" => Term.dest \notin Linear
  BY <1>1, <1>2, <1>3 DEF TypedCall, Has
<1>6. Term.fn = "printf" => Term.dest \notin Linear
  BY <1>1, <1>2, <1>3 DEF TypedCall
<1>7. Term.fn = "mint" => Term.dest \in Linear
  BY <1>1, <1>2, <1>3 DEF TypedCall, Has
<1>8. Term.fn = "spend" => Term.dest \notin Linear /\ Term.args[1] \in TermUses(Term)
                           /\ Term.args[1] \in DOMAIN locals
  <2> SUFFICES ASSUME Term.fn = "spend" PROVE Term.dest = NoLocal
                 /\ Term.args = <<Term.args[1]>> /\ Term.args[1] \in DOMAIN locals
    BY <1>2, <1>4
  <2> QED
    BY <1>1, <1>3 DEF TypedCall, Has
<1>9. Term.fn \in Helpers => Term.dest \in Linear /\ Term.args[1] \in TermUses(Term)
                             /\ Has(locals, Term.args[1], "ref")
  <2> SUFFICES ASSUME Term.fn \in Helpers PROVE Has(locals, Term.dest, "linear")
                 /\ Term.args = <<Term.args[1]>> /\ Has(locals, Term.args[1], "ref")
    BY <1>2, <1>4 DEF Has
  <2> QED
    BY <1>1, <1>3 DEF TypedCall
<1> QED
  BY <1>1, <1>5, <1>6, <1>7, <1>8, <1>9

\* What a call finds when the statements before it have run.
CallAt(st, M) ==
  /\ M = RunStatements(pc)
  /\ IsMachine(M) /\ M.stale = FALSE
  /\ M.gone \subseteq st.moved /\ M.gone \subseteq Linear
  /\ Held(M.vals, spent, M.gone)
  /\ TermUses(Term) \cap st.moved = {}
  /\ ~(Term.fn \in Escaping /\ TermUses(Term) \cap SharedRefs # {})
  /\ \A b \in Succs(blocks, pc) :
       /\ b \in reachable_blocks(blocks)
       /\ apply_terminator(Term, SharedRefs, Escaping, Linear, st).moved \subseteq MovedAt(b)
  /\ apply_terminator(Term, SharedRefs, Escaping, Linear, st).moved =
       (st.moved \cup (TermUses(Term) \cap Linear)) \ {Term.dest}

LEMMA CallStarts ==
  ASSUME LowerInv, LinearInv, Running("call")
  PROVE  /\ stage = "run" /\ Running(Term.op) /\ pc \in DOMAIN blocks /\ Term.op = "call"
         /\ \E st, M : CallAt(st, M)
<1>1. stage = "run" /\ Term.op = "call" /\ Running(Term.op)
  BY DEF Running, Term
<1>2. PICK st :
        /\ Follows(RunStatements(pc), st.moved)
        /\ ~apply_terminator(Term, SharedRefs, Escaping, Linear, st).error
        /\ \A b \in Succs(blocks, pc) :
             /\ b \in reachable_blocks(blocks)
             /\ apply_terminator(Term, SharedRefs, Escaping, Linear, st).moved \subseteq MovedAt(b)
  BY <1>1, RunFollows
<1>3. /\ TermUses(Term) \cap st.moved = {}
      /\ ~(Term.fn \in Escaping /\ TermUses(Term) \cap SharedRefs # {})
  BY <1>1, <1>2 DEF apply_terminator
<1>4. apply_terminator(Term, SharedRefs, Escaping, Linear, st).moved =
        (st.moved \cup (TermUses(Term) \cap Linear)) \ {Term.dest}
  BY DEF apply_terminator
<1>5. CallAt(st, RunStatements(pc))
  BY <1>2, <1>3, <1>4 DEF CallAt, Follows, IsMachine
<1> QED
  BY <1>1, <1>5, BlockChecked

\* A call whose effect the check foresaw leads to a block the check foresaw.
LEMMA CallLands ==
  ASSUME LowerInv, LinearInv, Running("call"), stage' = stage, pc' = Term.to[1],
         NEW st, NEW M, CallAt(st, M), spent' \in Seq({0, 1}), stale' = FALSE,
         gone' \subseteq (st.moved \cup (TermUses(Term) \cap Linear)) \ {Term.dest},
         Held(vals', spent', gone')
  PROVE  LinearInv'
<1>1. stage = "run" /\ Running(Term.op) /\ pc \in DOMAIN blocks /\ Term.op = "call"
  BY CallStarts
<1>2. pc' \in Succs(blocks, pc)
  BY <1>1, CallIs
<1>3. /\ \A b \in Succs(blocks, pc) :
           /\ b \in reachable_blocks(blocks)
           /\ apply_terminator(Term, SharedRefs, Escaping, Linear, st).moved \subseteq MovedAt(b)
      /\ gone' \subseteq apply_terminator(Term, SharedRefs, Escaping, Linear, st).moved
  BY DEF CallAt
<1> QED
  BY <1>1, <1>2, <1>3, Landed

LEMMA RunPrintfStep == ASSUME LowerInv, LinearInv, RunPrintf PROVE LinearInv'
<1>1. Running("call") /\ stage' = stage /\ spent' = spent /\ pc' = Term.to[1] /\ Term.fn = "printf"
  BY DEF RunPrintf
<1>2. PICK st, M : CallAt(st, M)
  BY <1>1, CallStarts
<1>3. Term.dest \notin Linear
  BY <1>1, CallStarts, CallIs
<1> DEFINE N == Deref(Range(Term.args), M)
<1>4. vals' = N.vals /\ gone' = N.gone /\ stale' = N.stale
  BY <1>2 DEF RunPrintf, Becomes, CallAt
<1>5. Alike(M, N)
  BY <1>2, DerefAlike DEF CallAt
<1> HIDE DEF N
<1>6. vals' = M.vals /\ gone' = M.gone /\ stale' = FALSE
  BY <1>2, <1>4, <1>5 DEF Alike, CallAt
<1>7. Held(vals', spent', gone') /\ spent' \in Seq({0, 1})
  BY <1>1, <1>2, <1>6 DEF CallAt, LinearInv
<1>8. gone' \subseteq (st.moved \cup (TermUses(Term) \cap Linear)) \ {Term.dest}
  BY <1>2, <1>3, <1>6 DEF CallAt
<1> QED
  BY <1>1, <1>2, <1>6, <1>7, <1>8, CallLands

LEMMA RunConcatStep == ASSUME LowerInv, LinearInv, RunConcat PROVE LinearInv'
<1>1. Running("call") /\ stage' = stage /\ spent' = spent /\ pc' = Term.to[1] /\ Term.fn = "concat"
  BY DEF RunConcat
<1>2. PICK st, M : CallAt(st, M)
  BY <1>1, CallStarts
<1>3. Term.dest \notin Linear
  BY <1>1, CallStarts, CallIs
<1> DEFINE D == Deref(Range(Term.args), M)
           heap1 == Append(D.heap, [frees |-> 0, late |-> FALSE])
           E == [D EXCEPT !.heap = heap1]
           v == Len(heap) + 1
           N == generate_define(Term.dest, v, E)
<1>4. vals' = N.vals /\ gone' = N.gone /\ stale' = N.stale
  BY <1>2 DEF RunConcat, Becomes, CallAt
<1>5. Alike(M, D)
  BY <1>2, DerefAlike DEF CallAt
<1> HIDE DEF D, heap1
<1>6. IsMachine(E) /\ E.vals = M.vals /\ E.gone = M.gone /\ E.stale = FALSE
  BY <1>2, <1>5 DEF Alike, IsMachine, CallAt
<1> HIDE DEF E, v
<1>7. Updated(N.vals, E.vals, Term.dest, v) /\ N.gone = E.gone \ {Term.dest} /\ N.stale = E.stale
  BY <1>6, DefineIs
<1> HIDE DEF N
<1>8. Updated(vals', M.vals, Term.dest, v) /\ gone' = M.gone \ {Term.dest} /\ stale' = FALSE
  BY <1>4, <1>6, <1>7
<1>9. Held(M.vals, spent, M.gone)
  BY <1>2 DEF CallAt
<1>10. Held(vals', spent, M.gone \ {Term.dest})
  BY <1>3, <1>8, <1>9, HeldOther
<1>11. Held(vals', spent', gone') /\ spent' \in Seq({0, 1})
  BY <1>1, <1>8, <1>10 DEF LinearInv
<1>12. gone' \subseteq (st.moved \cup (TermUses(Term) \cap Linear)) \ {Term.dest}
  BY <1>2, <1>8 DEF CallAt
<1> QED
  BY <1>1, <1>2, <1>8, <1>11, <1>12, CallLands

LEMMA RunSpendStep == ASSUME LowerInv, LinearInv, RunSpend PROVE LinearInv'
<1> DEFINE x == Term.args[1]
<1>1. Running("call") /\ stage' = stage /\ pc' = Term.to[1] /\ Term.fn = "spend"
  BY DEF RunSpend
<1>2. PICK st, M : CallAt(st, M)
  BY <1>1, CallStarts
<1>3. Term.dest \notin Linear /\ x \in TermUses(Term) /\ x \in DOMAIN locals
  BY <1>1, CallStarts, CallIs
<1> DEFINE D == Deref({x}, M)
           N == Take(x, D)
<1>4. /\ vals' = N.vals /\ gone' = N.gone /\ stale' = N.stale
      /\ spent' = IF locals[x].type = "linear" THEN [spent EXCEPT ![M.vals[x]] = @ + 1] ELSE spent
  BY <1>2 DEF RunSpend, Becomes, CallAt
<1>5. Alike(M, D)
  BY <1>2, DerefAlike DEF CallAt
<1> HIDE DEF D, x
<1>6. IsMachine(D) /\ D.vals = M.vals /\ D.gone = M.gone /\ D.stale = FALSE
      /\ x \notin M.gone /\ M.gone \subseteq st.moved /\ M.gone \subseteq Linear
  BY <1>2, <1>3, <1>5 DEF Alike, CallAt
<1>7. /\ IsMachine(N) /\ N.vals = M.vals /\ ~N.stale
      /\ N.gone = IF locals[x].type = "linear" THEN M.gone \cup {x} ELSE M.gone
  BY <1>6, TakeIs
<1> HIDE DEF N
<1>8. vals' = M.vals /\ stale' = FALSE
  BY <1>4, <1>7 DEF IsMachine
<1>9. Held(M.vals, spent, M.gone) /\ spent \in Seq({0, 1})
  BY <1>2 DEF CallAt, LinearInv
<1>10. CASE locals[x].type = "linear"
  <2>1. x \in Linear
    BY <1>3, <1>10, LinearFinite
  <2>2. gone' = M.gone \cup {x} /\ spent' = [spent EXCEPT ![M.vals[x]] = @ + 1]
    BY <1>4, <1>7, <1>10
  <2>3. Held(M.vals, spent', M.gone \cup {x}) /\ spent' \in Seq({0, 1})
    BY <1>6, <1>9, <2>1, <2>2, HeldSpend
  <2>4. gone' \subseteq (st.moved \cup (TermUses(Term) \cap Linear)) \ {Term.dest}
    BY <1>3, <1>6, <2>1, <2>2
  <2>5. Held(vals', spent', gone')
    BY <1>8, <2>2, <2>3
  <2> QED
    BY <1>1, <1>2, <1>8, <2>3, <2>4, <2>5, CallLands
<1>11. CASE locals[x].type # "linear"
  <2>1. gone' = M.gone /\ spent' = spent
    BY <1>4, <1>7, <1>11
  <2>2. gone' \subseteq (st.moved \cup (TermUses(Term) \cap Linear)) \ {Term.dest}
    BY <1>3, <1>6, <2>1
  <2>3. Held(vals', spent', gone') /\ spent' \in Seq({0, 1})
    BY <1>8, <1>9, <2>1
  <2> QED
    BY <1>1, <1>2, <1>8, <2>2, <2>3, CallLands
<1> QED
  BY <1>10, <1>11

LEMMA MintStep ==
  ASSUME LowerInv, LinearInv, Running("call"), stage' = stage, pc' = Term.to[1],
         NEW st, NEW M, CallAt(st, M), Term.dest \in Linear, Mint(M)
  PROVE  LinearInv'
<1> DEFINE v == Len(spent) + 1
           N == generate_define(Term.dest, v, M)
<1>1. vals' = N.vals /\ gone' = N.gone /\ stale' = N.stale /\ spent' = Append(spent, 0)
  BY DEF Mint, Becomes
<1>2. Updated(N.vals, M.vals, Term.dest, v) /\ N.gone = M.gone \ {Term.dest} /\ N.stale = M.stale
  BY DefineIs DEF CallAt
<1> HIDE DEF N
<1>3. Updated(vals', M.vals, Term.dest, Len(spent) + 1) /\ gone' = M.gone \ {Term.dest}
      /\ stale' = FALSE
  BY <1>1, <1>2 DEF CallAt
<1>4. Held(M.vals, spent, M.gone) /\ spent \in Seq({0, 1})
  BY DEF CallAt, LinearInv
<1>5. Held(vals', Append(spent, 0), M.gone \ {Term.dest})
  BY <1>3, <1>4, HeldNew
<1>6. Held(vals', spent', gone')
  BY <1>1, <1>3, <1>5
<1>7. spent' \in Seq({0, 1})
  BY <1>1, <1>4, AppendProperties
<1>8. gone' \subseteq (st.moved \cup (TermUses(Term) \cap Linear)) \ {Term.dest}
  BY <1>3 DEF CallAt
<1> QED
  BY <1>3, <1>6, <1>7, <1>8, CallLands

LEMMA RunMintStep == ASSUME LowerInv, LinearInv, RunMint PROVE LinearInv'
<1>1. Running("call") /\ stage' = stage /\ pc' = Term.to[1] /\ Term.fn = "mint"
  BY DEF RunMint
<1>2. PICK st, M : CallAt(st, M)
  BY <1>1, CallStarts
<1>3. Term.dest \in Linear
  BY <1>1, CallStarts, CallIs
<1>4. Mint(M)
  BY <1>2 DEF RunMint, CallAt
<1> QED
  BY <1>1, <1>2, <1>3, <1>4, MintStep

\* The check has kept what a reference points to from a helper that lets it out.
LEMMA RunHelperStep == ASSUME LowerInv, LinearInv, RunHelper PROVE LinearInv'
<1>1. Running("call") /\ stage' = stage /\ pc' = Term.to[1] /\ Term.fn \in Helpers
  BY DEF RunHelper
<1>2. PICK st, M : CallAt(st, M)
  BY <1>1, CallStarts
<1>3. /\ Term.dest \in Linear /\ Term.args[1] \in TermUses(Term)
      /\ Has(locals, Term.args[1], "ref")
  BY <1>1, CallStarts, CallIs
<1>4. Term.args[1] \in SharedRefs
  BY <1>3, RefsShared
<1>5. Term.fn \notin Escaping
  BY <1>2, <1>3, <1>4 DEF CallAt
<1>6. Ends(Term.fn) \cap {"deref", "indirect"} = {}
  <2>1. bodies \in Tables
    BY DEF LinearInv
  <2> QED
    BY <1>1, <1>5, <2>1, EndsEscape
<1>7. Mint(RunStatements(pc))
  BY <1>6 DEF RunHelper
<1>8. Mint(M)
  BY <1>2, <1>7 DEF CallAt
<1> QED
  BY <1>1, <1>2, <1>3, <1>8, MintStep

LEMMA WellFormedThen == LowerInv' => WellFormed(blocks')
<1>1. LowerInv => WellFormed(blocks)
  BY WellFormedBlocks
<1>2. (LowerInv => WellFormed(blocks))'
  BY <1>1, PTL
<1> QED
  BY <1>2 DEF WellFormed, Targeted, Succs, Listed

LEMMA GenerateStep == ASSUME LowerInv, LinearInv, Generate PROVE LinearInv'
<1>1. /\ stage = "lower" /\ stage' = "run" /\ Finished /\ locals' = locals /\ bodies' = bodies
      /\ pc' = pc /\ spent' = spent /\ gone' = gone /\ stale' = stale
      /\ check_with_context(blocks', LocalsOf("linear"), bodies) = {}
      /\ vals' = [x \in DOMAIN locals |-> Nothing]
  BY DEF Generate, Finished
<1>2. pc' = Entry /\ spent' = <<>> /\ gone' = {}
  BY <1>1 DEF LinearInv
<1>3. LowerInv'
  BY <1>1, FinishedStep
<1>4. Entry \in reachable_blocks(blocks')
  BY <1>3, WellFormedThen, ReachableIs DEF WellFormed
<1>5. Linear' = Linear /\ Linear = LocalsOf("linear")
  BY <1>1 DEF Linear, LocalsOf
<1>6. Linear \subseteq DOMAIN locals
  BY LinearFinite
<1>7. Held(vals, spent, gone)'
  <2>1. DOMAIN vals' = DOMAIN locals' /\ \A x \in Linear : vals'[x] = 0
    BY <1>1, <1>6 DEF Nothing
  <2>2. Len(spent') = 0
    BY <1>2
  <2> QED
    BY <1>5, <2>1, <2>2 DEF Held
<1>8. check_with_context(blocks', Linear', bodies') = {}
  BY <1>1, <1>5
<1> QED
  BY <1>1, <1>2, <1>4, <1>7, <1>8 DEF LinearInv

LEMMA LinearInvStep == LowerInv /\ LinearInv /\ [Next]_vars => LinearInv'
<1> SUFFICES ASSUME LowerInv, LinearInv, [Next]_vars PROVE LinearInv'
  OBVIOUS
<1>1. CASE stage = "lower" /\ Lower /\ UNCHANGED <<bodies, stage, plan, execution>>
  BY <1>1 DEF LinearInv, execution
<1>2. CASE Generate
  BY <1>2, GenerateStep
<1>3. CASE Run
  BY <1>3, RunGotoStep, RunPrintfStep, RunConcatStep, RunSpendStep, RunMintStep, RunHelperStep,
     RunReturnStep DEF Run
<1>4. CASE UNCHANGED vars
  <2>1. UNCHANGED <<blocks, locals, bodies, stage, pc, vals, spent, gone, stale>>
    BY <1>4 DEF vars, lowering, execution
  <2>2. Linear' = Linear
    BY <2>1 DEF Linear, LocalsOf
  <2>3. Held(vals, spent, gone)' = Held(vals, spent, gone)
    BY <2>1, <2>2 DEF Held
  <2>4. (gone \subseteq MovedAt(pc))' = (gone \subseteq MovedAt(pc))
    BY <2>1, <2>2 DEF MovedAt, ExitSets, SharedRefs, Escaping
  <2> QED
    BY <2>1, <2>2, <2>3, <2>4 DEF LinearInv
<1> QED
  BY <1>1, <1>2, <1>3, <1>4 DEF Next

\* What the linear check accepts, in every function that can be lowered and on every
\* path through it, passes no linear value by value twice and uses no local after its
\* value was moved out of it, also through references and the helpers they go to.
THEOREM LinearAlwaysSpentOnce == Spec => []LinearValuesSpentOnce
<1>1. Init => LinearInv
  BY DEF Init, LinearInv
<1>2. LinearInv => LinearValuesSpentOnce
  <2> SUFFICES ASSUME LinearInv PROVE LinearValuesSpentOnce
    OBVIOUS
  <2>1. \A v \in DOMAIN spent : spent[v] \in {0, 1}
    BY LenProperties, ElementOfSeq DEF LinearInv
  <2> QED
    BY <2>1 DEF LinearValuesSpentOnce, LinearInv
<1> QED
  BY <1>1, <1>2, LinearInvStep, BodyAlwaysGood, PTL DEF Spec

-----------------------------------------------------------------------------
(* Strings. In a program that uses no string it moved out of, the body can be *)
(* annotated: W[i][k] is a set of strings that own a buffer before statement  *)
(* k of block i, W[i]'s last one such a set before the terminator.            *)

\* A statement reads a string that owns a buffer; what a move fills is an owner, and
\* nothing else makes one.
OwnedStep(s, S, R, T) ==
  IF Has(T, s.src, "string")
  THEN s.src \in S /\ R \subseteq (IF s.op = "move" THEN (S \ {s.src}) \cup {s.dest} ELSE S)
  ELSE R \subseteq S

\* So does a terminator, and what it reads through a pointer was borrowed just before.
OwnedArgs(t, stmts, S, T) ==
  \A x \in Range(t.args) :
    /\ Has(T, x, "string") => x \in S
    /\ Has(T, x, "pointer") =>
         stmts # <<>> /\ stmts[Len(stmts)].op = "field" /\ stmts[Len(stmts)].dest = x

OwnedBlock(b, w, T) ==
  /\ w \in Seq(SUBSET Nat) /\ Len(w) = Len(b.stmts) + 1
  /\ \A k \in DOMAIN w : \A x \in w[k] : Has(T, x, "string")
  /\ \A k \in DOMAIN b.stmts : OwnedStep(b.stmts[k], w[k], w[k + 1], T)
  /\ OwnedArgs(b.term, b.stmts, Last(w), T)

\* What the successors of a block may count on.
Passed(t, S) == IF t.op = "call" /\ t.fn = "concat" THEN S \cup {t.dest} ELSE S

OwnedIn(B, T, W) ==
  /\ DOMAIN W = DOMAIN B
  /\ \A i \in DOMAIN B : OwnedBlock(B[i], W[i], T)
  /\ \A i \in DOMAIN B : \A j \in Succs(B, i) : W[j][1] \subseteq Passed(B[i].term, Last(W[i]))
  /\ W[Entry][1] = {}

\* C is B with more blocks, and a block i that goes on.
Extends(B, W, C, V, i) ==
  /\ DOMAIN B \subseteq DOMAIN C
  /\ \A j \in DOMAIN B \ {i} : C[j] = B[j] /\ V[j] = W[j]
  /\ V[i][1] = W[i][1]

\* So annotated, block k of C ends with the strings in S owning a buffer.
Grown(C, T, B, W, i, k, S) ==
  \E V : OwnedIn(C, T, V) /\ Extends(B, W, C, V, i) /\ Last(V[k]) = S

Strings(S, T) == S \subseteq Nat /\ \A x \in S : Has(T, x, "string")

\* The same annotation, with n blocks more that own S.
Created(B, T, W, n, S) ==
  \E V : /\ OwnedIn(create_block(B, n), T, V)
         /\ \A i \in 1..Len(B) : V[i] = W[i]
         /\ \A i \in (Len(B) + 1)..(Len(B) + n) : V[i] = <<S>>

\* The same annotation, but for S at block i.
Trimmed(B, T, W, i, S) ==
  \E V : OwnedIn(B, T, V) /\ (\A j \in DOMAIN B : j # i => V[j] = W[j]) /\ V[i] = <<S>>

LEMMA CreateIs ==
  ASSUME NEW B, NEW T, GoodBody(B, T), NEW n \in Nat
  PROVE  /\ DOMAIN create_block(B, n) = 1..(Len(B) + n)
         /\ \A i \in 1..Len(B) : create_block(B, n)[i] = B[i]
         /\ \A i \in (Len(B) + 1)..(Len(B) + n) : create_block(B, n)[i] = EmptyBlock
<1> DEFINE E == [i \in 1..n |-> EmptyBlock]
           C == create_block(B, n)
<1>0. B \in Seq(MirBlock) /\ Len(B) \in Nat /\ EmptyBlock \in MirBlock
  BY TermTypes DEF GoodBody
<1>1. E \in Seq(MirBlock) /\ Len(E) = n /\ \A i \in 1..n : E[i] = EmptyBlock
  BY <1>0
<1> HIDE DEF E
<1>2. C = B \o E
  BY DEF create_block, E
<1> HIDE DEF C
<1>3. C \in Seq(MirBlock) /\ Len(C) = Len(B) + n
  BY <1>0, <1>1, <1>2, ConcatProperties
<1>4. DOMAIN C = 1..(Len(B) + n)
  BY <1>3, LenProperties
<1>5. \A i \in 1..Len(B) : C[i] = B[i]
  BY <1>0, <1>1, <1>2, ConcatProperties
<1>6. ASSUME NEW i \in (Len(B) + 1)..(Len(B) + n) PROVE C[i] = EmptyBlock
  <2>1. i \in 1..(Len(B) + n) /\ ~(i <= Len(B)) /\ i - Len(B) \in 1..n
    BY <1>0
  <2>2. C[i] = E[i - Len(B)]
    BY <1>0, <1>1, <1>2, <2>1, ConcatProperties
  <2> QED
    BY <1>1, <2>1, <2>2
<1> QED
  BY <1>4, <1>5, <1>6 DEF C

LEMMA SetIs ==
  ASSUME NEW B, NEW T, GoodBody(B, T), NEW i \in 1..Len(B), NEW t
  PROVE  /\ DOMAIN set_terminator(B, i, t) = DOMAIN B
         /\ \A j \in DOMAIN B : j # i => set_terminator(B, i, t)[j] = B[j]
         /\ set_terminator(B, i, t)[i].term = t
         /\ set_terminator(B, i, t)[i].stmts = B[i].stmts
<1>1. B \in Seq(MirBlock) /\ DOMAIN B = 1..Len(B) /\ B[i] \in MirBlock
  BY LenProperties DEF GoodBody
<1>2. [B[i] EXCEPT !.term = t].term = t /\ [B[i] EXCEPT !.term = t].stmts = B[i].stmts
  BY <1>1 DEF MirBlock
<1> QED
  BY <1>1, <1>2 DEF set_terminator

LEMMA PushIs ==
  ASSUME NEW B, NEW T, GoodBody(B, T), NEW i \in 1..Len(B), NEW s
  PROVE  /\ DOMAIN push_stmt(B, i, s) = DOMAIN B
         /\ \A j \in DOMAIN B : j # i => push_stmt(B, i, s)[j] = B[j]
         /\ push_stmt(B, i, s)[i].term = B[i].term
         /\ push_stmt(B, i, s)[i].stmts = Append(B[i].stmts, s)
<1> DEFINE b == [B[i] EXCEPT !.stmts = Append(B[i].stmts, s)]
<1>1. B \in Seq(MirBlock) /\ DOMAIN B = 1..Len(B) /\ B[i] \in MirBlock
  BY LenProperties DEF GoodBody
<1>2. b.term = B[i].term /\ b.stmts = Append(B[i].stmts, s)
  BY <1>1 DEF MirBlock
<1>3. push_stmt(B, i, s) = [B EXCEPT ![i] = b]
  BY DEF push_stmt
<1> HIDE DEF b
<1> QED
  BY <1>1, <1>2, <1>3

LEMMA EmptySuccs ==
  /\ EmptyBlock.stmts = <<>> /\ EmptyBlock.term = NoTerm
  /\ \A B, i : B[i].term = NoTerm => Succs(B, i) = {}
<1>1. NoTerm.to = <<>> /\ Range(<<>>) = {}
  BY DEF NoTerm, Range
<1> QED
  BY <1>1 DEF EmptyBlock, Succs

LEMMA GotoSuccs ==
  /\ \A B, i, t : B[i].term = t => Succs(B, i) = Range(t.to)
  /\ \A b : Range(Goto(b).to) = {b} /\ Goto(b).op = "goto"
  /\ \A b, c : Range(If(b, c).to) = {b, c} /\ If(b, c).op = "if"
  /\ Range(Return.to) = {} /\ Return.op = "return"
  /\ \A fn, args, dest, b : /\ Range(Call(fn, args, dest, b).to) = {b}
                            /\ Call(fn, args, dest, b).op = "call"
                            /\ Call(fn, args, dest, b).fn = fn
                            /\ Call(fn, args, dest, b).dest = dest
<1>1. Range(<<>>) = {} /\ (\A b : Range(<<b>>) = {b}) /\ \A b, c : Range(<<b, c>>) = {b, c}
  BY DEF Range
<1>2. \A B, i, t : B[i].term = t => Succs(B, i) = Range(t.to)
  BY DEF Succs
<1>3. ASSUME NEW b PROVE Range(Goto(b).to) = {b} /\ Goto(b).op = "goto"
  BY <1>1 DEF NoTerm, Goto
<1>4. ASSUME NEW b, NEW c PROVE Range(If(b, c).to) = {b, c} /\ If(b, c).op = "if"
  BY <1>1 DEF NoTerm, If
<1>5. Range(Return.to) = {} /\ Return.op = "return"
  BY <1>1 DEF NoTerm, Return
<1>6. ASSUME NEW fn, NEW args, NEW dest, NEW b
      PROVE  /\ Range(Call(fn, args, dest, b).to) = {b}
             /\ Call(fn, args, dest, b).op = "call"
             /\ Call(fn, args, dest, b).fn = fn
             /\ Call(fn, args, dest, b).dest = dest
  BY <1>1 DEF Call
<1> QED
  BY <1>2, <1>3, <1>4, <1>5, <1>6

LEMMA NoArgs ==
  /\ \A stmts, S, T : OwnedArgs(NoTerm, stmts, S, T)
  /\ \A b, stmts, S, T : OwnedArgs(Goto(b), stmts, S, T)
  /\ \A b, c, stmts, S, T : OwnedArgs(If(b, c), stmts, S, T)
  /\ \A stmts, S, T : OwnedArgs(Return, stmts, S, T)
<1>1. Range(<<>>) = {} /\ NoTerm.args = <<>> /\ Return.args = <<>>
  BY DEF Range, NoTerm, Return
<1>2. ASSUME NEW b, NEW c PROVE Goto(b).args = <<>> /\ If(b, c).args = <<>>
  BY DEF NoTerm, Goto, If
<1>3. \A t, stmts, S, T : t.args = <<>> => OwnedArgs(t, stmts, S, T)
  BY <1>1 DEF OwnedArgs
<1> QED
  BY <1>1, <1>2, <1>3

LEMMA ArgsTyped ==
  ASSUME NEW t, NEW T, NEW n, TypedTerm(t, T, n), NEW x \in Range(t.args)
  PROVE  x \in DOMAIN T
<1>1. \A a : Range(<<a>>) = {a}
  BY DEF Range
<1>2. Range(<<>>) = {}
  BY DEF Range
<1>3. t.op = "call" /\ TypedCall(t, T)
  BY <1>2 DEF TypedTerm
<1>4. CASE t.args = <<t.args[1]>>
  <2>1. x = t.args[1]
    BY <1>1, <1>4
  <2> QED
    BY <1>3, <2>1, <1>2 DEF TypedCall, Has
<1>5. CASE t.args # <<t.args[1]>>
  BY <1>2, <1>3, <1>5 DEF TypedCall, Has
<1> QED
  BY <1>4, <1>5

LEMMA OwnedOne ==
  ASSUME NEW T, NEW S, Strings(S, T)
  PROVE  OwnedBlock(EmptyBlock, <<S>>, T) /\ Last(<<S>>) = S /\ <<S>>[1] = S
<1>0. S \in SUBSET Nat /\ \A x \in S : Has(T, x, "string")
  BY DEF Strings
<1>1. /\ <<S>> \in Seq(SUBSET Nat) /\ Len(<<S>>) = 1 /\ DOMAIN <<S>> = {1} /\ <<S>>[1] = S
      /\ Len(<<>>) = 0 /\ DOMAIN <<>> = {}
  BY <1>0
<1>2. EmptyBlock.stmts = <<>> /\ EmptyBlock.term = NoTerm
  BY DEF EmptyBlock
<1>3. Last(<<S>>) = S
  BY <1>1 DEF Last
<1>4. OwnedBlock(EmptyBlock, <<S>>, T)
  BY <1>0, <1>1, <1>2, NoArgs DEF OwnedBlock
<1> QED
  BY <1>1, <1>3, <1>4

\* More locals do no harm to an annotation.
LEMMA OwnedLonger ==
  ASSUME NEW B, NEW T, NEW U, GoodBody(B, T), Longer(T, U), NEW W, OwnedIn(B, T, W)
  PROVE  OwnedIn(B, U, W)
<1>1. \A x, type : Has(T, x, type) => Has(U, x, type)
  BY HasLonger
<1>2. ASSUME NEW i \in DOMAIN B, NEW k \in DOMAIN B[i].stmts
      PROVE  Has(U, B[i].stmts[k].src, "string") => Has(T, B[i].stmts[k].src, "string")
  <2>1. TypedStmt(B[i].stmts[k], T)
    BY StmtsAre DEF GoodBody
  <2> QED
    BY <2>1 DEF TypedStmt, Has, Longer
<1>3. ASSUME NEW i \in DOMAIN B, NEW x \in Range(B[i].term.args), NEW type
      PROVE  Has(U, x, type) => Has(T, x, type)
  <2>1. x \in DOMAIN T
    BY ArgsTyped DEF GoodBody
  <2> QED
    BY <2>1 DEF Has, Longer
<1>4. ASSUME NEW i \in DOMAIN B PROVE OwnedBlock(B[i], W[i], U)
  <2>1. OwnedArgs(B[i].term, B[i].stmts, Last(W[i]), U)
    BY <1>3 DEF OwnedIn, OwnedBlock, OwnedArgs
  <2> QED
    BY <1>1, <1>2, <2>1 DEF OwnedIn, OwnedBlock, OwnedStep
<1> QED
  BY <1>4 DEF OwnedIn

LEMMA OwnedFirst ==
  ASSUME NEW B, NEW T, NEW W, GoodBody(B, T), OwnedIn(B, T, W), NEW i \in DOMAIN B
  PROVE  /\ W[i] \in Seq(SUBSET Nat) /\ Len(W[i]) > 0 /\ Len(W[i]) \in Nat
         /\ W[i][1] \in SUBSET Nat /\ Last(W[i]) \in SUBSET Nat
         /\ DOMAIN W[i] = 1..Len(W[i])
         /\ \A x \in W[i][1] \cup Last(W[i]) : Has(T, x, "string")
<1>1. W[i] \in Seq(SUBSET Nat) /\ Len(W[i]) = Len(B[i].stmts) + 1
      /\ \A k \in DOMAIN W[i] : \A x \in W[i][k] : Has(T, x, "string")
  BY DEF OwnedIn, OwnedBlock
<1>2. Len(B[i].stmts) \in Nat
  <2>1. B[i] \in MirBlock
    BY LenProperties DEF GoodBody
  <2>2. B[i].stmts \in Seq(MirStmt)
    BY <2>1 DEF MirBlock
  <2> QED
    BY <2>2, LenProperties
<1>3. Len(W[i]) \in DOMAIN W[i] /\ 1 \in DOMAIN W[i] /\ DOMAIN W[i] = 1..Len(W[i])
  BY <1>1, <1>2, LenProperties
<1>4. Last(W[i]) = W[i][Len(W[i])]
  BY DEF Last
<1> QED
  BY <1>1, <1>2, <1>3, <1>4

\* New blocks may own any strings, as no block goes there yet.
LEMMA OwnedCreate ==
  ASSUME NEW B, NEW T, NEW W, GoodBody(B, T), OwnedIn(B, T, W), NEW n \in Nat,
         NEW S, Strings(S, T)
  PROVE  Created(B, T, W, n, S)
<1> DEFINE C == create_block(B, n)
           V == [i \in 1..(Len(B) + n) |-> IF i \in 1..Len(B) THEN W[i] ELSE <<S>>]
<1>0. Len(B) \in Nat /\ Len(B) > 0 /\ DOMAIN B = 1..Len(B)
  BY LenProperties DEF GoodBody
<1>1. DOMAIN C = 1..(Len(B) + n) /\ (\A i \in 1..Len(B) : C[i] = B[i])
      /\ \A i \in (Len(B) + 1)..(Len(B) + n) : C[i] = EmptyBlock
  BY CreateIs
<1> HIDE DEF C
<1>2. \A i \in DOMAIN C : i \in 1..Len(B) \/ i \in (Len(B) + 1)..(Len(B) + n)
  BY <1>0, <1>1
<1>3. /\ DOMAIN V = DOMAIN C /\ \A i \in 1..Len(B) : i \in DOMAIN C /\ V[i] = W[i]
      /\ \A i \in (Len(B) + 1)..(Len(B) + n) : V[i] = <<S>>
  BY <1>0, <1>1
<1> HIDE DEF V
<1>4. ASSUME NEW i \in DOMAIN C PROVE OwnedBlock(C[i], V[i], T)
  <2>1. CASE i \in 1..Len(B)
    BY <1>0, <1>1, <1>3, <2>1 DEF OwnedIn
  <2>2. CASE i \in (Len(B) + 1)..(Len(B) + n)
    BY <1>1, <1>3, <2>2, OwnedOne
  <2> QED
    BY <1>2, <2>1, <2>2
<1>5. ASSUME NEW i \in DOMAIN C, NEW j \in Succs(C, i)
      PROVE  V[j][1] \subseteq Passed(C[i].term, Last(V[i]))
  <2>1. CASE i \in 1..Len(B)
    <3>1. C[i] = B[i] /\ V[i] = W[i]
      BY <1>1, <1>3, <2>1
    <3>2. j \in Succs(B, i) /\ Succs(B, i) \subseteq 1..Len(B)
      BY <1>0, <2>1, <3>1 DEF Succs, GoodBody, TypedTerm
    <3> QED
      BY <1>0, <1>3, <2>1, <3>1, <3>2 DEF OwnedIn
  <2>2. CASE i \in (Len(B) + 1)..(Len(B) + n)
    BY <1>1, <2>2, EmptySuccs
  <2> QED
    BY <1>2, <2>1, <2>2
<1>6. V[Entry][1] = {}
  BY <1>0, <1>3 DEF Entry, OwnedIn
<1>7. OwnedIn(C, T, V)
  BY <1>3, <1>4, <1>5, <1>6 DEF OwnedIn
<1> QED
  BY <1>3, <1>7 DEF C, Created

LEMMA OwnedSet ==
  ASSUME NEW B, NEW T, NEW W, GoodBody(B, T), OwnedIn(B, T, W), NEW i \in 1..Len(B), NEW t,
         \A j \in Range(t.to) : W[j][1] \subseteq Passed(t, Last(W[i])),
         OwnedArgs(t, B[i].stmts, Last(W[i]), T)
  PROVE  OwnedIn(set_terminator(B, i, t), T, W)
<1> DEFINE C == set_terminator(B, i, t)
<1>0. DOMAIN B = 1..Len(B)
  BY LenProperties DEF GoodBody
<1>1. DOMAIN C = DOMAIN B /\ (\A j \in DOMAIN B : j # i => C[j] = B[j])
      /\ C[i].term = t /\ C[i].stmts = B[i].stmts
  BY SetIs
<1> HIDE DEF C
<1>2. \A j \in DOMAIN B : C[j].stmts = B[j].stmts
  BY <1>1
<1>3. ASSUME NEW j \in DOMAIN C PROVE OwnedBlock(C[j], W[j], T)
  <2>1. CASE j = i
    BY <1>0, <1>1, <1>2, <2>1 DEF OwnedIn, OwnedBlock
  <2>2. CASE j # i
    BY <1>1, <2>2 DEF OwnedIn
  <2> QED
    BY <2>1, <2>2
<1>4. ASSUME NEW j \in DOMAIN C, NEW k \in Succs(C, j)
      PROVE  W[k][1] \subseteq Passed(C[j].term, Last(W[j]))
  <2>1. CASE j = i
    BY <1>1, <2>1 DEF Succs
  <2>2. CASE j # i
    BY <1>1, <2>2 DEF Succs, OwnedIn
  <2> QED
    BY <2>1, <2>2
<1>5. OwnedIn(C, T, W)
  BY <1>1, <1>3, <1>4 DEF OwnedIn
<1> QED
  BY <1>5 DEF C

LEMMA OwnedPush ==
  ASSUME NEW B, NEW T, NEW W, GoodBody(B, T), OwnedIn(B, T, W), NEW i \in 1..Len(B),
         B[i].term = NoTerm, NEW s, NEW R, Strings(R, T), OwnedStep(s, Last(W[i]), R, T)
  PROVE  Grown(push_stmt(B, i, s), T, B, W, i, i, R)
<1> USE DEF Strings
<1> DEFINE C == push_stmt(B, i, s)
           w == Append(W[i], R)
           n == Len(B[i].stmts)
           V == [j \in DOMAIN B |-> IF j = i THEN w ELSE W[j]]
<1>0. DOMAIN B = 1..Len(B) /\ B[i] \in MirBlock
  BY LenProperties DEF GoodBody
<1>1. DOMAIN C = DOMAIN B /\ (\A j \in DOMAIN B : j # i => C[j] = B[j])
      /\ C[i].term = B[i].term /\ C[i].stmts = Append(B[i].stmts, s)
  BY PushIs
<1> HIDE DEF C
<1>2. B[i].stmts \in Seq(MirStmt) /\ n \in Nat /\ DOMAIN B[i].stmts = 1..n
  <2>1. B[i].stmts \in Seq(MirStmt)
    BY <1>0 DEF MirBlock
  <2> QED
    BY <2>1, LenProperties
<1>3. W[i] \in Seq(SUBSET Nat) /\ Len(W[i]) = n + 1 /\ DOMAIN W[i] = 1..(n + 1)
      /\ Last(W[i]) = W[i][n + 1]
  <2>1. W[i] \in Seq(SUBSET Nat) /\ Len(W[i]) = n + 1
    BY <1>0 DEF OwnedIn, OwnedBlock
  <2> QED
    BY <2>1, LenProperties DEF Last
<1>4. /\ w \in Seq(SUBSET Nat) /\ Len(w) = n + 2 /\ w[n + 2] = R
      /\ \A k \in 1..(n + 1) : w[k] = W[i][k]
  BY <1>2, <1>3, AppendProperties
<1>5. DOMAIN w = 1..(n + 2)
  BY <1>4, LenProperties
<1>6. Last(w) = R
  BY <1>4 DEF Last
<1>7. DOMAIN V = DOMAIN B /\ V[i] = w /\ \A j \in DOMAIN B : j # i => V[j] = W[j]
  BY <1>0
<1> HIDE DEF V, w
<1>8. V[i][1] = W[i][1]
  BY <1>2, <1>4, <1>7
<1>9. \A j \in DOMAIN B : V[j][1] = W[j][1]
  BY <1>7, <1>8
<1>10. /\ Len(C[i].stmts) = n + 1 /\ DOMAIN C[i].stmts = 1..(n + 1) /\ C[i].stmts[n + 1] = s
       /\ \A k \in 1..n : C[i].stmts[k] = B[i].stmts[k]
  <2> DEFINE u == B[i].stmts
             v == Append(u, s)
  <2>1. v = C[i].stmts
    BY <1>1
  <2>2. u \in Seq(MirStmt \cup {s})
    BY <1>2
  <2>3. v \in Seq(MirStmt \cup {s}) /\ Len(v) = n + 1 /\ v[n + 1] = s /\ \A k \in 1..n : v[k] = u[k]
    BY <2>2, AppendProperties
  <2>4. DOMAIN v = 1..(n + 1)
    BY <2>3, LenProperties
  <2> QED
    BY <2>1, <2>3, <2>4
<1> HIDE DEF n
<1>11. OwnedBlock(C[i], w, T)
  <2>1. ASSUME NEW k \in DOMAIN w, NEW x \in w[k] PROVE Has(T, x, "string")
    <3>1. k \in 1..(n + 1) \/ k = n + 2
      BY <1>2, <1>5
    <3>2. CASE k \in 1..(n + 1)
      BY <1>0, <1>3, <1>4, <2>1, <3>2 DEF OwnedIn, OwnedBlock
    <3>3. CASE k = n + 2
      BY <1>4, <2>1, <3>3
    <3> QED
      BY <3>1, <3>2, <3>3
  <2>2. ASSUME NEW k \in DOMAIN C[i].stmts
        PROVE  OwnedStep(C[i].stmts[k], w[k], w[k + 1], T)
    <3>1. k \in 1..n \/ k = n + 1
      BY <1>2, <1>10
    <3>2. CASE k \in 1..n
      <4>1. k \in 1..(n + 1) /\ k + 1 \in 1..(n + 1)
        BY <1>2, <3>2
      <4>2. OwnedStep(B[i].stmts[k], W[i][k], W[i][k + 1], T)
        BY <1>0, <1>2, <3>2 DEF OwnedIn, OwnedBlock
      <4> QED
        BY <1>4, <1>10, <3>2, <4>1, <4>2
    <3>3. CASE k = n + 1
      <4>1. n + 1 \in 1..(n + 1) /\ n + 1 + 1 = n + 2
        BY <1>2
      <4> QED
        BY <1>3, <1>4, <1>10, <3>3, <4>1
    <3> QED
      BY <3>1, <3>2, <3>3
  <2>3. Len(w) = Len(C[i].stmts) + 1
    BY <1>2, <1>4, <1>10
  <2>4. OwnedArgs(C[i].term, C[i].stmts, Last(w), T)
    BY <1>1, NoArgs
  <2> QED
    BY <1>4, <2>1, <2>2, <2>3, <2>4 DEF OwnedBlock
<1>12. ASSUME NEW j \in DOMAIN C PROVE OwnedBlock(C[j], V[j], T)
  BY <1>1, <1>7, <1>11 DEF OwnedIn
<1>13. ASSUME NEW j \in DOMAIN C, NEW k \in Succs(C, j)
       PROVE  V[k][1] \subseteq Passed(C[j].term, Last(V[j]))
  <2>1. CASE j = i
    BY <1>1, <2>1, EmptySuccs
  <2>2. CASE j # i
    <3>1. k \in Succs(B, j) /\ j \in DOMAIN B /\ C[j] = B[j] /\ V[j] = W[j]
      BY <1>1, <1>7, <2>2 DEF Succs
    <3>2. k \in DOMAIN B
      BY <1>0, <3>1 DEF Succs, GoodBody, TypedTerm
    <3> QED
      BY <1>9, <3>1, <3>2 DEF OwnedIn
  <2> QED
    BY <2>1, <2>2
<1>14. Entry \in DOMAIN B
  BY <1>0 DEF GoodBody, Entry
<1>15. OwnedIn(C, T, V)
  BY <1>1, <1>7, <1>9, <1>12, <1>13, <1>14 DEF OwnedIn
<1>16. Extends(B, W, C, V, i)
  BY <1>1, <1>7, <1>8 DEF Extends
<1>17. Last(V[i]) = R
  BY <1>6, <1>7
<1> QED
  BY <1>15, <1>16, <1>17 DEF C, Grown

\* A block that is empty still may be said to own less.
LEMMA OwnedTrim ==
  ASSUME NEW B, NEW T, NEW W, GoodBody(B, T), OwnedIn(B, T, W), NEW i \in 1..Len(B),
         B[i] = EmptyBlock, NEW S \in SUBSET W[i][1]
  PROVE  Trimmed(B, T, W, i, S)
<1> DEFINE V == [j \in DOMAIN B |-> IF j = i THEN <<S>> ELSE W[j]]
<1>0. DOMAIN B = 1..Len(B) /\ i \in DOMAIN B /\ Entry \in DOMAIN B
  BY LenProperties DEF GoodBody, Entry
<1>1. DOMAIN V = DOMAIN B /\ V[i] = <<S>> /\ \A j \in DOMAIN B : j # i => V[j] = W[j]
  BY <1>0
<1> HIDE DEF V
<1>2. Strings(S, T)
  BY <1>0, OwnedFirst DEF Strings
<1>3. OwnedBlock(EmptyBlock, <<S>>, T) /\ <<S>>[1] = S
  BY <1>2, OwnedOne
<1>4. \A j \in DOMAIN B : V[j][1] \subseteq W[j][1]
  BY <1>1, <1>3
<1>5. ASSUME NEW j \in DOMAIN B PROVE OwnedBlock(B[j], V[j], T)
  BY <1>1, <1>3 DEF OwnedIn
<1>6. ASSUME NEW j \in DOMAIN B, NEW k \in Succs(B, j)
      PROVE  V[k][1] \subseteq Passed(B[j].term, Last(V[j]))
  <2>1. CASE j = i
    BY <2>1, EmptySuccs
  <2>2. CASE j # i
    <3>1. k \in DOMAIN B
      BY <1>0 DEF Succs, GoodBody, TypedTerm
    <3>2. W[k][1] \subseteq Passed(B[j].term, Last(W[j]))
      BY DEF OwnedIn
    <3> QED
      BY <1>1, <1>4, <2>2, <3>1, <3>2
  <2> QED
    BY <2>1, <2>2
<1>7. V[Entry][1] = {}
  BY <1>0, <1>4 DEF OwnedIn
<1>8. OwnedIn(B, T, V)
  BY <1>1, <1>5, <1>6, <1>7 DEF OwnedIn
<1> QED
  BY <1>1, <1>8 DEF Trimmed

-----------------------------------------------------------------------------
(* The constructs that are open nest: the blocks they go on in are empty and  *)
(* theirs alone, and what was in scope outside was defined outside.           *)

Pending(f) == {f.after} \cup IF f.kind \in {"then", "for"} THEN {f.other} ELSE {}
IsLoop(f) == f.kind \in {"loop", "for"}
HeadOf(f) == IF f.kind = "loop" THEN f.other ELSE f.head
LoopsIn(F, p) == {i \in 1..p : IsLoop(F[i])}

PendingOf(F, B, i) ==
  /\ \A p \in DOMAIN F : \A t \in Pending(F[p]) : B[t] = EmptyBlock /\ t # i
  /\ \A p, q \in DOMAIN F : p # q => Pending(F[p]) \cap Pending(F[q]) = {}
  /\ \A p \in DOMAIN F : F[p].kind \in {"then", "for"} => F[p].other # F[p].after

ScopesNest(F, S, T) ==
  /\ \A p, q \in DOMAIN F : p <= q => F[p].scope \subseteq F[q].scope
  /\ \A p \in DOMAIN F : F[p].scope \subseteq S
  /\ \A p \in DOMAIN F : \A x \in F[p].scope : T[x].loops <= Cardinality(LoopsIn(F, p - 1))
  /\ \A x \in S : T[x].loops <= Cardinality(LoopsIn(F, Len(F)))

\* The strings of S that can be mentioned still.
Avail(S) == {x \in S : Has(locals, x, "string") /\ x \notin moved}

\* Those own a buffer: now, and where an open construct goes on with them.
Offered(W) ==
  /\ Avail(scope) \subseteq Last(W[current])
  /\ \A p \in DOMAIN frames : \A t \in Pending(frames[p]) :
       Avail(frames[p].scope) \subseteq W[t][1]
  /\ \A p \in DOMAIN frames :
       IsLoop(frames[p]) => W[HeadOf(frames[p])][1] \subseteq Avail(frames[p].scope)

StringsInv ==
  /\ blocks[current].term = NoTerm
  /\ PendingOf(frames, blocks, current)
  /\ ScopesNest(frames, scope, locals)
  /\ \E W : OwnedIn(blocks, locals, W) /\ Offered(W)

LEMMA LoopsBelow ==
  ASSUME NEW F \in Seq(MirFrame)
  PROVE  /\ \A p \in DOMAIN F : Cardinality(LoopsIn(F, p - 1)) \in Nat
         /\ Cardinality(LoopsIn(F, Len(F))) \in Nat
         /\ \A p \in DOMAIN F :
              IsLoop(F[p]) => Cardinality(LoopsIn(F, p - 1)) < Cardinality(LoopsIn(F, Len(F)))
<1>0. Len(F) \in Nat /\ DOMAIN F = 1..Len(F)
  BY LenProperties
<1>1. ASSUME NEW p \in Nat PROVE IsFiniteSet(LoopsIn(F, p)) /\ Cardinality(LoopsIn(F, p)) \in Nat
  <2>1. IsFiniteSet(1..p) /\ LoopsIn(F, p) \subseteq 1..p
    BY FS_Interval DEF LoopsIn
  <2> QED
    BY <2>1, FS_Subset, FS_CardinalityType
<1>2. ASSUME NEW p \in DOMAIN F, IsLoop(F[p])
      PROVE  Cardinality(LoopsIn(F, p - 1)) < Cardinality(LoopsIn(F, Len(F)))
  <2> DEFINE all == LoopsIn(F, Len(F))
             below == LoopsIn(F, p - 1)
  <2>1. p \in all /\ below \subseteq all \ {p}
    BY <1>0, <1>2 DEF LoopsIn
  <2>2. IsFiniteSet(all) /\ Cardinality(all) \in Nat
    BY <1>0, <1>1
  <2>3. p - 1 \in Nat
    BY <1>0
  <2> HIDE DEF all, below
  <2>4. Cardinality(all \ {p}) = Cardinality(all) - 1 /\ IsFiniteSet(all \ {p})
    BY <2>1, <2>2, FS_RemoveElement
  <2>5. Cardinality(below) <= Cardinality(all \ {p})
    BY <2>1, <2>4, FS_Subset
  <2>6. Cardinality(below) \in Nat
    BY <1>1, <2>3 DEF below
  <2> QED
    BY <2>2, <2>4, <2>5, <2>6 DEF all, below
<1>3. \A p \in DOMAIN F : p - 1 \in Nat
  BY <1>0
<1> QED
  BY <1>0, <1>1, <1>2, <1>3

LEMMA LoopsAre == ASSUME LowerInv PROVE Loops = Cardinality(LoopsIn(frames, Len(frames)))
<1>1. frames \in Seq(MirFrame) /\ DOMAIN frames = 1..Len(frames)
  BY LenProperties DEF LowerInv, GoodFrames
<1>2. LoopFrames = LoopsIn(frames, Len(frames))
  BY <1>1 DEF LoopFrames, LoopsIn, IsLoop
<1> QED
  BY <1>2 DEF Loops

LEMMA FramesAre ==
  ASSUME LowerInv, NEW p \in DOMAIN frames
  PROVE  /\ Pending(frames[p]) \subseteq DOMAIN blocks
         /\ IsLoop(frames[p]) => HeadOf(frames[p]) \in DOMAIN blocks
         /\ frames[p].scope \subseteq DOMAIN locals
  BY Sizes DEF LowerInv, GoodFrames, Pending, HeadOf, IsLoop

\* The block i ends and a new one follows.
GoesOn(B, i, t) == set_terminator(create_block(B, 1), i, t)

LEMMA OwnedGoesOn ==
  ASSUME NEW B, NEW T, NEW W, GoodBody(B, T), OwnedIn(B, T, W), NEW i \in 1..Len(B), NEW t,
         TypedTerm(t, T, Len(B) + 1), Range(t.to) = {Len(B) + 1},
         NEW S, Strings(S, T),
         S \subseteq Passed(t, Last(W[i])), OwnedArgs(t, B[i].stmts, Last(W[i]), T)
  PROVE  /\ Grown(GoesOn(B, i, t), T, B, W, i, Len(B) + 1, S)
         /\ GoodBody(GoesOn(B, i, t), T) /\ Len(GoesOn(B, i, t)) = Len(B) + 1
         /\ GoesOn(B, i, t)[Len(B) + 1] = EmptyBlock
<1> DEFINE C == create_block(B, 1)
           D == set_terminator(C, i, t)
           n == Len(B)
<1>0. n \in Nat /\ DOMAIN B = 1..n /\ i \in 1..n /\ 1 \in Nat /\ n + 1 \in (n + 1)..(n + 1)
  BY LenProperties DEF GoodBody
<1>1. GoodBody(C, T) /\ Len(C) = n + 1
  BY <1>0, CreateGood
<1>2. (\A j \in 1..n : C[j] = B[j]) /\ C[n + 1] = EmptyBlock /\ DOMAIN C = 1..(n + 1)
  <2>1. /\ DOMAIN C = 1..(Len(B) + 1) /\ \A j \in 1..Len(B) : C[j] = B[j]
        /\ \A j \in (Len(B) + 1)..(Len(B) + 1) : C[j] = EmptyBlock
    BY <1>0, CreateIs
  <2> HIDE DEF C
  <2> QED
    BY <1>0, <2>1
<1>3. PICK V : OwnedIn(C, T, V) /\ (\A j \in 1..n : V[j] = W[j]) /\ V[n + 1] = <<S>>
  <2>1. Created(B, T, W, 1, S)
    BY <1>0, OwnedCreate
  <2>2. \E V : /\ OwnedIn(C, T, V)
               /\ \A j \in 1..n : V[j] = W[j]
               /\ \A j \in (n + 1)..(n + 1) : V[j] = <<S>>
    BY <2>1 DEF Created
  <2> QED
    BY <1>0, <2>2
<1> HIDE DEF C, n
<1>4. i \in 1..Len(C) /\ n + 1 # i /\ n + 1 \in 1..(n + 1)
  BY <1>0, <1>1
<1>5. TypedTerm(t, T, Len(C)) /\ Range(t.to) = {n + 1}
  BY <1>1 DEF n
<1>6. GoodBody(D, T) /\ Len(D) = n + 1
  BY <1>1, <1>4, <1>5, SetGood
<1>7. DOMAIN D = 1..(n + 1) /\ \A j \in 1..(n + 1) : j # i => D[j] = C[j]
  BY <1>1, <1>2, <1>4, SetIs
<1>8. \A j \in Range(t.to) : V[j][1] \subseteq Passed(t, Last(V[i]))
  <2>1. V[i] = W[i] /\ <<S>>[1] = S
    BY <1>0, <1>3
  <2> QED
    BY <1>3, <1>5, <2>1
<1>9. OwnedArgs(t, C[i].stmts, Last(V[i]), T)
  BY <1>0, <1>2, <1>3
<1>10. OwnedIn(D, T, V)
  BY <1>1, <1>3, <1>4, <1>8, <1>9, OwnedSet
<1> HIDE DEF D
<1>11. Extends(B, W, D, V, i)
  <2>1. \A j \in 1..n : j \in 1..(n + 1)
    BY <1>0
  <2> QED
    BY <1>0, <1>2, <1>3, <1>7, <2>1 DEF Extends
<1>12. D[n + 1] = EmptyBlock /\ Last(V[n + 1]) = S
  BY <1>2, <1>3, <1>4, <1>7, OwnedOne
<1>13. Grown(D, T, B, W, i, n + 1, S)
  BY <1>10, <1>11, <1>12 DEF Grown
<1> QED
  BY <1>6, <1>12, <1>13 DEF GoesOn, C, D, n

\* Such steps follow each other, at the block a first one ended with.
Goes(B, i, C, k) == k \in 1..Len(C) /\ (k = i \/ k \notin DOMAIN B)

LEMMA ExtendsOn ==
  ASSUME NEW B, NEW W, NEW C, NEW V, NEW D, NEW U, NEW i, NEW k,
         Extends(B, W, C, V, i), Extends(C, V, D, U, k), i \in DOMAIN B,
         k = i \/ k \notin DOMAIN B
  PROVE  Extends(B, W, D, U, i)
<1>1. ASSUME NEW j \in DOMAIN B, j # k PROVE D[j] = C[j] /\ U[j] = V[j]
  BY <1>1 DEF Extends
<1>2. U[i][1] = W[i][1]
  BY <1>1 DEF Extends
<1> QED
  BY <1>1, <1>2 DEF Extends

LEMMA GrownOn ==
  ASSUME NEW B, NEW W, NEW C, NEW V, NEW D, NEW T, NEW i, NEW k, NEW l, NEW S,
         Extends(B, W, C, V, i), Grown(D, T, C, V, k, l, S), i \in DOMAIN B,
         k = i \/ k \notin DOMAIN B
  PROVE  Grown(D, T, B, W, i, l, S)
<1>1. PICK U : OwnedIn(D, T, U) /\ Extends(C, V, D, U, k) /\ Last(U[l]) = S
  BY DEF Grown
<1>2. Extends(B, W, D, U, i)
  BY <1>1, ExtendsOn
<1> QED
  BY <1>1, <1>2 DEF Grown

\* One of them keeps the body good.
Growing(C, T, B, W, i, k, S) ==
  /\ GoodBody(C, T) /\ i \in DOMAIN B /\ DOMAIN B \subseteq DOMAIN C
  /\ Goes(B, i, C, k) /\ Strings(S, T)
  /\ Grown(C, T, B, W, i, k, S)

\* A statement that can be pushed where S is owned, and leaves R.
Pushes(st, S, R, T) == TypedStmt(st, T) /\ Strings(R, T) /\ OwnedStep(st, S, R, T)

\* A terminator after stmts that goes to the block n, which owns R.
Continues(t, n, stmts, S, R, T) ==
  /\ TypedTerm(t, T, n) /\ Range(t.to) = {n}
  /\ Strings(R, T) /\ R \subseteq Passed(t, S) /\ OwnedArgs(t, stmts, S, T)

LEMMA GrownSelf ==
  ASSUME NEW B, NEW T, NEW U, NEW W, GoodBody(B, T), OwnedIn(B, T, W), NEW i \in DOMAIN B,
         Longer(T, U)
  PROVE  Growing(B, U, B, W, i, i, Last(W[i]))
<1>1. OwnedIn(B, U, W) /\ GoodBody(B, U)
  BY OwnedLonger, LongerGood
<1>2. Extends(B, W, B, W, i)
  BY DEF Extends
<1>3. Strings(Last(W[i]), U)
  BY <1>1, OwnedFirst DEF Strings
<1>4. DOMAIN B = 1..Len(B)
  BY LenProperties DEF GoodBody
<1>5. Grown(B, U, B, W, i, i, Last(W[i]))
  BY <1>1, <1>2 DEF Grown
<1> QED
  BY <1>1, <1>3, <1>4, <1>5 DEF Growing, Goes

LEMMA GrownPush ==
  ASSUME NEW B, NEW T, NEW W, NEW C, NEW i, NEW k, NEW S, Growing(C, T, B, W, i, k, S),
         C[k].term = NoTerm, NEW s, NEW R, Pushes(s, S, R, T)
  PROVE  /\ Growing(push_stmt(C, k, s), T, B, W, i, k, R)
         /\ Len(push_stmt(C, k, s)) = Len(C)
         /\ push_stmt(C, k, s)[k].term = NoTerm
         /\ push_stmt(C, k, s)[k].stmts = Append(C[k].stmts, s)
<1>1. k \in 1..Len(C) /\ (k = i \/ k \notin DOMAIN B) /\ i \in DOMAIN B /\ GoodBody(C, T)
  BY DEF Growing, Goes
<1>2. PICK V : OwnedIn(C, T, V) /\ Extends(B, W, C, V, i) /\ Last(V[k]) = S
  BY DEF Grown, Growing
<1>3. Grown(push_stmt(C, k, s), T, C, V, k, k, R)
  BY <1>1, <1>2, OwnedPush DEF Pushes
<1>4. Grown(push_stmt(C, k, s), T, B, W, i, k, R)
  BY <1>1, <1>2, <1>3, GrownOn
<1>5. GoodBody(push_stmt(C, k, s), T) /\ Len(push_stmt(C, k, s)) = Len(C)
  BY <1>1, PushGood DEF Pushes
<1>6. /\ push_stmt(C, k, s)[k].term = NoTerm
      /\ push_stmt(C, k, s)[k].stmts = Append(C[k].stmts, s)
      /\ DOMAIN push_stmt(C, k, s) = DOMAIN C
  BY <1>1, PushIs
<1>7. DOMAIN B \subseteq DOMAIN push_stmt(C, k, s) /\ Goes(B, i, push_stmt(C, k, s), k)
  BY <1>1, <1>5, <1>6 DEF Growing, Goes
<1> QED
  BY <1>1, <1>4, <1>5, <1>6, <1>7 DEF Growing, Pushes

LEMMA GrownGoesOn ==
  ASSUME NEW B, NEW T, NEW W, NEW C, NEW i, NEW k, NEW S, Growing(C, T, B, W, i, k, S),
         NEW t, NEW R, Continues(t, Len(C) + 1, C[k].stmts, S, R, T)
  PROVE  /\ Growing(GoesOn(C, k, t), T, B, W, i, Len(C) + 1, R)
         /\ Len(GoesOn(C, k, t)) = Len(C) + 1
         /\ GoesOn(C, k, t)[Len(C) + 1] = EmptyBlock
<1> DEFINE n == Len(C)
           D == GoesOn(C, k, t)
<1>1. k \in 1..n /\ (k = i \/ k \notin DOMAIN B) /\ i \in DOMAIN B /\ GoodBody(C, T)
      /\ DOMAIN B \subseteq DOMAIN C
  BY DEF Growing, Goes
<1>2. PICK V : OwnedIn(C, T, V) /\ Extends(B, W, C, V, i) /\ Last(V[k]) = S
  BY DEF Grown, Growing
<1>3. /\ Grown(D, T, C, V, k, n + 1, R)
      /\ GoodBody(D, T) /\ Len(D) = n + 1 /\ D[n + 1] = EmptyBlock
  BY <1>1, <1>2, OwnedGoesOn DEF Continues
<1> HIDE DEF D
<1>4. Grown(D, T, B, W, i, n + 1, R)
  BY <1>1, <1>2, <1>3, GrownOn
<1>5. n \in Nat /\ DOMAIN C = 1..n /\ DOMAIN D = 1..(n + 1)
  BY <1>1, <1>3, LenProperties DEF GoodBody
<1>6. DOMAIN B \subseteq DOMAIN D /\ Goes(B, i, D, n + 1)
  BY <1>1, <1>3, <1>5 DEF Goes
<1>7. Strings(R, T)
  BY DEF Continues
<1> QED
  BY <1>1, <1>3, <1>4, <1>6, <1>7 DEF Growing, D

\* A statement: the open constructs stay as they are. A string it moves was defined in
\* the innermost loop.
LEMMA StatementStep ==
  ASSUME LowerInv, StringsInv, NEW W, OwnedIn(blocks, locals, W), Offered(W),
         NEW S, Growing(blocks', locals', blocks, W, current, current', S), frames' = frames, Longer(locals, locals'),
         blocks'[current'].term = NoTerm,
         scope \subseteq scope', \A x \in scope' \ scope : locals'[x].loops = Loops,
         moved \subseteq moved',
         \A x \in moved' \ moved : locals[x].type = "string" => locals[x].loops = Loops,
         \A x \in scope' : Has(locals', x, "string") /\ x \notin moved' => x \in S
  PROVE  StringsInv'
<1>a. PICK V : /\ OwnedIn(blocks', locals', V) /\ Extends(blocks, W, blocks', V, current)
               /\ Last(V[current']) = S
  BY DEF Grown, Growing
<1>b. current' = current \/ current' \notin DOMAIN blocks
  BY DEF Growing, Goes
<1>0. /\ frames \in Seq(MirFrame) /\ scope \subseteq DOMAIN locals /\ current \in DOMAIN blocks
      /\ DOMAIN blocks = 1..Len(blocks) /\ DOMAIN frames = 1..Len(frames)
  BY Sizes, LenProperties DEF LowerInv, GoodFrames
<1>1. \A x \in DOMAIN locals : x \in DOMAIN locals' /\ locals'[x] = locals[x]
  BY LenProperties DEF Longer
<1>2. PendingOf(frames', blocks', current')
  <2>1. ASSUME NEW p \in DOMAIN frames, NEW t \in Pending(frames[p])
        PROVE  blocks'[t] = EmptyBlock /\ t # current'
    <3>1. t \in DOMAIN blocks
      BY FramesAre
    <3>2. blocks[t] = EmptyBlock /\ t # current
      BY DEF StringsInv, PendingOf
    <3> QED
      BY <1>a, <1>b, <3>1, <3>2 DEF Extends
  <2> QED
    BY <2>1 DEF StringsInv, PendingOf
<1>3. ScopesNest(frames', scope', locals')
  <2>1. ASSUME NEW x \in scope' PROVE locals'[x].loops <= Cardinality(LoopsIn(frames, Len(frames)))
    <3>1. CASE x \in scope
      BY <1>0, <1>1, <3>1 DEF StringsInv, ScopesNest
    <3>2. CASE x \notin scope
      BY <1>0, <3>2, LoopsAre, LoopsBelow
    <3> QED
      BY <3>1, <3>2
  <2>2. ASSUME NEW p \in DOMAIN frames, NEW x \in frames[p].scope
        PROVE  locals'[x].loops <= Cardinality(LoopsIn(frames, p - 1))
    BY <1>1, FramesAre DEF StringsInv, ScopesNest
  <2> QED
    BY <2>1, <2>2 DEF StringsInv, ScopesNest
<1>4. ASSUME NEW p \in DOMAIN frames
      PROVE  /\ Avail(frames[p].scope)' \subseteq Avail(frames[p].scope)
             /\ IsLoop(frames[p]) => Avail(frames[p].scope) \subseteq Avail(frames[p].scope)'
  <2>0. frames'[p].scope = frames[p].scope
    OBVIOUS
  <2>1. ASSUME NEW x \in frames[p].scope PROVE Has(locals', x, "string") <=> Has(locals, x, "string")
    BY <1>1, FramesAre DEF Has
  <2>2. ASSUME NEW x \in frames[p].scope, IsLoop(frames[p]), x \in moved' \ moved,
               Has(locals, x, "string")
        PROVE  FALSE
    <3>1. locals[x].loops = Loops
      BY <2>2 DEF Has
    <3>2. locals[x].loops <= Cardinality(LoopsIn(frames, p - 1))
      BY DEF StringsInv, ScopesNest
    <3>3. Cardinality(LoopsIn(frames, p - 1)) < Loops /\ Loops \in Nat
          /\ Cardinality(LoopsIn(frames, p - 1)) \in Nat
      BY <1>0, <2>2, LoopsBelow, LoopsAre
    <3> QED
      BY <3>1, <3>2, <3>3
  <2>3. Avail(frames[p].scope)' = {x \in frames[p].scope : Has(locals', x, "string") /\ x \notin moved'}
    BY <2>0 DEF Avail
  <2>4. Avail(frames[p].scope)' \subseteq Avail(frames[p].scope)
    BY <2>1, <2>3 DEF Avail
  <2>5. IsLoop(frames[p]) => Avail(frames[p].scope) \subseteq Avail(frames[p].scope)'
    BY <2>1, <2>2, <2>3 DEF Avail
  <2> QED
    BY <2>4, <2>5
<1>5. Offered(V)'
  <2>1. Avail(scope)' \subseteq Last(V[current'])
    BY <1>a DEF Avail
  <2>2. ASSUME NEW p \in DOMAIN frames, NEW t \in Pending(frames[p])
        PROVE  Avail(frames[p].scope)' \subseteq V[t][1]
    <3>1. t \in DOMAIN blocks \ {current}
      BY FramesAre DEF StringsInv, PendingOf
    <3>2. V[t] = W[t]
      BY <1>a, <3>1 DEF Extends
    <3> QED
      BY <1>4, <3>2 DEF Offered
  <2>3. ASSUME NEW p \in DOMAIN frames, IsLoop(frames[p])
        PROVE  V[HeadOf(frames[p])][1] \subseteq Avail(frames[p].scope)'
    <3>1. V[HeadOf(frames[p])][1] = W[HeadOf(frames[p])][1]
      BY <1>a, <2>3, FramesAre DEF Extends
    <3> QED
      BY <1>4, <2>3, <3>1 DEF Offered
  <2> QED
    BY <2>1, <2>2, <2>3 DEF Offered
<1> QED
  BY <1>a, <1>2, <1>3, <1>5 DEF StringsInv

\* A call into a temporary r that a move takes from it to y.
CallInto(n, fn, args, r, y) ==
  push_stmt(GoesOn(blocks, current, Call(fn, args, r, n + 1)), n + 1, Stmt("move", y, r))

\* What the call of such a type leaves owned, when S was, and y takes the result.
CallLeaves(type, S, y) == IF type = "string" THEN S \cup {y} ELSE S
StringsFrom(args, S) == \A x \in Range(args) : Has(locals, x, "string") => x \in S

LEMMA CallGrown ==
  ASSUME LowerInv, NEW W, OwnedIn(blocks, locals, W), NEW U, Longer(locals, U),
         NEW type \in {"string", "linear"}, NEW fn, NEW args, CallFits(fn, args, type),
         StringsFrom(args, Last(W[current])),
         NEW r, Has(U, r, type), r \notin DOMAIN locals, NEW y, Has(U, y, type),
         NEW n, n = Len(blocks)
  PROVE  /\ Growing(CallInto(n, fn, args, r, y), U, blocks, W, current, n + 1,
                    CallLeaves(type, Last(W[current]), y))
         /\ CallInto(n, fn, args, r, y)[n + 1].term = NoTerm
<1> DEFINE S == Last(W[current])
           P == CallLeaves(type, S, r)
           R == CallLeaves(type, S, y)
           t == Call(fn, args, r, n + 1)
           D == GoesOn(blocks, current, t)
           s == Stmt("move", y, r)
<1>0. n \in Nat /\ current \in 1..n /\ DOMAIN blocks = 1..n /\ GoodBody(blocks, locals)
      /\ U \in Seq(MirLocal) /\ n + 1 \in 1..(n + 1) /\ n + 1 \in Nat /\ current \in DOMAIN blocks
  BY Sizes DEF LowerInv, Longer
<1>1. Growing(blocks, U, blocks, W, current, current, S)
  BY <1>0, GrownSelf
<1>2. r \notin S
  BY <1>0, OwnedFirst DEF Has
<1> HIDE DEF S
<1>3. r \in Nat /\ y \in Nat
  BY <1>0, LenProperties DEF Has
<1>4. TypedTerm(t, U, n + 1)
  BY <1>0, <1>3, CallTyped
<1>5. Range(t.to) = {n + 1} /\ t.op = "call" /\ t.fn = fn /\ t.dest = r /\ t.args = args
  <2>1. \A b : Range(<<b>>) = {b}
    BY DEF Range
  <2> QED
    BY <2>1 DEF Call
<1> HIDE DEF t
<1>6. Passed(t, S) = P
  <2>1. fn = "concat" <=> type = "string"
    BY HelpersAssumption DEF CallFits
  <2> QED
    BY <1>5, <2>1 DEF Passed, CallLeaves
<1>7. OwnedArgs(t, blocks[current].stmts, S, U)
  <2>0. Range(<<>>) = {} /\ \A a : Range(<<a>>) = {a}
    BY DEF Range
  <2>1. ASSUME NEW x \in Range(args), Has(U, x, "string") PROVE x \in S
    <3>1. x \in DOMAIN locals
      BY <2>0 DEF CallFits, Has
    <3>2. Has(locals, x, "string")
      BY <2>1, <3>1 DEF Has, Longer
    <3> QED
      BY <3>2 DEF S, StringsFrom
  <2>2. ASSUME NEW x \in Range(args) PROVE ~Has(U, x, "pointer")
    <3>2. Has(locals, x, "string") \/ Has(locals, x, "ref")
      BY <2>0 DEF CallFits
    <3>3. Has(U, x, "string") \/ Has(U, x, "ref")
      BY <3>2, HasLonger
    <3> QED
      BY <3>3 DEF Has
  <2> QED
    BY <1>5, <2>1, <2>2 DEF OwnedArgs
<1>8. Strings(P, U) /\ P \subseteq Passed(t, S)
  BY <1>1, <1>3, <1>6 DEF Strings, Growing, CallLeaves
<1>9. Strings(R, U)
  BY <1>1, <1>3 DEF Strings, Growing, CallLeaves
<1>10. \A x : x \in P <=> (x \in S \/ (type = "string" /\ x = r))
  BY DEF CallLeaves
<1>11. \A x : x \in R <=> (x \in S \/ (type = "string" /\ x = y))
  BY DEF CallLeaves
<1> HIDE DEF P, R
<1>12. Continues(t, Len(blocks) + 1, blocks[current].stmts, S, P, U)
  BY <1>4, <1>5, <1>7, <1>8 DEF Continues
<1>13. /\ Growing(D, U, blocks, W, current, n + 1, P)
       /\ Len(D) = n + 1 /\ D[n + 1] = EmptyBlock
  BY <1>1, <1>12, GrownGoesOn
<1>14. TypedStmt(s, U) /\ s.op = "move" /\ s.dest = y /\ s.src = r
  BY <1>0, MoveTyped
<1>15. CallInto(n, fn, args, r, y) = push_stmt(D, n + 1, s)
  BY DEF CallInto, D, t, s
<1> HIDE DEF D, s
<1>16. Pushes(s, P, R, U)
  <2>1. Has(U, r, "string") <=> type = "string"
    BY DEF Has
  <2>2. OwnedStep(s, P, R, U)
    BY <1>2, <1>10, <1>11, <1>14, <2>1 DEF OwnedStep
  <2> QED
    BY <1>9, <1>14, <2>2 DEF Pushes
<1>17. D[n + 1].term = NoTerm
  BY <1>13, EmptySuccs
<1>18. /\ Growing(push_stmt(D, n + 1, s), U, blocks, W, current, n + 1, R)
       /\ push_stmt(D, n + 1, s)[n + 1].term = NoTerm
  BY <1>13, <1>16, <1>17, GrownPush
<1> QED
  BY <1>15, <1>18 DEF R, S

\* A name that can be mentioned after a step, and was in scope, could be before.
LEMMA AvailLater ==
  ASSUME LowerInv, NEW U, Longer(locals, U), NEW x \in scope, Has(U, x, "string"), x \notin moved
  PROVE  x \in Avail(scope)
<1>1. x \in DOMAIN locals /\ U[x] = locals[x]
  BY Sizes DEF LowerInv, Longer
<1> QED
  BY <1>1 DEF Avail, Has

LEMMA AddedIs ==
  ASSUME LowerInv, NEW T, Longer(locals, T), NEW type \in Types, NEW m, m = Len(T) + 1
  PROVE  /\ Longer(locals, T \o NewLocal(type)) /\ Longer(T, T \o NewLocal(type))
         /\ Len(T \o NewLocal(type)) = m /\ m \in Nat /\ m \notin DOMAIN locals
         /\ Has(T \o NewLocal(type), m, type)
         /\ (T \o NewLocal(type))[m].loops = Loops
<1> DEFINE new == [type |-> type, loops |-> Loops]
<1>1. new \in MirLocal /\ new.loops = Loops
  BY LoopsNat DEF MirLocal
<1>2. T \in Seq(MirLocal) /\ Len(T) \in Nat /\ locals \in Seq(MirLocal)
      /\ DOMAIN locals = 1..Len(locals) /\ Len(locals) <= Len(T) /\ Len(locals) \in Nat
  BY LenProperties DEF Longer
<1>3. T \o NewLocal(type) = Append(T, new)
  BY <1>1, <1>2, AppendIsConcat DEF NewLocal
<1> HIDE DEF new
<1>4. (T \o NewLocal(type))[m].loops = Loops
  BY <1>1, <1>2, <1>3, AppendProperties
<1>5. /\ Longer(T, T \o NewLocal(type)) /\ Len(T \o NewLocal(type)) = m
      /\ Has(T \o NewLocal(type), m, type)
  BY <1>2, LocalAdded
<1>6. Longer(locals, T \o NewLocal(type))
  BY <1>5, LongerTransitive
<1> QED
  BY <1>2, <1>4, <1>5, <1>6

LEMMA LetCallStrings ==
  ASSUME LowerInv, StringsInv, NEW fn, NEW args, NEW type \in {"string", "linear"},
         CallFits(fn, args, type), LetCall(fn, args, type), frames' = frames, moved' = moved,
         StringsFrom(args, Avail(scope))
  PROVE  StringsInv'
<1> DEFINE n == Len(blocks)
           m == Len(locals)
           T1 == locals \o NewLocal(type)
<1>0. m \in Nat /\ locals \in Seq(MirLocal) /\ type \in Types /\ Longer(locals, locals)
  BY Sizes, LongerSame DEF LowerInv, Types
<1>1. /\ locals' = T1 \o NewLocal(type) /\ blocks' = CallInto(n, fn, args, m + 1, m + 2)
      /\ current' = n + 1 /\ scope' = scope \cup {m + 2}
  BY DEF LetCall, CallInto, GoesOn
<1>2. Longer(locals, T1) /\ Len(T1) = m + 1 /\ Has(T1, m + 1, type) /\ m + 1 \notin DOMAIN locals
  BY <1>0, AddedIs
<1>3. m + 2 = Len(T1) + 1
  BY <1>0, <1>2
<1> HIDE DEF T1
<1>4. /\ Longer(locals, locals') /\ Longer(T1, locals') /\ Has(locals', m + 2, type)
      /\ locals'[m + 2].loops = Loops
  BY <1>0, <1>1, <1>2, <1>3, AddedIs
<1>5. Has(locals', m + 1, type)
  BY <1>2, <1>4, HasLonger
<1>6. PICK W : OwnedIn(blocks, locals, W) /\ Offered(W)
  BY DEF StringsInv
<1> DEFINE S == Last(W[current])
           R == CallLeaves(type, S, m + 2)
<1>7. Avail(scope) \subseteq S
  BY <1>6 DEF Offered
<1>8. \A x : x \in R <=> (x \in S \/ (type = "string" /\ x = m + 2))
  BY DEF CallLeaves
<1> HIDE DEF n, m
<1>9. /\ Growing(CallInto(n, fn, args, m + 1, m + 2), locals', blocks, W, current, n + 1, R)
      /\ CallInto(n, fn, args, m + 1, m + 2)[n + 1].term = NoTerm
  <2>1. n = Len(blocks) /\ StringsFrom(args, S)
    BY <1>7 DEF n, StringsFrom
  <2> QED
    BY <1>2, <1>4, <1>5, <1>6, <2>1, CallGrown
<1>10. ASSUME NEW x \in scope', Has(locals', x, "string"), x \notin moved' PROVE x \in R
  <2>1. CASE x \in scope
    BY <1>4, <1>7, <1>8, <1>10, <2>1, AvailLater
  <2>2. CASE x = m + 2
    BY <1>4, <1>8, <1>10, <2>2 DEF Has
  <2> QED
    BY <1>1, <2>1, <2>2
<1> HIDE DEF R
<1> QED
  BY <1>1, <1>4, <1>6, <1>9, <1>10, StatementStep

LEMMA UsableAvail ==
  ASSUME LowerInv, ~UsesAfterMove, NEW x \in Usable("string")
  PROVE  x \in Avail(scope) /\ Has(locals, x, "string") /\ x \in Nat
  BY UsableHas DEF Usable, Named, Avail

LEMMA LetConcatStrings ==
  ASSUME LowerInv, StringsInv, ~UsesAfterMove, LetConcat PROVE StringsInv'
<1>0. frames' = frames /\ moved' = moved
  BY DEF LetConcat
<1>1. CASE LetCall("concat", <<>>, "string")
  <2>1. CallFits("concat", <<>>, "string") /\ StringsFrom(<<>>, Avail(scope))
    BY DEF CallFits, StringsFrom, Range
  <2> QED
    BY <1>0, <1>1, <2>1, LetCallStrings
<1>2. ASSUME NEW x \in Usable("string"), LetCall("concat", <<x>>, "string") PROVE StringsInv'
  <2>1. /\ Has(locals, x, "string") /\ <<x>> \in Seq(Nat) /\ Range(<<x>>) = {x}
        /\ x \in Avail(scope)
    BY UsableAvail DEF Range
  <2>2. CallFits("concat", <<x>>, "string") /\ StringsFrom(<<x>>, Avail(scope))
    BY <2>1 DEF CallFits, StringsFrom
  <2> QED
    BY <1>0, <1>2, <2>2, LetCallStrings
<1> QED
  BY <1>1, <1>2 DEF LetConcat

LEMMA LetMintStrings == ASSUME LowerInv, StringsInv, LetMint PROVE StringsInv'
<1>1. CallFits("mint", <<>>, "linear") /\ StringsFrom(<<>>, Avail(scope))
  BY DEF CallFits, StringsFrom, Range
<1>2. frames' = frames /\ moved' = moved /\ LetCall("mint", <<>>, "linear")
  BY DEF LetMint
<1> QED
  BY <1>1, <1>2, LetCallStrings

LEMMA LetHelperStrings == ASSUME LowerInv, StringsInv, LetHelper PROVE StringsInv'
<1>1. PICK h \in Helpers, p \in Named("ref") : LetCall(h, <<p>>, "linear")
  BY DEF LetHelper
<1>2. Has(locals, p, "ref") /\ <<p>> \in Seq(Nat) /\ <<p>>[1] = p /\ Range(<<p>>) = {p}
  BY NamedHas DEF Range
<1>3. CallFits(h, <<p>>, "linear") /\ StringsFrom(<<p>>, Avail(scope))
  BY <1>2 DEF CallFits, StringsFrom, Has
<1>4. frames' = frames /\ moved' = moved
  BY DEF LetHelper
<1> QED
  BY <1>1, <1>3, <1>4, LetCallStrings

LEMMA AssignStrings == ASSUME LowerInv, StringsInv, ~UsesAfterMove, Assign PROVE StringsInv'
<1> DEFINE n == Len(blocks)
           m == Len(locals)
<1>1. PICK type \in {"string", "linear"}, x \in Named("string") \cup Named("linear") :
        /\ locals[x].type = type
        /\ x \in Usable(type)
        /\ LET call == IF type = "string"
                       THEN Call("concat", <<x>>, m + 1, n + 1)
                       ELSE Call("mint", <<>>, m + 1, n + 1)
           IN blocks' = push_stmt(set_terminator(create_block(blocks, 1), current, call),
                                  n + 1, Stmt("move", x, m + 1))
        /\ current' = n + 1
        /\ locals' = locals \o NewLocal(type)
  BY DEF Assign
<1> DEFINE fn == IF type = "string" THEN "concat" ELSE "mint"
           args == IF type = "string" THEN <<x>> ELSE <<>>
<1>2. /\ blocks' = CallInto(n, fn, args, m + 1, x)
      /\ scope' = scope /\ frames' = frames /\ moved' = moved
  BY <1>1 DEF Assign, CallInto, GoesOn
<1>0. m \in Nat /\ locals \in Seq(MirLocal) /\ type \in Types /\ Longer(locals, locals)
  BY Sizes, LongerSame DEF LowerInv, Types
<1>3. Has(locals, x, type) /\ x \in Nat
  BY <1>1, UsableHas
<1>4. Longer(locals, locals') /\ Has(locals', m + 1, type) /\ m + 1 \notin DOMAIN locals
  BY <1>0, <1>1, AddedIs
<1>5. CallFits(fn, args, type) /\ StringsFrom(args, Avail(scope))
  <2>1. CASE type = "string"
    <3>1. <<x>> \in Seq(Nat) /\ Range(<<x>>) = {x} /\ x \in Avail(scope)
      BY <1>1, <1>3, <2>1, UsableAvail DEF Range
    <3> QED
      BY <1>3, <2>1, <3>1 DEF CallFits, StringsFrom
  <2>2. CASE type = "linear"
    BY <2>2 DEF CallFits, StringsFrom, Range
  <2> QED
    BY <2>1, <2>2
<1> HIDE DEF fn, args
<1>6. PICK W : OwnedIn(blocks, locals, W) /\ Offered(W)
  BY DEF StringsInv
<1> DEFINE S == Last(W[current])
           R == CallLeaves(type, S, x)
<1>7. Avail(scope) \subseteq S
  BY <1>6 DEF Offered
<1>8. S \subseteq R
  BY DEF CallLeaves
<1>9. Has(locals', x, type)
  BY <1>3, <1>4, HasLonger
<1> HIDE DEF n, m
<1>10. /\ Growing(CallInto(n, fn, args, m + 1, x), locals', blocks, W, current, n + 1, R)
       /\ CallInto(n, fn, args, m + 1, x)[n + 1].term = NoTerm
  <2>1. n = Len(blocks) /\ StringsFrom(args, S)
    BY <1>5, <1>7 DEF n, StringsFrom
  <2> QED
    BY <1>4, <1>5, <1>6, <1>9, <2>1, CallGrown
<1>11. ASSUME NEW y \in scope', Has(locals', y, "string"), y \notin moved' PROVE y \in R
  BY <1>2, <1>4, <1>7, <1>8, <1>11, AvailLater
<1> HIDE DEF R
<1> QED
  BY <1>1, <1>2, <1>4, <1>6, <1>10, <1>11, StatementStep

LEMMA LetMoveStrings == ASSUME LowerInv, StringsInv, ~UsesAfterMove, LetMove PROVE StringsInv'
<1> DEFINE m == Len(locals)
<1>1. PICK type \in {"string", "linear", "ref"}, x \in Usable("string") \cup Usable("linear") \cup Usable("ref") :
        /\ x \in Usable(type)
        /\ MayMove(x)
        /\ blocks' = push_stmt(blocks, current, Stmt("move", m + 1, x))
        /\ locals' = locals \o NewLocal(type)
        /\ scope' = scope \cup {m + 1}
        /\ moved' = moved \cup {x}
  BY DEF LetMove
<1> DEFINE s == Stmt("move", m + 1, x)
<1>2. blocks' = push_stmt(blocks, current, s) /\ current' = current /\ frames' = frames
  BY <1>1 DEF LetMove
<1>0. m \in Nat /\ locals \in Seq(MirLocal) /\ type \in Types /\ Longer(locals, locals)
      /\ GoodBody(blocks, locals) /\ current \in DOMAIN blocks
  BY Sizes, LongerSame DEF LowerInv, Types
<1>3. Has(locals, x, type) /\ (type = "string" => x \in Avail(scope) /\ locals[x].loops = Loops)
  <2>1. Has(locals, x, type)
    BY <1>1, UsableHas
  <2>2. ASSUME type = "string" PROVE x \in Avail(scope) /\ locals[x].loops = Loops
    BY <1>1, <2>1, <2>2, UsableAvail DEF MayMove, Has
  <2> QED
    BY <2>1, <2>2
<1>4. /\ Longer(locals, locals') /\ Has(locals', m + 1, type) /\ m + 1 \notin DOMAIN locals
      /\ locals'[m + 1].loops = Loops
  BY <1>0, <1>1, AddedIs
<1>5. Has(locals', x, type)
  BY <1>3, <1>4, HasLonger
<1>6. TypedStmt(s, locals') /\ s.op = "move" /\ s.dest = m + 1 /\ s.src = x
  BY <1>4, <1>5, MoveTyped DEF Longer
<1> HIDE DEF s
<1>7. PICK W : OwnedIn(blocks, locals, W) /\ Offered(W)
  BY DEF StringsInv
<1> DEFINE S == Last(W[current])
           R == IF type = "string" THEN (S \ {x}) \cup {m + 1} ELSE S
<1>8. Avail(scope) \subseteq S
  BY <1>7 DEF Offered
<1>9. Growing(blocks, locals', blocks, W, current, current, S)
  BY <1>0, <1>4, <1>7, GrownSelf
<1>10. Pushes(s, S, R, locals')
  <2>1. Has(locals', x, "string") <=> type = "string"
    BY <1>5 DEF Has
  <2>2. OwnedStep(s, S, R, locals')
    BY <1>3, <1>6, <1>8, <2>1 DEF OwnedStep
  <2>3. Strings(R, locals')
    BY <1>0, <1>4, <1>9 DEF Growing, Strings
  <2> QED
    BY <1>6, <2>2, <2>3 DEF Pushes
<1>11. \A y : y \in R <=> (IF type = "string" THEN (y \in S /\ y # x) \/ y = m + 1 ELSE y \in S)
  OBVIOUS
<1> HIDE DEF R, m
<1>12. blocks[current].term = NoTerm
  BY DEF StringsInv
<1>13. Growing(blocks', locals', blocks, W, current, current', R) /\ blocks'[current'].term = NoTerm
  BY <1>2, <1>9, <1>10, <1>12, GrownPush
<1>14. ASSUME NEW y \in scope', Has(locals', y, "string"), y \notin moved' PROVE y \in R
  <2>1. CASE y \in scope
    <3>1. y \in Avail(scope) /\ y # x
      BY <1>1, <1>4, <1>14, <2>1, AvailLater
    <3> QED
      BY <1>8, <1>11, <3>1
  <2>2. CASE y = m + 1
    BY <1>4, <1>11, <1>14, <2>2 DEF Has
  <2> QED
    BY <1>1, <2>1, <2>2
<1>15. \A y \in moved' \ moved : locals[y].type = "string" => locals[y].loops = Loops
  BY <1>1, <1>3 DEF Has
<1>16. \A y \in scope' \ scope : locals'[y].loops = Loops
  BY <1>1, <1>4
<1> QED
  BY <1>1, <1>2, <1>4, <1>7, <1>13, <1>14, <1>15, <1>16, StatementStep

LEMMA LetTempStrings ==
  ASSUME LowerInv, StringsInv, NEW kind, NEW op, NEW from, NEW type,
         (op = "ref" /\ from = "linear" /\ type = "ref")
           \/ (op = "deref" /\ from = "ref" /\ type = "linear"),
         LetTemp(kind, op, from, type)
  PROVE  StringsInv'
<1> DEFINE m == Len(locals)
           T1 == locals \o NewLocal(type)
<1>1. PICK x \in Named(from) :
        /\ blocks' = push_stmt(push_stmt(blocks, current, Stmt(op, m + 1, x)),
                               current, Stmt("move", m + 2, m + 1))
        /\ locals' = T1 \o NewLocal(type)
        /\ scope' = scope \cup {m + 2}
  BY DEF LetTemp
<1> DEFINE r == Stmt(op, m + 1, x)
           s == Stmt("move", m + 2, m + 1)
           C == push_stmt(blocks, current, r)
<1>2. blocks' = push_stmt(C, current, s) /\ current' = current /\ frames' = frames /\ moved' = moved
  BY <1>1 DEF LetTemp
<1>0. m \in Nat /\ locals \in Seq(MirLocal) /\ type \in Types /\ Longer(locals, locals)
      /\ GoodBody(blocks, locals) /\ current \in DOMAIN blocks
  BY Sizes, LongerSame DEF LowerInv, Types
<1>3. Longer(locals, T1) /\ Len(T1) = m + 1 /\ Has(T1, m + 1, type)
  BY <1>0, AddedIs
<1>4. m + 2 = Len(T1) + 1
  BY <1>0, <1>3
<1> HIDE DEF T1
<1>5. /\ Longer(locals, locals') /\ Longer(T1, locals') /\ Has(locals', m + 2, type)
      /\ locals'[m + 2].loops = Loops /\ m + 2 \in Nat
  BY <1>0, <1>1, <1>3, <1>4, AddedIs
<1>6. Has(locals', m + 1, type)
  BY <1>3, <1>5, HasLonger
<1>7. Has(locals', x, from) /\ x \in Nat
  BY <1>5, NamedHas, HasLonger
<1>8. r.op = op /\ r.dest = m + 1 /\ r.src = x
  BY DEF Stmt
<1>9. TypedStmt(r, locals')
  <2>1. r \in MirStmt
    BY <1>0, <1>7 DEF Stmt, MirStmt
  <2> HIDE DEF r
  <2> QED
    BY <1>6, <1>7, <1>8, <2>1 DEF TypedStmt, Has
<1>10. TypedStmt(s, locals') /\ s.op = "move" /\ s.dest = m + 2 /\ s.src = m + 1
  BY <1>5, <1>6, MoveTyped DEF Longer
<1> HIDE DEF r, s, m
<1>11. PICK W : OwnedIn(blocks, locals, W) /\ Offered(W)
  BY DEF StringsInv
<1> DEFINE S == Last(W[current])
<1>12. Growing(blocks, locals', blocks, W, current, current, S)
  BY <1>0, <1>5, <1>11, GrownSelf
<1> HIDE DEF S
<1>13. Strings(S, locals') /\ from # "string" /\ type # "string"
  BY <1>12 DEF Growing
<1>14. Pushes(r, S, S, locals') /\ Pushes(s, S, S, locals')
  BY <1>6, <1>7, <1>8, <1>9, <1>10, <1>13 DEF Pushes, OwnedStep, Has
<1>15. blocks[current].term = NoTerm
  BY DEF StringsInv
<1>16. Growing(C, locals', blocks, W, current, current, S) /\ C[current].term = NoTerm
  BY <1>12, <1>14, <1>15, GrownPush
<1> HIDE DEF C
<1>17. Growing(blocks', locals', blocks, W, current, current', S) /\ blocks'[current'].term = NoTerm
  BY <1>2, <1>14, <1>16, GrownPush
<1>18. ASSUME NEW y \in scope', Has(locals', y, "string"), y \notin moved' PROVE y \in S
  <2>1. CASE y \in scope
    BY <1>2, <1>5, <1>11, <1>18, <2>1, AvailLater DEF Offered, S
  <2>2. CASE y = m + 2
    BY <1>5, <1>13, <1>18, <2>2 DEF Has
  <2> QED
    BY <1>1, <2>1, <2>2
<1> QED
  BY <1>1, <1>2, <1>5, <1>11, <1>17, <1>18, StatementStep

LEMMA PrintLineStrings ==
  ASSUME LowerInv, StringsInv, ~UsesAfterMove, PrintLine PROVE StringsInv'
<1> DEFINE n == Len(blocks)
           m == Len(locals)
           t == Call("printf", <<m + 1>>, NoLocal, n + 1)
<1>1. PICK x \in Usable("string") :
        /\ blocks' = set_terminator(create_block(push_stmt(blocks, current,
                                                           Stmt("field", m + 1, x)), 1),
                                    current, t)
        /\ current' = n + 1
        /\ locals' = locals \o NewLocal("pointer")
  BY DEF PrintLine
<1> DEFINE s == Stmt("field", m + 1, x)
           C == push_stmt(blocks, current, s)
<1>2. blocks' = GoesOn(C, current, t) /\ scope' = scope /\ frames' = frames /\ moved' = moved
  BY <1>1 DEF PrintLine, GoesOn
<1>0. n \in Nat /\ m \in Nat /\ current \in 1..n /\ current \in DOMAIN blocks
      /\ locals \in Seq(MirLocal) /\ "pointer" \in Types /\ Longer(locals, locals)
      /\ GoodBody(blocks, locals)
  BY Sizes, LongerSame DEF LowerInv, Types
<1>3. Longer(locals, locals') /\ Len(locals') = m + 1 /\ Has(locals', m + 1, "pointer")
  BY <1>0, <1>1, AddedIs
<1>4. Has(locals', x, "string") /\ x \in Nat /\ x \in Avail(scope)
  BY <1>3, UsableAvail, HasLonger
<1>5. s.op = "field" /\ s.dest = m + 1 /\ s.src = x
  BY DEF Stmt
<1>6. TypedStmt(s, locals')
  <2>1. s \in MirStmt
    BY <1>0, <1>4 DEF Stmt, MirStmt
  <2> HIDE DEF s
  <2> QED
    BY <1>3, <1>4, <1>5, <2>1 DEF TypedStmt, Has
<1> HIDE DEF s
<1>7. TypedTerm(t, locals', n + 1) /\ Range(t.to) = {n + 1} /\ t.args = <<m + 1>> /\ t.fn = "printf"
  <2>1. t.op = "call" /\ t.to = <<n + 1>> /\ t.fn = "printf" /\ t.args = <<m + 1>> /\ t.dest = NoLocal
    BY DEF Call
  <2>2. <<n + 1>> \in Seq(Nat) /\ Range(<<n + 1>>) = {n + 1} /\ <<n + 1>> # <<>>
        /\ <<m + 1>> \in Seq(Nat) /\ <<m + 1>>[1] = m + 1 /\ NoLocal \in Nat /\ n + 1 \in 1..(n + 1)
    BY <1>0 DEF Range, NoLocal
  <2>3. t \in MirTerm
    BY <2>2 DEF Call, MirTerm
  <2> HIDE DEF t, n, m
  <2>4. TypedCall(t, locals')
    BY <1>3, <2>1, <2>2 DEF TypedCall
  <2> QED
    BY <2>1, <2>2, <2>3, <2>4 DEF TypedTerm
<1> HIDE DEF t
<1>8. PICK W : OwnedIn(blocks, locals, W) /\ Offered(W)
  BY DEF StringsInv
<1> DEFINE S == Last(W[current])
<1>9. Avail(scope) \subseteq S
  BY <1>8 DEF Offered
<1>10. Growing(blocks, locals', blocks, W, current, current, S)
  BY <1>0, <1>3, <1>8, GrownSelf
<1> HIDE DEF S
<1>11. Strings(S, locals')
  BY <1>10 DEF Growing
<1>12. Pushes(s, S, S, locals')
  BY <1>4, <1>5, <1>6, <1>9, <1>11 DEF Pushes, OwnedStep
<1>13. blocks[current].term = NoTerm
  BY DEF StringsInv
<1>14. /\ Growing(C, locals', blocks, W, current, current, S) /\ Len(C) = n
       /\ C[current].stmts = Append(blocks[current].stmts, s)
  BY <1>10, <1>12, <1>13, GrownPush
<1> HIDE DEF C
<1>15. OwnedArgs(t, C[current].stmts, S, locals')
  <2>1. \A y \in Range(t.args) : y = m + 1
    BY <1>7 DEF Range
  <2> DEFINE u == blocks[current].stmts
             v == Append(u, s)
  <2>2. u \in Seq(MirStmt \cup {s})
    <3>1. blocks[current] \in MirBlock
      BY <1>0, LenProperties DEF GoodBody
    <3>2. u \in Seq(MirStmt)
      BY <3>1 DEF MirBlock
    <3> QED
      BY <3>2
  <2>3. v \in Seq(MirStmt \cup {s}) /\ Len(v) = Len(u) + 1 /\ v[Len(u) + 1] = s /\ v # <<>>
    BY <2>2, AppendProperties
  <2>4. C[current].stmts = v
    BY <1>14
  <2> HIDE DEF u, v
  <2> QED
    BY <1>3, <1>5, <2>1, <2>3, <2>4 DEF OwnedArgs, Has
<1>16. Passed(t, S) = S
  BY <1>7 DEF Passed
<1>17. Continues(t, Len(C) + 1, C[current].stmts, S, S, locals')
  BY <1>7, <1>11, <1>14, <1>15, <1>16 DEF Continues
<1>18. /\ Growing(blocks', locals', blocks, W, current, current', S)
       /\ blocks'[current'] = EmptyBlock
  <2>1. /\ Growing(GoesOn(C, current, t), locals', blocks, W, current, Len(C) + 1, S)
        /\ GoesOn(C, current, t)[Len(C) + 1] = EmptyBlock
    <3> HIDE DEF n, m
    <3>1. Growing(C, locals', blocks, W, current, current, S)
      BY <1>14
    <3> QED
      BY <3>1, <1>17, GrownGoesOn
  <2> QED
    BY <1>1, <1>2, <1>14, <2>1
<1>19. blocks'[current'].term = NoTerm
  BY <1>18, EmptySuccs
<1>20. ASSUME NEW y \in scope', Has(locals', y, "string"), y \notin moved' PROVE y \in S
  BY <1>2, <1>3, <1>9, <1>20, AvailLater
<1> QED
  BY <1>2, <1>3, <1>8, <1>18, <1>19, <1>20, StatementStep

LEMMA GiveStrings == ASSUME LowerInv, StringsInv, ~UsesAfterMove, Give PROVE StringsInv'
<1> DEFINE n == Len(blocks)
           t0(x) == Call("spend", <<x>>, NoLocal, n + 1)
<1>1. PICK x \in Usable("string") \cup Named("linear") :
        /\ MayMove(x)
        /\ blocks' = set_terminator(create_block(blocks, 1), current, t0(x))
        /\ current' = n + 1
        /\ moved' = moved \cup {x}
  BY DEF Give
<1> DEFINE t == Call("spend", <<x>>, NoLocal, n + 1)
<1>2. blocks' = GoesOn(blocks, current, t) /\ scope' = scope /\ frames' = frames
      /\ locals' = locals
  BY <1>1 DEF Give, GoesOn
<1>0. n \in Nat /\ current \in 1..n /\ current \in DOMAIN blocks
      /\ locals \in Seq(MirLocal) /\ Longer(locals, locals)
      /\ GoodBody(blocks, locals)
  BY Sizes, LongerSame DEF LowerInv
<1>3. x \in Nat /\ (Has(locals, x, "string") \/ Has(locals, x, "linear"))
  BY UsableHas, NamedHas
<1>4. Has(locals, x, "string") => x \in Avail(scope) /\ locals[x].loops = Loops
  <2>1. ASSUME Has(locals, x, "string") PROVE x \in Usable("string")
    BY <2>1, NamedHas DEF Has
  <2> QED
    BY <1>1, <2>1, UsableAvail DEF MayMove, Has
<1>5. TypedTerm(t, locals, n + 1) /\ Range(t.to) = {n + 1} /\ t.args = <<x>> /\ t.fn = "spend"
  <2>1. t.op = "call" /\ t.to = <<n + 1>> /\ t.fn = "spend" /\ t.args = <<x>> /\ t.dest = NoLocal
    BY DEF Call
  <2>2. <<n + 1>> \in Seq(Nat) /\ Range(<<n + 1>>) = {n + 1} /\ <<n + 1>> # <<>>
        /\ <<x>> \in Seq(Nat) /\ <<x>>[1] = x /\ NoLocal \in Nat /\ n + 1 \in 1..(n + 1)
    BY <1>0, <1>3 DEF Range, NoLocal
  <2>3. t \in MirTerm
    BY <2>2 DEF Call, MirTerm
  <2> HIDE DEF t, n
  <2>4. TypedCall(t, locals)
    BY <1>3, <2>1, <2>2 DEF TypedCall
  <2> QED
    BY <2>1, <2>2, <2>3, <2>4 DEF TypedTerm
<1> HIDE DEF t
<1>6. PICK W : OwnedIn(blocks, locals, W) /\ Offered(W)
  BY DEF StringsInv
<1> DEFINE S == Last(W[current])
<1>7. Avail(scope) \subseteq S
  BY <1>6 DEF Offered
<1>8. Growing(blocks, locals', blocks, W, current, current, S)
  BY <1>0, <1>2, <1>6, GrownSelf
<1> HIDE DEF S
<1>9. Strings(S, locals')
  BY <1>8 DEF Growing
<1>10. OwnedArgs(t, blocks[current].stmts, S, locals')
  <2>1. \A y \in Range(t.args) : y = x
    BY <1>5 DEF Range
  <2> QED
    BY <1>2, <1>3, <1>4, <1>7, <2>1 DEF OwnedArgs, Has
<1>11. Passed(t, S) = S
  BY <1>5 DEF Passed
<1>12. Continues(t, Len(blocks) + 1, blocks[current].stmts, S, S, locals')
  BY <1>2, <1>5, <1>9, <1>10, <1>11 DEF Continues
<1>13. /\ Growing(blocks', locals', blocks, W, current, current', S)
       /\ blocks'[current'] = EmptyBlock
  BY <1>1, <1>2, <1>8, <1>12, GrownGoesOn
<1>14. blocks'[current'].term = NoTerm
  BY <1>13, EmptySuccs
<1>15. ASSUME NEW y \in scope', Has(locals', y, "string"), y \notin moved' PROVE y \in S
  BY <1>0, <1>1, <1>2, <1>7, <1>15, AvailLater
<1>16. \A y \in moved' \ moved : locals[y].type = "string" => locals[y].loops = Loops
  BY <1>1, <1>3, <1>4 DEF Has
<1>17. Longer(locals, locals') /\ moved \subseteq moved'
  BY <1>0, <1>1, <1>2
<1> QED
  BY <1>2, <1>6, <1>13, <1>14, <1>15, <1>16, <1>17, StatementStep

-----------------------------------------------------------------------------
(* Control flow. C, annotated with V, is B with more blocks and a block i     *)
(* that goes on.                                                              *)

Fits(C, V, B, W, i, T) ==
  GoodBody(C, T) /\ OwnedIn(C, T, V) /\ Extends(B, W, C, V, i) /\ i \in DOMAIN B

\* Block k may still be changed.
Fresh(k, B, i) == k = i \/ k \notin DOMAIN B

FitsMore(C, V, B, W, i, T, n, S) ==
  \E U : /\ Fits(create_block(C, n), U, B, W, i, T)
         /\ \A j \in 1..Len(C) : U[j] = V[j]
         /\ \A j \in (Len(C) + 1)..(Len(C) + n) : U[j] = <<S>>

LEMMA FitsSelf ==
  ASSUME NEW B, NEW T, NEW W, GoodBody(B, T), OwnedIn(B, T, W), NEW i \in DOMAIN B
  PROVE  Fits(B, W, B, W, i, T)
  BY DEF Fits, Extends

LEMMA FitsCreate ==
  ASSUME NEW C, NEW V, NEW B, NEW W, NEW i, NEW T, Fits(C, V, B, W, i, T),
         NEW n \in Nat, NEW S, Strings(S, T)
  PROVE  /\ FitsMore(C, V, B, W, i, T, n, S)
         /\ GoodBody(create_block(C, n), T) /\ Len(create_block(C, n)) = Len(C) + n
         /\ \A j \in 1..Len(C) : create_block(C, n)[j] = C[j]
         /\ \A j \in (Len(C) + 1)..(Len(C) + n) : create_block(C, n)[j] = EmptyBlock
<1> DEFINE D == create_block(C, n)
<1>1. /\ GoodBody(C, T) /\ OwnedIn(C, T, V) /\ Extends(B, W, C, V, i)
      /\ Len(C) \in Nat /\ DOMAIN C = 1..Len(C) /\ i \in DOMAIN B /\ DOMAIN B \subseteq DOMAIN C
  BY LenProperties DEF Fits, GoodBody, Extends
<1>2. Created(C, T, V, n, S)
  BY <1>1, OwnedCreate
<1>3. /\ DOMAIN D = 1..(Len(C) + n) /\ (\A j \in 1..Len(C) : D[j] = C[j])
      /\ \A j \in (Len(C) + 1)..(Len(C) + n) : D[j] = EmptyBlock
  BY <1>1, CreateIs
<1>4. GoodBody(D, T) /\ Len(D) = Len(C) + n
  BY <1>1, CreateGood
<1>5. PICK U : /\ OwnedIn(D, T, U)
               /\ \A j \in 1..Len(C) : U[j] = V[j]
               /\ \A j \in (Len(C) + 1)..(Len(C) + n) : U[j] = <<S>>
  BY <1>2 DEF Created
<1> HIDE DEF D
<1>6. Extends(B, W, D, U, i)
  <2>1. ASSUME NEW j \in DOMAIN B PROVE j \in DOMAIN D /\ D[j] = C[j] /\ U[j] = V[j]
    <3>1. j \in 1..Len(C) /\ 1..Len(C) \subseteq 1..(Len(C) + n)
      BY <1>1
    <3> QED
      BY <1>3, <1>5, <3>1
  <2> QED
    BY <1>1, <2>1 DEF Extends
<1>7. Fits(D, U, B, W, i, T)
  BY <1>1, <1>4, <1>5, <1>6 DEF Fits
<1>8. FitsMore(C, V, B, W, i, T, n, S)
  BY <1>5, <1>7 DEF FitsMore, D
<1> QED
  BY <1>3, <1>4, <1>8 DEF D

\* What only goes on: a Goto, an If, a Return.
Onward(t, S, V, T, n) ==
  /\ TypedTerm(t, T, n) /\ (\A stmts, R : OwnedArgs(t, stmts, R, T)) /\ Passed(t, S) = S
  /\ \A j \in Range(t.to) : V[j][1] \subseteq S

LEMMA OnwardAre ==
  ASSUME NEW T, NEW n \in Nat, NEW V, NEW S
  PROVE  /\ Onward(Return, S, V, T, n)
         /\ \A b \in 1..n : V[b][1] \subseteq S => Onward(Goto(b), S, V, T, n)
         /\ \A b, c \in 1..n :
              V[b][1] \subseteq S /\ V[c][1] \subseteq S => Onward(If(b, c), S, V, T, n)
<1>1. Onward(Return, S, V, T, n)
  BY TermTypes, NoArgs, GotoSuccs DEF Onward, Passed
<1>2. ASSUME NEW b \in 1..n, V[b][1] \subseteq S PROVE Onward(Goto(b), S, V, T, n)
  <2> DEFINE t == Goto(b)
  <2>1. TypedTerm(t, T, n) /\ \A stmts, R : OwnedArgs(t, stmts, R, T)
    BY TermTypes, NoArgs
  <2>2. t.op = "goto" /\ Range(t.to) = {b}
    BY GotoSuccs
  <2> HIDE DEF t
  <2>3. Onward(t, S, V, T, n)
    BY <1>2, <2>1, <2>2 DEF Onward, Passed
  <2> QED
    BY <2>3 DEF t
<1>3. ASSUME NEW b \in 1..n, NEW c \in 1..n, V[b][1] \subseteq S, V[c][1] \subseteq S
      PROVE  Onward(If(b, c), S, V, T, n)
  <2> DEFINE t == If(b, c)
  <2>1. TypedTerm(t, T, n) /\ \A stmts, R : OwnedArgs(t, stmts, R, T)
    BY TermTypes, NoArgs
  <2>2. t.op = "if" /\ Range(t.to) = {b, c}
    BY GotoSuccs
  <2> HIDE DEF t
  <2>3. Onward(t, S, V, T, n)
    BY <1>3, <2>1, <2>2 DEF Onward, Passed
  <2> QED
    BY <2>3 DEF t
<1> QED
  BY <1>1, <1>2, <1>3

LEMMA FitsSet ==
  ASSUME NEW C, NEW V, NEW B, NEW W, NEW i, NEW T, Fits(C, V, B, W, i, T),
         NEW k \in 1..Len(C), Fresh(k, B, i), NEW t, Onward(t, Last(V[k]), V, T, Len(C))
  PROVE  /\ Fits(set_terminator(C, k, t), V, B, W, i, T)
         /\ Len(set_terminator(C, k, t)) = Len(C)
         /\ \A j \in 1..Len(C) : j # k => set_terminator(C, k, t)[j] = C[j]
<1> DEFINE D == set_terminator(C, k, t)
<1>1. /\ GoodBody(C, T) /\ OwnedIn(C, T, V) /\ Extends(B, W, C, V, i)
      /\ DOMAIN C = 1..Len(C) /\ i \in DOMAIN B
  BY LenProperties DEF Fits, GoodBody
<1>2. /\ TypedTerm(t, T, Len(C)) /\ OwnedArgs(t, C[k].stmts, Last(V[k]), T)
      /\ \A j \in Range(t.to) : V[j][1] \subseteq Passed(t, Last(V[k]))
  BY DEF Onward
<1>3. GoodBody(D, T) /\ Len(D) = Len(C)
  BY <1>1, <1>2, SetGood
<1>4. DOMAIN D = DOMAIN C /\ \A j \in DOMAIN C : j # k => D[j] = C[j]
  BY <1>1, SetIs
<1>5. OwnedIn(D, T, V)
  BY <1>1, <1>2, OwnedSet
<1> HIDE DEF D
<1>6. Extends(B, W, D, V, i)
  BY <1>1, <1>4 DEF Extends, Fresh
<1>7. Fits(D, V, B, W, i, T)
  BY <1>1, <1>3, <1>5, <1>6 DEF Fits
<1> QED
  BY <1>1, <1>3, <1>4, <1>7 DEF D

LEMMA FitsOn ==
  ASSUME NEW C, NEW V, NEW B, NEW W, NEW i, NEW T, Fits(C, V, B, W, i, T),
         NEW D, NEW U, NEW k, Fits(D, U, C, V, k, T), Fresh(k, B, i)
  PROVE  Fits(D, U, B, W, i, T)
  BY ExtendsOn DEF Fits, Fresh

\* Where a condition ends, what it started with is owned still.
Conditioned(c, B, W, i, T) ==
  \E V : Fits(c.blocks, V, B, W, i, T) /\ Last(V[c.at]) = Last(W[i])

LEMMA ConditionOwned ==
  ASSUME NEW kind, NEW B, NEW T, NEW W, GoodBody(B, T), OwnedIn(B, T, W),
         NEW i \in 1..Len(B), NEW known, NEW c \in Conditions(kind, B, i, known)
  PROVE  /\ Conditioned(c, B, W, i, T)
         /\ Fresh(c.at, B, i) /\ c.at \in 1..Len(c.blocks)
         /\ Len(c.blocks) \in Nat /\ Len(B) \in Nat /\ Len(B) <= Len(c.blocks)
<1> DEFINE n == Len(B)
           S == Last(W[i])
           C0 == create_block(B, 3)
           C == set_terminator(C0, i, If(n + 1, n + 2))
           D == set_terminator(C, n + 2, Goto(n + 3))
           E == set_terminator(D, n + 1, Goto(n + 3))
<1>0. n \in Nat /\ DOMAIN B = 1..n /\ i \in DOMAIN B /\ 3 \in Nat
  BY LenProperties DEF GoodBody
<1>a. Fits(B, W, B, W, i, T)
  BY <1>0, FitsSelf
<1>1. CASE c.blocks = B /\ c.at = i
  BY <1>0, <1>1, <1>a DEF Conditioned, Fresh
<1>2. CASE c.blocks = E /\ c.at = n + 3
  <2>1. Strings(S, T)
    BY <1>0, OwnedFirst DEF Strings
  <2> HIDE DEF S
  <2>2. FitsMore(B, W, B, W, i, T, 3, S) /\ Len(C0) = n + 3
    BY <1>0, <1>a, <2>1, FitsCreate
  <2>3. PICK V : /\ Fits(C0, V, B, W, i, T) /\ (\A j \in 1..n : V[j] = W[j])
                 /\ \A j \in (n + 1)..(n + 3) : V[j] = <<S>>
    BY <2>2 DEF FitsMore
  <2> HIDE DEF C0
  <2>4. /\ n + 3 \in Nat /\ n + 1 \in 1..(n + 3) /\ n + 2 \in 1..(n + 3) /\ n + 3 \in 1..(n + 3)
        /\ i \in 1..(n + 3) /\ n + 1 \in (n + 1)..(n + 3) /\ n + 2 \in (n + 1)..(n + 3)
        /\ n + 3 \in (n + 1)..(n + 3) /\ n <= n + 3
        /\ n + 1 \notin DOMAIN B /\ n + 2 \notin DOMAIN B /\ n + 3 \notin DOMAIN B
    BY <1>0
  <2> HIDE DEF n
  <2>5. \A j \in {n + 1, n + 2, n + 3} : V[j][1] = S /\ Last(V[j]) = S
    BY <2>1, <2>3, <2>4, OwnedOne
  <2>6. Last(V[i]) = S
    BY <1>0, <2>3 DEF S
  <2>7. Fresh(i, B, i) /\ Fresh(n + 1, B, i) /\ Fresh(n + 2, B, i) /\ Fresh(n + 3, B, i)
    BY <2>4 DEF Fresh
  <2>8. Onward(If(n + 1, n + 2), Last(V[i]), V, T, n + 3)
    BY <2>4, <2>5, <2>6, OnwardAre
  <2>9. /\ Onward(Goto(n + 3), Last(V[n + 2]), V, T, n + 3)
        /\ Onward(Goto(n + 3), Last(V[n + 1]), V, T, n + 3)
    BY <2>4, <2>5, OnwardAre
  <2>10. Fits(C, V, B, W, i, T) /\ Len(C) = n + 3
    BY <2>2, <2>3, <2>4, <2>7, <2>8, FitsSet
  <2> HIDE DEF C
  <2>11. Fits(D, V, B, W, i, T) /\ Len(D) = n + 3
    BY <2>4, <2>7, <2>9, <2>10, FitsSet
  <2> HIDE DEF D
  <2>12. Fits(E, V, B, W, i, T) /\ Len(E) = n + 3
    BY <2>4, <2>7, <2>9, <2>11, FitsSet
  <2> HIDE DEF E
  <2>13. Conditioned(c, B, W, i, T)
    BY <1>2, <2>5, <2>12 DEF Conditioned, S
  <2> QED
    BY <1>0, <1>2, <2>4, <2>7, <2>12, <2>13 DEF n
<1> QED
  BY <1>1, <1>2 DEF Conditions

LEMMA AppendedFrames ==
  ASSUME NEW F \in Seq(MirFrame), NEW f \in MirFrame
  PROVE  /\ Append(F, f) \in Seq(MirFrame) /\ Len(F) \in Nat /\ DOMAIN F = 1..Len(F)
         /\ DOMAIN Append(F, f) = 1..(Len(F) + 1) /\ Len(Append(F, f)) = Len(F) + 1
         /\ \A p \in DOMAIN F : Append(F, f)[p] = F[p]
         /\ Append(F, f)[Len(F) + 1] = f
         /\ \A p \in DOMAIN Append(F, f) : p \in DOMAIN F \/ p = Len(F) + 1
<1>1. Len(F) \in Nat /\ DOMAIN F = 1..Len(F)
  BY LenProperties
<1>2. /\ Append(F, f) \in Seq(MirFrame) /\ Len(Append(F, f)) = Len(F) + 1
      /\ (\A p \in 1..Len(F) : Append(F, f)[p] = F[p]) /\ Append(F, f)[Len(F) + 1] = f
  BY AppendProperties
<1>3. DOMAIN Append(F, f) = 1..(Len(F) + 1)
  BY <1>2, LenProperties
<1> QED
  BY <1>1, <1>2, <1>3

LEMMA FrontFrames ==
  ASSUME NEW F \in Seq(MirFrame), F # <<>>
  PROVE  /\ Front(F) \in Seq(MirFrame) /\ DOMAIN Front(F) = 1..(Len(F) - 1)
         /\ Len(F) \in Nat /\ Len(F) \in DOMAIN F /\ Len(F) - 1 \in Nat
         /\ DOMAIN F = 1..Len(F) /\ Len(Front(F)) = Len(F) - 1
         /\ \A p \in 1..(Len(F) - 1) : Front(F)[p] = F[p] /\ p \in DOMAIN F /\ p # Len(F)
         /\ Last(F) = F[Len(F)]
<1> DEFINE k == Len(F)
<1>1. k \in Nat /\ k > 0 /\ k \in DOMAIN F /\ DOMAIN F = 1..k /\ Last(F) = F[k]
  BY EmptySeq, LenProperties DEF Last
<1>2. Front(F) = SubSeq(F, 1, k - 1)
  BY DEF Front
<1> HIDE DEF k
<1>3. 1 \in 1..(k + 1) /\ k - 1 \in 0..k /\ k - 1 - 1 + 1 = k - 1 /\ k - 1 + 1 = k
  BY <1>1
<1>4. /\ SubSeq(F, 1, k - 1) \in Seq(MirFrame)
      /\ Len(SubSeq(F, 1, k - 1)) = IF 1 <= k - 1 THEN k - 1 - 1 + 1 ELSE 0
      /\ \A i \in 1..(k - 1 - 1 + 1) : SubSeq(F, 1, k - 1)[i] = F[1 + i - 1]
  BY <1>3, SubSeqProperties DEF k
<1>5. /\ Front(F) \in Seq(MirFrame) /\ Len(Front(F)) = k - 1
      /\ \A i \in 1..(k - 1) : Front(F)[i] = F[i]
  BY <1>1, <1>2, <1>3, <1>4
<1>6. DOMAIN Front(F) = 1..(k - 1)
  BY <1>5, LenProperties
<1>7. \A p \in 1..(k - 1) : p \in DOMAIN F /\ p # k
  BY <1>1
<1>8. k - 1 \in Nat
  BY <1>1
<1> QED
  BY <1>1, <1>5, <1>6, <1>7, <1>8 DEF k

LEMMA LoopsFinite ==
  ASSUME NEW F, NEW p \in Nat
  PROVE  IsFiniteSet(LoopsIn(F, p)) /\ Cardinality(LoopsIn(F, p)) \in Nat
<1>1. IsFiniteSet(1..p) /\ LoopsIn(F, p) \subseteq 1..p
  BY FS_Interval DEF LoopsIn
<1> QED
  BY <1>1, FS_Subset, FS_CardinalityType

LEMMA ScopesPush ==
  ASSUME NEW F \in Seq(MirFrame), NEW f \in MirFrame, NEW T \in Seq(MirLocal),
         f.scope \subseteq DOMAIN T, ScopesNest(F, f.scope, T)
  PROVE  ScopesNest(Append(F, f), f.scope, T)
<1> DEFINE G == Append(F, f)
           k == Len(F)
<1>1. /\ G \in Seq(MirFrame) /\ k \in Nat /\ DOMAIN F = 1..k
      /\ DOMAIN G = 1..(k + 1) /\ Len(G) = k + 1
      /\ \A p \in DOMAIN F : G[p] = F[p]
      /\ G[k + 1] = f
      /\ \A p \in DOMAIN G : p \in DOMAIN F \/ p = k + 1
  BY AppendedFrames
<1> HIDE DEF G
<1>2. ASSUME NEW p \in 0..k PROVE LoopsIn(G, p) = LoopsIn(F, p)
  <2>1. \A i \in 1..p : i \in DOMAIN F
    BY <1>1
  <2> QED
    BY <1>1, <2>1 DEF LoopsIn
<1>3. Cardinality(LoopsIn(F, k)) <= Cardinality(LoopsIn(G, k + 1))
  <2>1. LoopsIn(G, k) \subseteq LoopsIn(G, k + 1)
    BY <1>1 DEF LoopsIn
  <2>2. Cardinality(LoopsIn(G, k)) <= Cardinality(LoopsIn(G, k + 1))
    BY <1>1, <2>1, LoopsFinite, FS_Subset
  <2> QED
    BY <1>1, <1>2, <2>2
<1>4. ASSUME NEW x \in f.scope PROVE T[x].loops \in Nat
  <2>1. x \in DOMAIN T /\ DOMAIN T = 1..Len(T)
    BY LenProperties
  <2>2. T[x] \in MirLocal
    BY <2>1
  <2> QED
    BY <2>2 DEF MirLocal
<1>5. \A x \in f.scope : T[x].loops <= Cardinality(LoopsIn(F, k))
  BY DEF ScopesNest
<1>6. \A x \in f.scope : T[x].loops <= Cardinality(LoopsIn(G, Len(G)))
  BY <1>1, <1>3, <1>4, <1>5, LoopsFinite
<1>7. ASSUME NEW p \in DOMAIN G PROVE G[p].scope \subseteq f.scope
  BY <1>1 DEF ScopesNest
<1>8. ASSUME NEW p \in DOMAIN G, NEW q \in DOMAIN G, p <= q PROVE G[p].scope \subseteq G[q].scope
  <2>1. CASE q = k + 1
    BY <1>1, <1>7, <2>1
  <2>2. CASE q \in DOMAIN F
    <3>1. p \in DOMAIN F
      BY <1>1, <1>8, <2>2
    <3> QED
      BY <1>1, <1>8, <2>2, <3>1 DEF ScopesNest
  <2> QED
    BY <1>1, <2>1, <2>2
<1>9. ASSUME NEW p \in DOMAIN G, NEW x \in G[p].scope
      PROVE  T[x].loops <= Cardinality(LoopsIn(G, p - 1))
  <2>1. p - 1 \in 0..k
    BY <1>1
  <2>2. CASE p = k + 1
    BY <1>1, <1>2, <1>5, <2>1, <2>2
  <2>3. CASE p \in DOMAIN F
    BY <1>1, <1>2, <2>1, <2>3 DEF ScopesNest
  <2> QED
    BY <1>1, <2>2, <2>3
<1> QED
  BY <1>6, <1>7, <1>8, <1>9 DEF ScopesNest, G

LEMMA ScopesPop ==
  ASSUME NEW F \in Seq(MirFrame), F # <<>>, NEW S, NEW T, ScopesNest(F, S, T)
  PROVE  ScopesNest(Front(F), Last(F).scope, T)
<1> DEFINE G == Front(F)
           k == Len(F)
           f == Last(F)
<1>1. /\ k \in Nat /\ k \in DOMAIN F /\ k - 1 \in Nat /\ DOMAIN F = 1..k
      /\ DOMAIN G = 1..(k - 1) /\ Len(G) = k - 1
      /\ \A p \in 1..(k - 1) : G[p] = F[p] /\ p \in DOMAIN F
      /\ f = F[k]
  BY FrontFrames
<1> HIDE DEF G, f
<1>2. ASSUME NEW p \in 0..(k - 1) PROVE LoopsIn(G, p) = LoopsIn(F, p)
  <2>1. \A i \in 1..p : i \in 1..(k - 1)
    BY <1>1
  <2> QED
    BY <1>1, <2>1 DEF LoopsIn
<1>3. \A p \in DOMAIN G : p <= k
  BY <1>1
<1>4. \A p \in DOMAIN G : G[p].scope \subseteq f.scope
  BY <1>1, <1>3 DEF ScopesNest
<1>5. \A x \in f.scope : T[x].loops <= Cardinality(LoopsIn(G, Len(G)))
  <2>1. \A x \in F[k].scope : T[x].loops <= Cardinality(LoopsIn(F, k - 1))
    BY <1>1 DEF ScopesNest
  <2>2. k - 1 \in 0..(k - 1)
    BY <1>1
  <2> QED
    BY <1>1, <1>2, <2>1, <2>2
<1>6. ASSUME NEW p \in DOMAIN G, NEW x \in G[p].scope
      PROVE  T[x].loops <= Cardinality(LoopsIn(G, p - 1))
  <2>1. p - 1 \in 0..(k - 1)
    BY <1>1
  <2> QED
    BY <1>1, <1>2, <2>1 DEF ScopesNest
<1>7. \A p, q \in DOMAIN G : p <= q => G[p].scope \subseteq G[q].scope
  BY <1>1 DEF ScopesNest
<1> QED
  BY <1>4, <1>5, <1>6, <1>7 DEF ScopesNest, G, f

LEMMA JumpStrings ==
  ASSUME LowerInv, StringsInv, NEW W, OwnedIn(blocks, locals, W), Offered(W),
         NEW t, Onward(t, Last(W[current]), W, locals, Len(blocks)), Jump(t)
  PROVE  StringsInv'
<1> DEFINE n == Len(blocks)
           B == set_terminator(blocks, current, t)
           S == Avail(scope)
<1>0. /\ n \in Nat /\ current \in 1..n /\ DOMAIN blocks = 1..n /\ current \in DOMAIN blocks
      /\ GoodBody(blocks, locals) /\ n + 1 \in (n + 1)..(n + 1) /\ n + 1 \notin 1..n
  BY Sizes DEF LowerInv
<1>1. /\ blocks' = create_block(B, 1) /\ current' = n + 1 /\ locals' = locals
      /\ scope' = scope /\ frames' = frames /\ moved' = moved
  BY DEF Jump
<1>2. Fits(blocks, W, blocks, W, current, locals) /\ Fresh(current, blocks, current)
  BY <1>0, FitsSelf DEF Fresh
<1>3. /\ Fits(B, W, blocks, W, current, locals) /\ Len(B) = n
      /\ \A j \in 1..n : j # current => B[j] = blocks[j]
  BY <1>0, <1>2, FitsSet
<1>4. Strings(S, locals)
  <2>1. scope \subseteq 1..Len(locals) /\ 1..Len(locals) \subseteq Nat
    BY Sizes DEF LowerInv
  <2> QED
    BY <2>1 DEF Avail, Strings
<1> HIDE DEF B, n, S
<1>5. /\ FitsMore(B, W, blocks, W, current, locals, 1, S)
      /\ \A j \in 1..n : create_block(B, 1)[j] = B[j]
      /\ \A j \in (n + 1)..(n + 1) : create_block(B, 1)[j] = EmptyBlock
  <2>1. Fits(B, W, blocks, W, current, locals) /\ 1 \in Nat
    BY <1>3
  <2>2. /\ FitsMore(B, W, blocks, W, current, locals, 1, S)
        /\ \A j \in 1..Len(B) : create_block(B, 1)[j] = B[j]
        /\ \A j \in (Len(B) + 1)..(Len(B) + 1) : create_block(B, 1)[j] = EmptyBlock
    BY <1>4, <2>1, FitsCreate
  <2> QED
    BY <1>3, <2>2
<1>6. PICK V : /\ OwnedIn(blocks', locals', V)
               /\ \A j \in 1..n : V[j] = W[j]
               /\ \A j \in (n + 1)..(n + 1) : V[j] = <<S>>
  BY <1>1, <1>3, <1>5 DEF FitsMore, Fits
<1>7. Last(V[current']) = S /\ blocks'[current'].term = NoTerm
  BY <1>0, <1>1, <1>4, <1>5, <1>6, OwnedOne, EmptySuccs
<1>8. PendingOf(frames', blocks', current')
  <2>1. ASSUME NEW p \in DOMAIN frames, NEW x \in Pending(frames[p])
        PROVE  blocks'[x] = EmptyBlock /\ x # n + 1
    <3>1. x \in 1..n
      BY <1>0, FramesAre
    <3>2. x # current /\ blocks[x] = EmptyBlock
      BY DEF StringsInv, PendingOf
    <3> QED
      BY <1>0, <1>1, <1>3, <1>5, <3>1, <3>2
  <2> QED
    BY <1>1, <2>1 DEF StringsInv, PendingOf
<1>9. ScopesNest(frames', scope', locals')
  BY <1>1 DEF StringsInv
<1>10. Offered(V)'
  <2>1. \A X : Avail(X)' = Avail(X)
    BY <1>1 DEF Avail
  <2>2. \A p \in DOMAIN frames : \A x \in Pending(frames[p]) : x \in 1..n
    BY <1>0, FramesAre
  <2>3. \A p \in DOMAIN frames : IsLoop(frames[p]) => HeadOf(frames[p]) \in 1..n
    BY <1>0, FramesAre
  <2> QED
    BY <1>1, <1>6, <1>7, <2>1, <2>2, <2>3 DEF Offered, S
<1> QED
  BY <1>6, <1>7, <1>8, <1>9, <1>10 DEF StringsInv

\* A block a construct goes on in may be said to own just what is due there.
OfferTrimmed(W, p, t) ==
  \E V : /\ OwnedIn(blocks, locals, V) /\ Offered(V)
         /\ V[t] = <<Avail(frames[p].scope)>> /\ V[current] = W[current]

LEMMA TrimOffered ==
  ASSUME LowerInv, StringsInv, NEW W, OwnedIn(blocks, locals, W), Offered(W),
         NEW p \in DOMAIN frames, NEW t \in Pending(frames[p])
  PROVE  OfferTrimmed(W, p, t)
<1> DEFINE S == Avail(frames[p].scope)
<1>0. /\ DOMAIN blocks = 1..Len(blocks) /\ GoodBody(blocks, locals) /\ t \in 1..Len(blocks)
      /\ blocks[t] = EmptyBlock /\ t # current /\ current \in DOMAIN blocks
  BY Sizes, FramesAre DEF LowerInv, StringsInv, PendingOf
<1>1. S \subseteq W[t][1]
  BY DEF Offered
<1>2. <<S>>[1] = S
  OBVIOUS
<1> HIDE DEF S
<1>3. Trimmed(blocks, locals, W, t, S)
  BY <1>0, <1>1, OwnedTrim
<1>4. PICK V : /\ OwnedIn(blocks, locals, V) /\ (\A j \in DOMAIN blocks : j # t => V[j] = W[j])
               /\ V[t] = <<S>>
  BY <1>3 DEF Trimmed
<1>5. V[current] = W[current]
  BY <1>0, <1>4
<1>6. \A j \in DOMAIN blocks : V[j][1] \subseteq W[j][1]
  BY <1>1, <1>2, <1>4
<1>7. ASSUME NEW q \in DOMAIN frames, NEW x \in Pending(frames[q])
      PROVE  Avail(frames[q].scope) \subseteq V[x][1]
  <2>1. x \in DOMAIN blocks
    BY FramesAre
  <2>2. CASE x = t
    <3>1. q = p
      BY <2>2 DEF StringsInv, PendingOf
    <3> QED
      BY <1>2, <1>4, <2>2, <3>1 DEF S
  <2>3. CASE x # t
    BY <1>4, <2>1, <2>3 DEF Offered
  <2> QED
    BY <2>2, <2>3
<1>8. ASSUME NEW q \in DOMAIN frames, IsLoop(frames[q])
      PROVE  V[HeadOf(frames[q])][1] \subseteq Avail(frames[q].scope)
  BY <1>6, <1>8, FramesAre DEF Offered
<1>9. Offered(V)
  BY <1>5, <1>7, <1>8 DEF Offered
<1> QED
  BY <1>4, <1>5, <1>9 DEF OfferTrimmed, S

LEMMA ScopesGrow ==
  ASSUME StringsInv, NEW p \in DOMAIN frames
  PROVE  Avail(frames[p].scope) \subseteq Avail(scope)
  BY DEF StringsInv, ScopesNest, Avail

LEMMA JumpsStrings ==
  ASSUME LowerInv, StringsInv, Break \/ Continue \/ ReturnEarly PROVE StringsInv'
<1>0. Len(blocks) \in Nat
  BY Sizes
<1>1. PICK W : OwnedIn(blocks, locals, W) /\ Offered(W)
  BY DEF StringsInv
<1>2. CASE ReturnEarly
  <2>1. Onward(Return, Last(W[current]), W, locals, Len(blocks))
    BY <1>0, OnwardAre
  <2> QED
    BY <1>1, <1>2, <2>1, JumpStrings DEF ReturnEarly
<1>3. ASSUME NEW b \in 1..Len(blocks), NEW V, OwnedIn(blocks, locals, V), Offered(V),
             V[b][1] \subseteq Avail(scope), Jump(Goto(b))
      PROVE  StringsInv'
  <2>1. V[b][1] \subseteq Last(V[current])
    BY <1>3 DEF Offered
  <2>2. Onward(Goto(b), Last(V[current]), V, locals, Len(blocks))
    BY <1>0, <2>1, OnwardAre
  <2> QED
    BY <1>3, <2>2, JumpStrings
<1>4. ASSUME NEW p \in DOMAIN frames, NEW b \in Pending(frames[p]), Jump(Goto(b))
      PROVE  StringsInv'
  <2>1. OfferTrimmed(W, p, b)
    BY <1>1, TrimOffered
  <2>2. PICK V : OwnedIn(blocks, locals, V) /\ Offered(V) /\ V[b] = <<Avail(frames[p].scope)>>
    BY <2>1 DEF OfferTrimmed
  <2>3. V[b][1] = Avail(frames[p].scope)
    BY <2>2
  <2>4. V[b][1] \subseteq Avail(scope)
    BY <2>3, ScopesGrow
  <2>5. b \in 1..Len(blocks)
    BY FramesAre, Sizes
  <2> QED
    BY <1>3, <1>4, <2>2, <2>4, <2>5
<1>5. ASSUME NEW p \in DOMAIN frames, frames[p].kind = "loop", Jump(Goto(frames[p].other))
      PROVE  StringsInv'
  <2>1. IsLoop(frames[p]) /\ HeadOf(frames[p]) = frames[p].other
    BY <1>5 DEF IsLoop, HeadOf
  <2>2. W[frames[p].other][1] \subseteq Avail(frames[p].scope)
    BY <1>1, <2>1 DEF Offered
  <2>3. W[frames[p].other][1] \subseteq Avail(scope)
    BY <2>2, ScopesGrow
  <2>4. frames[p].other \in 1..Len(blocks)
    BY <2>1, FramesAre, Sizes
  <2> QED
    BY <1>1, <1>3, <1>5, <2>3, <2>4
<1>6. CASE Break
  <2>1. PICK p \in LoopFrames : Jump(Goto(frames[p].after))
    BY <1>6 DEF Break
  <2> QED
    BY <1>4, <2>1 DEF LoopFrames, Pending
<1>7. CASE Continue
  <2>1. PICK p \in LoopFrames : Jump(Goto(frames[p].other))
    BY <1>7 DEF Continue
  <2> QED
    BY <1>4, <1>5, <2>1 DEF LoopFrames, Pending
<1> QED
  BY <1>2, <1>6, <1>7

\* The frame of a construct that opens: what it goes on with is new and empty.
Opens(f, V) ==
  /\ f \in MirFrame /\ f.scope = scope /\ Nest(f)
  /\ \A t \in Pending(f) :
       /\ t \notin DOMAIN blocks /\ blocks'[t] = EmptyBlock /\ t # current'
       /\ Avail(scope) \subseteq V[t][1]
  /\ f.kind \in {"then", "for"} => f.other # f.after
  /\ IsLoop(f) => V[HeadOf(f)][1] \subseteq Avail(scope)
  /\ current' \notin DOMAIN blocks /\ blocks'[current'].term = NoTerm
  /\ Avail(scope) \subseteq Last(V[current'])

LEMMA OpenedStrings ==
  ASSUME LowerInv, StringsInv, NEW W, OwnedIn(blocks, locals, W), Offered(W),
         NEW V, Fits(blocks', V, blocks, W, current, locals), NEW f, Opens(f, V)
  PROVE  StringsInv'
<1> DEFINE k == Len(frames)
<1>0. /\ frames \in Seq(MirFrame) /\ f \in MirFrame /\ locals \in Seq(MirLocal)
      /\ scope \subseteq DOMAIN locals
  BY Sizes DEF LowerInv, GoodFrames, Opens
<1>1. /\ frames' = Append(frames, f) /\ locals' = locals /\ scope' = scope /\ moved' = moved
      /\ f.scope = scope
  BY DEF Nest, Opens
<1>2. /\ k \in Nat /\ DOMAIN frames = 1..k
      /\ DOMAIN frames' = 1..(k + 1) /\ Len(frames') = k + 1
      /\ \A p \in DOMAIN frames : frames'[p] = frames[p]
      /\ frames'[k + 1] = f
      /\ \A p \in DOMAIN frames' : p \in DOMAIN frames \/ p = k + 1
  BY <1>0, <1>1, AppendedFrames
<1> HIDE DEF k
<1>3. \A j \in DOMAIN blocks : j # current => blocks'[j] = blocks[j] /\ V[j] = W[j]
  BY DEF Fits, Extends
<1>4. \A j \in DOMAIN blocks : V[j][1] = W[j][1]
  BY DEF Fits, Extends
<1>5. \A p : Avail(frames[p].scope)' = Avail(frames'[p].scope)
  BY <1>1 DEF Avail
<1>6. \A p \in DOMAIN frames : \A t \in Pending(frames[p]) :
        t \in DOMAIN blocks /\ t # current /\ blocks[t] = EmptyBlock
  BY FramesAre DEF StringsInv, PendingOf
<1>7. PendingOf(frames', blocks', current')
  <2>1. ASSUME NEW p \in DOMAIN frames', NEW t \in Pending(frames'[p])
        PROVE  blocks'[t] = EmptyBlock /\ t # current'
    <3>1. CASE p \in DOMAIN frames
      BY <1>2, <1>3, <1>6, <3>1 DEF Opens
    <3>2. CASE p = k + 1
      BY <1>2, <3>2 DEF Opens
    <3> QED
      BY <1>2, <3>1, <3>2
  <2>2. \A p \in DOMAIN frames : Pending(frames[p]) \cap Pending(f) = {}
    BY <1>6 DEF Opens
  <2>3. ASSUME NEW p \in DOMAIN frames', NEW q \in DOMAIN frames', p # q
        PROVE  Pending(frames'[p]) \cap Pending(frames'[q]) = {}
    <3>1. CASE p \in DOMAIN frames /\ q \in DOMAIN frames
      BY <1>2, <2>3, <3>1 DEF StringsInv, PendingOf
    <3>2. CASE p = k + 1 /\ q \in DOMAIN frames
      BY <1>2, <2>2, <3>2
    <3>3. CASE q = k + 1 /\ p \in DOMAIN frames
      BY <1>2, <2>2, <3>3
    <3> QED
      BY <1>2, <2>3, <3>1, <3>2, <3>3
  <2>4. ASSUME NEW p \in DOMAIN frames', frames'[p].kind \in {"then", "for"}
        PROVE  frames'[p].other # frames'[p].after
    <3>1. CASE p \in DOMAIN frames
      BY <1>2, <2>4, <3>1 DEF StringsInv, PendingOf
    <3>2. CASE p = k + 1
      BY <1>2, <2>4, <3>2 DEF Opens
    <3> QED
      BY <1>2, <3>1, <3>2
  <2> QED
    BY <2>1, <2>3, <2>4 DEF PendingOf
<1>8. ScopesNest(frames', scope', locals')
  <2>1. ScopesNest(frames, f.scope, locals) /\ f.scope \subseteq DOMAIN locals
    BY <1>0, <1>1 DEF StringsInv
  <2> QED
    BY <1>0, <1>1, <2>1, ScopesPush
<1>9. Offered(V)'
  <2>1. Avail(scope)' \subseteq Last(V[current'])
    BY <1>1, <1>5 DEF Opens, Avail
  <2>2. ASSUME NEW p \in DOMAIN frames', NEW t \in Pending(frames'[p])
        PROVE  Avail(frames[p].scope)' \subseteq V[t][1]
    <3>1. CASE p \in DOMAIN frames
      <4>1. Avail(frames[p].scope) \subseteq W[t][1] /\ V[t] = W[t] /\ frames'[p] = frames[p]
        BY <1>2, <1>3, <1>6, <2>2, <3>1 DEF Offered
      <4> QED
        BY <1>5, <4>1
    <3>2. CASE p = k + 1
      <4>1. frames'[p] = f
        BY <1>2, <3>2
      <4> QED
        BY <1>1, <1>5, <2>2, <4>1 DEF Opens
    <3> QED
      BY <1>2, <3>1, <3>2
  <2>3. ASSUME NEW p \in DOMAIN frames', IsLoop(frames'[p])
        PROVE  V[HeadOf(frames'[p])][1] \subseteq Avail(frames[p].scope)'
    <3>1. CASE p \in DOMAIN frames
      <4>1. frames'[p] = frames[p]
        BY <1>2, <3>1
      <4>2. V[HeadOf(frames[p])][1] \subseteq Avail(frames[p].scope)
        BY <1>4, <2>3, <3>1, <4>1, FramesAre DEF Offered
      <4> QED
        BY <1>5, <4>1, <4>2
    <3>2. CASE p = k + 1
      <4>1. frames'[p] = f
        BY <1>2, <3>2
      <4> QED
        BY <1>1, <1>5, <2>3, <4>1 DEF Opens
    <3> QED
      BY <1>2, <3>1, <3>2
  <2> QED
    BY <2>1, <2>2, <2>3 DEF Offered
<1>10. OwnedIn(blocks', locals', V) /\ blocks'[current'].term = NoTerm
  BY <1>1 DEF Fits, Opens
<1> QED
  BY <1>7, <1>8, <1>9, <1>10 DEF StringsInv

\* What is in scope is a set of strings, and fresh blocks may own it.
LEMMA ScopeOwned ==
  ASSUME LowerInv, NEW W, OwnedIn(blocks, locals, W), Offered(W)
  PROVE  /\ Strings(Avail(scope), locals)
         /\ Fits(blocks, W, blocks, W, current, locals) /\ Fresh(current, blocks, current)
         /\ Avail(scope) \subseteq Last(W[current])
<1>1. scope \subseteq 1..Len(locals) /\ 1..Len(locals) \subseteq Nat
  BY Sizes DEF LowerInv
<1>2. Strings(Avail(scope), locals)
  BY <1>1 DEF Avail, Strings
<1>3. current \in DOMAIN blocks /\ GoodBody(blocks, locals)
  BY Sizes DEF LowerInv
<1> QED
  BY <1>2, <1>3, FitsSelf DEF Fresh, Offered

LEMMA OpenLoopStrings == ASSUME LowerInv, StringsInv, OpenLoop PROVE StringsInv'
<1> DEFINE n == Len(blocks)
           C == create_block(blocks, 2)
           f == [kind |-> "loop", other |-> n + 1, after |-> n + 2, head |-> n + 1, scope |-> scope]
           S == Avail(scope)
<1>0. n \in Nat /\ DOMAIN blocks = 1..n /\ current \in 1..n
  BY Sizes DEF LowerInv
<1>1. blocks' = set_terminator(C, current, Goto(n + 1)) /\ current' = n + 1 /\ Nest(f)
  BY DEF OpenLoop
<1>2. /\ n + 1 \in 1..(n + 2) /\ n + 2 \in 1..(n + 2) /\ current \in 1..(n + 2) /\ n + 1 # n + 2
      /\ n + 1 \in (n + 1)..(n + 2) /\ n + 2 \in (n + 1)..(n + 2) /\ 2 \in Nat
      /\ n + 1 \in Nat /\ n + 2 \in Nat /\ n + 1 # current /\ n + 2 # current
      /\ n + 1 \notin DOMAIN blocks /\ n + 2 \notin DOMAIN blocks
  BY <1>0
<1>3. f \in MirFrame /\ f.kind = "loop" /\ f.other = n + 1 /\ f.after = n + 2 /\ f.scope = scope
  BY <1>2, FrameOf
<1> HIDE DEF f
<1>4. PICK W : OwnedIn(blocks, locals, W) /\ Offered(W)
  BY DEF StringsInv
<1>5. /\ Strings(S, locals) /\ Fits(blocks, W, blocks, W, current, locals)
      /\ Fresh(current, blocks, current) /\ S \subseteq Last(W[current])
  BY <1>4, ScopeOwned
<1> HIDE DEF S
<1>6. /\ FitsMore(blocks, W, blocks, W, current, locals, 2, S) /\ Len(C) = n + 2
      /\ \A j \in (n + 1)..(n + 2) : C[j] = EmptyBlock
  BY <1>2, <1>5, FitsCreate
<1>7. PICK V : /\ Fits(C, V, blocks, W, current, locals) /\ (\A j \in 1..n : V[j] = W[j])
               /\ \A j \in (n + 1)..(n + 2) : V[j] = <<S>>
  BY <1>6 DEF FitsMore
<1> HIDE DEF C, n
<1>8. \A j \in {n + 1, n + 2} : V[j][1] = S /\ Last(V[j]) = S
  BY <1>2, <1>5, <1>7, OwnedOne
<1>9. V[current] = W[current]
  BY <1>0, <1>7
<1>10. Onward(Goto(n + 1), Last(V[current]), V, locals, n + 2)
  BY <1>2, <1>5, <1>8, <1>9, OnwardAre
<1>11. /\ Fits(blocks', V, blocks, W, current, locals)
       /\ \A j \in 1..(n + 2) : j # current => blocks'[j] = C[j]
  BY <1>1, <1>2, <1>5, <1>6, <1>7, <1>10, FitsSet
<1>12. blocks'[n + 1] = EmptyBlock /\ blocks'[n + 2] = EmptyBlock
  BY <1>2, <1>6, <1>11
<1>13. Opens(f, V)
  <2>1. Pending(f) = {n + 2} /\ HeadOf(f) = n + 1
    BY <1>3 DEF Pending, HeadOf
  <2> QED
    BY <1>1, <1>2, <1>3, <1>8, <1>12, <2>1, EmptySuccs DEF Opens, S
<1> QED
  BY <1>4, <1>11, <1>13, OpenedStrings

LEMMA OpenForStrings == ASSUME LowerInv, StringsInv, OpenFor PROVE StringsInv'
<1> DEFINE n == Len(blocks)
           C == create_block(blocks, 4)
           D == set_terminator(C, current, Goto(n + 1))
           f == [kind |-> "for", other |-> n + 3, after |-> n + 4, head |-> n + 1, scope |-> scope]
           S == Avail(scope)
<1>0. n \in Nat /\ DOMAIN blocks = 1..n /\ current \in 1..n
  BY Sizes DEF LowerInv
<1>1. blocks' = set_terminator(D, n + 1, If(n + 4, n + 2)) /\ current' = n + 2 /\ Nest(f)
  BY DEF OpenFor
<1>2. /\ n + 1 \in 1..(n + 4) /\ n + 2 \in 1..(n + 4) /\ n + 3 \in 1..(n + 4)
      /\ n + 4 \in 1..(n + 4) /\ current \in 1..(n + 4) /\ 4 \in Nat
      /\ n + 1 \in (n + 1)..(n + 4) /\ n + 2 \in (n + 1)..(n + 4)
      /\ n + 3 \in (n + 1)..(n + 4) /\ n + 4 \in (n + 1)..(n + 4)
      /\ n + 1 \in Nat /\ n + 3 \in Nat /\ n + 4 \in Nat
      /\ n + 2 \notin {current, n + 1, n + 3, n + 4}
      /\ n + 3 \notin {current, n + 1, n + 4} /\ n + 4 \notin {current, n + 1}
      /\ n + 1 \notin DOMAIN blocks /\ n + 2 \notin DOMAIN blocks
      /\ n + 3 \notin DOMAIN blocks /\ n + 4 \notin DOMAIN blocks
  BY <1>0
<1>3. /\ f \in MirFrame /\ f.kind = "for" /\ f.other = n + 3 /\ f.after = n + 4
      /\ f.head = n + 1 /\ f.scope = scope
  BY <1>2, FrameOf
<1> HIDE DEF f
<1>4. PICK W : OwnedIn(blocks, locals, W) /\ Offered(W)
  BY DEF StringsInv
<1>5. /\ Strings(S, locals) /\ Fits(blocks, W, blocks, W, current, locals)
      /\ Fresh(current, blocks, current) /\ S \subseteq Last(W[current])
  BY <1>4, ScopeOwned
<1> HIDE DEF S
<1>6. /\ FitsMore(blocks, W, blocks, W, current, locals, 4, S) /\ Len(C) = n + 4
      /\ \A j \in (n + 1)..(n + 4) : C[j] = EmptyBlock
  <2> HIDE DEF n
  <2>1. /\ FitsMore(blocks, W, blocks, W, current, locals, 4, S) /\ Len(C) = Len(blocks) + 4
        /\ \A j \in (Len(blocks) + 1)..(Len(blocks) + 4) : C[j] = EmptyBlock
    BY <1>2, <1>5, FitsCreate
  <2> HIDE DEF C
  <2> QED
    BY <2>1 DEF n
<1>7. PICK V : /\ Fits(C, V, blocks, W, current, locals) /\ (\A j \in 1..n : V[j] = W[j])
               /\ \A j \in (n + 1)..(n + 4) : V[j] = <<S>>
  BY <1>6 DEF FitsMore
<1> HIDE DEF C, n
<1>8. \A j \in {n + 1, n + 2, n + 3, n + 4} : V[j][1] = S /\ Last(V[j]) = S
  BY <1>2, <1>5, <1>7, OwnedOne
<1>9. V[current] = W[current]
  BY <1>0, <1>7
<1>10. /\ Onward(Goto(n + 1), Last(V[current]), V, locals, n + 4)
       /\ Onward(If(n + 4, n + 2), Last(V[n + 1]), V, locals, n + 4)
  BY <1>2, <1>5, <1>8, <1>9, OnwardAre
<1>11. /\ Fits(D, V, blocks, W, current, locals) /\ Len(D) = n + 4
       /\ \A j \in 1..(n + 4) : j # current => D[j] = C[j]
  BY <1>2, <1>5, <1>6, <1>7, <1>10, FitsSet
<1> HIDE DEF D
<1>12. Fresh(n + 1, blocks, current)
  BY <1>2 DEF Fresh
<1>13. /\ Fits(blocks', V, blocks, W, current, locals)
       /\ \A j \in 1..(n + 4) : j # n + 1 => blocks'[j] = D[j]
  BY <1>1, <1>2, <1>10, <1>11, <1>12, FitsSet
<1>14. \A j \in {n + 2, n + 3, n + 4} : blocks'[j] = EmptyBlock
  BY <1>2, <1>6, <1>11, <1>13
<1>15. Opens(f, V)
  <2>1. Pending(f) = {n + 3, n + 4} /\ HeadOf(f) = n + 1
    BY <1>3 DEF Pending, HeadOf
  <2> QED
    BY <1>1, <1>2, <1>3, <1>8, <1>14, <2>1, EmptySuccs DEF Opens, S
<1> QED
  BY <1>4, <1>13, <1>15, OpenedStrings

LEMMA OpenIfStrings == ASSUME LowerInv, StringsInv, OpenIf PROVE StringsInv'
<1>0. GoodBody(blocks, locals) /\ current \in 1..Len(blocks) /\ Len(blocks) \in Nat
      /\ DOMAIN blocks = 1..Len(blocks)
  BY Sizes DEF LowerInv
<1>1. PICK c \in Conditions("if_and", blocks, current, intent) :
        LET n == Len(c.blocks)
        IN /\ blocks' = set_terminator(create_block(c.blocks, 3), c.at, If(n + 1, n + 2))
           /\ current' = n + 1
           /\ Nest([kind |-> "then", other |-> n + 2, after |-> n + 3, head |-> 0, scope |-> scope])
  BY DEF OpenIf
<1> DEFINE n == Len(c.blocks)
           C == create_block(c.blocks, 3)
           f == [kind |-> "then", other |-> n + 2, after |-> n + 3, head |-> 0, scope |-> scope]
           S == Avail(scope)
<1>2. blocks' = set_terminator(C, c.at, If(n + 1, n + 2)) /\ current' = n + 1 /\ Nest(f)
  BY <1>1
<1>3. PICK W : OwnedIn(blocks, locals, W) /\ Offered(W)
  BY DEF StringsInv
<1>4. /\ Strings(S, locals) /\ S \subseteq Last(W[current])
  BY <1>3, ScopeOwned
<1> HIDE DEF S
<1>5. /\ Conditioned(c, blocks, W, current, locals)
      /\ Fresh(c.at, blocks, current) /\ c.at \in 1..n /\ n \in Nat /\ Len(blocks) <= n
  BY <1>0, <1>3, ConditionOwned
<1>6. PICK U : Fits(c.blocks, U, blocks, W, current, locals) /\ Last(U[c.at]) = Last(W[current])
  BY <1>5 DEF Conditioned
<1>7. /\ FitsMore(c.blocks, U, blocks, W, current, locals, 3, S) /\ Len(C) = n + 3
      /\ \A j \in (n + 1)..(n + 3) : C[j] = EmptyBlock
  <2> DEFINE B == c.blocks
  <2>1. Fits(B, U, blocks, W, current, locals) /\ Strings(S, locals) /\ 3 \in Nat
    BY <1>4, <1>6
  <2> HIDE DEF B, n, f
  <2>2. /\ FitsMore(B, U, blocks, W, current, locals, 3, S)
        /\ Len(create_block(B, 3)) = Len(B) + 3
        /\ \A j \in (Len(B) + 1)..(Len(B) + 3) : create_block(B, 3)[j] = EmptyBlock
    BY <2>1, FitsCreate
  <2> QED
    BY <2>2 DEF n, B
<1>8. PICK V : /\ Fits(C, V, blocks, W, current, locals) /\ (\A j \in 1..n : V[j] = U[j])
               /\ \A j \in (n + 1)..(n + 3) : V[j] = <<S>>
  BY <1>7 DEF FitsMore
<1>9. /\ n + 1 \in 1..(n + 3) /\ n + 2 \in 1..(n + 3) /\ n + 3 \in 1..(n + 3)
      /\ c.at \in 1..(n + 3) /\ n + 3 \in Nat /\ n + 2 \in Nat /\ 0 \in Nat
      /\ n + 1 \in (n + 1)..(n + 3) /\ n + 2 \in (n + 1)..(n + 3) /\ n + 3 \in (n + 1)..(n + 3)
      /\ n + 1 # c.at /\ n + 2 \notin {c.at, n + 1, n + 3} /\ n + 3 \notin {c.at, n + 1}
      /\ n + 1 \notin DOMAIN blocks /\ n + 2 \notin DOMAIN blocks /\ n + 3 \notin DOMAIN blocks
  BY <1>0, <1>5
<1>10. f \in MirFrame /\ f.kind = "then" /\ f.other = n + 2 /\ f.after = n + 3 /\ f.scope = scope
  BY <1>9, FrameOf
<1> HIDE DEF C, n, f
<1>11. \A j \in {n + 1, n + 2, n + 3} : V[j][1] = S /\ Last(V[j]) = S
  BY <1>4, <1>8, <1>9, OwnedOne
<1>12. S \subseteq Last(V[c.at])
  BY <1>4, <1>5, <1>6, <1>8
<1>13. Onward(If(n + 1, n + 2), Last(V[c.at]), V, locals, n + 3)
  BY <1>9, <1>11, <1>12, OnwardAre
<1>14. /\ Fits(blocks', V, blocks, W, current, locals)
       /\ \A j \in 1..(n + 3) : j # c.at => blocks'[j] = C[j]
  BY <1>2, <1>5, <1>7, <1>8, <1>9, <1>13, FitsSet
<1>15. \A j \in {n + 1, n + 2, n + 3} : blocks'[j] = EmptyBlock
  BY <1>7, <1>9, <1>14
<1>16. Opens(f, V)
  <2>1. Pending(f) = {n + 2, n + 3} /\ ~IsLoop(f)
    BY <1>10 DEF Pending, IsLoop
  <2> QED
    BY <1>2, <1>9, <1>10, <1>11, <1>15, <2>1, EmptySuccs DEF Opens, S
<1> QED
  BY <1>3, <1>14, <1>16, OpenedStrings

LEMMA OpenWhileStrings == ASSUME LowerInv, StringsInv, OpenWhile PROVE StringsInv'
<1> DEFINE n == Len(blocks)
           C == create_block(blocks, 3)
           D == set_terminator(C, current, Goto(n + 1))
           f == [kind |-> "loop", other |-> n + 1, after |-> n + 3, head |-> n + 1, scope |-> scope]
           S == Avail(scope)
<1>0. n \in Nat /\ DOMAIN blocks = 1..n /\ current \in 1..n
  BY Sizes DEF LowerInv
<1>1. PICK c \in Conditions("while_and", D, n + 1, intent) :
        /\ blocks' = set_terminator(c.blocks, c.at, If(n + 2, n + 3))
        /\ current' = n + 2
        /\ Nest(f)
  BY DEF OpenWhile
<1>2. /\ n + 1 \in 1..(n + 3) /\ n + 2 \in 1..(n + 3) /\ n + 3 \in 1..(n + 3)
      /\ current \in 1..(n + 3) /\ 3 \in Nat /\ n + 3 \in Nat
      /\ n + 1 \in (n + 1)..(n + 3) /\ n + 2 \in (n + 1)..(n + 3) /\ n + 3 \in (n + 1)..(n + 3)
      /\ n + 1 \in Nat /\ n + 1 # current
      /\ n + 2 \notin {current, n + 1, n + 3} /\ n + 3 \notin {current, n + 1}
      /\ n + 1 \notin DOMAIN blocks /\ n + 2 \notin DOMAIN blocks /\ n + 3 \notin DOMAIN blocks
  BY <1>0
<1>3. f \in MirFrame /\ f.kind = "loop" /\ f.other = n + 1 /\ f.after = n + 3 /\ f.scope = scope
  BY <1>2, FrameOf
<1> HIDE DEF f
<1>4. PICK W : OwnedIn(blocks, locals, W) /\ Offered(W)
  BY DEF StringsInv
<1>5. /\ Strings(S, locals) /\ Fits(blocks, W, blocks, W, current, locals)
      /\ Fresh(current, blocks, current) /\ S \subseteq Last(W[current])
  BY <1>4, ScopeOwned
<1> HIDE DEF S
<1>6. /\ FitsMore(blocks, W, blocks, W, current, locals, 3, S) /\ Len(C) = n + 3
      /\ \A j \in (n + 1)..(n + 3) : C[j] = EmptyBlock
  BY <1>2, <1>5, FitsCreate
<1>7. PICK V : /\ Fits(C, V, blocks, W, current, locals) /\ (\A j \in 1..n : V[j] = W[j])
               /\ \A j \in (n + 1)..(n + 3) : V[j] = <<S>>
  BY <1>6 DEF FitsMore
<1> HIDE DEF C, n
<1>8. \A j \in {n + 1, n + 2, n + 3} : V[j][1] = S /\ Last(V[j]) = S
  BY <1>2, <1>5, <1>7, OwnedOne
<1>9. V[current] = W[current]
  BY <1>0, <1>7
<1>10. Onward(Goto(n + 1), Last(V[current]), V, locals, n + 3)
  BY <1>2, <1>5, <1>8, <1>9, OnwardAre
<1>11. /\ Fits(D, V, blocks, W, current, locals) /\ Len(D) = n + 3
       /\ \A j \in 1..(n + 3) : j # current => D[j] = C[j]
  BY <1>2, <1>5, <1>6, <1>7, <1>10, FitsSet
<1> HIDE DEF D
<1>12. GoodBody(D, locals) /\ OwnedIn(D, locals, V) /\ DOMAIN D = 1..(n + 3)
  BY <1>11, LenProperties DEF Fits, GoodBody
<1>13. /\ Conditioned(c, D, V, n + 1, locals) /\ Fresh(c.at, D, n + 1)
       /\ c.at \in 1..Len(c.blocks) /\ Len(c.blocks) \in Nat /\ n + 3 <= Len(c.blocks)
  BY <1>2, <1>11, <1>12, ConditionOwned
<1>14. PICK U : Fits(c.blocks, U, D, V, n + 1, locals) /\ Last(U[c.at]) = Last(V[n + 1])
  BY <1>13 DEF Conditioned
<1>15. Fits(c.blocks, U, blocks, W, current, locals)
  BY <1>2, <1>11, <1>14, FitsOn DEF Fresh
<1>16. /\ U[n + 1][1] = S /\ U[n + 2] = V[n + 2] /\ U[n + 3] = V[n + 3]
       /\ c.blocks[n + 2] = EmptyBlock /\ c.blocks[n + 3] = EmptyBlock
  <2>1. \A j \in {n + 2, n + 3} : c.blocks[j] = D[j] /\ U[j] = V[j]
    BY <1>2, <1>12, <1>14 DEF Fits, Extends
  <2>2. U[n + 1][1] = V[n + 1][1]
    BY <1>14 DEF Fits, Extends
  <2> QED
    BY <1>2, <1>6, <1>8, <1>11, <2>1, <2>2
<1>17. c.at \notin DOMAIN blocks /\ c.at # n + 2 /\ c.at # n + 3
  <2>1. DOMAIN blocks \subseteq 1..(n + 3)
    BY <1>0
  <2> QED
    BY <1>2, <1>12, <1>13, <2>1 DEF Fresh
<1>18. Fresh(c.at, blocks, current)
  BY <1>17 DEF Fresh
<1>19. Last(U[c.at]) = S
  BY <1>8, <1>14
<1>20. n + 2 \in 1..Len(c.blocks) /\ n + 3 \in 1..Len(c.blocks)
  BY <1>0, <1>13
<1>21. Onward(If(n + 2, n + 3), Last(U[c.at]), U, locals, Len(c.blocks))
  BY <1>8, <1>13, <1>16, <1>19, <1>20, OnwardAre
<1>22. /\ Fits(blocks', U, blocks, W, current, locals)
       /\ \A j \in 1..Len(c.blocks) : j # c.at => blocks'[j] = c.blocks[j]
  BY <1>1, <1>13, <1>15, <1>18, <1>21, FitsSet
<1>23. blocks'[n + 2] = EmptyBlock /\ blocks'[n + 3] = EmptyBlock
  BY <1>16, <1>17, <1>20, <1>22
<1>24. Opens(f, U)
  <2>1. Pending(f) = {n + 3} /\ HeadOf(f) = n + 1
    BY <1>3 DEF Pending, HeadOf
  <2> QED
    BY <1>1, <1>2, <1>3, <1>8, <1>16, <1>23, <2>1, EmptySuccs DEF Opens, S
<1> QED
  BY <1>4, <1>22, <1>24, OpenedStrings

LEMMA OwnedEmpty ==
  ASSUME NEW B, NEW T, NEW V, OwnedIn(B, T, V), NEW i \in DOMAIN B, B[i].stmts = <<>>
  PROVE  Last(V[i]) = V[i][1]
<1>1. Len(V[i]) = Len(B[i].stmts) + 1
  BY DEF OwnedIn, OwnedBlock
<1>2. Len(<<>>) = 0
  OBVIOUS
<1>3. Len(V[i]) = 1
  BY <1>1, <1>2
<1> QED
  BY <1>3 DEF Last

\* What is left when the innermost construct f ends, or goes on with its else.
Closes(f, V) ==
  /\ scope' = f.scope /\ locals' = locals /\ moved' = moved
  /\ OwnedIn(blocks', locals, V)
  /\ \A j \in DOMAIN blocks : j # current /\ j \notin Pending(f) => blocks'[j] = blocks[j]
  /\ current' \in Pending(f) /\ current' \in DOMAIN blocks' /\ blocks'[current'] = EmptyBlock
  /\ \/ frames' = Front(frames)
     \/ /\ frames' = Append(Front(frames), [f EXCEPT !.kind = "else"])
        /\ f.kind = "then" /\ current' = f.other /\ blocks'[f.after] = EmptyBlock

LEMMA ClosedStrings ==
  ASSUME LowerInv, StringsInv, frames # <<>>, NEW f, f = Last(frames),
         NEW V, Offered(V), Closes(f, V)
  PROVE  StringsInv'
<1> DEFINE k == Len(frames)
           G == Front(frames)
           g == [f EXCEPT !.kind = "else"]
<1>0. frames \in Seq(MirFrame)
  BY DEF LowerInv, GoodFrames
<1>1. /\ G \in Seq(MirFrame) /\ DOMAIN G = 1..(k - 1)
      /\ k \in Nat /\ k \in DOMAIN frames /\ k - 1 \in Nat /\ DOMAIN frames = 1..k /\ Len(G) = k - 1
      /\ \A p \in 1..(k - 1) : G[p] = frames[p] /\ p \in DOMAIN frames /\ p # k
      /\ f = frames[k]
  BY <1>0, FrontFrames
<1>2. f \in MirFrame
  BY <1>0, <1>1, ElementOfSeq
<1>3. /\ g \in MirFrame /\ g.kind = "else" /\ g.other = f.other /\ g.after = f.after
      /\ g.scope = f.scope
  BY <1>2 DEF MirFrame
<1>4. ScopesNest(G, f.scope, locals) /\ f.scope \subseteq DOMAIN locals
  <2>1. ScopesNest(frames, scope, locals)
    BY DEF StringsInv
  <2> QED
    BY <1>0, <1>1, <2>1, ScopesPop, FramesAre
<1>5. Pending(g) = {f.after} /\ (f.kind = "then" => Pending(f) = {f.after, f.other})
      /\ ~IsLoop(g)
  BY <1>3 DEF Pending, IsLoop
<1> HIDE DEF G, g, k
<1> DEFINE Rest == frames' = G
           Else == /\ frames' = Append(G, g) /\ f.kind = "then" /\ current' = f.other
                   /\ blocks'[f.after] = EmptyBlock
<1>6. Rest \/ Else
  BY DEF Closes, G, g
<1>7. /\ DOMAIN frames' = IF Rest THEN DOMAIN G ELSE 1..k
      /\ \A p \in DOMAIN G : frames'[p] = G[p]
      /\ ~Rest => frames'[k] = g
      /\ \A p \in DOMAIN frames' : p \in DOMAIN G \/ (p = k /\ ~Rest)
      /\ frames' \in Seq(MirFrame)
  <2>1. CASE Rest
    BY <1>1, <2>1
  <2>2. CASE ~Rest
    <3>0. frames' = Append(G, g)
      BY <1>6, <2>2
    <3> DEFINE A == Append(G, g)
    <3>1. /\ A \in Seq(MirFrame) /\ Len(G) \in Nat /\ DOMAIN G = 1..Len(G)
          /\ DOMAIN A = 1..(Len(G) + 1)
          /\ \A p \in DOMAIN G : A[p] = G[p]
          /\ A[Len(G) + 1] = g
          /\ \A p \in DOMAIN A : p \in DOMAIN G \/ p = Len(G) + 1
      BY <1>1, <1>3, AppendedFrames
    <3> HIDE DEF A
    <3>2. Len(G) + 1 = k
      BY <1>1
    <3>3. frames' = A
      BY <3>0 DEF A
    <3> QED
      BY <2>2, <3>1, <3>2, <3>3
  <2> QED
    BY <2>1, <2>2
<1>8. \A p \in DOMAIN G : p \in DOMAIN frames /\ G[p] = frames[p] /\ p # k
  BY <1>1
<1>9. ASSUME NEW p \in DOMAIN G, NEW t \in Pending(G[p])
      PROVE  t \in DOMAIN blocks /\ t # current /\ t \notin Pending(f) /\ blocks[t] = EmptyBlock
  BY <1>1, <1>8, FramesAre DEF StringsInv, PendingOf
<1>10. PendingOf(frames', blocks', current')
  <2>1. ASSUME NEW p \in DOMAIN frames', NEW t \in Pending(frames'[p])
        PROVE  blocks'[t] = EmptyBlock /\ t # current'
    <3>1. CASE p \in DOMAIN G
      BY <1>7, <1>9, <3>1 DEF Closes
    <3>2. CASE p = k /\ ~Rest
      <4>1. t = f.after
        BY <1>5, <1>7, <3>2
      <4>2. f.after # f.other
        BY <1>1, <1>6, <3>2 DEF StringsInv, PendingOf
      <4> QED
        BY <1>6, <3>2, <4>1, <4>2
    <3> QED
      BY <1>7, <3>1, <3>2
  <2>2. \A p \in DOMAIN G : f.after \notin Pending(G[p])
    BY <1>9 DEF Pending
  <2>3. ASSUME NEW p \in DOMAIN frames', NEW q \in DOMAIN frames', p # q
        PROVE  Pending(frames'[p]) \cap Pending(frames'[q]) = {}
    <3>1. CASE p \in DOMAIN G /\ q \in DOMAIN G
      BY <1>7, <1>8, <2>3, <3>1 DEF StringsInv, PendingOf
    <3>2. CASE p = k /\ ~Rest /\ q \in DOMAIN G
      BY <1>5, <1>7, <2>2, <3>2
    <3>3. CASE q = k /\ ~Rest /\ p \in DOMAIN G
      BY <1>5, <1>7, <2>2, <3>3
    <3> QED
      BY <1>7, <2>3, <3>1, <3>2, <3>3
  <2>4. ASSUME NEW p \in DOMAIN frames', frames'[p].kind \in {"then", "for"}
        PROVE  frames'[p].other # frames'[p].after
    <3>1. CASE p \in DOMAIN G
      BY <1>7, <1>8, <2>4, <3>1 DEF StringsInv, PendingOf
    <3>2. CASE p = k /\ ~Rest
      BY <1>3, <1>7, <2>4, <3>2
    <3> QED
      BY <1>7, <3>1, <3>2
  <2> QED
    BY <2>1, <2>3, <2>4 DEF PendingOf
<1>11. ScopesNest(frames', scope', locals')
  <2>1. CASE Rest
    BY <1>4, <2>1 DEF Closes
  <2>2. CASE ~Rest
    <3>1. ScopesNest(G, g.scope, locals) /\ g.scope \subseteq DOMAIN locals
      BY <1>3, <1>4
    <3>2. locals \in Seq(MirLocal)
      BY DEF LowerInv
    <3>3. ScopesNest(Append(G, g), g.scope, locals)
      BY <1>1, <1>3, <3>1, <3>2, ScopesPush
    <3> QED
      BY <1>3, <1>6, <2>2, <3>3 DEF Closes
  <2> QED
    BY <2>1, <2>2
<1>12. \A p : Avail(frames[p].scope)' = Avail(frames'[p].scope)
  BY DEF Closes, Avail
<1>13. Avail(scope)' = Avail(f.scope)
  BY DEF Closes, Avail
<1>14. Offered(V)'
  <2>1. Avail(scope)' \subseteq Last(V[current'])
    <3>1. Last(V[current']) = V[current'][1]
      BY EmptySuccs, OwnedEmpty DEF Closes
    <3>2. Avail(f.scope) \subseteq V[current'][1]
      BY <1>1 DEF Offered, Closes
    <3> QED
      BY <1>13, <3>1, <3>2
  <2>2. ASSUME NEW p \in DOMAIN frames', NEW t \in Pending(frames'[p])
        PROVE  Avail(frames[p].scope)' \subseteq V[t][1]
    <3>1. CASE p \in DOMAIN G
      BY <1>7, <1>8, <1>12, <2>2, <3>1 DEF Offered
    <3>2. CASE p = k /\ ~Rest
      <4>1. t = f.after /\ f.after \in Pending(f) /\ frames'[p].scope = f.scope
        BY <1>3, <1>5, <1>7, <2>2, <3>2 DEF Pending
      <4>2. Avail(f.scope) \subseteq V[t][1]
        BY <1>1, <4>1 DEF Offered
      <4> QED
        BY <1>12, <4>1, <4>2
    <3> QED
      BY <1>7, <3>1, <3>2
  <2>3. ASSUME NEW p \in DOMAIN frames', IsLoop(frames'[p])
        PROVE  V[HeadOf(frames'[p])][1] \subseteq Avail(frames[p].scope)'
    <3>1. CASE p \in DOMAIN G
      BY <1>7, <1>8, <1>12, <2>3, <3>1 DEF Offered
    <3>2. CASE p = k /\ ~Rest
      BY <1>5, <1>7, <2>3, <3>2
    <3> QED
      BY <1>7, <3>1, <3>2
  <2> QED
    BY <2>1, <2>2, <2>3 DEF Offered
<1>15. OwnedIn(blocks', locals', V) /\ blocks'[current'].term = NoTerm
  BY EmptySuccs DEF Closes
<1> QED
  BY <1>10, <1>11, <1>14, <1>15 DEF StringsInv

LEMMA CloseStrings == ASSUME LowerInv, StringsInv, Close PROVE StringsInv'
<1> DEFINE n == Len(blocks)
           f == Last(frames)
           selection == f.kind \in {"then", "else"}
           to == IF selection THEN f.after ELSE f.other
           B == set_terminator(blocks, current, Goto(to))
           k == Len(frames)
           S == Avail(f.scope)
<1>0. /\ n \in Nat /\ current \in 1..n /\ GoodBody(blocks, locals) /\ DOMAIN blocks = 1..n
      /\ frames \in Seq(MirFrame) /\ frames # <<>>
  BY Sizes DEF LowerInv, GoodFrames, Close
<1>1. k \in 1..Len(frames) /\ k \in DOMAIN frames /\ f = frames[k]
  BY <1>0, FrontFrames
<1>2. /\ f \in MirFrame /\ f.kind \in {"then", "else", "loop", "for"}
      /\ f.other \in 1..n /\ f.after \in 1..n /\ (f.kind = "for" => f.head \in 1..n)
  <2>1. f \in MirFrame
    BY <1>0, <1>1, ElementOfSeq
  <2> QED
    BY <1>1, <2>1 DEF LowerInv, GoodFrames, MirFrame
<1>3. /\ scope' = f.scope /\ locals' = locals /\ moved' = moved
      /\ \/ /\ blocks' = B /\ current' = f.other /\ f.kind = "then"
            /\ frames' = Append(Front(frames), [f EXCEPT !.kind = "else"])
         \/ /\ blocks' = CASE f.kind = "then" -> set_terminator(B, f.other, Goto(f.after))
                           [] f.kind = "for" -> set_terminator(B, f.other, Goto(f.head))
                           [] OTHER -> B
            /\ current' = f.after /\ frames' = Front(frames)
  BY DEF Close
<1>4. PICK W : OwnedIn(blocks, locals, W) /\ Offered(W)
  BY DEF StringsInv
<1>5. \A t \in Pending(f) : blocks[t] = EmptyBlock /\ t # current
  BY <1>1 DEF StringsInv, PendingOf
<1>6. f.kind \in {"then", "for"} => f.other # f.after /\ f.other \in Pending(f)
  BY <1>1 DEF StringsInv, PendingOf, Pending
<1>7. f.after \in Pending(f)
  BY DEF Pending
<1>8. \E V : OwnedIn(blocks, locals, V) /\ Offered(V) /\ V[to][1] \subseteq S
  <2>1. CASE to \in Pending(f)
    <3>1. OfferTrimmed(W, k, to)
      BY <1>1, <1>4, <2>1, TrimOffered
    <3>2. PICK V : OwnedIn(blocks, locals, V) /\ Offered(V) /\ V[to] = <<S>>
      BY <1>1, <3>1 DEF OfferTrimmed
    <3>3. V[to][1] = S
      BY <3>2
    <3> QED
      BY <3>2, <3>3
  <2>2. CASE f.kind = "loop"
    <3>1. IsLoop(f) /\ HeadOf(f) = to
      BY <2>2 DEF IsLoop, HeadOf
    <3>2. W[to][1] \subseteq S
      BY <1>1, <1>4, <3>1 DEF Offered
    <3> QED
      BY <1>4, <3>2
  <2> QED
    BY <1>2, <1>6, <1>7, <2>1, <2>2
<1>9. PICK V : OwnedIn(blocks, locals, V) /\ Offered(V) /\ V[to][1] \subseteq S
  BY <1>8
<1>10. S \subseteq Last(V[current])
  <2>1. S \subseteq Avail(scope)
    BY <1>1, ScopesGrow
  <2> QED
    BY <1>9, <2>1 DEF Offered
<1>11. to \in 1..n
  BY <1>2
<1>12. f.kind = "for" => V[f.head][1] \subseteq S
  BY <1>1, <1>9 DEF Offered, IsLoop, HeadOf
<1>13. \A t \in Pending(f) : S \subseteq V[t][1]
  BY <1>1, <1>9 DEF Offered
<1> HIDE DEF n, f, S, to
<1>14. /\ Fits(B, V, blocks, V, current, locals) /\ Len(B) = n
       /\ \A j \in 1..n : j # current => B[j] = blocks[j]
  <2>1. Fits(blocks, V, blocks, V, current, locals) /\ Fresh(current, blocks, current)
    BY <1>0, <1>9, FitsSelf DEF Fresh
  <2>2. Onward(Goto(to), Last(V[current]), V, locals, Len(blocks))
    <3>1. V[to][1] \subseteq Last(V[current])
      BY <1>9, <1>10
    <3> QED
      BY <1>0, <1>11, <3>1, OnwardAre DEF n
  <2> QED
    BY <1>0, <2>1, <2>2, FitsSet DEF n
<1> HIDE DEF B
<1>15. OwnedIn(B, locals, V) /\ GoodBody(B, locals) /\ DOMAIN B = 1..n
  BY <1>14, LenProperties DEF Fits, GoodBody
<1>16. ASSUME NEW b \in 1..n, V[b][1] \subseteq S, f.kind \in {"then", "for"}
       PROVE  LET C == set_terminator(B, f.other, Goto(b))
              IN /\ OwnedIn(C, locals, V) /\ DOMAIN C = 1..n
                 /\ \A j \in 1..n : j # f.other => C[j] = B[j]
  <2> DEFINE C == set_terminator(B, f.other, Goto(b))
  <2>1. f.other \in Pending(f) /\ f.other \in DOMAIN B /\ blocks[f.other] = EmptyBlock
    BY <1>2, <1>5, <1>6, <1>15, <1>16
  <2>2. Fits(B, V, B, V, f.other, locals) /\ Fresh(f.other, B, f.other)
    BY <1>15, <2>1, FitsSelf DEF Fresh
  <2>3. Last(V[f.other]) = V[f.other][1]
    <3>1. blocks[f.other].stmts = <<>> /\ f.other \in DOMAIN blocks
      BY <1>0, <1>2, <2>1, EmptySuccs
    <3> QED
      BY <1>9, <3>1, OwnedEmpty
  <2>4. Onward(Goto(b), Last(V[f.other]), V, locals, Len(B))
    <3>1. V[b][1] \subseteq Last(V[f.other])
      BY <1>13, <1>16, <2>1, <2>3
    <3> QED
      BY <1>0, <1>14, <3>1, OnwardAre
  <2>5. f.other \in 1..Len(B)
    BY <1>2, <1>14
  <2>6. /\ Fits(C, V, B, V, f.other, locals) /\ Len(C) = Len(B)
        /\ \A j \in 1..Len(B) : j # f.other => C[j] = B[j]
    BY <2>2, <2>4, <2>5, FitsSet
  <2> HIDE DEF C
  <2>7. DOMAIN C = 1..n /\ OwnedIn(C, locals, V)
    BY <1>14, <2>6, LenProperties DEF Fits, GoodBody
  <2>8. \A j \in 1..n : j # f.other => C[j] = B[j]
    BY <1>14, <2>6
  <2> QED
    BY <2>7, <2>8 DEF C
<1>17. /\ OwnedIn(blocks', locals, V) /\ DOMAIN blocks' = 1..n
       /\ \A j \in 1..n : j # current /\ (f.kind \in {"then", "for"} /\ current' = f.after => j # f.other)
                            => blocks'[j] = blocks[j]
  <2>1. CASE blocks' = B
    BY <1>14, <1>15, <2>1
  <2>2. CASE f.kind = "then" /\ blocks' = set_terminator(B, f.other, Goto(f.after)) /\ current' = f.after
    <3>1. V[f.after][1] \subseteq S
      BY <1>9, <2>2 DEF to
    <3> QED
      BY <1>2, <1>14, <1>16, <2>2, <3>1
  <2>3. CASE f.kind = "for" /\ blocks' = set_terminator(B, f.other, Goto(f.head)) /\ current' = f.after
    BY <1>2, <1>12, <1>14, <1>16, <2>3
  <2> QED
    BY <1>3, <2>1, <2>2, <2>3
<1>18. Closes(f, V)
  <2>1. \A j \in DOMAIN blocks : j # current /\ j \notin Pending(f) => blocks'[j] = blocks[j]
    BY <1>0, <1>6, <1>17
  <2>2. CASE current' = f.other /\ f.kind = "then"
             /\ frames' = Append(Front(frames), [f EXCEPT !.kind = "else"])
    <3>1. blocks'[f.other] = EmptyBlock /\ blocks'[f.after] = EmptyBlock
      BY <1>2, <1>5, <1>6, <1>7, <1>17, <2>2
    <3> QED
      BY <1>2, <1>3, <1>6, <1>17, <2>1, <2>2, <3>1 DEF Closes
  <2>3. CASE current' = f.after /\ frames' = Front(frames)
    <3>1. blocks'[f.after] = EmptyBlock
      BY <1>2, <1>5, <1>6, <1>7, <1>17, <2>3
    <3> QED
      BY <1>2, <1>3, <1>7, <1>17, <2>1, <2>3, <3>1 DEF Closes
  <2> QED
    BY <1>3, <2>2, <2>3
<1> QED
  BY <1>0, <1>9, <1>18, ClosedStrings DEF f

LEMMA StringsInit == InitLowering => StringsInv
<1> SUFFICES ASSUME InitLowering PROVE StringsInv
  OBVIOUS
<1>1. /\ blocks = <<EmptyBlock>> /\ current = 1 /\ locals = <<>> /\ scope = {} /\ frames = <<>>
      /\ DOMAIN blocks = {1} /\ blocks[1] = EmptyBlock /\ DOMAIN frames = {}
  BY DEF InitLowering, Entry
<1> DEFINE W == <<<<{}>>>>
<1>2. DOMAIN W = {1} /\ W[1] = <<{}>>
  OBVIOUS
<1> HIDE DEF W
<1>3. OwnedBlock(EmptyBlock, <<{}>>, locals) /\ Last(<<{}>>) = {} /\ <<{}>>[1] = {}
  BY OwnedOne DEF Strings
<1>4. OwnedIn(blocks, locals, W)
  BY <1>1, <1>2, <1>3, EmptySuccs DEF OwnedIn, Entry
<1>5. Offered(W)
  BY <1>1 DEF Offered, Avail
<1>6. PendingOf(frames, blocks, current)
  BY <1>1 DEF PendingOf
<1>7. ScopesNest(frames, scope, locals)
  BY <1>1 DEF ScopesNest
<1> QED
  BY <1>1, <1>4, <1>5, <1>6, <1>7, EmptySuccs DEF StringsInv

LEMMA StringsStep == ASSUME LowerInv, StringsInv, ~UsesAfterMove, Lower PROVE StringsInv'
<1>1. CASE LetRef
  BY <1>1, LetTempStrings DEF LetRef
<1>2. CASE LetDeref
  BY <1>2, LetTempStrings DEF LetDeref
<1> QED
  BY <1>1, <1>2, LetConcatStrings, LetMintStrings, LetHelperStrings, AssignStrings,
     LetMoveStrings, PrintLineStrings, GiveStrings, OpenIfStrings, OpenWhileStrings,
     OpenLoopStrings, OpenForStrings, CloseStrings, JumpsStrings DEF Lower

\* A finished body is annotated as well.
Annotated == \E W : OwnedIn(blocks, locals, W)

LEMMA FinishedStrings == ASSUME LowerInv, StringsInv, Finished PROVE Annotated'
<1>0. current \in DOMAIN blocks /\ GoodBody(blocks, locals) /\ Len(blocks) \in Nat
      /\ current \in 1..Len(blocks)
  BY Sizes DEF LowerInv
<1>1. blocks' = set_terminator(blocks, current, Return) /\ locals' = locals
  BY DEF Finished
<1>2. PICK W : OwnedIn(blocks, locals, W)
  BY DEF StringsInv
<1>3. Onward(Return, Last(W[current]), W, locals, Len(blocks))
  BY <1>0, OnwardAre
<1>4. Fits(blocks, W, blocks, W, current, locals) /\ Fresh(current, blocks, current)
  BY <1>0, <1>2, FitsSelf DEF Fresh
<1>5. Fits(set_terminator(blocks, current, Return), W, blocks, W, current, locals)
  BY <1>0, <1>3, <1>4, FitsSet
<1> QED
  BY <1>1, <1>5 DEF Fits, Annotated

\* While the body is lowered it is annotated up to where it has come, after that whole.
OwnedInv == IF stage = "lower" THEN StringsInv ELSE Annotated

LEMMA OwnedInvStep ==
  ASSUME ~UsesAfterMove, LowerInv, OwnedInv, [Next]_vars PROVE OwnedInv'
<1>1. CASE stage = "lower" /\ Lower /\ UNCHANGED <<bodies, stage, plan, execution>>
  BY <1>1, StringsStep DEF OwnedInv
<1>2. CASE Generate
  BY <1>2, FinishedStrings DEF Generate, OwnedInv
<1>3. ASSUME UNCHANGED lowering, stage # "lower", stage' # "lower" PROVE OwnedInv'
  BY <1>3 DEF OwnedInv, Annotated, lowering
<1>4. CASE Run
  <2>1. UNCHANGED lowering /\ stage = "run" /\ stage' \in {stage, "done"}
    BY <1>4 DEF Run, RunGoto, RunPrintf, RunConcat, RunSpend, RunMint, RunHelper, RunReturn, Running
  <2> QED
    BY <1>3, <2>1
<1>5. CASE UNCHANGED vars
  <2>1. UNCHANGED <<lowering, stage>>
    BY <1>5 DEF vars
  <2> QED
    BY <2>1 DEF lowering, OwnedInv, Annotated, StringsInv, Offered, Avail
<1> QED
  BY <1>1, <1>2, <1>4, <1>5 DEF Next

-----------------------------------------------------------------------------
(* What the candidates for a free are.                                        *)

Strs == LocalsOf("string")
Cands == sound_owned_candidates(blocks, Strs)

LEMMA StrsAre ==
  ASSUME LowerInv
  PROVE  /\ Strs \subseteq DOMAIN locals /\ IsFiniteSet(Strs) /\ NoLocal \notin Strs
         /\ \A x : x \in Strs <=> Has(locals, x, "string")
<1>1. DOMAIN locals = 1..Len(locals) /\ Len(locals) \in Nat
  BY Sizes
<1>2. IsFiniteSet(1..Len(locals)) /\ NoLocal \notin 1..Len(locals)
  BY <1>1, FS_Interval DEF NoLocal
<1> QED
  BY <1>1, <1>2, FS_Subset DEF Strs, LocalsOf, Has

LEMMA OwnersAre ==
  ASSUME NEW B, NEW S, IsFiniteSet(S)
  PROVE  Owners(B, S) \subseteq S
<1> DEFINE step == [x \in S |-> Acquirers(B, S, x)]
           T == {B[i].term.dest : i \in {c \in Calls(B) : allocates_owned_string(B[c].term.fn)}} \cap S
<1>1. \A x \in S : Acquirers(B, S, x) \subseteq S
  BY DEF Acquirers
<1>2. step \in [S -> SUBSET S] /\ T \in SUBSET S
  BY <1>1
<1>3. Owners(B, S) = Closure(step, T)
  BY DEF Owners
<1> HIDE DEF step, T
<1> QED
  BY <1>2, <1>3, ClosureIs

LEMMA CandsAre ==
  ASSUME LowerInv
  PROVE  /\ Cands \subseteq Strs /\ IsFiniteSet(Cands)
         /\ \A s \in Stmts(blocks) : s.op = "move" => s.src \notin Cands
         /\ \A x \in Cands : def_count(blocks, x) = 1
<1>1. IsFiniteSet(Strs)
  BY StrsAre
<1>2. Owners(blocks, Strs) \subseteq Strs
  BY <1>1, OwnersAre
<1>3. \A x \in Cands :
        /\ x \in Owners(blocks, Strs) /\ def_count(blocks, x) = 1
        /\ x \notin {s.src : s \in {m \in Moves(blocks) : m.src \in Owners(blocks, Strs)}}
  BY DEF Cands, sound_owned_candidates
<1>4. ASSUME NEW s \in Stmts(blocks), s.op = "move", s.src \in Cands PROVE FALSE
  <2>1. s \in Moves(blocks) /\ s.src \in Owners(blocks, Strs)
    BY <1>3, <1>4 DEF Moves
  <2> QED
    BY <1>3, <1>4, <2>1
<1> QED
  BY <1>1, <1>2, <1>3, <1>4, FS_Subset

-----------------------------------------------------------------------------
(* What the plan is made of.                                                  *)

Planned ==
  /\ plan.freeable \subseteq Cands /\ plan.flag_owners \subseteq Cands
  /\ plan.freeable \cap plan.flag_owners = {}
  /\ \A i \in DOMAIN blocks :
       /\ plan.block_frees[i] \subseteq Cands
       /\ plan.block_frees[i] \cap plan.flag_owners = {}
       /\ plan.flag_block_frees[i] \subseteq plan.flag_owners

LEMMA PlannedIs ==
  ASSUME plan = generate_function(blocks, Strs)
  PROVE  Planned
<1> DEFINE F == Facts(blocks)
           exit == freeable_owned_string_locals(blocks, F, Cands)
           scoped == block_scoped_freeable(blocks, Cands \ exit)
           multi == multi_block_freeable(blocks, F, (Cands \ exit) \ UNION Range(scoped))
           flagged == ((Cands \ exit) \ UNION Range(scoped)) \ UNION Range(multi)
           flags == split_frontier_flag_frees(blocks, F, flagged)
<1>1. /\ plan.freeable = exit /\ plan.flag_owners = flagged
      /\ plan.block_frees = [i \in DOMAIN blocks |-> scoped[i] \cup multi[i]]
      /\ plan.flag_block_frees = flags
  BY DEF generate_function, Cands
<1>2. exit \subseteq Cands
  BY DEF freeable_owned_string_locals
<1>3. DOMAIN scoped = DOMAIN blocks /\ \A i \in DOMAIN blocks : scoped[i] \subseteq Cands
  BY DEF block_scoped_freeable
<1>4. DOMAIN multi = DOMAIN blocks /\ \A i \in DOMAIN blocks : multi[i] \subseteq Cands
  BY DEF multi_block_freeable
<1>5. \A i \in DOMAIN blocks : flags[i] \subseteq flagged
  BY DEF split_frontier_flag_frees
<1> HIDE DEF exit, scoped, multi, flags
<1>6. \A i \in DOMAIN blocks : scoped[i] \subseteq UNION Range(scoped)
                               /\ multi[i] \subseteq UNION Range(multi)
  BY <1>3, <1>4 DEF Range
<1>7. flagged \subseteq Cands /\ exit \cap flagged = {}
      /\ \A i \in DOMAIN blocks : (scoped[i] \cup multi[i]) \cap flagged = {}
  BY <1>6
<1> HIDE DEF flagged
<1> QED
  BY <1>1, <1>2, <1>3, <1>4, <1>5, <1>7 DEF Planned

-----------------------------------------------------------------------------
(* Buffers. Besides what the machine keeps of linear values (Alike), a step   *)
(* of it changes them as follows.                                             *)

Buffer == [frees : Nat, late : BOOLEAN]

HasBuffers(M) == IsMachine(M) /\ M.heap \in Seq(Buffer)

\* N is M but for how often the buffers of the locals in X were freed.
Freed(M, N, X) ==
  /\ HasBuffers(N) /\ Len(N.heap) = Len(M.heap) /\ N.vals = M.vals
  /\ \A b \in 1..Len(M.heap) :
       /\ N.heap[b].late = M.heap[b].late
       /\ (\A x \in X : M.vals[x] # b) => N.heap[b].frees = M.heap[b].frees

LEMMA HeapIs ==
  ASSUME NEW h \in Seq(Buffer)
  PROVE  Len(h) \in Nat /\ DOMAIN h = 1..Len(h) /\ \A b \in 1..Len(h) : h[b] \in Buffer
  BY LenProperties, ElementOfSeq

LEMMA HeapFrom ==
  ASSUME NEW n \in Nat, NEW h, h = [b \in 1..n |-> h[b]], \A b \in 1..n : h[b] \in Buffer
  PROVE  h \in Seq(Buffer) /\ Len(h) = n
  BY LenProperties, SeqDef

LEMMA BufferFreed ==
  ASSUME NEW r \in Buffer, NEW k \in Nat
  PROVE  /\ [r EXCEPT !.frees = r.frees + k] \in Buffer
         /\ [r EXCEPT !.frees = r.frees + k].late = r.late
         /\ [r EXCEPT !.frees = r.frees + k].frees = r.frees + k
  BY DEF Buffer

LEMMA FreeIs ==
  ASSUME NEW M, HasBuffers(M), NEW X, IsFiniteSet(X)
  PROVE  Freed(M, Free(X, M), X) /\ Free(X, M).live = M.live
<1> DEFINE Times(b) == Cardinality({x \in X : M.vals[x] = b})
           heap1 == [b \in DOMAIN M.heap |-> [M.heap[b] EXCEPT !.frees = @ + Times(b)]]
           wild1 == M.wild \/ Times(Nothing) > 0
<1>1. Free(X, M) = [M EXCEPT !.heap = heap1, !.wild = wild1]
  BY DEF Free
<1>2. M.heap \in Seq(Buffer) /\ Len(M.heap) \in Nat /\ DOMAIN M.heap = 1..Len(M.heap)
      /\ \A b \in 1..Len(M.heap) : M.heap[b] \in Buffer
  BY HeapIs DEF HasBuffers
<1>3. \A b : Times(b) \in Nat
  <2> TAKE b
  <2>1. IsFiniteSet({x \in X : M.vals[x] = b})
    BY FS_Subset
  <2> QED
    BY <2>1, FS_CardinalityType
<1>4. \A b : (\A x \in X : M.vals[x] # b) => Times(b) = 0
  <2> SUFFICES ASSUME NEW b, \A x \in X : M.vals[x] # b PROVE Times(b) = 0
    OBVIOUS
  <2>1. {x \in X : M.vals[x] = b} = {}
    OBVIOUS
  <2> QED
    BY <2>1, FS_EmptySet
<1> HIDE DEF Times
<1>5. ASSUME NEW b \in 1..Len(M.heap)
      PROVE  /\ heap1[b] \in Buffer /\ heap1[b].late = M.heap[b].late
             /\ heap1[b].frees = M.heap[b].frees + Times(b)
  <2>1. heap1[b] = [M.heap[b] EXCEPT !.frees = M.heap[b].frees + Times(b)]
    BY <1>2
  <2> QED
    BY <1>2, <1>3, <2>1, BufferFreed
<1>6. DOMAIN heap1 = 1..Len(M.heap)
  BY <1>2
<1> HIDE DEF heap1, wild1
<1>7. heap1 = [b \in 1..Len(M.heap) |-> heap1[b]]
  BY <1>1, <1>6 DEF heap1
<1>8. heap1 \in Seq(Buffer) /\ Len(heap1) = Len(M.heap)
  BY <1>2, <1>5, <1>7, HeapFrom
<1>9. Free(X, M).heap = heap1 /\ Free(X, M).live = M.live /\ Free(X, M).vals = M.vals
      /\ IsMachine(Free(X, M))
  BY <1>1 DEF IsMachine, HasBuffers
<1>10. \A b \in 1..Len(M.heap) : M.heap[b].frees + 0 = M.heap[b].frees
  BY <1>2 DEF Buffer
<1> QED
  BY <1>4, <1>5, <1>8, <1>9, <1>10 DEF Freed, HasBuffers

LEMMA GuardedIs ==
  ASSUME NEW M, HasBuffers(M), NEW X, IsFiniteSet(X)
  PROVE  /\ Freed(M, emit_flag_guarded_free(X, M), X \cap M.live)
         /\ emit_flag_guarded_free(X, M).live = M.live \ X
<1> DEFINE N == Free(X \cap M.live, M)
           live1 == N.live \ X
<1>1. IsFiniteSet(X \cap M.live)
  BY FS_Subset
<1>2. Freed(M, N, X \cap M.live) /\ N.live = M.live
  BY <1>1, FreeIs
<1>3. emit_flag_guarded_free(X, M) = [N EXCEPT !.live = live1]
  BY DEF emit_flag_guarded_free
<1> HIDE DEF N
<1>4. /\ IsMachine(emit_flag_guarded_free(X, M)) /\ emit_flag_guarded_free(X, M).live = live1
      /\ emit_flag_guarded_free(X, M).heap = N.heap /\ emit_flag_guarded_free(X, M).vals = N.vals
  BY <1>2, <1>3 DEF Freed, HasBuffers, IsMachine
<1> QED
  BY <1>2, <1>4 DEF Freed, HasBuffers

\* N defines x to be v, and sets the flag of an owner.
Defined(M, N, x, v) ==
  /\ HasBuffers(N) /\ Updated(N.vals, M.vals, x, v)
  /\ N.live = M.live \cup ({x} \cap plan.flag_owners)

\* N differs from M in linear values only.
SameBuffers(M, N) == HasBuffers(N) /\ N.vals = M.vals /\ N.heap = M.heap /\ N.live = M.live

LEMMA DefinedIs ==
  ASSUME NEW M, HasBuffers(M), NEW x, NEW v
  PROVE  Defined(M, generate_define(x, v, M), x, v) /\ generate_define(x, v, M).heap = M.heap
<1> DEFINE vals1 == [M.vals EXCEPT ![x] = v]
           live1 == M.live \cup ({x} \cap plan.flag_owners)
           gone1 == M.gone \ {x}
<1>1. generate_define(x, v, M) = [M EXCEPT !.vals = vals1, !.live = live1, !.gone = gone1]
  BY DEF generate_define
<1> HIDE DEF vals1, live1, gone1
<1>2. /\ IsMachine(generate_define(x, v, M))
      /\ generate_define(x, v, M).vals = vals1
      /\ generate_define(x, v, M).live = live1
      /\ generate_define(x, v, M).heap = M.heap
  BY <1>1 DEF IsMachine, HasBuffers
<1> QED
  BY <1>2 DEF vals1, live1, Updated, Defined, HasBuffers

LEMMA LookSame ==
  ASSUME NEW M, HasBuffers(M), NEW x
  PROVE  SameBuffers(M, Look(x, M))
  BY DEF Look, HasBuffers, IsMachine, SameBuffers

LEMMA TakeSame ==
  ASSUME NEW M, HasBuffers(M), NEW x
  PROVE  SameBuffers(M, Take(x, M))
<1>1. CASE locals[x].type = "linear"
  <2> DEFINE L == Look(x, M)
             gone1 == L.gone \cup {x}
  <2>1. Take(x, M) = [L EXCEPT !.gone = gone1]
    BY <1>1 DEF Take
  <2>2. SameBuffers(M, L)
    BY LookSame
  <2> HIDE DEF L, gone1
  <2> QED
    BY <2>1, <2>2 DEF SameBuffers, HasBuffers, IsMachine
<1>2. CASE locals[x].type # "linear"
  BY <1>2 DEF Take, SameBuffers
<1> QED
  BY <1>1, <1>2

\* What x holds, if anything, was not freed.
Alive(M, x) == M.vals[x] # Nothing => M.heap[M.vals[x]].frees = 0

\* The strings in S own a buffer, those in D may be read before they are defined again.
Sound(M, S, D) ==
  /\ HasBuffers(M) /\ DOMAIN M.vals = DOMAIN locals
  /\ \A b \in 1..Len(M.heap) : M.heap[b].late = FALSE
  /\ \A x \in Strs : M.vals[x] \in 0..Len(M.heap)
  /\ S \subseteq Strs /\ M.live \subseteq plan.flag_owners
  /\ \A x \in S \cup M.live : M.vals[x] # Nothing
  /\ \A x \in (S \ Cands) \cup M.live \cup (D \cap Cands) : Alive(M, x)
  /\ \A x, y \in S \cup Cands : x # y /\ M.vals[x] # Nothing => M.vals[x] # M.vals[y]

LEMMA SoundLess ==
  ASSUME NEW M, NEW S, NEW D, Sound(M, S, D), NEW R, R \subseteq S,
         NEW E, E \cap Cands \subseteq D
  PROVE  Sound(M, R, E)
  BY DEF Sound

LEMMA SoundSame ==
  ASSUME NEW M, NEW S, NEW D, Sound(M, S, D), NEW N, SameBuffers(M, N)
  PROVE  Sound(N, S, D)
  BY DEF Sound, SameBuffers, Alive

\* Freed are owners that are not needed, and their flags are not set any more.
LEMMA FreedSound ==
  ASSUME LowerInv, Planned, NEW M, NEW S, NEW D, Sound(M, S, D),
         NEW N, NEW X, X \subseteq Cands, Freed(M, N, X),
         N.live \subseteq M.live, N.live \cap X = {}, D \cap X = {}
  PROVE  Sound(N, S, D)
<1> DEFINE H == Len(M.heap)
<1>1. Cands \subseteq Strs /\ plan.flag_owners \subseteq Cands /\ H \in Nat
  BY CandsAre, HeapIs DEF Planned, Sound, HasBuffers
<1>2. HasBuffers(N) /\ DOMAIN N.vals = DOMAIN locals /\ N.vals = M.vals /\ Len(N.heap) = H
      /\ \A b \in 1..H : N.heap[b].late = FALSE
  BY DEF Freed, Sound
<1>3. \A x \in Strs : M.vals[x] \in 0..H
  BY DEF Sound
<1>4. ASSUME NEW x \in (S \ Cands) \cup N.live \cup (D \cap Cands) PROVE Alive(N, x)
  <2> SUFFICES ASSUME M.vals[x] # Nothing PROVE N.heap[M.vals[x]].frees = 0
    BY <1>2 DEF Alive
  <2>1. x \in S \cup Cands /\ x \in Strs /\ x \notin X
    BY <1>1 DEF Sound
  <2>2. M.vals[x] \in 1..H
    BY <1>1, <1>3, <2>1 DEF Nothing
  <2>3. M.heap[M.vals[x]].frees = 0
    BY DEF Sound, Alive
  <2>4. \A y \in X : M.vals[y] # M.vals[x]
    BY <2>1 DEF Sound
  <2> QED
    BY <2>2, <2>3, <2>4 DEF Freed
<1>5. S \subseteq Strs /\ N.live \subseteq plan.flag_owners
      /\ (\A x \in S \cup N.live : N.vals[x] # Nothing)
      /\ \A x, y \in S \cup Cands : x # y /\ N.vals[x] # Nothing => N.vals[x] # N.vals[y]
  BY <1>2 DEF Sound
<1> QED
  BY <1>2, <1>3, <1>4, <1>5 DEF Sound

\* X may be freed, and Y under its flags, when D is what is needed after that.
Spare(X, Y, D) ==
  /\ X \subseteq Cands /\ X \cap plan.flag_owners = {} /\ X \cap D = {}
  /\ Y \subseteq plan.flag_owners /\ Y \cap D = {}

LEMMA FreeAllSound ==
  ASSUME LowerInv, Planned, NEW M, NEW S, NEW D, Sound(M, S, D), NEW X, NEW Y, Spare(X, Y, D)
  PROVE  /\ Sound(FreeAll(X, Y, M), S, D)
         /\ FreeAll(X, Y, M).live = M.live \ Y
         /\ Len(FreeAll(X, Y, M).heap) = Len(M.heap)
<1> DEFINE K == Free(X, M)
           N == emit_flag_guarded_free(Y, K)
<1>1. FreeAll(X, Y, M) = N
  BY DEF FreeAll
<1>2. IsFiniteSet(X) /\ IsFiniteSet(Y) /\ Y \subseteq Cands
  BY CandsAre, FS_Subset DEF Planned, Spare
<1>3. HasBuffers(M) /\ M.live \subseteq plan.flag_owners
  BY DEF Sound
<1>4. Freed(M, K, X) /\ K.live = M.live
  BY <1>2, <1>3, FreeIs
<1> HIDE DEF K
<1>5. Sound(K, S, D)
  <2>1. K.live \subseteq M.live /\ K.live \cap X = {} /\ D \cap X = {} /\ X \subseteq Cands
    BY <1>3, <1>4 DEF Spare
  <2> QED
    BY <1>4, <2>1, FreedSound
<1>6. Freed(K, N, Y \cap K.live) /\ N.live = K.live \ Y
  BY <1>2, <1>5, GuardedIs DEF Sound
<1>8. Len(K.heap) = Len(M.heap) /\ Len(N.heap) = Len(K.heap)
  BY <1>4, <1>6 DEF Freed
<1> HIDE DEF N
<1>7. Sound(N, S, D)
  <2>1. Y \cap K.live \subseteq Cands /\ N.live \subseteq K.live /\ N.live \cap (Y \cap K.live) = {}
        /\ D \cap (Y \cap K.live) = {}
    BY <1>2, <1>6 DEF Spare
  <2> QED
    BY <1>5, <1>6, <2>1, FreedSound
<1> QED
  BY <1>1, <1>4, <1>6, <1>7, <1>8

\* What is defined is no string.
LEMMA DefineOtherSound ==
  ASSUME LowerInv, Planned, NEW M, NEW S, NEW D, Sound(M, S, D),
         NEW x, x \notin Strs, NEW v, NEW N, Defined(M, N, x, v), N.heap = M.heap
  PROVE  Sound(N, S, D)
<1>1. Cands \subseteq Strs /\ plan.flag_owners \subseteq Cands /\ Strs \subseteq DOMAIN locals
  BY CandsAre, StrsAre DEF Planned
<1>2. HasBuffers(N) /\ DOMAIN N.vals = DOMAIN locals /\ N.live = M.live
      /\ \A y \in Strs : N.vals[y] = M.vals[y]
  BY <1>1 DEF Defined, Updated, Sound
<1>3. S \subseteq Strs /\ M.live \subseteq Strs
  BY <1>1 DEF Sound
<1>4. \A y \in (S \ Cands) \cup N.live \cup (D \cap Cands) : Alive(N, y)
  BY <1>1, <1>2, <1>3 DEF Sound, Alive
<1>5. \A y, z \in S \cup Cands : y # z /\ N.vals[y] # Nothing => N.vals[y] # N.vals[z]
  BY <1>1, <1>2, <1>3 DEF Sound
<1> QED
  BY <1>1, <1>2, <1>3, <1>4, <1>5 DEF Sound

\* A string takes what another one owned.
LEMMA DefineMovedSound ==
  ASSUME LowerInv, Planned, NEW M, NEW S, NEW D, Sound(M, S, D),
         NEW y \in S \ Cands, NEW x \in Strs, NEW N, Defined(M, N, x, M.vals[y]), N.heap = M.heap
  PROVE  Sound(N, (S \ {y}) \cup {x}, D \cup {x})
<1> DEFINE R == (S \ {y}) \cup {x}
           E == D \cup {x}
<1>1. Cands \subseteq Strs /\ plan.flag_owners \subseteq Cands /\ Strs \subseteq DOMAIN locals
  BY CandsAre, StrsAre DEF Planned
<1>2. HasBuffers(N) /\ DOMAIN N.vals = DOMAIN locals
      /\ N.live = M.live \cup ({x} \cap plan.flag_owners)
      /\ N.vals[x] = M.vals[y] /\ \A z \in Strs \ {x} : N.vals[z] = M.vals[z]
  BY <1>1 DEF Defined, Updated, Sound
<1>3. S \subseteq Strs /\ M.live \subseteq Strs
  BY <1>1 DEF Sound
<1>4. M.vals[y] # Nothing /\ M.heap[M.vals[y]].frees = 0
  BY DEF Sound, Alive
<1>5. ASSUME NEW z \in (R \ Cands) \cup N.live \cup (E \cap Cands) PROVE Alive(N, z)
  <2>1. CASE z = x
    BY <1>2, <1>4, <2>1 DEF Alive
  <2>2. CASE z # x
    <3>1. z \in (S \ Cands) \cup M.live \cup (D \cap Cands) /\ z \in Strs \ {x}
      BY <1>1, <1>2, <1>3, <2>2
    <3> QED
      BY <1>2, <3>1 DEF Sound, Alive
  <2> QED
    BY <2>1, <2>2
<1>6. ASSUME NEW p \in R \cup Cands, NEW q \in R \cup Cands, p # q, N.vals[p] # Nothing
      PROVE  N.vals[p] # N.vals[q]
  <2>1. CASE p = x
    <3>1. q \in Strs \ {x} /\ q \in S \cup Cands /\ q # y
      BY <1>1, <1>3, <1>6, <2>1
    <3>2. M.vals[y] # M.vals[q]
      BY <1>4, <3>1 DEF Sound
    <3> QED
      BY <1>2, <2>1, <3>1, <3>2
  <2>2. CASE q = x
    <3>1. p \in Strs \ {x} /\ p \in S \cup Cands /\ p # y
      BY <1>1, <1>3, <1>6, <2>2
    <3>2. M.vals[y] # M.vals[p]
      BY <1>4, <3>1 DEF Sound
    <3> QED
      BY <1>2, <2>2, <3>1, <3>2
  <2>3. CASE p # x /\ q # x
    <3>1. p \in Strs \ {x} /\ p \in S \cup Cands /\ q \in Strs \ {x} /\ q \in S \cup Cands
      BY <1>1, <1>3, <2>3
    <3> QED
      BY <1>2, <1>6, <3>1 DEF Sound
  <2> QED
    BY <2>1, <2>2, <2>3
<1>7. \A z \in Strs : N.vals[z] \in 0..Len(N.heap)
  BY <1>2, <1>3 DEF Sound
<1>8. R \subseteq Strs /\ N.live \subseteq plan.flag_owners
      /\ \A z \in R \cup N.live : N.vals[z] # Nothing
  <2>1. \A z \in (S \cup M.live) \ {x} : N.vals[z] # Nothing
    BY <1>2, <1>3 DEF Sound
  <2> QED
    BY <1>1, <1>2, <1>3, <1>4, <2>1 DEF Sound
<1>9. \A b \in 1..Len(N.heap) : N.heap[b].late = FALSE
  BY DEF Sound
<1> HIDE DEF R, E
<1>10. Sound(N, R, E)
  BY <1>2, <1>5, <1>6, <1>7, <1>8, <1>9 DEF Sound
<1> QED
  BY <1>10 DEF R, E

\* A string takes a new buffer.
LEMMA DefineFreshSound ==
  ASSUME LowerInv, Planned, NEW M, NEW S, NEW D, Sound(M, S, D), NEW x \in Strs, NEW N,
         Defined(M, N, x, Len(M.heap) + 1),
         N.heap = Append(M.heap, [frees |-> 0, late |-> FALSE])
  PROVE  Sound(N, S \cup {x}, D \cup {x})
<1> DEFINE R == S \cup {x}
           E == D \cup {x}
           H == Len(M.heap)
<1>1. Cands \subseteq Strs /\ plan.flag_owners \subseteq Cands /\ Strs \subseteq DOMAIN locals
  BY CandsAre, StrsAre DEF Planned
<1>2. HasBuffers(N) /\ DOMAIN N.vals = DOMAIN locals
      /\ N.live = M.live \cup ({x} \cap plan.flag_owners)
      /\ N.vals[x] = H + 1 /\ \A z \in Strs \ {x} : N.vals[z] = M.vals[z]
  BY <1>1 DEF Defined, Updated, Sound
<1>3. S \subseteq Strs /\ M.live \subseteq Strs
  BY <1>1 DEF Sound
<1>4. M.heap \in Seq(Buffer) /\ H \in Nat
  BY HeapIs DEF Sound, HasBuffers
<1>5. Len(N.heap) = H + 1 /\ N.heap[H + 1].frees = 0 /\ N.heap[H + 1].late = FALSE
      /\ \A b \in 1..H : N.heap[b] = M.heap[b]
  BY <1>4, AppendProperties DEF Buffer
<1>6. \A z \in Strs : M.vals[z] \in 0..H
  BY DEF Sound
<1>7. ASSUME NEW z \in (R \ Cands) \cup N.live \cup (E \cap Cands) PROVE Alive(N, z)
  <2>1. CASE z = x
    BY <1>2, <1>5, <2>1 DEF Alive
  <2>2. CASE z # x
    <3>1. z \in (S \ Cands) \cup M.live \cup (D \cap Cands) /\ z \in Strs \ {x}
      BY <1>1, <1>2, <1>3, <2>2
    <3>2. N.vals[z] = M.vals[z] /\ (M.vals[z] # Nothing => M.vals[z] \in 1..H)
      BY <1>2, <1>4, <1>6, <3>1 DEF Nothing
    <3>3. Alive(M, z)
      BY <3>1 DEF Sound
    <3> QED
      BY <1>5, <3>2, <3>3 DEF Alive
  <2> QED
    BY <2>1, <2>2
<1>8. ASSUME NEW p \in R \cup Cands, NEW q \in R \cup Cands, p # q, N.vals[p] # Nothing
      PROVE  N.vals[p] # N.vals[q]
  <2>1. \A z \in Strs \ {x} : N.vals[z] # N.vals[x]
    BY <1>2, <1>4, <1>6
  <2>2. p \in Strs /\ q \in Strs
    BY <1>1, <1>3
  <2>3. CASE p = x \/ q = x
    BY <1>8, <2>1, <2>2, <2>3
  <2>4. CASE p # x /\ q # x
    <3>1. p \in Strs \ {x} /\ p \in S \cup Cands /\ q \in Strs \ {x} /\ q \in S \cup Cands
      BY <2>2, <2>4
    <3> QED
      BY <1>2, <1>8, <3>1 DEF Sound
  <2> QED
    BY <2>3, <2>4
<1>9. \A z \in Strs : N.vals[z] \in 0..Len(N.heap)
  <2> TAKE z \in Strs
  <2>1. CASE z = x
    BY <1>2, <1>4, <1>5, <2>1
  <2>2. CASE z # x
    BY <1>2, <1>4, <1>5, <1>6, <2>2
  <2> QED
    BY <2>1, <2>2
<1>10. R \subseteq Strs /\ N.live \subseteq plan.flag_owners
       /\ \A z \in R \cup N.live : N.vals[z] # Nothing
  <2>1. \A z \in (S \cup M.live) \ {x} : N.vals[z] # Nothing
    BY <1>2, <1>3 DEF Sound
  <2>2. N.vals[x] # Nothing
    BY <1>2, <1>4 DEF Nothing
  <2> QED
    BY <1>1, <1>2, <1>3, <2>1, <2>2 DEF Sound
<1>11. \A b \in 1..Len(N.heap) : N.heap[b].late = FALSE
  <2> TAKE b \in 1..Len(N.heap)
  <2>1. b \in 1..H \/ b = H + 1
    BY <1>4, <1>5
  <2> QED
    BY <1>5, <2>1 DEF Sound
<1> HIDE DEF R, E, H
<1>12. Sound(N, R, E)
  BY <1>2, <1>7, <1>8, <1>9, <1>10, <1>11 DEF Sound
<1> QED
  BY <1>12 DEF R, E

\* A read through what was not freed leaves the buffers as they are.
LEMMA DerefSame ==
  ASSUME NEW M, HasBuffers(M), \A b \in 1..Len(M.heap) : M.heap[b].late = FALSE, NEW X,
         \A x \in X : locals[x].type \in {"string", "pointer"} => Alive(M, x)
  PROVE  SameBuffers(M, Deref(X, M))
<1> DEFINE through == {x \in X : locals[x].type \in {"string", "pointer"}}
           Read(b) == \E x \in through : M.vals[x] = b
           heap1 == [b \in DOMAIN M.heap |->
                       [M.heap[b] EXCEPT !.late = @ \/ (Read(b) /\ M.heap[b].frees > 0)]]
<1>1. Deref(X, M) = [M EXCEPT !.heap = heap1]
  BY DEF Deref
<1>2. M.heap \in Seq(Buffer) /\ Len(M.heap) \in Nat /\ DOMAIN M.heap = 1..Len(M.heap)
      /\ \A b \in 1..Len(M.heap) : M.heap[b] \in Buffer
  BY HeapIs DEF HasBuffers
<1>3. ASSUME NEW b \in 1..Len(M.heap) PROVE heap1[b] = M.heap[b]
  <2>1. ~(Read(b) /\ M.heap[b].frees > 0)
    <3> SUFFICES ASSUME Read(b) PROVE M.heap[b].frees = 0
      BY <1>2
    <3>1. PICK x \in through : M.vals[x] = b
      OBVIOUS
    <3>2. Alive(M, x) /\ b # Nothing
      BY <1>2 DEF Nothing
    <3> QED
      BY <3>1, <3>2 DEF Alive
  <2> DEFINE late == M.heap[b].late \/ (Read(b) /\ M.heap[b].frees > 0)
  <2>2. late = FALSE
    BY <2>1
  <2>3. heap1[b] = [M.heap[b] EXCEPT !.late = late]
    BY <1>2
  <2> HIDE DEF late, heap1, Read
  <2>4. heap1[b] = [M.heap[b] EXCEPT !.late = FALSE]
    BY <2>2, <2>3
  <2>5. M.heap[b] \in Buffer /\ M.heap[b].late = FALSE
    BY <1>2
  <2> QED
    BY <2>4, <2>5 DEF Buffer
<1>4. heap1 = M.heap
  <2>1. heap1 = [b \in 1..Len(M.heap) |-> heap1[b]] /\ M.heap = [b \in 1..Len(M.heap) |-> M.heap[b]]
    BY <1>2
  <2> HIDE DEF heap1
  <2>2. [b \in 1..Len(M.heap) |-> heap1[b]] = [b \in 1..Len(M.heap) |-> M.heap[b]]
    BY <1>3
  <2> QED
    BY <2>1, <2>2
<1> HIDE DEF heap1
<1> QED
  BY <1>1, <1>4 DEF SameBuffers, HasBuffers, IsMachine

\* A statement takes its strings as they are annotated. A borrowed pointer holds what
\* was not freed.
LEMMA StatementSound ==
  ASSUME LowerInv, Planned, NEW M, NEW S, NEW D, Sound(M, S, D),
         NEW s \in Stmts(blocks), s.src \in D,
         NEW R, OwnedStep(s, S, R, locals), NEW E, E \subseteq D \cup {s.dest}
  PROVE  /\ Sound(generate_statement(M, s), R, E)
         /\ s.op = "field" => Alive(generate_statement(M, s), s.dest)
         /\ generate_statement(M, s).heap = M.heap
<1> DEFINE N == generate_statement(M, s)
<1>1. TypedStmt(s, locals) /\ s.op \in {"move", "field", "ref", "deref"}
      /\ s.src \in DOMAIN locals /\ s.dest \in DOMAIN locals
  BY DEF LowerInv, GoodBody, TypedStmt, MirStmt
<1>2. \A x \in DOMAIN locals : x \in Strs <=> locals[x].type = "string"
  BY StrsAre DEF Has
<1>3. HasBuffers(M) /\ Cands \subseteq Strs
  BY CandsAre DEF Sound
<1>4. ASSUME s.dest \notin Strs, NEW K, SameBuffers(M, K), NEW v, N = generate_define(s.dest, v, K)
      PROVE  Sound(N, S, E) /\ N.heap = M.heap /\ Updated(N.vals, M.vals, s.dest, v)
  <2>1. Sound(K, S, D) /\ HasBuffers(K)
    BY <1>4, SoundSame DEF SameBuffers
  <2>2. Defined(K, N, s.dest, v) /\ N.heap = K.heap
    BY <1>4, <2>1, DefinedIs
  <2> HIDE DEF N
  <2>3. Sound(N, S, D)
    BY <1>4, <2>1, <2>2, DefineOtherSound
  <2>4. E \cap Cands \subseteq D /\ S \subseteq S
    BY <1>3, <1>4
  <2>5. Sound(N, S, E)
    BY <2>3, <2>4, SoundLess
  <2> QED
    BY <1>4, <2>2, <2>5 DEF SameBuffers, Defined
<1>5. SameBuffers(M, M)
  BY <1>3 DEF SameBuffers
<1>6. CASE s.op = "ref"
  <2>1. N = generate_define(s.dest, s.src, Look(s.src, M)) /\ s.dest \notin Strs /\ s.src \notin Strs
    BY <1>1, <1>2, <1>6 DEF generate_statement, TypedStmt
  <2>2. R \subseteq S
    BY <1>1, <2>1, <1>2 DEF OwnedStep, Has
  <2>3. SameBuffers(M, Look(s.src, M))
    BY <1>3, LookSame
  <2>4. Sound(N, S, E) /\ N.heap = M.heap
    BY <1>4, <2>1, <2>3
  <2> HIDE DEF N
  <2>5. Sound(N, R, E)
    BY <2>2, <2>4, SoundLess
  <2> QED
    BY <1>6, <2>4, <2>5 DEF N
<1>7. CASE s.op = "deref"
  <2>1. N = generate_define(s.dest, M.vals[M.vals[s.src]], M) /\ s.dest \notin Strs /\ s.src \notin Strs
    BY <1>1, <1>2, <1>7 DEF generate_statement, TypedStmt
  <2>2. R \subseteq S
    BY <1>1, <2>1, <1>2 DEF OwnedStep, Has
  <2>4. Sound(N, S, E) /\ N.heap = M.heap
    BY <1>4, <1>5, <2>1
  <2> HIDE DEF N
  <2>5. Sound(N, R, E)
    BY <2>2, <2>4, SoundLess
  <2> QED
    BY <1>7, <2>4, <2>5 DEF N
<1>8. CASE s.op = "field"
  <2>1. N = generate_define(s.dest, M.vals[s.src], M) /\ s.dest \notin Strs /\ s.src \in Strs
    BY <1>1, <1>2, <1>8 DEF generate_statement, TypedStmt
  <2>2. R \subseteq S /\ s.src \in S
    BY <1>1, <2>1, <1>2, <1>8 DEF OwnedStep, Has
  <2>3. Sound(N, S, E) /\ N.heap = M.heap /\ Updated(N.vals, M.vals, s.dest, M.vals[s.src])
    BY <1>4, <1>5, <2>1
  <2> HIDE DEF N
  <2>4. Sound(N, R, E)
    BY <2>2, <2>3, SoundLess
  <2>5. Alive(M, s.src)
    BY <2>2 DEF Sound
  <2>6. s.dest \in DOMAIN M.vals
    BY <1>1 DEF Sound
  <2>7. N.vals[s.dest] = M.vals[s.src]
    BY <2>3, <2>6 DEF Updated
  <2>8. Alive(N, s.dest)
    BY <2>3, <2>5, <2>7 DEF Alive
  <2> QED
    BY <2>3, <2>4, <2>8 DEF N
<1>9. CASE s.op = "move"
  <2> DEFINE K == Take(s.src, M)
  <2>1. N = generate_define(s.dest, M.vals[s.src], K)
    BY <1>9 DEF generate_statement
  <2>2. SameBuffers(M, K)
    BY <1>3, TakeSame
  <2>3. s.src \in Strs <=> s.dest \in Strs
    BY <1>1, <1>2, <1>9 DEF TypedStmt
  <2> HIDE DEF K
  <2>4. CASE s.src \notin Strs
    <3>1. R \subseteq S
      BY <1>1, <1>2, <2>4 DEF OwnedStep, Has
    <3>2. Sound(N, S, E) /\ N.heap = M.heap
      BY <1>4, <2>1, <2>2, <2>3, <2>4
    <3> HIDE DEF N
    <3>3. Sound(N, R, E)
      BY <3>1, <3>2, SoundLess
    <3> QED
      BY <1>9, <3>2, <3>3 DEF N
  <2>5. CASE s.src \in Strs
    <3>1. s.src \in S /\ R \subseteq (S \ {s.src}) \cup {s.dest}
      BY <1>1, <1>2, <1>9, <2>5 DEF OwnedStep, Has
    <3>2. s.src \in S \ Cands /\ s.dest \in Strs
      BY <1>9, <2>3, <2>5, <3>1, CandsAre
    <3>3. Sound(K, S, D) /\ HasBuffers(K) /\ K.vals = M.vals /\ K.heap = M.heap
      BY <2>2, SoundSame DEF SameBuffers
    <3>4. Defined(K, N, s.dest, K.vals[s.src]) /\ N.heap = K.heap
      BY <2>1, <3>3, DefinedIs
    <3> HIDE DEF N
    <3>5. Sound(N, (S \ {s.src}) \cup {s.dest}, D \cup {s.dest})
      BY <3>2, <3>3, <3>4, DefineMovedSound
    <3>6. E \cap Cands \subseteq D \cup {s.dest}
      OBVIOUS
    <3>7. Sound(N, R, E)
      BY <3>1, <3>5, <3>6, SoundLess
    <3> QED
      BY <1>9, <3>3, <3>4, <3>7 DEF N
  <2> QED
    BY <2>4, <2>5
<1> QED
  BY <1>1, <1>6, <1>7, <1>8, <1>9

-----------------------------------------------------------------------------
(* What is freed at the start of a block is not needed from there on.         *)

LEMMA ReachableLeast ==
  ASSUME NEW B, Targeted(B), NEW C, Entry \in C, \A i \in C \cap DOMAIN B : Succs(B, i) \subseteq C
  PROVE  reachable_blocks(B) \subseteq C
<1>1. SuccFn(B) \in [DOMAIN B -> SUBSET DOMAIN B] /\ {Entry} \in SUBSET DOMAIN B
      /\ IsFiniteSet(DOMAIN B) /\ \A i \in DOMAIN B : SuccFn(B)[i] = Succs(B, i)
  BY DEF Targeted, SuccFn
<1>2. {Entry} \subseteq C /\ \A i \in C \cap DOMAIN B : SuccFn(B)[i] \subseteq C
  BY <1>1
<1> QED
  BY <1>1, <1>2, ClosureIs DEF reachable_blocks

\* Where nothing defines x, it does not become an owner.
LEMMA NotGained ==
  ASSUME NEW b, NEW w, NEW T, OwnedBlock(b, w, T), NEW x, x \notin w[1],
         Len(b.stmts) \in Nat, DOMAIN b.stmts = 1..Len(b.stmts),
         NEW p \in 1..(Len(b.stmts) + 1), \A j \in 1..(p - 1) : b.stmts[j].dest # x
  PROVE  x \notin w[p]
<1> DEFINE S == {m \in Nat : m + 1 <= p => x \notin w[m + 1]}
           n == p - 1
<1>1. n \in Nat /\ n + 1 = p
  OBVIOUS
<1>2. 0 \in S
  OBVIOUS
<1>3. ASSUME NEW m \in 0..n, m \in S, m < n PROVE m + 1 \in S
  <2>1. m + 1 \in DOMAIN b.stmts /\ m + 1 \in 1..(p - 1) /\ m + 1 <= p
    BY <1>3
  <2>2. x \notin w[m + 1] /\ b.stmts[m + 1].dest # x
    BY <1>3, <2>1
  <2>3. OwnedStep(b.stmts[m + 1], w[m + 1], w[m + 1 + 1], T)
    BY <2>1 DEF OwnedBlock
  <2>4. x \notin w[m + 1 + 1]
    BY <2>2, <2>3 DEF OwnedStep
  <2> QED
    BY <1>3, <2>4
<1> HIDE DEF S, n
<1>4. 0..n \subseteq S
  BY <1>1, <1>2, <1>3, UpTo
<1>5. n \in S
  BY <1>1, <1>4
<1> QED
  BY <1>1, <1>5 DEF S

\* A string that a block uses before it defines it is owned when the block starts.
LEMMA ExposedOwned ==
  ASSUME NEW b, NEW w, NEW T, OwnedBlock(b, w, T), NEW x, Has(T, x, "string"), Exposed(b, x),
         Len(b.stmts) \in Nat, DOMAIN b.stmts = 1..Len(b.stmts)
  PROVE  x \in w[1]
<1> SUFFICES ASSUME x \notin w[1] PROVE FALSE
  OBVIOUS
<1>1. CASE \E k \in DOMAIN b.stmts :
             x \in StmtUses(b.stmts[k]) /\ \A j \in 1..(k - 1) : b.stmts[j].dest # x
  <2>1. PICK k \in DOMAIN b.stmts :
          x \in StmtUses(b.stmts[k]) /\ \A j \in 1..(k - 1) : b.stmts[j].dest # x
    BY <1>1
  <2>2. k \in 1..(Len(b.stmts) + 1)
    OBVIOUS
  <2>3. x \notin w[k]
    BY <2>1, <2>2, NotGained
  <2>4. OwnedStep(b.stmts[k], w[k], w[k + 1], T) /\ b.stmts[k].src = x
    BY <2>1 DEF OwnedBlock, StmtUses
  <2> QED
    BY <2>3, <2>4 DEF OwnedStep
<1>2. CASE x \in TermUses(b.term) /\ \A j \in DOMAIN b.stmts : b.stmts[j].dest # x
  <2>1. Len(b.stmts) + 1 \in 1..(Len(b.stmts) + 1)
        /\ \A j \in 1..(Len(b.stmts) + 1 - 1) : b.stmts[j].dest # x
    BY <1>2
  <2>2. x \notin w[Len(b.stmts) + 1]
    BY <2>1, NotGained
  <2>3. Last(w) = w[Len(b.stmts) + 1]
    BY DEF OwnedBlock, Last
  <2>4. x \in Last(w)
    BY <1>2 DEF OwnedBlock, OwnedArgs, TermUses
  <2> QED
    BY <2>2, <2>3, <2>4
<1> QED
  BY <1>1, <1>2 DEF Exposed

\* A candidate is defined in exactly one block, and that at one place.
LEMMA DefinedOnce ==
  ASSUME LowerInv, NEW x \in Cands
  PROVE  /\ DefBlocks(blocks, x) = {DefBlock(blocks, x)}
         /\ DefBlock(blocks, x) \in DOMAIN blocks
         /\ blocks[DefBlock(blocks, x)].term.dest = x =>
              \A s \in Range(blocks[DefBlock(blocks, x)].stmts) : s.dest # x
<1> DEFINE D == DOMAIN blocks
           at(i) == {j \in DOMAIN blocks[i].stmts : blocks[i].stmts[j].dest = x}
           Of(i) == {<<i, k>> : k \in at(i)}
           P == UNION {Of(i) : i \in D}
           Q == {i \in Calls(blocks) : blocks[i].term.dest = x}
<1>1. IsFiniteSet(D) /\ \A i \in D : Listed(blocks[i])
  BY WellFormedBlocks DEF WellFormed, Targeted
<1>2. ASSUME NEW i \in D PROVE IsFiniteSet(Of(i))
  <2> DEFINE f == [k \in at(i) |-> <<i, k>>]
  <2>1. IsFiniteSet(at(i))
    <3>1. IsFiniteSet(DOMAIN blocks[i].stmts)
      BY <1>1, FS_Interval DEF Listed
    <3> QED
      BY <3>1, FS_Subset
  <2>2. Range(f) = Of(i) /\ DOMAIN f = at(i)
    BY DEF Range
  <2> HIDE DEF f, at
  <2> QED
    BY <2>1, <2>2, FiniteRange
<1>3. IsFiniteSet(P)
  <2> DEFINE f == [i \in D |-> Of(i)]
  <2>1. Range(f) = {Of(i) : i \in D} /\ DOMAIN f = D
    BY DEF Range
  <2> HIDE DEF f, at, Of
  <2>2. IsFiniteSet({Of(i) : i \in D})
    BY <1>1, <2>1, FiniteRange
  <2>3. \A X \in {Of(i) : i \in D} : IsFiniteSet(X)
    BY <1>2
  <2> QED
    BY <2>2, <2>3, FS_UNION
<1>4. IsFiniteSet(Q)
  <2>1. Q \subseteq D
    BY DEF Calls
  <2> QED
    BY <1>1, <2>1, FS_Subset
<1>5. Cardinality(P) + Cardinality(Q) = 1
  BY CandsAre DEF def_count, CountStmts
<1>6. \A i, k : <<i, k>> \in P <=>
        i \in D /\ k \in DOMAIN blocks[i].stmts /\ blocks[i].stmts[k].dest = x
  OBVIOUS
<1>7. \A i : i \in Q <=> i \in D /\ blocks[i].term.op = "call" /\ blocks[i].term.dest = x
  BY DEF Calls
<1>8. x # NoLocal
  BY CandsAre, StrsAre
<1>9. ASSUME NEW i \in D, blocks[i].term.dest = x PROVE i \in Q
  <2>1. TypedTerm(blocks[i].term, locals, Len(blocks))
    BY DEF LowerInv, GoodBody
  <2> QED
    BY <1>7, <1>8, <1>9, <2>1 DEF TypedTerm
<1>10. \A i : i \in DefBlocks(blocks, x) <=> i \in Q \/ \E k : <<i, k>> \in P
  <2>1. ASSUME NEW i \in DefBlocks(blocks, x) PROVE i \in Q \/ \E k : <<i, k>> \in P
    <3>1. CASE blocks[i].term.dest = x
      BY <1>9, <3>1 DEF DefBlocks
    <3>2. CASE \E s \in Range(blocks[i].stmts) : s.dest = x
      <4>1. PICK k \in DOMAIN blocks[i].stmts : blocks[i].stmts[k].dest = x
        BY <3>2 DEF Range
      <4>2. i \in D
        BY DEF DefBlocks
      <4>3. <<i, k>> \in P
        BY <1>6, <4>1, <4>2
      <4> QED
        BY <4>3
    <3> QED
      BY <3>1, <3>2 DEF DefBlocks
  <2>2. ASSUME NEW i, i \in Q \/ \E k : <<i, k>> \in P PROVE i \in DefBlocks(blocks, x)
    <3> HIDE DEF P, Q
    <3> QED
      BY <1>6, <1>7, <2>2 DEF DefBlocks, Range
  <2> QED
    BY <2>1, <2>2
<1> HIDE DEF P, Q, at, Of
<1>11. Cardinality(P) \in Nat /\ Cardinality(Q) \in Nat
  BY <1>3, <1>4, FS_CardinalityType
<1>12. \/ Q = {} /\ \E p : P = {p}
       \/ P = {} /\ \E i : Q = {i}
  <2>1. CASE Cardinality(P) = 1 /\ Cardinality(Q) = 0
    BY <1>3, <1>4, <2>1, FS_EmptySet, FS_Singleton
  <2>2. CASE Cardinality(P) = 0 /\ Cardinality(Q) = 1
    BY <1>3, <1>4, <2>2, FS_EmptySet, FS_Singleton
  <2> QED
    <3> DEFINE p == Cardinality(P)
               q == Cardinality(Q)
    <3>1. p \in Nat /\ q \in Nat /\ p + q = 1
      BY <1>5, <1>11
    <3> HIDE DEF p, q
    <3>2. (p = 1 /\ q = 0) \/ (p = 0 /\ q = 1)
      BY <3>1
    <3> QED
      BY <2>1, <2>2, <3>2 DEF p, q
<1>13. PICK d \in D : DefBlocks(blocks, x) = {d}
  <2>1. DefBlocks(blocks, x) # {}
    <3>1. CASE \E i : Q = {i}
      BY <1>10, <3>1
    <3>2. CASE \E p : P = {p}
      <4>1. PICK p \in P : TRUE
        BY <3>2
      <4>2. PICK i \in D : p \in Of(i)
        BY <4>1 DEF P
      <4>3. PICK k : p = <<i, k>>
        BY <4>2 DEF Of
      <4> QED
        BY <1>10, <4>1, <4>3
    <3> QED
      BY <1>12, <3>1, <3>2
  <2>2. \A i, j \in DefBlocks(blocks, x) : i = j
    <3> SUFFICES ASSUME NEW i \in DefBlocks(blocks, x), NEW j \in DefBlocks(blocks, x)
                 PROVE  i = j
      OBVIOUS
    <3>1. CASE P = {} /\ \E m : Q = {m}
      BY <1>10, <3>1
    <3>2. CASE Q = {} /\ \E p : P = {p}
      <4>1. PICK k, m : <<i, k>> \in P /\ <<j, m>> \in P
        BY <1>10, <3>2
      <4>2. <<i, k>> = <<j, m>>
        BY <3>2, <4>1
      <4> QED
        BY <4>2
    <3> QED
      BY <1>12, <3>1, <3>2
  <2>3. DefBlocks(blocks, x) \subseteq D
    BY DEF DefBlocks
  <2> QED
    BY <2>1, <2>2, <2>3
<1>14. DefBlock(blocks, x) = d
  BY <1>13 DEF DefBlock
<1>15. ASSUME blocks[d].term.dest = x, NEW s \in Range(blocks[d].stmts), s.dest = x PROVE FALSE
  <2>1. d \in Q
    BY <1>9, <1>15
  <2>2. P = {}
    BY <1>12, <2>1
  <2>3. PICK k \in DOMAIN blocks[d].stmts : blocks[d].stmts[k].dest = x
    BY <1>15 DEF Range
  <2>4. <<d, k>> \in P
    BY <1>6, <2>3
  <2> QED
    BY <2>2, <2>4
<1> QED
  BY <1>13, <1>14, <1>15

\* A string that only block b defines is not owned where b starts.
LEMMA NotOwnedAtDef ==
  ASSUME LowerInv, NEW W, OwnedIn(blocks, locals, W), NEW x \in Cands,
         DefBlock(blocks, x) \in reachable_blocks(blocks)
  PROVE  x \notin W[DefBlock(blocks, x)][1]
<1> DEFINE b == DefBlock(blocks, x)
           C == {i \in DOMAIN blocks : x \notin W[i][1]}
<1> SUFFICES ASSUME x \in W[b][1] PROVE FALSE
  OBVIOUS
<1>1. WellFormed(blocks) /\ Targeted(blocks)
  BY WellFormedBlocks DEF WellFormed
<1>2. Entry \in C
  BY <1>1 DEF OwnedIn, Targeted
<1>3. ASSUME NEW i \in C \cap DOMAIN blocks, NEW j \in Succs(blocks, i) PROVE j \in C
  <2>1. i # b /\ j \in DOMAIN blocks
    BY <1>1 DEF Targeted
  <2>2. i \notin DefBlocks(blocks, x)
    BY <2>1, DefinedOnce
  <2>3. blocks[i].term.dest # x /\ \A s \in Range(blocks[i].stmts) : s.dest # x
    BY <2>2 DEF DefBlocks
  <2>4. OwnedBlock(blocks[i], W[i], locals) /\ W[j][1] \subseteq Passed(blocks[i].term, Last(W[i]))
    BY DEF OwnedIn
  <2>5. Len(blocks[i].stmts) \in Nat /\ DOMAIN blocks[i].stmts = 1..Len(blocks[i].stmts)
    BY <1>1 DEF WellFormed, Listed
  <2>6. \A k \in 1..(Len(blocks[i].stmts) + 1 - 1) : blocks[i].stmts[k].dest # x
    BY <2>3, <2>5 DEF Range
  <2>7. Len(blocks[i].stmts) + 1 \in 1..(Len(blocks[i].stmts) + 1)
    BY <2>5
  <2>8. x \notin W[i][Len(blocks[i].stmts) + 1]
    BY <2>4, <2>5, <2>6, <2>7, NotGained
  <2>9. x \notin Last(W[i])
    BY <2>4, <2>8 DEF OwnedBlock, Last
  <2>10. x \notin W[j][1]
    BY <2>3, <2>4, <2>9 DEF Passed
  <2> QED
    BY <2>1, <2>10
<1>4. reachable_blocks(blocks) \subseteq C
  BY <1>1, <1>2, <1>3, ReachableLeast
<1> QED
  BY <1>4

\* Where a block can only be come to from one other, that one is reachable as well.
LEMMA OnlyPredecessor ==
  ASSUME LowerInv, NEW i \in reachable_blocks(blocks), i # Entry, NEW b,
         {p \in DOMAIN blocks : i \in Succs(blocks, p)} = {b}
  PROVE  b \in reachable_blocks(blocks)
<1> DEFINE R == reachable_blocks(blocks)
<1> SUFFICES ASSUME b \notin R PROVE FALSE
  OBVIOUS
<1>1. Targeted(blocks)
  BY WellFormedBlocks DEF WellFormed
<1>2. R \subseteq DOMAIN blocks /\ Entry \in R /\ \A k \in R : Succs(blocks, k) \subseteq R
  BY <1>1, ReachableIs
<1>3. \A k \in R : i \notin Succs(blocks, k)
  BY <1>2
<1>4. Entry \in R \ {i} /\ \A k \in (R \ {i}) \cap DOMAIN blocks : Succs(blocks, k) \subseteq R \ {i}
  BY <1>2, <1>3
<1>5. R \subseteq R \ {i}
  BY <1>1, <1>4, ReachableLeast
<1> QED
  BY <1>5

LEMMA ScopedUnneeded ==
  ASSUME LowerInv, NEW W, OwnedIn(blocks, locals, W), NEW C, NEW x \in Cands,
         NEW i \in reachable_blocks(blocks), x \in block_scoped_freeable(blocks, C)[i]
  PROVE  x \notin compute(blocks)[i]
<1> DEFINE b == DefBlock(blocks, x)
<1> SUFFICES ASSUME x \in compute(blocks)[i] PROVE FALSE
  OBVIOUS
<1>1. WellFormed(blocks) /\ Targeted(blocks)
  BY WellFormedBlocks DEF WellFormed
<1>2. i \in DOMAIN blocks
  BY <1>1, ReachableIs
<1>3. /\ live_range_confined_to_block(blocks, x, b)
      /\ i # b /\ i # Entry
      /\ {p \in DOMAIN blocks : i \in Succs(blocks, p)} = {b}
  BY <1>2 DEF block_scoped_freeable
<1>4. b \in reachable_blocks(blocks) /\ b \in DOMAIN blocks
  BY <1>3, OnlyPredecessor, DefinedOnce
<1>5. x \notin W[b][1]
  BY <1>4, NotOwnedAtDef
<1>6. UsedLater(blocks, x, i)
  BY <1>1, <1>2, LivenessIs
<1>7. PICK j \in DOMAIN blocks : Exposed(blocks[j], x)
  BY <1>1, <1>2, <1>6, PathIs DEF UsedLater
<1>8. \A k \in DOMAIN blocks \ {b} :
        x \notin TermUses(blocks[k].term) /\ \A s \in Range(blocks[k].stmts) : x \notin StmtUses(s)
  BY <1>3 DEF live_range_confined_to_block
<1>9. j = b
  <2> SUFFICES ASSUME j # b PROVE FALSE
    OBVIOUS
  <2>1. \A k \in DOMAIN blocks[j].stmts : blocks[j].stmts[k] \in Range(blocks[j].stmts)
    BY DEF Range
  <2> QED
    BY <1>7, <1>8, <2>1 DEF Exposed
<1>10. OwnedBlock(blocks[b], W[b], locals) /\ Has(locals, x, "string")
  BY <1>4, CandsAre, StrsAre DEF OwnedIn
<1>11. Len(blocks[b].stmts) \in Nat /\ DOMAIN blocks[b].stmts = 1..Len(blocks[b].stmts)
  BY <1>1, <1>4 DEF WellFormed, Listed
<1>12. Exposed(blocks[b], x)
  BY <1>7, <1>9
<1> HIDE DEF b
<1>13. x \in W[b][1]
  BY <1>10, <1>11, <1>12, ExposedOwned
<1> QED
  BY <1>5, <1>13

LEMMA DeathUnneeded ==
  ASSUME NEW B, NEW F, F.live = compute(B), NEW x, NEW i \in DeathSites(B, F, Life(B, F, x))
  PROVE  x \notin compute(B)[i]
<1>1. i \in DOMAIN B /\ i \notin Life(B, F, x).live_in
  BY DEF DeathSites
<1>2. Life(B, F, x).live_in = buffer_live_in(B, F.live, x)
  BY DEF Life
<1>3. x \in buffer_aliases(B, x)
  BY DEF buffer_aliases
<1> QED
  BY <1>1, <1>2, <1>3 DEF buffer_live_in

LEMMA FreesUnneeded ==
  ASSUME LowerInv, NEW W, OwnedIn(blocks, locals, W), plan = generate_function(blocks, Strs),
         NEW i \in reachable_blocks(blocks)
  PROVE  /\ plan.block_frees[i] \cap compute(blocks)[i] = {}
         /\ plan.flag_block_frees[i] \cap compute(blocks)[i] = {}
<1> DEFINE F == Facts(blocks)
           exit == freeable_owned_string_locals(blocks, F, Cands)
           scoped == block_scoped_freeable(blocks, Cands \ exit)
           multi == multi_block_freeable(blocks, F, (Cands \ exit) \ UNION Range(scoped))
           flagged == ((Cands \ exit) \ UNION Range(scoped)) \ UNION Range(multi)
<1>1. /\ plan.block_frees = [k \in DOMAIN blocks |-> scoped[k] \cup multi[k]]
      /\ plan.flag_block_frees = split_frontier_flag_frees(blocks, F, flagged)
  BY DEF generate_function, Cands
<1>2. i \in DOMAIN blocks /\ F.live = compute(blocks)
  BY WellFormedBlocks, ReachableIs DEF WellFormed, Facts
<1>3. ASSUME NEW x \in scoped[i] PROVE x \notin compute(blocks)[i]
  <2>1. x \in Cands
    BY <1>2 DEF block_scoped_freeable
  <2> QED
    BY <2>1, <1>3, ScopedUnneeded
<1> HIDE DEF scoped, exit
<1>4. ASSUME NEW x \in multi[i] PROVE x \notin compute(blocks)[i]
  <2>1. i \in DeathSites(blocks, F, Life(blocks, F, x))
    BY <1>2 DEF multi_block_freeable
  <2> HIDE DEF F
  <2> QED
    BY <1>2, <2>1, DeathUnneeded
<1> HIDE DEF multi, flagged
<1>5. ASSUME NEW x \in split_frontier_flag_frees(blocks, F, flagged)[i] PROVE x \notin compute(blocks)[i]
  <2>1. i \in DeathSites(blocks, F, Life(blocks, F, x))
    BY <1>2 DEF split_frontier_flag_frees
  <2> HIDE DEF F
  <2> QED
    BY <1>2, <2>1, DeathUnneeded
<1> HIDE DEF F
<1> QED
  BY <1>1, <1>2, <1>3, <1>4, <1>5

-----------------------------------------------------------------------------
(* A block runs.                                                              *)

LiveAfter(i) == LiveOut(blocks, compute(blocks), i)

\* What block i needs from its statement p on.
Awaited(i, p) == {x \in DOMAIN locals : NeededFrom(blocks[i], LiveAfter(i), p, x)}

LEMMA AwaitedIs ==
  ASSUME LowerInv, NEW i \in DOMAIN blocks
  PROVE  /\ Awaited(i, 1) \subseteq compute(blocks)[i]
         /\ \A k \in DOMAIN blocks[i].stmts :
              /\ blocks[i].stmts[k].src \in Awaited(i, k)
              /\ Awaited(i, k + 1) \subseteq Awaited(i, k) \cup {blocks[i].stmts[k].dest}
         /\ TermUses(blocks[i].term) \cap DOMAIN locals \subseteq Awaited(i, Len(blocks[i].stmts) + 1)
         /\ \A j \in Succs(blocks, i) :
              compute(blocks)[j] \cap DOMAIN locals
                \subseteq Awaited(i, Len(blocks[i].stmts) + 1) \cup {blocks[i].term.dest}
<1> DEFINE b == blocks[i]
           n == Len(b.stmts)
           L == compute(blocks)
           out == LiveAfter(i)
<1>1. WellFormed(blocks) /\ Listed(b) /\ n \in Nat /\ DOMAIN b.stmts = 1..n
  BY WellFormedBlocks DEF WellFormed, Listed
<1>2. L \in Rounds(blocks) /\ Round(blocks)[L] = L
  BY <1>1, LivenessSettled
<1>3. L[i] = LiveBefore(b, out)
  <2>1. L \in [DOMAIN blocks -> SUBSET Used(blocks)]
    BY <1>2 DEF Rounds
  <2>2. Round(blocks)[L][i] = LiveBefore(b, out)
    BY <2>1 DEF Round, LiveAfter
  <2> QED
    BY <1>2, <2>2
<1>4. ASSUME NEW x \in Awaited(i, 1) PROVE x \in L[i]
  <2>1. NeededFrom(b, out, 1, x)
    BY DEF Awaited
  <2>2. Exposed(b, x) \/ (x \in out /\ ~Defines(b, x))
    BY <1>1, <2>1 DEF NeededFrom, Exposed, Defines, Range
  <2> QED
    BY <1>1, <1>3, <2>2, LiveBeforeIs
<1>5. ASSUME NEW k \in DOMAIN b.stmts
      PROVE  /\ b.stmts[k].src \in Awaited(i, k)
             /\ Awaited(i, k + 1) \subseteq Awaited(i, k) \cup {b.stmts[k].dest}
  <2>1. k \in 1..Len(b.stmts)
    BY <1>1
  <2>2. b.stmts[k] \in Stmts(blocks)
    BY StmtsAre
  <2>3. b.stmts[k].src \in DOMAIN locals /\ b.stmts[k].src \in StmtUses(b.stmts[k])
    <3>1. NoLocal \notin DOMAIN locals
      BY LinearFinite
    <3> QED
      BY <2>2, <3>1 DEF LowerInv, GoodBody, TypedStmt, StmtUses
  <2>4. \A x : NeededFrom(b, out, k, x) <=>
                 x \in StmtUses(b.stmts[k]) \/ (NeededFrom(b, out, k + 1, x) /\ x # b.stmts[k].dest)
    BY <1>1, <2>1, NeededStep
  <2> HIDE DEF b, out
  <2>5. \A x : x \in Awaited(i, k) <=> x \in DOMAIN locals /\ NeededFrom(b, out, k, x)
    BY DEF Awaited, b, out
  <2>6. \A x : x \in Awaited(i, k + 1) <=> x \in DOMAIN locals /\ NeededFrom(b, out, k + 1, x)
    BY DEF Awaited, b, out
  <2> QED
    BY <2>3, <2>4, <2>5, <2>6
<1>6. \A x : x \in TermUses(b.term) \/ (x \in out /\ x # b.term.dest) =>
               NeededFrom(b, out, n + 1, x)
  BY <1>1 DEF NeededFrom
<1>7. TermUses(b.term) \cap DOMAIN locals \subseteq Awaited(i, n + 1)
  BY <1>6 DEF Awaited
<1>8. ASSUME NEW j \in Succs(blocks, i), NEW x \in L[j] \cap DOMAIN locals
      PROVE  x \in Awaited(i, n + 1) \cup {b.term.dest}
  <2>1. x \in out
    BY DEF LiveAfter, LiveOut
  <2> QED
    BY <1>6, <2>1 DEF Awaited
<1> QED
  BY <1>4, <1>5, <1>7, <1>8

\* Block i has run up to its terminator.
Ready(i, M, S) ==
  /\ Len(M.heap) = Len(heap)
  /\ Sound(M, S, Awaited(i, Len(blocks[i].stmts) + 1))
  /\ OwnedArgs(blocks[i].term, blocks[i].stmts, S, locals)
  /\ \A x : Len(blocks[i].stmts) > 0 /\ x = blocks[i].stmts[Len(blocks[i].stmts)].dest
              /\ blocks[i].stmts[Len(blocks[i].stmts)].op = "field" => Alive(M, x)

\* f[k] is the machine after k statements of block i, where w annotates it.
RunsSound(f, i, w) ==
  /\ Runs(f, i) /\ RunStatements(i) = f[Len(blocks[i].stmts)]
  /\ \A k \in 0..Len(blocks[i].stmts) :
       /\ Len(f[k].heap) = Len(heap)
       /\ Sound(f[k], w[k + 1], Awaited(i, k + 1))
       /\ \A x : k > 0 /\ x = blocks[i].stmts[k].dest /\ blocks[i].stmts[k].op = "field"
                 => Alive(f[k], x)

LEMMA RunSound ==
  ASSUME LowerInv, plan = generate_function(blocks, Strs), NEW W, OwnedIn(blocks, locals, W),
         NEW i \in reachable_blocks(blocks), Sound(Machine, W[i][1], compute(blocks)[i])
  PROVE  \E f : RunsSound(f, i, W[i])
<1> DEFINE b == blocks[i]
           n == Len(b.stmts)
           w == W[i]
<1>0. i \in DOMAIN blocks /\ Planned
  BY WellFormedBlocks, ReachableIs, PlannedIs DEF WellFormed
<1>1. n \in Nat /\ DOMAIN b.stmts = 1..n
  BY <1>0, WellFormedBlocks DEF WellFormed, Listed
<1>2. PICK f : Runs(f, i) /\ RunStatements(i) = f[n]
  BY <1>1, RunIs
<1>3. OwnedBlock(b, w, locals)
  BY <1>0 DEF OwnedIn
<1> DEFINE Borrowed(k) == \A x : k > 0 /\ x = b.stmts[k].dest /\ b.stmts[k].op = "field" => Alive(f[k], x)
           Size(k) == Len(f[k].heap) = Len(heap)
           S == {k \in Nat : k <= n => Size(k) /\ Sound(f[k], w[k + 1], Awaited(i, k + 1)) /\ Borrowed(k)}
<1>4. 0 \in S
  <2> DEFINE X == plan.block_frees[i]
             Y == plan.flag_block_frees[i]
             D == compute(blocks)[i]
             w1 == W[i][1]
  <2>1. f[0] = FreeAll(X, Y, Machine)
    BY <1>2 DEF Runs
  <2>2. X \subseteq Cands /\ X \cap plan.flag_owners = {} /\ Y \subseteq plan.flag_owners
    BY <1>0 DEF Planned
  <2>3. X \cap D = {} /\ Y \cap D = {}
    BY FreesUnneeded
  <2>4. Sound(Machine, w1, D)
    OBVIOUS
  <2> HIDE DEF X, Y, D, w1, w, b, n
  <2>11. Spare(X, Y, D) /\ Planned
    BY <1>0, <2>2, <2>3 DEF Spare
  <2>9. /\ Sound(FreeAll(X, Y, Machine), w1, D)
        /\ FreeAll(X, Y, Machine).live = Machine.live \ Y
        /\ Len(FreeAll(X, Y, Machine).heap) = Len(Machine.heap)
    BY <2>4, <2>11, FreeAllSound
  <2>5. Sound(f[0], w[1], D)
    BY <2>1, <2>9 DEF w, w1
  <2>6. Awaited(i, 1) \cap Cands \subseteq D /\ w[1] \subseteq w[1]
    BY <1>0, AwaitedIs DEF D
  <2>7. Sound(f[0], w[1], Awaited(i, 1))
    BY <2>5, <2>6, SoundLess
  <2>8. 0 + 1 = 1
    OBVIOUS
  <2>10. Size(0)
    BY <2>1, <2>9 DEF Machine
  <2> QED
    BY <2>7, <2>8, <2>10
<1>5. ASSUME NEW k \in 0..n, k \in S, k < n PROVE k + 1 \in S
  <2>1. k + 1 \in 1..n /\ k + 1 - 1 = k /\ k <= n
    BY <1>1, <1>5
  <2> DEFINE s == b.stmts[k + 1]
             D == Awaited(i, k + 1)
             E == Awaited(i, k + 1 + 1)
  <2>2. f[k + 1] = generate_statement(f[k], s)
    BY <1>2, <2>1 DEF Runs
  <2>3. s \in Stmts(blocks)
    BY <1>0, <1>1, <2>1, StmtsAre
  <2>4. s.src \in D /\ E \subseteq D \cup {s.dest}
    BY <1>0, <1>1, <2>1, AwaitedIs
  <2>5. OwnedStep(s, w[k + 1], w[k + 1 + 1], locals)
    BY <1>1, <1>3, <2>1 DEF OwnedBlock
  <2>6. Sound(f[k], w[k + 1], D)
    BY <1>5, <2>1
  <2> HIDE DEF s, D, E, w
  <2>8. /\ Sound(generate_statement(f[k], s), w[k + 1 + 1], E)
        /\ s.op = "field" => Alive(generate_statement(f[k], s), s.dest)
        /\ generate_statement(f[k], s).heap = f[k].heap
    BY <1>0, <2>3, <2>4, <2>5, <2>6, StatementSound
  <2>7. /\ Sound(f[k + 1], w[k + 1 + 1], E)
        /\ s.op = "field" => Alive(f[k + 1], s.dest)
    BY <2>2, <2>8
  <2>9. Size(k + 1)
    BY <1>5, <2>1, <2>2, <2>8
  <2> QED
    BY <2>7, <2>9 DEF s, E
<1> HIDE DEF S
<1>6. 0..n \subseteq S
  BY <1>1, <1>4, <1>5, UpTo
<1>7. \A k \in 0..n : Size(k) /\ Sound(f[k], w[k + 1], Awaited(i, k + 1)) /\ Borrowed(k)
  BY <1>6 DEF S
<1>8. RunsSound(f, i, w)
  BY <1>2, <1>7 DEF RunsSound
<1> QED
  BY <1>8

LEMMA BlockSound ==
  ASSUME LowerInv, plan = generate_function(blocks, Strs), NEW W, OwnedIn(blocks, locals, W),
         NEW i \in reachable_blocks(blocks), Sound(Machine, W[i][1], compute(blocks)[i])
  PROVE  Ready(i, RunStatements(i), Last(W[i]))
<1> DEFINE b == blocks[i]
           n == Len(b.stmts)
           w == W[i]
<1>1. PICK f : RunsSound(f, i, w)
  BY RunSound
<1>2. i \in DOMAIN blocks
  BY WellFormedBlocks, ReachableIs DEF WellFormed
<1>3. n \in Nat /\ n \in 0..n
  BY <1>2, WellFormedBlocks DEF WellFormed, Listed
<1>4. OwnedBlock(b, w, locals)
  BY <1>2 DEF OwnedIn
<1>5. Last(w) = w[n + 1] /\ OwnedArgs(b.term, b.stmts, Last(w), locals)
  BY <1>4 DEF OwnedBlock, Last
<1>6. /\ RunStatements(i) = f[n] /\ Len(f[n].heap) = Len(heap)
      /\ Sound(f[n], w[n + 1], Awaited(i, n + 1))
      /\ \A x : n > 0 /\ x = b.stmts[n].dest /\ b.stmts[n].op = "field" => Alive(f[n], x)
  BY <1>1, <1>3 DEF RunsSound
<1> QED
  BY <1>5, <1>6 DEF Ready

-----------------------------------------------------------------------------
(* The strings of an execution.                                               *)

BuffersInv ==
  /\ stage = "lower" => heap = <<>> /\ live = {}
  /\ stage # "lower" => plan = generate_function(blocks, Strs)
  /\ stage = "run" =>
       \E W : OwnedIn(blocks, locals, W) /\ Sound(Machine, W[pc][1], compute(blocks)[pc])
  /\ stage = "done" => Sound(Machine, {}, {})

LEMMA MachineThen ==
  ASSUME NEW N, IsMachine(N), Becomes(N)
  PROVE  Machine' = N
  BY DEF IsMachine, Becomes, Machine

\* The next state, when the code and the plan stay as they are.
LEMMA SoundThen ==
  ASSUME NEW N, NEW S, NEW D, Sound(N, S, D), Becomes(N), UNCHANGED <<blocks, locals, plan>>
  PROVE  Sound(Machine, S, D)'
<1>1. Machine' = N
  BY MachineThen DEF Sound, HasBuffers
<1>2. Strs' = Strs
  BY DEF Strs, LocalsOf
<1>3. Cands' = Cands
  BY <1>2 DEF Cands
<1> QED
  BY <1>1, <1>2, <1>3 DEF Sound, Alive, HasBuffers, IsMachine

\* W annotates the body, and block pc has run up to its terminator in M.
Come(W, M) ==
  /\ OwnedIn(blocks, locals, W)
  /\ M = RunStatements(pc)
  /\ Ready(pc, M, Last(W[pc]))

LEMMA Comes ==
  ASSUME LowerInv, LinearInv, BuffersInv, stage = "run"
  PROVE  /\ \E W, M : Come(W, M)
         /\ pc \in reachable_blocks(blocks) /\ pc \in DOMAIN blocks /\ Planned
         /\ plan = generate_function(blocks, Strs)
<1>1. pc \in reachable_blocks(blocks) /\ pc \in DOMAIN blocks
  BY BlockChecked DEF LinearInv
<1>2. plan = generate_function(blocks, Strs)
  BY DEF BuffersInv
<1>3. PICK W : OwnedIn(blocks, locals, W) /\ Sound(Machine, W[pc][1], compute(blocks)[pc])
  BY DEF BuffersInv
<1>4. Ready(pc, RunStatements(pc), Last(W[pc]))
  BY <1>1, <1>2, <1>3, BlockSound
<1>5. Come(W, RunStatements(pc))
  BY <1>3, <1>4 DEF Come
<1> QED
  BY <1>1, <1>2, <1>5, PlannedIs

\* After the terminator, the strings its successors count on own a buffer, and what
\* they need was not freed.
HandedOn(W) == Passed(Term, Last(W[pc]))
NeededOn == Awaited(pc, Len(blocks[pc].stmts) + 1) \cup {Term.dest}

LEMMA Arrives ==
  ASSUME LowerInv, LinearInv, BuffersInv, stage = "run", Running(Term.op), stage' = stage,
         NEW W, NEW M, Come(W, M), pc' \in Succs(blocks, pc), NEW N, Becomes(N),
         Sound(N, HandedOn(W), NeededOn)
  PROVE  BuffersInv'
<1>1. UNCHANGED <<blocks, locals, plan>> /\ stage' = "run"
  BY DEF Running, lowering
<1>2. pc \in DOMAIN blocks /\ plan = generate_function(blocks, Strs)
  BY Comes
<1>3. W[pc'][1] \subseteq HandedOn(W)
  BY <1>2 DEF Come, OwnedIn, HandedOn, Term
<1>4. compute(blocks)[pc'] \cap Cands \subseteq NeededOn
  <2>1. Cands \subseteq DOMAIN locals
    BY CandsAre, StrsAre
  <2>2. compute(blocks)[pc'] \cap DOMAIN locals \subseteq NeededOn
    BY <1>2, AwaitedIs DEF NeededOn, Term
  <2> QED
    BY <2>1, <2>2
<1>5. Sound(N, W[pc'][1], compute(blocks)[pc'])
  BY <1>3, <1>4, SoundLess
<1>7. Strs' = Strs /\ Cands' = Cands
  BY <1>1 DEF Strs, LocalsOf, Cands
<1>6. Sound(Machine, W[pc][1], compute(blocks)[pc])'
  <2>1. Machine' = N
    BY MachineThen DEF Sound, HasBuffers
  <2> QED
    BY <1>1, <1>5, <1>7, <2>1 DEF Sound, Alive, HasBuffers, IsMachine
<1>8. OwnedIn(blocks, locals, W)'
  BY <1>1 DEF Come
<1> QED
  BY <1>1, <1>2, <1>6, <1>7, <1>8 DEF BuffersInv

LEMMA RunGotoSound == ASSUME LowerInv, LinearInv, BuffersInv, RunGoto PROVE BuffersInv'
<1>1. stage = "run" /\ stage' = stage /\ Running(Term.op) /\ Becomes(RunStatements(pc))
      /\ Term.op \in {"goto", "if"} /\ pc' \in Succs(blocks, pc)
  BY DEF RunGoto, Running, Term, Succs
<1>2. PICK W, M : Come(W, M)
  BY <1>1, Comes
<1>3. Term.dest = NoLocal /\ NoLocal \notin Cands
  BY <1>1, Comes, TermIs, CandsAre, StrsAre
<1>4. Sound(M, Last(W[pc]), Awaited(pc, Len(blocks[pc].stmts) + 1)) /\ M = RunStatements(pc)
  BY <1>2 DEF Come, Ready
<1>5. HandedOn(W) = Last(W[pc])
  BY <1>1 DEF HandedOn, Passed
<1>6. NeededOn \cap Cands \subseteq Awaited(pc, Len(blocks[pc].stmts) + 1) /\ HandedOn(W) \subseteq Last(W[pc])
  BY <1>3, <1>5 DEF NeededOn
<1>7. Sound(M, HandedOn(W), NeededOn)
  BY <1>4, <1>6, SoundLess
<1> QED
  BY <1>1, <1>2, <1>4, <1>7, Arrives

\* What a call finds.
LEMMA CallComes ==
  ASSUME LowerInv, LinearInv, BuffersInv, Running("call")
  PROVE  /\ stage = "run" /\ Running(Term.op) /\ pc \in DOMAIN blocks /\ Term.op = "call"
         /\ TypedCall(Term, locals) /\ Term.to[1] \in Succs(blocks, pc) /\ Planned
         /\ \E W, M : Come(W, M)
<1>1. stage = "run" /\ Term.op = "call" /\ Running(Term.op)
  BY DEF Running, Term
<1> QED
  BY <1>1, Comes, TermIs

Found(W, M) ==
  /\ M = RunStatements(pc) /\ Len(M.heap) = Len(heap) /\ HasBuffers(M)
  /\ Sound(M, Last(W[pc]), Awaited(pc, Len(blocks[pc].stmts) + 1))
  /\ \A b \in 1..Len(M.heap) : M.heap[b].late = FALSE
  /\ \A x \in Range(Term.args) : locals[x].type \in {"string", "pointer"} => Alive(M, x)
  /\ Term.fn # "concat" => HandedOn(W) = Last(W[pc])

LEMMA ComeIs ==
  ASSUME LowerInv, LinearInv, BuffersInv, Running("call"), NEW W, NEW M, Come(W, M)
  PROVE  Found(W, M)
<1> DEFINE S == Last(W[pc])
           D == Awaited(pc, Len(blocks[pc].stmts) + 1)
<1>1. M = RunStatements(pc) /\ Len(M.heap) = Len(heap) /\ Sound(M, S, D)
  BY DEF Come, Ready
<1>2. OwnedArgs(Term, blocks[pc].stmts, S, locals)
  BY DEF Come, Ready, Term
<1>3. TypedCall(Term, locals) /\ pc \in DOMAIN blocks
  BY CallComes
<1>8. \A x \in Range(Term.args) : x \in DOMAIN locals
  <2>1. CASE \A x \in Range(Term.args) : Has(locals, x, "string")
    BY <2>1 DEF Has
  <2>2. CASE Term.args = <<>>
    BY <2>2 DEF Range
  <2>3. CASE Term.args = <<Term.args[1]>> /\ Term.args[1] \in DOMAIN locals
    <3> DEFINE x == Term.args[1]
    <3>1. Term.args = <<x>> /\ x \in DOMAIN locals
      BY <2>3
    <3> HIDE DEF x
    <3> QED
      BY <3>1 DEF Range
  <2> QED
    BY <1>3, <2>1, <2>2, <2>3 DEF TypedCall, Has
<1>4. ASSUME NEW x \in Range(Term.args), locals[x].type = "string" PROVE Alive(M, x)
  <2>1. x \in DOMAIN locals
    BY <1>8
  <2>2. x \in S
    BY <1>2, <1>4, <2>1 DEF OwnedArgs, Has
  <2>3. x \in D
    <3>1. x \in TermUses(Term) \cap DOMAIN locals
      BY <2>1, LinearFinite DEF TermUses
    <3> QED
      BY <1>3, <3>1, AwaitedIs DEF Term
  <2> HIDE DEF S, D
  <2> QED
    BY <1>1, <2>2, <2>3 DEF Sound
<1>5. ASSUME NEW x \in Range(Term.args), locals[x].type = "pointer" PROVE Alive(M, x)
  <2>1. x \in DOMAIN locals
    BY <1>8
  <2>2. /\ blocks[pc].stmts # <<>>
        /\ blocks[pc].stmts[Len(blocks[pc].stmts)].op = "field"
        /\ blocks[pc].stmts[Len(blocks[pc].stmts)].dest = x
    BY <1>2, <1>5, <2>1 DEF OwnedArgs, Has
  <2>3. Len(blocks[pc].stmts) > 0
    <3>1. blocks[pc].stmts \in Seq(MirStmt)
      <4>1. blocks \in Seq(MirBlock)
        BY DEF LowerInv, GoodBody
      <4>2. blocks[pc] \in MirBlock
        BY <1>3, <4>1, LenProperties, ElementOfSeq
      <4> QED
        BY <4>2 DEF MirBlock
    <3> QED
      BY <2>2, <3>1, EmptySeq, LenProperties
  <2> QED
    BY <2>2, <2>3 DEF Come, Ready
<1>6. HasBuffers(M) /\ \A b \in 1..Len(M.heap) : M.heap[b].late = FALSE
  BY <1>1 DEF Sound
<1>7. Term.fn # "concat" => HandedOn(W) = S
  BY DEF HandedOn, Passed
<1> QED
  BY <1>1, <1>4, <1>5, <1>6, <1>7 DEF Found

\* Every call but concat leaves the strings as they were: it returns to where it goes.
LEMMA DestIs ==
  ASSUME LowerInv, LinearInv, BuffersInv, Running("call"), Term.fn # "concat"
  PROVE  Term.dest \notin Strs
<1>1. TypedCall(Term, locals)
  BY CallComes
<1>2. Term.dest = NoLocal \/ Has(locals, Term.dest, "linear")
  BY <1>1 DEF TypedCall
<1> QED
  BY <1>2, StrsAre DEF Has

LEMMA Returns1 ==
  ASSUME LowerInv, LinearInv, BuffersInv, Running("call"), Term.fn # "concat", stage' = stage,
         pc' = Term.to[1], NEW W, NEW M, Come(W, M), NEW N, Becomes(N),
         Sound(N, Last(W[pc]), Awaited(pc, Len(blocks[pc].stmts) + 1))
  PROVE  BuffersInv'
<1>1. stage = "run" /\ Running(Term.op) /\ pc' \in Succs(blocks, pc)
  BY CallComes
<1>2. HandedOn(W) = Last(W[pc])
  BY ComeIs DEF Found
<1>3. Term.dest \notin Cands
  BY DestIs, CandsAre
<1>4. NeededOn \cap Cands \subseteq Awaited(pc, Len(blocks[pc].stmts) + 1) /\ HandedOn(W) \subseteq Last(W[pc])
  BY <1>2, <1>3 DEF NeededOn
<1>5. Sound(N, HandedOn(W), NeededOn)
  BY <1>4, SoundLess
<1> QED
  BY <1>1, <1>5, Arrives

LEMMA RunPrintfSound == ASSUME LowerInv, LinearInv, BuffersInv, RunPrintf PROVE BuffersInv'
<1>1. Running("call") /\ Term.fn # "concat" /\ stage' = stage /\ pc' = Term.to[1]
      /\ Becomes(Deref(Range(Term.args), RunStatements(pc)))
  BY DEF RunPrintf
<1>2. PICK W, M : Come(W, M)
  BY <1>1, CallComes
<1>0. Found(W, M)
  BY <1>1, <1>2, ComeIs
<1> DEFINE N == Deref(Range(Term.args), M)
           S == Last(W[pc])
           D == Awaited(pc, Len(blocks[pc].stmts) + 1)
<1>3. /\ M = RunStatements(pc) /\ HasBuffers(M) /\ Sound(M, S, D)
      /\ \A b \in 1..Len(M.heap) : M.heap[b].late = FALSE
      /\ \A x \in Range(Term.args) : locals[x].type \in {"string", "pointer"} => Alive(M, x)
  BY <1>0 DEF Found
<1>4. SameBuffers(M, N)
  BY <1>3, DerefSame
<1>5. Becomes(N)
  BY <1>1, <1>3
<1>6. Sound(N, S, D)
  <2> HIDE DEF N, S, D
  <2> QED
    BY <1>3, <1>4, SoundSame
<1> QED
  BY <1>1, <1>2, <1>5, <1>6, Returns1

LEMMA RunSpendSound == ASSUME LowerInv, LinearInv, BuffersInv, RunSpend PROVE BuffersInv'
<1> DEFINE x == Term.args[1]
<1>1. Running("call") /\ Term.fn = "spend" /\ stage' = stage /\ pc' = Term.to[1]
      /\ Becomes(Take(x, Deref({x}, RunStatements(pc))))
  BY DEF RunSpend
<1>2. PICK W, M : Come(W, M)
  BY <1>1, CallComes
<1>0. Found(W, M)
  BY <1>1, <1>2, ComeIs
<1> DEFINE L == Deref({x}, M)
           N == Take(x, L)
           S == Last(W[pc])
           D == Awaited(pc, Len(blocks[pc].stmts) + 1)
<1>3. /\ M = RunStatements(pc) /\ HasBuffers(M) /\ Sound(M, S, D)
      /\ \A b \in 1..Len(M.heap) : M.heap[b].late = FALSE
      /\ \A y \in Range(Term.args) : locals[y].type \in {"string", "pointer"} => Alive(M, y)
  BY <1>0 DEF Found
<1>4. x \in Range(Term.args)
  <2>1. TypedCall(Term, locals)
    BY <1>1, CallComes
  <2>2. Term.args = <<x>>
    BY <1>1, <2>1, HelpersAssumption DEF TypedCall
  <2> HIDE DEF x
  <2> QED
    BY <2>2 DEF Range
<1>5. SameBuffers(M, L)
  <2>1. \A y \in {x} : locals[y].type \in {"string", "pointer"} => Alive(M, y)
    BY <1>3, <1>4
  <2> HIDE DEF x
  <2> QED
    BY <1>3, <2>1, DerefSame
<1>6. SameBuffers(L, N)
  <2>1. HasBuffers(L)
    BY <1>5 DEF SameBuffers
  <2> HIDE DEF x, L
  <2> QED
    BY <2>1, TakeSame
<1>7. Becomes(N)
  BY <1>1, <1>3
<1>8. Sound(N, S, D)
  <2> HIDE DEF N, L, S, D
  <2>1. Sound(L, S, D)
    BY <1>3, <1>5, SoundSame
  <2> QED
    BY <1>6, <2>1, SoundSame
<1> QED
  BY <1>1, <1>2, <1>7, <1>8, Returns1

\* A call defines its destination, which is no string.
LEMMA CallDefines ==
  ASSUME LowerInv, LinearInv, BuffersInv, Running("call"), Term.fn # "concat", stage' = stage,
         pc' = Term.to[1], NEW v, Becomes(generate_define(Term.dest, v, RunStatements(pc)))
  PROVE  BuffersInv'
<1>1. PICK W, M : Come(W, M)
  BY CallComes
<1>0. Found(W, M)
  BY <1>1, ComeIs
<1> DEFINE N == generate_define(Term.dest, v, M)
           S == Last(W[pc])
           D == Awaited(pc, Len(blocks[pc].stmts) + 1)
<1>2. M = RunStatements(pc) /\ HasBuffers(M) /\ Sound(M, S, D)
  BY <1>0 DEF Found
<1>3. Defined(M, N, Term.dest, v) /\ N.heap = M.heap
  BY <1>2, DefinedIs
<1>4. Term.dest \notin Strs /\ Planned
  BY DestIs, CallComes
<1>5. Becomes(N)
  BY <1>2
<1>6. Sound(N, S, D)
  <2> HIDE DEF N, S, D
  <2> QED
    BY <1>2, <1>3, <1>4, DefineOtherSound
<1> QED
  BY <1>1, <1>5, <1>6, Returns1

LEMMA RunMintSound == ASSUME LowerInv, LinearInv, BuffersInv, RunMint PROVE BuffersInv'
<1>1. Running("call") /\ Term.fn # "concat" /\ stage' = stage /\ pc' = Term.to[1]
      /\ Becomes(generate_define(Term.dest, Len(spent) + 1, RunStatements(pc)))
  BY DEF RunMint, Mint
<1> QED
  BY <1>1, CallDefines

LEMMA RunHelperSound == ASSUME LowerInv, LinearInv, BuffersInv, RunHelper PROVE BuffersInv'
<1>1. Running("call") /\ Term.fn # "concat" /\ stage' = stage /\ pc' = Term.to[1]
  BY HelpersAssumption DEF RunHelper
<1>2. \E v : Becomes(generate_define(Term.dest, v, RunStatements(pc)))
  BY DEF RunHelper, Mint
<1>3. PICK v : Becomes(generate_define(Term.dest, v, RunStatements(pc)))
  BY <1>2
<1> QED
  BY <1>1, <1>3, CallDefines

LEMMA RunConcatSound == ASSUME LowerInv, LinearInv, BuffersInv, RunConcat PROVE BuffersInv'
<1> DEFINE Grow(L) == [L EXCEPT !.heap = Append(L.heap, [frees |-> 0, late |-> FALSE])]
<1>1. Running("call") /\ Term.fn = "concat" /\ stage' = stage /\ pc' = Term.to[1]
      /\ Becomes(generate_define(Term.dest, Len(heap) + 1, Grow(Deref(Range(Term.args), RunStatements(pc)))))
  BY DEF RunConcat
<1>2. PICK W, M : Come(W, M)
  BY <1>1, CallComes
<1>0. Found(W, M)
  BY <1>1, <1>2, ComeIs
<1> DEFINE L == Deref(Range(Term.args), M)
           E == Grow(L)
           N == generate_define(Term.dest, Len(heap) + 1, E)
           S == Last(W[pc])
           D == Awaited(pc, Len(blocks[pc].stmts) + 1)
           x == Term.dest
           r == [frees |-> 0, late |-> FALSE]
<1>3. /\ M = RunStatements(pc) /\ HasBuffers(M) /\ Sound(M, S, D) /\ Len(M.heap) = Len(heap)
      /\ \A b \in 1..Len(M.heap) : M.heap[b].late = FALSE
      /\ \A y \in Range(Term.args) : locals[y].type \in {"string", "pointer"} => Alive(M, y)
  BY <1>0 DEF Found
<1>4. SameBuffers(M, L)
  BY <1>3, DerefSame
<1>5. Becomes(N)
  BY <1>1, <1>3
<1>6. Sound(L, S, D)
  <2> HIDE DEF L, S, D
  <2> QED
    BY <1>3, <1>4, SoundSame
<1>7. HasBuffers(L) /\ L.heap = M.heap /\ Len(L.heap) = Len(heap)
  BY <1>3, <1>4 DEF SameBuffers
<1>8. HasBuffers(E) /\ E.vals = L.vals /\ E.live = L.live /\ E.heap = Append(L.heap, r)
  <2>1. r \in Buffer
    BY DEF Buffer
  <2> HIDE DEF L, r
  <2>2. E = [L EXCEPT !.heap = Append(L.heap, r)]
    BY DEF r
  <2>3. Append(L.heap, r) \in Seq(Buffer)
    BY <1>7, <2>1, AppendProperties DEF HasBuffers
  <2> HIDE DEF E
  <2> QED
    BY <1>7, <2>2, <2>3 DEF HasBuffers, IsMachine
<1>9. Defined(L, N, x, Len(L.heap) + 1) /\ N.heap = Append(L.heap, r)
  <2> HIDE DEF E, L, x, r
  <2>1. Defined(E, N, x, Len(heap) + 1) /\ N.heap = E.heap
    BY <1>8, DefinedIs DEF x
  <2> HIDE DEF N
  <2> QED
    BY <1>7, <1>8, <2>1 DEF Defined
<1>10. x \in Strs /\ Planned /\ stage = "run" /\ Running(Term.op) /\ pc' \in Succs(blocks, pc)
  <2>1. TypedCall(Term, locals) /\ Planned /\ stage = "run" /\ Running(Term.op) /\ pc' \in Succs(blocks, pc)
    BY <1>1, CallComes
  <2>2. Has(locals, Term.dest, "string")
    BY <1>1, <2>1, HelpersAssumption DEF TypedCall
  <2> QED
    BY <2>1, <2>2, StrsAre
<1>11. HandedOn(W) = S \cup {x} /\ NeededOn = D \cup {x}
  <2>1. Term.op = "call"
    BY <1>1, CallComes
  <2> QED
    BY <1>1, <2>1 DEF HandedOn, Passed, NeededOn
<1>12. Sound(N, S \cup {x}, D \cup {x})
  <2> HIDE DEF N, L, S, D, x
  <2> QED
    BY <1>6, <1>9, <1>10, DefineFreshSound DEF r
<1> QED
  <2>1. Sound(N, HandedOn(W), NeededOn)
    BY <1>11, <1>12
  <2> HIDE DEF N
  <2> QED
    BY <1>1, <1>2, <1>5, <1>10, <2>1, Arrives

LEMMA RunReturnSound == ASSUME LowerInv, LinearInv, BuffersInv, RunReturn PROVE BuffersInv'
<1>1. /\ stage = "run" /\ stage' = "done" /\ UNCHANGED <<blocks, locals, plan>>
      /\ Becomes(FreeAll(plan.freeable, plan.flag_owners, RunStatements(pc)))
  BY DEF RunReturn, Running, lowering
<1>2. Planned /\ plan = generate_function(blocks, Strs)
  BY <1>1, Comes
<1>3. PICK W, M : Come(W, M)
  BY <1>1, Comes
<1>4. M = RunStatements(pc) /\ Sound(M, Last(W[pc]), Awaited(pc, Len(blocks[pc].stmts) + 1))
  BY <1>3 DEF Come, Ready
<1>5. Sound(M, {}, {})
  BY <1>4, SoundLess
<1>6. Spare(plan.freeable, plan.flag_owners, {})
  BY <1>2 DEF Planned, Spare
<1> DEFINE N == FreeAll(plan.freeable, plan.flag_owners, M)
<1>7. Becomes(N)
  BY <1>1, <1>4
<1>8. Sound(N, {}, {})
  BY <1>2, <1>5, <1>6, FreeAllSound
<1>9. Sound(Machine, {}, {})'
  <2> HIDE DEF N
  <2> QED
    BY <1>1, <1>7, <1>8, SoundThen
<1>10. Strs' = Strs
  BY <1>1 DEF Strs, LocalsOf
<1>11. plan' = generate_function(blocks', Strs')
  BY <1>1, <1>2, <1>10
<1> QED
  BY <1>1, <1>9, <1>11 DEF BuffersInv

\* Where an execution starts.
Started ==
  /\ stage = "run" /\ stale = FALSE
  /\ plan = generate_function(blocks, Strs)
  /\ pc = Entry
  /\ vals = [x \in DOMAIN locals |-> Nothing]
  /\ heap = <<>> /\ live = {}

LEMMA StartSound == LowerInv /\ Annotated /\ Started => BuffersInv
<1> SUFFICES ASSUME LowerInv, Annotated, Started PROVE BuffersInv
  OBVIOUS
<1>1. PICK W : OwnedIn(blocks, locals, W)
  BY DEF Annotated
<1>2. W[pc][1] = {}
  BY <1>1 DEF OwnedIn, Started
<1>3. HasBuffers(Machine)
  <2>1. <<>> \in Seq(Buffer)
    OBVIOUS
  <2> QED
    BY <2>1 DEF HasBuffers, IsMachine, Machine, Started
<1>4. /\ Machine.vals = [x \in DOMAIN locals |-> Nothing]
      /\ Machine.heap = <<>> /\ Machine.live = {}
  BY DEF Machine, Started
<1>5. Planned /\ Cands \subseteq Strs /\ Strs \subseteq DOMAIN locals
  BY PlannedIs, CandsAre, StrsAre DEF Started
<1> DEFINE M == Machine
<1>6. /\ \A x \in Strs : M.vals[x] = Nothing /\ M.vals[x] = 0
      /\ DOMAIN M.vals = DOMAIN locals
      /\ Len(M.heap) = 0
  BY <1>4, <1>5 DEF Nothing
<1>7. Sound(M, {}, compute(blocks)[pc])
  <2> HIDE DEF M
  <2>1. M.live = {} /\ HasBuffers(M)
    BY <1>3, <1>4 DEF M
  <2> QED
    BY <1>5, <1>6, <2>1 DEF Sound, Alive
<1> QED
  BY <1>1, <1>2, <1>7 DEF BuffersInv, Started

LEMMA GenerateSound ==
  ASSUME ~UsesAfterMove, LowerInv, LinearInv, OwnedInv, BuffersInv, Generate
  PROVE  BuffersInv'
<1>1. /\ stage = "lower" /\ stage' = "run" /\ locals' = locals
      /\ pc' = pc /\ stale' = stale /\ heap' = heap /\ live' = live
      /\ plan' = generate_function(blocks', LocalsOf("string"))
      /\ vals' = [x \in DOMAIN locals |-> Nothing]
      /\ Generate
  BY DEF Generate, Finished
<1>2. pc = Entry /\ stale = FALSE /\ heap = <<>> /\ live = {}
  BY <1>1 DEF LinearInv, BuffersInv
<1>3. Strs' = LocalsOf("string")
  BY <1>1 DEF Strs, LocalsOf
<1>4. Started'
  BY <1>1, <1>2, <1>3 DEF Started
<1>5. LowerInv' /\ OwnedInv'
  BY <1>1, LowerInvStep, OwnedInvStep DEF Next
<1>6. Annotated'
  BY <1>1, <1>5 DEF OwnedInv
<1>7. (LowerInv /\ Annotated /\ Started => BuffersInv)'
  BY StartSound, PTL
<1> QED
  BY <1>4, <1>5, <1>6, <1>7

LEMMA BuffersInvStep ==
  ASSUME ~UsesAfterMove, LowerInv, LinearInv, OwnedInv, BuffersInv, [Next]_vars
  PROVE  BuffersInv'
<1>1. CASE stage = "lower" /\ Lower /\ UNCHANGED <<bodies, stage, plan, execution>>
  BY <1>1 DEF BuffersInv, execution
<1>2. CASE Generate
  BY <1>2, GenerateSound
<1>3. CASE Run
  BY <1>3, RunGotoSound, RunPrintfSound, RunConcatSound, RunSpendSound, RunMintSound,
     RunHelperSound, RunReturnSound DEF Run
<1>4. CASE UNCHANGED vars
  <2>1. UNCHANGED <<blocks, locals, stage, plan, pc, vals, heap, live, gone, stale, wild>>
    BY <1>4 DEF vars, lowering, execution
  <2>2. Strs' = Strs /\ Machine' = Machine
    BY <2>1 DEF Strs, LocalsOf, Machine
  <2>3. Cands' = Cands
    BY <2>1, <2>2 DEF Cands
  <2> QED
    BY <2>1, <2>2, <2>3 DEF BuffersInv, Sound, Alive, HasBuffers, IsMachine
<1> QED
  BY <1>1, <1>2, <1>3, <1>4 DEF Next

\* What holds whenever the lowered function runs.
StringsHeld == LowerInv /\ LinearInv /\ OwnedInv /\ BuffersInv

LEMMA StringsHeldAlways == ASSUME ~UsesAfterMove PROVE Spec => []StringsHeld
<1>1. Init => StringsHeld
  <2> SUFFICES ASSUME Init PROVE StringsHeld
    OBVIOUS
  <2>1. LowerInv
    BY LowerInvInit DEF Init
  <2>2. LinearInv
    BY DEF Init, LinearInv
  <2>3. OwnedInv
    BY StringsInit DEF Init, OwnedInv
  <2>4. BuffersInv
    BY DEF Init, BuffersInv
  <2> QED
    BY <2>1, <2>2, <2>3, <2>4 DEF StringsHeld
<1>2. StringsHeld /\ [Next]_vars => StringsHeld'
  BY LowerInvStep, LinearInvStep, OwnedInvStep, BuffersInvStep DEF StringsHeld
<1> QED
  BY <1>1, <1>2, PTL DEF Spec

LEMMA SoundMeans ==
  ASSUME NEW S, NEW D, Sound(Machine, S, D)
  PROVE  FlagMeansHeld /\ NoUseAfterFree
<1> DEFINE M == Machine
<1>1. M.vals = vals /\ M.heap = heap /\ M.live = live
  BY DEF Machine
<1>2. DOMAIN heap = 1..Len(heap)
  BY <1>1, HeapIs DEF Sound, HasBuffers
<1>3. \A b \in DOMAIN heap : heap[b].late = FALSE
  BY <1>1, <1>2 DEF Sound
<1>4. \A x \in live : vals[x] # Nothing /\ heap[vals[x]].frees = 0
  BY <1>1 DEF Sound, Alive
<1> QED
  BY <1>3, <1>4 DEF FlagMeansHeld, NoUseAfterFree

LEMMA HeldMeans == StringsHeld => FlagMeansHeld /\ NoUseAfterFree
<1> SUFFICES ASSUME StringsHeld PROVE FlagMeansHeld /\ NoUseAfterFree
  OBVIOUS
<1>1. stage \in {"lower", "run", "done"} /\ BuffersInv
  BY DEF StringsHeld, LinearInv
<1>2. CASE stage = "lower"
  BY <1>1, <1>2 DEF BuffersInv, FlagMeansHeld, NoUseAfterFree
<1>3. CASE stage = "run"
  <2>1. PICK W : Sound(Machine, W[pc][1], compute(blocks)[pc])
    BY <1>1, <1>3 DEF BuffersInv
  <2> QED
    BY <2>1, SoundMeans
<1>4. CASE stage = "done"
  BY <1>1, <1>4, SoundMeans DEF BuffersInv
<1> QED
  BY <1>1, <1>2, <1>3, <1>4

\* In every function that can be lowered and on every path through it, a drop flag that
\* is set means that its owner holds a buffer that was not freed (the invariant flags.rs
\* states), where no string is used after it was moved.
THEOREM FlagAlwaysHeld == ASSUME ~UsesAfterMove PROVE Spec => []FlagMeansHeld
BY StringsHeldAlways, HeldMeans, PTL

\* Nor is a buffer ever read after it was freed, through its owner or through a pointer
\* borrowed off it.
THEOREM NeverUsedAfterFree == ASSUME ~UsesAfterMove PROVE Spec => []NoUseAfterFree
BY StringsHeldAlways, HeldMeans, PTL

-----------------------------------------------------------------------------
(* Block-scoped owners: how often their buffers are freed.                    *)

Def(x) == DefBlock(blocks, x)

\* What the plan grants a block-scoped owner: it is freed at the start of the one block its
\* own block goes on to, which is come to from there only, and nowhere else.
ScopedPlan ==
  \A x \in plan.block_scoped_set :
    /\ x \in Cands /\ x \notin plan.flag_owners
    /\ \A i \in DOMAIN blocks : x \in plan.block_frees[i] <=> i \in Succs(blocks, Def(x))
    /\ Def(x) \notin Succs(blocks, Def(x))
    /\ \A i \in DOMAIN blocks \ {Def(x)} : Succs(blocks, i) \cap Succs(blocks, Def(x)) = {}

LEMMA ScopedPlanIs ==
  ASSUME LowerInv, plan = generate_function(blocks, Strs)
  PROVE  ScopedPlan
<1> DEFINE F == Facts(blocks)
           exit == freeable_owned_string_locals(blocks, F, Cands)
           scoped == block_scoped_freeable(blocks, Cands \ exit)
           multi == multi_block_freeable(blocks, F, (Cands \ exit) \ UNION Range(scoped))
           flagged == ((Cands \ exit) \ UNION Range(scoped)) \ UNION Range(multi)
<1>1. /\ plan.block_scoped_set = UNION Range(scoped) /\ plan.flag_owners = flagged
      /\ plan.block_frees = [i \in DOMAIN blocks |-> scoped[i] \cup multi[i]]
  BY DEF generate_function, Cands
<1>2. DOMAIN scoped = DOMAIN blocks
  BY DEF block_scoped_freeable
<1>3. \A i \in DOMAIN blocks : \A x \in multi[i] : x \notin UNION Range(scoped)
  BY DEF multi_block_freeable
<1>4. \A i \in DOMAIN blocks : \A x \in scoped[i] :
        /\ x \in Cands /\ Succs(blocks, Def(x)) = {i} /\ i # Def(x)
        /\ {j \in DOMAIN blocks : i \in Succs(blocks, j)} = {Def(x)}
  BY DEF block_scoped_freeable, Def
<1>5. \A x \in flagged : x \notin UNION Range(scoped)
  OBVIOUS
<1> HIDE DEF F, scoped, multi, flagged
<1>6. ASSUME NEW x \in plan.block_scoped_set
      PROVE  /\ x \in Cands /\ x \notin plan.flag_owners
             /\ \A i \in DOMAIN blocks : x \in plan.block_frees[i] <=> i \in Succs(blocks, Def(x))
             /\ Def(x) \notin Succs(blocks, Def(x))
             /\ \A i \in DOMAIN blocks \ {Def(x)} : Succs(blocks, i) \cap Succs(blocks, Def(x)) = {}
  <2>1. PICK i \in DOMAIN blocks : x \in scoped[i]
    BY <1>1, <1>2 DEF Range
  <2>2. /\ x \in Cands /\ Succs(blocks, Def(x)) = {i} /\ i # Def(x)
        /\ {j \in DOMAIN blocks : i \in Succs(blocks, j)} = {Def(x)}
    BY <1>4, <2>1
  <2>3. x \notin plan.flag_owners
    BY <1>1, <1>5
  <2>4. ASSUME NEW j \in DOMAIN blocks PROVE x \in plan.block_frees[j] <=> j = i
    <3>1. x \in plan.block_frees[j] <=> x \in scoped[j] \/ x \in multi[j]
      BY <1>1
    <3>2. x \notin multi[j]
      BY <1>1, <1>3
    <3>3. x \in scoped[j] => Succs(blocks, Def(x)) = {j}
      BY <1>4
    <3> QED
      BY <2>1, <2>2, <3>1, <3>2, <3>3
  <2>5. \A j \in DOMAIN blocks \ {Def(x)} : i \notin Succs(blocks, j)
    BY <2>2
  <2> QED
    BY <2>2, <2>3, <2>4, <2>5
<1> QED
  BY <1>6 DEF ScopedPlan

-----------------------------------------------------------------------------
Fresh1(M, x) == M.vals[x] # Nothing /\ M.heap[M.vals[x]].frees = 0
Spent(M, x) == M.heap[M.vals[x]].frees = 1

\* Before block i starts, and when what G holds was defined in it since.
ScopedAt(M, i) ==
  \A x \in plan.block_scoped_set :
    M.vals[x] # Nothing => M.heap[M.vals[x]].frees = IF x \in plan.block_frees[i] THEN 0 ELSE 1

ScopedIn(M, G) ==
  \A x \in plan.block_scoped_set :
    IF x \in G THEN Fresh1(M, x)
    ELSE M.vals[x] = vals[x] /\ (M.vals[x] # Nothing => Spent(M, x))

\* The strings a machine holds are buffers of its heap.
LEMMA HeldIs ==
  ASSUME LowerInv, NEW M, NEW S, NEW D, Sound(M, S, D), NEW x \in Cands, M.vals[x] # Nothing
  PROVE  M.vals[x] \in 1..Len(M.heap)
<1>1. x \in Strs /\ Len(M.heap) \in Nat
  BY CandsAre, HeapIs DEF Sound, HasBuffers
<1>2. M.vals[x] \in 0..Len(M.heap)
  BY <1>1 DEF Sound
<1> QED
  BY <1>1, <1>2 DEF Nothing

\* What the candidates in X hold is freed once; what another one holds stays as it is.
LEMMA FreedOther ==
  ASSUME LowerInv, NEW M, NEW S, NEW D, Sound(M, S, D), NEW N, NEW X, X \subseteq Cands,
         Freed(M, N, X), NEW x \in Cands \ X, M.vals[x] # Nothing
  PROVE  N.vals[x] = M.vals[x] /\ N.heap[N.vals[x]].frees = M.heap[M.vals[x]].frees
<1>1. M.vals[x] \in 1..Len(M.heap)
  BY HeldIs
<1>2. \A y \in X : M.vals[y] # M.vals[x]
  BY DEF Sound
<1> QED
  BY <1>1, <1>2 DEF Freed

LEMMA FreedThis ==
  ASSUME LowerInv, NEW M, NEW S, NEW D, Sound(M, S, D), NEW X, X \subseteq Cands, IsFiniteSet(X),
         NEW x \in X, Fresh1(M, x)
  PROVE  Spent(Free(X, M), x)
<1> DEFINE Times(b) == Cardinality({y \in X : M.vals[y] = b})
           heap1 == [b \in DOMAIN M.heap |-> [M.heap[b] EXCEPT !.frees = @ + Times(b)]]
           wild1 == M.wild \/ Times(Nothing) > 0
           v == M.vals[x]
<1>1. Free(X, M) = [M EXCEPT !.heap = heap1, !.wild = wild1]
  BY DEF Free
<1>2. v \in 1..Len(M.heap) /\ M.heap[v].frees = 0
  BY HeldIs DEF Fresh1
<1>3. DOMAIN M.heap = 1..Len(M.heap) /\ M.heap[v] \in Buffer /\ HasBuffers(M)
  BY <1>2, HeapIs DEF Sound, HasBuffers
<1>4. {y \in X : M.vals[y] = v} = {x}
  BY DEF Sound, Fresh1
<1>5. Times(v) = 1
  BY <1>4, FS_Singleton
<1> HIDE DEF Times, v
<1>6. heap1[v] = [M.heap[v] EXCEPT !.frees = M.heap[v].frees + Times(v)]
  BY <1>2, <1>3
<1>7. heap1[v].frees = M.heap[v].frees + Times(v)
  <2>1. Times(v) \in Nat
    BY <1>5
  <2> HIDE DEF heap1
  <2> QED
    BY <1>3, <1>6, <2>1, BufferFreed
<1> HIDE DEF heap1, wild1
<1>8. Free(X, M).heap = heap1 /\ Free(X, M).vals = M.vals
  BY <1>1, <1>3 DEF HasBuffers, IsMachine
<1>9. heap1[v].frees = 1
  BY <1>2, <1>5, <1>7
<1> QED
  BY <1>8, <1>9 DEF Spent, v

\* The frees at the start of block i.
LEMMA StartScoped ==
  ASSUME LowerInv, Planned, ScopedPlan, NEW i \in DOMAIN blocks,
         NEW M, NEW S, NEW D, Sound(M, S, D), M.vals = vals, ScopedAt(M, i)
  PROVE  ScopedIn(FreeAll(plan.block_frees[i], plan.flag_block_frees[i], M), {})
<1> DEFINE X == plan.block_frees[i]
           Y == plan.flag_block_frees[i]
           K == Free(X, M)
           N == emit_flag_guarded_free(Y, K)
<1>1. X \subseteq Cands /\ Y \subseteq plan.flag_owners /\ plan.flag_owners \subseteq Cands
      /\ X \cap plan.flag_owners = {}
  BY DEF Planned
<1>2. IsFiniteSet(X) /\ IsFiniteSet(Y) /\ HasBuffers(M)
  BY <1>1, CandsAre, FS_Subset DEF Sound
<1> HIDE DEF X, Y
<1>3. FreeAll(X, Y, M) = N
  BY DEF FreeAll
<1>4. Freed(M, K, X) /\ K.live = M.live
  BY <1>2, FreeIs
<1>5. HasBuffers(K) /\ K.vals = M.vals /\ Len(K.heap) = Len(M.heap)
  BY <1>4 DEF Freed
<1>6. Freed(K, N, Y \cap K.live)
  BY <1>2, <1>5, GuardedIs
<1>7. ASSUME NEW x \in plan.block_scoped_set, M.vals[x] # Nothing PROVE Spent(K, x)
  <2>1. x \in Cands
    BY DEF ScopedPlan
  <2>2. CASE x \in X
    <3>1. Fresh1(M, x)
      BY <1>7, <2>2 DEF ScopedAt, Fresh1, X
    <3> QED
      BY <1>1, <1>2, <2>2, <3>1, FreedThis
  <2>3. CASE x \notin X
    <3>1. Spent(M, x)
      BY <1>7, <2>3 DEF ScopedAt, Spent, X
    <3>2. K.vals[x] = M.vals[x] /\ K.heap[K.vals[x]].frees = M.heap[M.vals[x]].frees
      <4> HIDE DEF K
      <4> QED
        BY <1>1, <1>4, <1>7, <2>1, <2>3, FreedOther
    <3> QED
      BY <3>1, <3>2 DEF Spent
  <2> QED
    BY <2>2, <2>3
<1> HIDE DEF K
<1>8. ASSUME NEW x \in plan.block_scoped_set
      PROVE  N.vals[x] = vals[x] /\ (N.vals[x] # Nothing => Spent(N, x))
  <2>1. x \in Cands /\ x \notin Y
    BY <1>1 DEF ScopedPlan
  <2>2. N.vals = M.vals
    BY <1>5, <1>6 DEF Freed
  <2>3. ASSUME N.vals[x] # Nothing PROVE Spent(N, x)
    <3>1. M.vals[x] # Nothing /\ Spent(K, x) /\ M.vals[x] \in 1..Len(K.heap)
      BY <1>5, <1>7, <2>1, <2>2, <2>3, HeldIs
    <3>2. \A y \in Y \cap K.live : K.vals[y] # K.vals[x]
      <4> SUFFICES ASSUME NEW y \in Y PROVE K.vals[y] # K.vals[x]
        OBVIOUS
      <4>1. y \in Cands /\ y # x
        BY <1>1, <2>1
      <4>2. M.vals[y] # M.vals[x]
        BY <2>1, <3>1, <4>1 DEF Sound
      <4> QED
        BY <1>5, <4>2
    <3> HIDE DEF N
    <3> QED
      BY <1>5, <1>6, <3>1, <3>2 DEF Freed, Spent
  <2> QED
    BY <2>2, <2>3
<1>9. ScopedIn(N, {})
  BY <1>8 DEF ScopedIn
<1> QED
  BY <1>3, <1>9 DEF X, Y

\* N is M but for what the local x holds, and for what is on the heap besides.
Keeps(M, N, x) ==
  /\ \A y : y # x => N.vals[y] = M.vals[y]
  /\ \A b \in 1..Len(M.heap) : N.heap[b].frees = M.heap[b].frees

LEMMA DefineScoped ==
  ASSUME LowerInv, ScopedPlan, NEW M, NEW S, NEW D, Sound(M, S, D), NEW G, ScopedIn(M, G),
         NEW N, NEW x, Keeps(M, N, x), x \in Cands => Fresh1(N, x)
  PROVE  ScopedIn(N, G \cup ({x} \cap Cands))
<1> DEFINE H == G \cup ({x} \cap Cands)
<1>1. ASSUME NEW y \in plan.block_scoped_set
      PROVE  IF y \in H THEN Fresh1(N, y)
             ELSE N.vals[y] = vals[y] /\ (N.vals[y] # Nothing => Spent(N, y))
  <2>0. y \in Cands
    BY DEF ScopedPlan
  <2>1. CASE y = x
    BY <2>0, <2>1
  <2>2. CASE y # x
    <3>1. N.vals[y] = M.vals[y] /\ (y \in H <=> y \in G)
      BY <2>2 DEF Keeps
    <3>2. M.vals[y] # Nothing => N.heap[M.vals[y]].frees = M.heap[M.vals[y]].frees
      BY <2>0, HeldIs DEF Keeps
    <3>3. IF y \in G THEN Fresh1(M, y)
          ELSE M.vals[y] = vals[y] /\ (M.vals[y] # Nothing => Spent(M, y))
      BY DEF ScopedIn
    <3> HIDE DEF H
    <3> QED
      BY <3>1, <3>2, <3>3 DEF Fresh1, Spent
  <2> QED
    BY <2>1, <2>2
<1> HIDE DEF H
<1>2. ScopedIn(N, H)
  BY <1>1 DEF ScopedIn
<1> QED
  BY <1>2 DEF H

LEMMA StatementKeeps ==
  ASSUME NEW M, HasBuffers(M), NEW s, s.op \in {"move", "field", "ref", "deref"}
  PROVE  \A y : y # s.dest => generate_statement(M, s).vals[y] = M.vals[y]
<1>1. \E K, v : SameBuffers(M, K) /\ generate_statement(M, s) = generate_define(s.dest, v, K)
  <2>0. SameBuffers(M, M)
    BY DEF SameBuffers
  <2>1. CASE s.op = "ref"
    BY <2>1, LookSame DEF generate_statement
  <2>2. CASE s.op = "deref"
    BY <2>0, <2>2 DEF generate_statement
  <2>3. CASE s.op = "field"
    BY <2>0, <2>3 DEF generate_statement
  <2>4. CASE s.op = "move"
    BY <2>4, TakeSame DEF generate_statement
  <2> QED
    BY <2>1, <2>2, <2>3, <2>4
<1>2. PICK K, v : SameBuffers(M, K) /\ generate_statement(M, s) = generate_define(s.dest, v, K)
  BY <1>1
<1>3. Defined(K, generate_define(s.dest, v, K), s.dest, v) /\ K.vals = M.vals
  BY <1>2, DefinedIs DEF SameBuffers
<1>4. Updated(generate_statement(M, s).vals, M.vals, s.dest, v)
  BY <1>2, <1>3 DEF Defined
<1> QED
  BY <1>4 DEF Updated

\* A string that a statement defines takes what its source owned.
LEMMA StatementScoped ==
  ASSUME LowerInv, Planned, ScopedPlan, NEW M, NEW S, NEW D, Sound(M, S, D),
         NEW s \in Stmts(blocks), s.src \in D, NEW R, OwnedStep(s, S, R, locals),
         NEW G, ScopedIn(M, G)
  PROVE  ScopedIn(generate_statement(M, s), G \cup ({s.dest} \cap Cands))
<1> DEFINE N == generate_statement(M, s)
<1>1. TypedStmt(s, locals) /\ s.op \in {"move", "field", "ref", "deref"}
  BY DEF LowerInv, GoodBody, TypedStmt, MirStmt
<1>2. HasBuffers(M) /\ Cands \subseteq Strs
  BY CandsAre DEF Sound
<1>3. \A y : y # s.dest => N.vals[y] = M.vals[y]
  BY <1>1, <1>2, StatementKeeps
<1>4. N.heap = M.heap
  <2>1. {} \subseteq D \cup {s.dest}
    OBVIOUS
  <2> QED
    BY <2>1, StatementSound
<1>5. ASSUME s.dest \in Cands PROVE Fresh1(N, s.dest)
  <2>1. Has(locals, s.dest, "string")
    BY <1>2, <1>5, StrsAre
  <2>2. s.op = "move" /\ Has(locals, s.src, "string")
    BY <1>1, <2>1 DEF TypedStmt, Has
  <2> DEFINE Q == (S \ {s.src}) \cup {s.dest}
             E == D \cup {s.dest}
  <2>3. OwnedStep(s, S, Q, locals) /\ E \subseteq D \cup {s.dest}
    BY <2>2 DEF OwnedStep
  <2> HIDE DEF Q, E
  <2>4. Sound(N, Q, E)
    BY <2>3, StatementSound
  <2>5. s.dest \in Q /\ s.dest \in E
    BY DEF Q, E
  <2>6. N.vals[s.dest] # Nothing /\ Alive(N, s.dest)
    BY <1>5, <2>4, <2>5 DEF Sound
  <2> QED
    BY <2>6 DEF Alive, Fresh1
<1> HIDE DEF N
<1>6. Keeps(M, N, s.dest)
  BY <1>3, <1>4 DEF Keeps
<1>7. ScopedIn(N, G \cup ({s.dest} \cap Cands))
  BY <1>5, <1>6, DefineScoped
<1> QED
  BY <1>7 DEF N

\* What the first k statements of block i define.
Made1(i, k) == {x \in Cands : \E j \in 1..k : blocks[i].stmts[j].dest = x}
\* And the whole block.
MadeIn(i) == {x \in Cands : Def(x) = i}

LEMMA MadeIs ==
  ASSUME LowerInv, NEW i \in DOMAIN blocks
  PROVE  Made1(i, Len(blocks[i].stmts)) \cup ({blocks[i].term.dest} \cap Cands) = MadeIn(i)
<1> DEFINE b == blocks[i]
           n == Len(b.stmts)
<1>1. n \in Nat /\ DOMAIN b.stmts = 1..n
  BY WellFormedBlocks DEF WellFormed, Listed
<1>2. ASSUME NEW x \in Cands
      PROVE  Def(x) = i <=> b.term.dest = x \/ \E j \in 1..n : b.stmts[j].dest = x
  <2>1. i \in DefBlocks(blocks, x) <=> i = Def(x)
    BY DefinedOnce DEF Def
  <2>2. i \in DefBlocks(blocks, x) <=> b.term.dest = x \/ \E s \in Range(b.stmts) : s.dest = x
    BY DEF DefBlocks
  <2>3. (\E s \in Range(b.stmts) : s.dest = x) <=> \E j \in 1..n : b.stmts[j].dest = x
    BY <1>1 DEF Range
  <2> QED
    BY <2>1, <2>2, <2>3
<1> HIDE DEF b, n
<1> QED
  BY <1>2 DEF Made1, MadeIn, b, n

LEMMA BlockScoped ==
  ASSUME LowerInv, LinearInv, BuffersInv, ScopedPlan, stage = "run", ScopedAt(Machine, pc)
  PROVE  ScopedIn(RunStatements(pc), Made1(pc, Len(blocks[pc].stmts)))
<1> DEFINE b == blocks[pc]
           n == Len(b.stmts)
<1>0. pc \in reachable_blocks(blocks) /\ pc \in DOMAIN blocks /\ Planned
      /\ plan = generate_function(blocks, Strs)
  BY Comes
<1>1. n \in Nat /\ DOMAIN b.stmts = 1..n
  BY <1>0, WellFormedBlocks DEF WellFormed, Listed
<1>2. PICK W : OwnedIn(blocks, locals, W) /\ Sound(Machine, W[pc][1], compute(blocks)[pc])
  BY DEF BuffersInv
<1> DEFINE w == W[pc]
<1>3. PICK f : RunsSound(f, pc, w)
  BY <1>0, <1>2, RunSound
<1> DEFINE S == {k \in Nat : k <= n => ScopedIn(f[k], Made1(pc, k))}
<1>4. OwnedBlock(b, w, locals)
  BY <1>0, <1>2 DEF OwnedIn
<1>11. Runs(f, pc)
  BY <1>3 DEF RunsSound
<1>12. Machine.vals = vals
  BY DEF Machine
<1>5. 0 \in S
  <2>1. f[0] = FreeAll(plan.block_frees[pc], plan.flag_block_frees[pc], Machine)
    BY <1>11 DEF Runs
  <2>2. ScopedIn(f[0], {})
    BY <1>0, <1>2, <1>12, <2>1, StartScoped
  <2>3. Made1(pc, 0) = {}
    BY DEF Made1
  <2> QED
    BY <2>2, <2>3
<1>6. ASSUME NEW k \in 0..n, k \in S, k < n PROVE k + 1 \in S
  <2>1. k + 1 \in 1..n /\ k + 1 - 1 = k /\ k <= n /\ k \in 0..n
    BY <1>1, <1>6
  <2> DEFINE s == b.stmts[k + 1]
             D == Awaited(pc, k + 1)
             G == Made1(pc, k)
  <2>2. f[k + 1] = generate_statement(f[k], s)
    BY <1>11, <2>1 DEF Runs
  <2>3. s \in Stmts(blocks)
    BY <1>0, <1>1, <2>1, StmtsAre
  <2>4. s.src \in D
    BY <1>0, <1>1, <2>1, AwaitedIs
  <2>5. OwnedStep(s, w[k + 1], w[k + 1 + 1], locals)
    BY <1>1, <1>4, <2>1 DEF OwnedBlock
  <2>6. Sound(f[k], w[k + 1], D)
    BY <1>3, <2>1 DEF RunsSound
  <2>7. ScopedIn(f[k], G)
    BY <1>6, <2>1
  <2>8. G \cup ({s.dest} \cap Cands) = Made1(pc, k + 1)
    <3>1. \A j : j \in 1..(k + 1) <=> j \in 1..k \/ j = k + 1
      BY <2>1
    <3> QED
      BY <3>1 DEF Made1
  <2> HIDE DEF s, D, w, G, S
  <2>9. ScopedIn(f[k + 1], G \cup ({s.dest} \cap Cands))
    BY <1>0, <2>2, <2>3, <2>4, <2>5, <2>6, <2>7, StatementScoped
  <2>10. ScopedIn(f[k + 1], Made1(pc, k + 1))
    BY <2>8, <2>9
  <2>11. k + 1 \in Nat
    OBVIOUS
  <2> QED
    BY <2>10, <2>11 DEF S
<1> HIDE DEF S
<1>7. 0..n \subseteq S
  BY <1>1, <1>5, <1>6, UpTo
<1>8. n \in S /\ n <= n
  BY <1>1, <1>7
<1>9. ScopedIn(f[n], Made1(pc, n))
  BY <1>8 DEF S
<1>10. RunStatements(pc) = f[n]
  BY <1>3 DEF RunsSound
<1> QED
  BY <1>9, <1>10

\* After the terminator.
LEMMA ArrivesScoped ==
  ASSUME LowerInv, ScopedPlan, NEW i \in DOMAIN blocks, NEW j \in Succs(blocks, i),
         NEW N, ScopedIn(N, MadeIn(i)), ScopedAt(Machine, i)
  PROVE  ScopedAt(N, j)
<1> SUFFICES ASSUME NEW x \in plan.block_scoped_set, N.vals[x] # Nothing
             PROVE  N.heap[N.vals[x]].frees = IF x \in plan.block_frees[j] THEN 0 ELSE 1
  BY DEF ScopedAt
<1>1. j \in DOMAIN blocks
  BY WellFormedBlocks DEF WellFormed, Targeted
<1>2. x \in Cands /\ (x \in plan.block_frees[j] <=> j \in Succs(blocks, Def(x)))
      /\ (i # Def(x) => Succs(blocks, i) \cap Succs(blocks, Def(x)) = {})
  BY <1>1 DEF ScopedPlan
<1>3. CASE Def(x) = i
  <2>1. x \in MadeIn(i)
    BY <1>2, <1>3 DEF MadeIn
  <2> QED
    BY <1>2, <1>3, <2>1 DEF ScopedIn, Fresh1
<1>4. CASE Def(x) # i
  <2>1. x \notin MadeIn(i) /\ x \notin plan.block_frees[j]
    BY <1>2, <1>4 DEF MadeIn
  <2> QED
    BY <2>1 DEF ScopedIn, Spent
<1> QED
  BY <1>3, <1>4

\* The machine a block leaves, which made what it defines.
MadeBy(N) == Becomes(N) /\ IsMachine(N) /\ ScopedIn(N, MadeIn(pc))

LEMMA TerminatorMakes ==
  ASSUME LowerInv, LinearInv, BuffersInv, ScopedPlan, stage = "run", ScopedAt(Machine, pc),
         NEW W, NEW M, Come(W, M), NEW N, Becomes(N), IsMachine(N), Keeps(M, N, Term.dest),
         Term.dest \in Cands => Fresh1(N, Term.dest)
  PROVE  MadeBy(N)
<1>1. pc \in DOMAIN blocks
  BY Comes
<1>2. M = RunStatements(pc) /\ Sound(M, Last(W[pc]), Awaited(pc, Len(blocks[pc].stmts) + 1))
  BY DEF Come, Ready
<1>3. ScopedIn(M, Made1(pc, Len(blocks[pc].stmts)))
  BY <1>2, BlockScoped
<1> DEFINE G == Made1(pc, Len(blocks[pc].stmts))
<1>4. G \cup ({Term.dest} \cap Cands) = MadeIn(pc)
  BY <1>1, MadeIs DEF Term
<1> HIDE DEF G
<1>5. ScopedIn(N, G \cup ({Term.dest} \cap Cands))
  BY <1>2, <1>3, DefineScoped DEF G
<1> QED
  BY <1>4, <1>5 DEF MadeBy

\* A terminator that leaves the buffers as they are.
LEMMA SameMakes ==
  ASSUME LowerInv, LinearInv, BuffersInv, ScopedPlan, stage = "run", ScopedAt(Machine, pc),
         NEW W, NEW M, Come(W, M), NEW N, Becomes(N), SameBuffers(M, N), Term.dest \notin Cands
  PROVE  MadeBy(N)
<1>1. Keeps(M, N, Term.dest) /\ IsMachine(N)
  BY DEF Keeps, SameBuffers, HasBuffers
<1> QED
  BY <1>1, TerminatorMakes

LEMMA RunGotoMakes ==
  ASSUME LowerInv, LinearInv, BuffersInv, ScopedPlan, ScopedAt(Machine, pc), RunGoto
  PROVE  \E N : MadeBy(N)
<1>1. stage = "run" /\ Becomes(RunStatements(pc)) /\ Term.op \in {"goto", "if"}
  BY DEF RunGoto, Running, Term
<1>2. PICK W, M : Come(W, M)
  BY <1>1, Comes
<1>3. Term.dest = NoLocal /\ NoLocal \notin Cands
  BY <1>1, Comes, TermIs, CandsAre, StrsAre
<1>4. M = RunStatements(pc) /\ HasBuffers(M)
  BY <1>2 DEF Come, Ready, Sound
<1>5. SameBuffers(M, M) /\ Becomes(M)
  BY <1>1, <1>4 DEF SameBuffers
<1> QED
  BY <1>1, <1>2, <1>3, <1>5, SameMakes

LEMMA RunPrintfMakes ==
  ASSUME LowerInv, LinearInv, BuffersInv, ScopedPlan, ScopedAt(Machine, pc), RunPrintf
  PROVE  \E N : MadeBy(N)
<1>1. Running("call") /\ stage = "run" /\ Term.fn # "concat"
      /\ Becomes(Deref(Range(Term.args), RunStatements(pc)))
  BY DEF RunPrintf, Running
<1>2. PICK W, M : Come(W, M)
  BY <1>1, CallComes
<1>3. Found(W, M)
  BY <1>1, <1>2, ComeIs
<1> DEFINE N == Deref(Range(Term.args), M)
<1>4. SameBuffers(M, N)
  BY <1>3, DerefSame DEF Found
<1>5. Becomes(N)
  BY <1>1, <1>3 DEF Found
<1>6. Term.dest \notin Cands
  BY <1>1, DestIs, CandsAre
<1> HIDE DEF N
<1> QED
  BY <1>1, <1>2, <1>4, <1>5, <1>6, SameMakes

LEMMA RunSpendMakes ==
  ASSUME LowerInv, LinearInv, BuffersInv, ScopedPlan, ScopedAt(Machine, pc), RunSpend
  PROVE  \E N : MadeBy(N)
<1> DEFINE x == Term.args[1]
<1>1. Running("call") /\ stage = "run" /\ Term.fn = "spend" /\ Term.fn # "concat"
      /\ Becomes(Take(x, Deref({x}, RunStatements(pc))))
  BY DEF RunSpend, Running
<1>2. PICK W, M : Come(W, M)
  BY <1>1, CallComes
<1>3. Found(W, M)
  BY <1>1, <1>2, ComeIs
<1>4. x \in Range(Term.args)
  <2>1. TypedCall(Term, locals)
    BY <1>1, CallComes
  <2>2. Term.args = <<x>>
    BY <1>1, <2>1, HelpersAssumption DEF TypedCall
  <2> HIDE DEF x
  <2> QED
    BY <2>2 DEF Range
<1> HIDE DEF x
<1> DEFINE L == Deref({x}, M)
           N == Take(x, L)
<1>5. SameBuffers(M, L)
  <2>1. \A y \in {x} : locals[y].type \in {"string", "pointer"} => Alive(M, y)
    BY <1>3, <1>4 DEF Found
  <2> QED
    BY <1>3, <2>1, DerefSame DEF Found
<1>6. Becomes(N)
  BY <1>1, <1>3 DEF Found
<1> HIDE DEF L
<1>7. SameBuffers(L, N)
  <2>1. HasBuffers(L)
    BY <1>5 DEF SameBuffers
  <2> QED
    BY <2>1, TakeSame
<1>8. Term.dest \notin Cands
  BY <1>1, DestIs, CandsAre
<1> HIDE DEF N
<1>9. SameBuffers(M, N)
  BY <1>5, <1>7 DEF SameBuffers
<1> QED
  BY <1>1, <1>2, <1>6, <1>8, <1>9, SameMakes

\* A call that defines no string.
LEMMA DefineMakes ==
  ASSUME LowerInv, LinearInv, BuffersInv, ScopedPlan, ScopedAt(Machine, pc),
         Running("call"), Term.fn # "concat",
         NEW v, Becomes(generate_define(Term.dest, v, RunStatements(pc)))
  PROVE  \E N : MadeBy(N)
<1>1. stage = "run"
  BY DEF Running
<1>2. PICK W, M : Come(W, M)
  BY CallComes
<1>9. Found(W, M)
  BY <1>2, ComeIs
<1>3. M = RunStatements(pc) /\ HasBuffers(M)
  BY <1>9 DEF Found
<1> DEFINE N == generate_define(Term.dest, v, M)
<1>4. Defined(M, N, Term.dest, v) /\ N.heap = M.heap
  BY <1>3, DefinedIs
<1>5. Becomes(N)
  BY <1>3
<1> HIDE DEF N
<1>6. IsMachine(N) /\ Keeps(M, N, Term.dest)
  BY <1>4 DEF Defined, HasBuffers, Updated, Keeps
<1>7. Term.dest \notin Cands
  BY DestIs, CandsAre
<1>8. MadeBy(N)
  BY <1>1, <1>2, <1>5, <1>6, <1>7, TerminatorMakes
<1> QED
  BY <1>8

LEMMA RunConcatMakes ==
  ASSUME LowerInv, LinearInv, BuffersInv, ScopedPlan, ScopedAt(Machine, pc), RunConcat
  PROVE  \E N : MadeBy(N)
<1> DEFINE Grow(L) == [L EXCEPT !.heap = Append(L.heap, [frees |-> 0, late |-> FALSE])]
<1>1. Running("call") /\ stage = "run"
      /\ Becomes(generate_define(Term.dest, Len(heap) + 1, Grow(Deref(Range(Term.args), RunStatements(pc)))))
  BY DEF RunConcat, Running
<1>2. PICK W, M : Come(W, M)
  BY <1>1, CallComes
<1>3. Found(W, M)
  BY <1>1, <1>2, ComeIs
<1> DEFINE L == Deref(Range(Term.args), M)
           E == Grow(L)
           N == generate_define(Term.dest, Len(heap) + 1, E)
           x == Term.dest
           r == [frees |-> 0, late |-> FALSE]
<1>4. SameBuffers(M, L)
  BY <1>3, DerefSame DEF Found
<1>5. Becomes(N) /\ Len(M.heap) = Len(heap)
  BY <1>1, <1>3 DEF Found
<1> HIDE DEF L
<1>6. HasBuffers(E) /\ E.vals = M.vals /\ E.heap = Append(M.heap, r)
  <2>1. r \in Buffer
    BY DEF Buffer
  <2>2. HasBuffers(L) /\ L.heap = M.heap /\ L.vals = M.vals
    BY <1>4 DEF SameBuffers
  <2> HIDE DEF r
  <2>3. E = [L EXCEPT !.heap = Append(L.heap, r)]
    BY DEF r
  <2>4. Append(L.heap, r) \in Seq(Buffer)
    BY <2>1, <2>2, AppendProperties DEF HasBuffers
  <2> HIDE DEF E
  <2> QED
    BY <2>2, <2>3, <2>4 DEF HasBuffers, IsMachine
<1> HIDE DEF E
<1>7. Defined(E, N, x, Len(heap) + 1) /\ N.heap = E.heap
  BY <1>6, DefinedIs
<1> HIDE DEF N
<1>8. M.heap \in Seq(Buffer) /\ Len(M.heap) \in Nat /\ DOMAIN M.heap = 1..Len(M.heap)
  BY <1>3, HeapIs DEF Found, HasBuffers
<1>9. N.heap = Append(M.heap, r)
  BY <1>6, <1>7
<1>10. N.heap[Len(M.heap) + 1] = r /\ \A b \in 1..Len(M.heap) : N.heap[b] = M.heap[b]
  BY <1>8, <1>9, AppendProperties
<1>11. Updated(N.vals, M.vals, x, Len(heap) + 1) /\ IsMachine(N)
  BY <1>6, <1>7 DEF Defined, HasBuffers
<1>12. Keeps(M, N, x)
  BY <1>10, <1>11 DEF Keeps, Updated
<1>13. ASSUME x \in Cands PROVE Fresh1(N, x)
  <2>1. x \in DOMAIN M.vals
    <3>1. DOMAIN M.vals = DOMAIN locals
      BY <1>3 DEF Found, Sound
    <3> QED
      BY <1>13, <3>1, CandsAre, StrsAre
  <2>2. N.vals[x] = Len(heap) + 1
    BY <1>11, <2>1 DEF Updated
  <2> QED
    BY <1>5, <1>8, <1>10, <2>2 DEF Fresh1, Nothing
<1>14. MadeBy(N)
  BY <1>1, <1>2, <1>5, <1>11, <1>12, <1>13, TerminatorMakes
<1> QED
  BY <1>14

LEMMA RunMintMakes ==
  ASSUME LowerInv, LinearInv, BuffersInv, ScopedPlan, ScopedAt(Machine, pc), RunMint
  PROVE  \E N : MadeBy(N)
<1>1. Running("call") /\ Term.fn # "concat"
      /\ Becomes(generate_define(Term.dest, Len(spent) + 1, RunStatements(pc)))
  BY DEF RunMint, Mint
<1> QED
  BY <1>1, DefineMakes

LEMMA RunHelperMakes ==
  ASSUME LowerInv, LinearInv, BuffersInv, ScopedPlan, ScopedAt(Machine, pc), RunHelper
  PROVE  \E N : MadeBy(N)
<1>1. Running("call") /\ Term.fn # "concat"
  BY HelpersAssumption DEF RunHelper
<1>2. \E v : Becomes(generate_define(Term.dest, v, RunStatements(pc)))
  BY DEF RunHelper, Mint
<1>3. PICK v : Becomes(generate_define(Term.dest, v, RunStatements(pc)))
  BY <1>2
<1> QED
  BY <1>1, <1>3, DefineMakes

\* A return defines nothing; what it frees, no local holds a new buffer for.
LEMMA RunReturnKeeps ==
  ASSUME LowerInv, LinearInv, BuffersInv, ScopedPlan, ScopedAt(Machine, pc), RunReturn
  PROVE  \A x \in plan.block_scoped_set : x \notin MadeIn(pc) => vals'[x] = vals[x]
<1>1. /\ stage = "run" /\ Term.op = "return"
      /\ vals' = FreeAll(plan.freeable, plan.flag_owners, RunStatements(pc)).vals
  BY DEF RunReturn, Running, Becomes, Term
<1>2. PICK W, M : Come(W, M)
  BY <1>1, Comes
<1>3. M = RunStatements(pc) /\ HasBuffers(M) /\ Planned /\ pc \in DOMAIN blocks
  BY <1>1, <1>2, Comes DEF Come, Ready, Sound
<1>4. IsFiniteSet(plan.freeable) /\ IsFiniteSet(plan.flag_owners)
  BY <1>3, CandsAre, FS_Subset DEF Planned
<1> DEFINE K == Free(plan.freeable, M)
<1>5. HasBuffers(K) /\ K.vals = M.vals
  BY <1>3, <1>4, FreeIs DEF Freed
<1> HIDE DEF K
<1>6. emit_flag_guarded_free(plan.flag_owners, K).vals = K.vals
  BY <1>4, <1>5, GuardedIs DEF Freed
<1>7. FreeAll(plan.freeable, plan.flag_owners, M) = emit_flag_guarded_free(plan.flag_owners, K)
  BY DEF FreeAll, K
<1>8. vals' = M.vals
  BY <1>1, <1>3, <1>5, <1>6, <1>7
<1>9. ScopedIn(M, Made1(pc, Len(blocks[pc].stmts)))
  BY <1>1, <1>3, BlockScoped
<1>10. Made1(pc, Len(blocks[pc].stmts)) \subseteq MadeIn(pc)
  BY <1>3, MadeIs
<1> QED
  BY <1>8, <1>9, <1>10 DEF ScopedIn

-----------------------------------------------------------------------------
(* The block-scoped owners of an execution.                                   *)

ScopedInv ==
  /\ stage = "lower" => plan = NoPlan
  /\ stage = "run" => ScopedAt(Machine, pc)

\* A step from a block to the next.
MovesOn == RunGoto \/ RunPrintf \/ RunConcat \/ RunSpend \/ RunMint \/ RunHelper

LEMMA MovesOnMakes ==
  ASSUME LowerInv, LinearInv, BuffersInv, ScopedInv, MovesOn
  PROVE  /\ stage = "run" /\ stage' = "run" /\ UNCHANGED <<blocks, locals, plan>>
         /\ pc \in DOMAIN blocks /\ pc' \in Succs(blocks, pc) /\ ScopedPlan
         /\ \E N : MadeBy(N)
<1>1. /\ stage = "run" /\ stage' = "run" /\ UNCHANGED <<blocks, locals, plan>>
      /\ RunGoto \/ (Running("call") /\ pc' = Term.to[1])
  BY DEF MovesOn, RunGoto, RunPrintf, RunConcat, RunSpend, RunMint, RunHelper, Running, lowering
<1>2. pc \in DOMAIN blocks /\ ScopedPlan /\ ScopedAt(Machine, pc)
  BY <1>1, Comes, ScopedPlanIs DEF ScopedInv
<1>3. pc' \in Succs(blocks, pc)
  <2>1. CASE RunGoto
    BY <2>1 DEF RunGoto, Running, Term, Succs
  <2>2. CASE Running("call") /\ pc' = Term.to[1]
    BY <2>2, CallComes
  <2> QED
    BY <1>1, <2>1, <2>2
<1>4. \E N : MadeBy(N)
  BY <1>2, RunGotoMakes, RunPrintfMakes, RunConcatMakes, RunSpendMakes, RunMintMakes,
     RunHelperMakes DEF MovesOn
<1> QED
  BY <1>1, <1>2, <1>3, <1>4

\* As it starts, no local holds anything.
Unheld ==
  /\ stage = "run" /\ plan = generate_function(blocks, Strs)
  /\ vals = [x \in DOMAIN locals |-> Nothing]

LEMMA StartScopedInv == LowerInv /\ Unheld => ScopedInv
<1> SUFFICES ASSUME LowerInv, Unheld PROVE ScopedInv
  OBVIOUS
<1>1. plan.block_scoped_set \subseteq DOMAIN locals
  BY ScopedPlanIs, CandsAre, StrsAre DEF Unheld, ScopedPlan
<1>2. \A x \in plan.block_scoped_set : Machine.vals[x] = Nothing
  BY <1>1 DEF Unheld, Machine
<1> QED
  BY <1>2 DEF Unheld, ScopedInv, ScopedAt

LEMMA ScopedInvStep ==
  ASSUME StringsHeld, ScopedInv, [Next]_vars
  PROVE  ScopedInv'
<1>0. LowerInv /\ LinearInv /\ BuffersInv
  BY DEF StringsHeld
<1>1. CASE stage = "lower" /\ Lower /\ UNCHANGED <<bodies, stage, plan, execution>>
  BY <1>1 DEF ScopedInv
<1>2. CASE Generate
  <2>1. /\ stage' = "run" /\ locals' = locals /\ vals' = [x \in DOMAIN locals |-> Nothing]
        /\ plan' = generate_function(blocks', LocalsOf("string"))
    BY <1>2 DEF Generate, Finished
  <2>2. Strs' = LocalsOf("string")
    BY <2>1 DEF Strs, LocalsOf
  <2>3. LowerInv'
    BY <1>0, <1>2, LowerInvStep DEF Next
  <2>4. Unheld'
    BY <2>1, <2>2 DEF Unheld
  <2> QED
    BY <2>3, <2>4, StartScopedInv, PTL
<1>3. CASE MovesOn
  <2>1. /\ stage' = "run" /\ UNCHANGED <<blocks, locals, plan>> /\ stage = "run"
        /\ pc \in DOMAIN blocks /\ pc' \in Succs(blocks, pc) /\ ScopedPlan
    BY <1>0, <1>3, MovesOnMakes
  <2>2. PICK N : MadeBy(N)
    BY <1>0, <1>3, MovesOnMakes
  <2>3. ScopedAt(N, pc')
    BY <1>0, <2>1, <2>2, ArrivesScoped DEF MadeBy, ScopedInv
  <2>4. Machine' = N
    BY <2>2, MachineThen DEF MadeBy
  <2> QED
    BY <2>1, <2>3, <2>4 DEF ScopedInv, ScopedAt
<1>4. CASE RunReturn
  BY <1>4 DEF RunReturn, ScopedInv
<1>5. CASE UNCHANGED vars
  <2>1. UNCHANGED <<stage, plan, pc, Machine>>
    BY <1>5 DEF vars, execution, Machine
  <2> QED
    BY <2>1 DEF ScopedInv, ScopedAt
<1> QED
  BY <1>1, <1>2, <1>3, <1>4, <1>5 DEF Next, Run, MovesOn

LEMMA ScopedSteps ==
  ASSUME StringsHeld, ScopedInv, [Next]_vars
  PROVE  [\A x \in plan.block_scoped_set :
            vals'[x] # vals[x] /\ vals[x] # Nothing => heap[vals[x]].frees = 1]_vars
<1>0. LowerInv /\ LinearInv /\ BuffersInv
  BY DEF StringsHeld
<1>1. CASE stage = "lower"
  BY <1>1 DEF ScopedInv, NoPlan
<1>2. ASSUME stage = "run", NEW x \in plan.block_scoped_set, ScopedPlan,
             x \in MadeIn(pc), vals[x] # Nothing
      PROVE  heap[vals[x]].frees = 1
  <2>1. Machine.vals = vals /\ Machine.heap = heap /\ ScopedAt(Machine, pc) /\ pc \in DOMAIN blocks
    BY <1>0, <1>2, Comes DEF Machine, ScopedInv
  <2>2. x \notin plan.block_frees[pc]
    BY <1>2, <2>1 DEF ScopedPlan, MadeIn
  <2> QED
    BY <1>2, <2>1, <2>2 DEF ScopedAt
<1>3. CASE MovesOn
  <2>1. stage = "run" /\ ScopedPlan
    BY <1>0, <1>3, MovesOnMakes
  <2>2. PICK N : MadeBy(N)
    BY <1>0, <1>3, MovesOnMakes
  <2>3. \A x \in plan.block_scoped_set : x \notin MadeIn(pc) => vals'[x] = vals[x]
    BY <2>2 DEF MadeBy, ScopedIn, Becomes
  <2> QED
    BY <1>2, <2>1, <2>3
<1>4. CASE RunReturn
  <2>1. stage = "run" /\ ScopedAt(Machine, pc) /\ ScopedPlan
    BY <1>0, <1>4, Comes, ScopedPlanIs DEF RunReturn, Running, ScopedInv
  <2>2. \A x \in plan.block_scoped_set : x \notin MadeIn(pc) => vals'[x] = vals[x]
    BY <1>0, <1>4, <2>1, RunReturnKeeps
  <2> QED
    BY <1>2, <2>1, <2>2
<1>5. CASE Generate
  BY <1>1, <1>5 DEF Generate
<1> QED
  BY <1>1, <1>3, <1>4, <1>5 DEF Next, Run, MovesOn

\* A loop that allocates for a block-scoped owner holds one buffer of it at a time: before
\* the owner takes its next one, the last one was freed, and once, in every function that can
\* be lowered and on every path through it, where no string is used after it was moved.
THEOREM ScopedAlwaysFreedBefore == ASSUME ~UsesAfterMove PROVE Spec => ScopedFreedBeforeNext
<1>1. Init => ScopedInv
  BY DEF Init, ScopedInv
<1>2. StringsHeld /\ ScopedInv /\ [Next]_vars => ScopedInv'
  BY ScopedInvStep
<1>3. StringsHeld /\ ScopedInv /\ [Next]_vars =>
        [\A x \in plan.block_scoped_set :
           vals'[x] # vals[x] /\ vals[x] # Nothing => heap[vals[x]].frees = 1]_vars
  BY ScopedSteps
<1> QED
  BY <1>1, <1>2, <1>3, StringsHeldAlways, PTL DEF Spec, ScopedFreedBeforeNext
=============================================================================
