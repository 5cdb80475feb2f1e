----------------------- MODULE AsyncPrimitivesProofs -----------------------
(* Proofs about AsyncSemaphore for any number of tasks, permits and rounds:   *)
(* its type invariant and that no permit is lost or made; and about           *)
(* AsyncOneshot for any number of senders: the receiver takes a value, never  *)
(* None, and sleeps over one only when its wake came before its sleep.        *)
EXTENDS AsyncSemaphore, AsyncOneshot, FiniteSetTheorems, TLAPS

\* Without the bound of permits, which follows from their conservation.
ShapeInv ==
  /\ permits \in Nat
  /\ waiters \in Seq(Tasks)
  /\ pc \in [Tasks -> {"load", "exchange", "register", "park", "asleep", "hold", "wake"}]
  /\ seen \in [Tasks -> 0..MaxPermits]
  /\ registered \subseteq Tasks
  /\ missed \subseteq Tasks
  /\ rounds \in [Tasks -> 0..Rounds]
  /\ \A t \in Tasks : pc[t] = "exchange" => seen[t] > 0
  /\ \A t \in Tasks : pc[t] = "wake" => rounds[t] > 0
  /\ \A t \in Tasks : pc[t] \in {"exchange", "hold"} => rounds[t] > 0

Inv == ShapeInv /\ PermitsConserved

\* What changes where one task stands changes who holds a permit by that task.
LEMMA OneMoves ==
  ASSUME ShapeInv, NEW t \in Tasks, NEW p, Go(t, p)
  PROVE  Holders' = IF p = "hold" THEN Holders \cup {t} ELSE Holders \ {t}
  BY DEF Go, Holders, ShapeInv

LEMMA HoldersFinite == IsFiniteSet(Holders) /\ Cardinality(Holders) \in Nat
<1>1. IsFiniteSet(Holders)
  BY FS_Subset, SemaphoreAssumption DEF Holders
<1> QED
  BY <1>1, FS_CardinalityType

\* Conservation bounds the permits that are available.
LEMMA Bounded == ASSUME Inv PROVE permits \in 0..MaxPermits
  BY HoldersFinite, SemaphoreAssumption DEF Inv, ShapeInv, PermitsConserved

LEMMA InvInit == Init => Inv
<1> SUFFICES ASSUME Init PROVE Inv
  OBVIOUS
<1>1. ShapeInv
  BY SemaphoreAssumption DEF Init, ShapeInv
<1>2. Holders = {}
  BY DEF Init, Holders
<1> QED
  BY <1>1, <1>2, FS_EmptySet, SemaphoreAssumption DEF Init, Inv, PermitsConserved

LEMMA InvStep == Inv /\ [Next]_vars => Inv'
<1> SUFFICES ASSUME Inv, [Next]_vars PROVE Inv'
  OBVIOUS
<1> USE SemaphoreAssumption
<1>0. ShapeInv /\ permits \in 0..MaxPermits
  BY Bounded DEF Inv
<1>1. ASSUME NEW t \in Tasks, Load(t) PROVE Inv'
  <2>1. ShapeInv'
    <3>1. CASE permits # 0
      <4>1. seen' = [seen EXCEPT ![t] = permits] /\ pc' = [pc EXCEPT ![t] = "exchange"]
        BY <1>1, <3>1 DEF Load, Some, Go
      <4>2. permits > 0
        BY <1>0, <3>1
      <4> QED
        BY <1>0, <1>1, <4>1, <4>2 DEF Load, ShapeInv
    <3>2. CASE permits = 0
      <4>1. seen' = seen /\ \E p \in {"park", "register"} : pc' = [pc EXCEPT ![t] = p]
        BY <1>1, <3>2 DEF Load, Some, Go
      <4> QED
        BY <1>0, <1>1, <4>1 DEF Load, ShapeInv
    <3> QED
      BY <3>1, <3>2
  <2>2. Holders' = Holders
    BY <1>0, <1>1 DEF Load, Go, Holders, ShapeInv
  <2> QED
    BY <1>1, <2>1, <2>2 DEF Load, Inv, PermitsConserved
<1>2. ASSUME NEW t \in Tasks, Exchange(t) PROVE Inv'
  <2>1. CASE permits = seen[t] /\ permits' = permits - 1 /\ Go(t, "hold")
    <3>1. ShapeInv'
      BY <1>0, <1>2, <2>1 DEF Exchange, Go, ShapeInv
    <3>2. t \notin Holders
      BY <1>2 DEF Exchange, Holders
    <3>3. Holders' = Holders \cup {t}
      BY <1>0, <2>1, OneMoves
    <3>4. Cardinality(Holders \cup {t}) = Cardinality(Holders) + 1
      BY <3>2, HoldersFinite, FS_AddElement
    <3> QED
      BY <1>0, <2>1, <3>1, <3>3, <3>4, HoldersFinite DEF Inv, PermitsConserved
  <2>2. CASE UNCHANGED permits /\ Go(t, "load")
    <3>1. ShapeInv'
      BY <1>0, <1>2, <2>2 DEF Exchange, Go, ShapeInv
    <3>2. Holders' = Holders
      BY <1>0, <1>2, <2>2 DEF Exchange, Go, Holders, ShapeInv
    <3> QED
      BY <2>2, <3>1, <3>2 DEF Inv, PermitsConserved
  <2> QED
    BY <1>2, <2>1, <2>2 DEF Exchange
<1>3. ASSUME NEW t \in Tasks, Register(t) PROVE Inv'
  <2>1. ShapeInv'
    BY <1>0, <1>3 DEF Register, Go, ShapeInv
  <2>2. Holders' = Holders
    BY <1>0, <1>3 DEF Register, Go, Holders, ShapeInv
  <2> QED
    BY <1>3, <2>1, <2>2 DEF Register, Inv, PermitsConserved
<1>4. ASSUME NEW t \in Tasks, Park(t) PROVE Inv'
  <2>1. ShapeInv'
    BY <1>0, <1>4 DEF Park, Go, ShapeInv
  <2>2. Holders' = Holders
    BY <1>0, <1>4 DEF Park, Go, Holders, ShapeInv
  <2> QED
    BY <1>4, <2>1, <2>2 DEF Park, Inv, PermitsConserved
<1>5. ASSUME NEW t \in Tasks, Release(t) PROVE Inv'
  <2>1. ShapeInv'
    BY <1>0, <1>5 DEF Release, Go, ShapeInv
  <2>2. t \in Holders
    BY <1>5 DEF Release, Holders
  <2>3. Holders' = Holders \ {t}
    BY <1>0, <1>5, OneMoves DEF Release
  <2>4. Cardinality(Holders \ {t}) = Cardinality(Holders) - 1
    BY <2>2, HoldersFinite, FS_RemoveElement
  <2> QED
    BY <1>0, <1>5, <2>1, <2>3, <2>4, HoldersFinite DEF Release, Inv, PermitsConserved
<1>6. ASSUME NEW t \in Tasks, WakeOne(t) PROVE Inv'
  <2>1. rounds' \in [Tasks -> 0..Rounds]
    <3>1. rounds' = [rounds EXCEPT ![t] = @ - 1] /\ pc[t] = "wake"
      BY <1>6 DEF WakeOne
    <3>2. rounds[t] > 0 /\ rounds \in [Tasks -> 0..Rounds]
      BY <1>0, <3>1 DEF ShapeInv
    <3> QED
      BY <3>1, <3>2
  <2>2. CASE waiters = <<>>
    <3>1. ShapeInv'
      BY <1>0, <1>6, <2>1, <2>2 DEF WakeOne, Go, ShapeInv
    <3>2. Holders' = Holders
      BY <1>0, <1>6, <2>2 DEF WakeOne, Go, Holders, ShapeInv
    <3> QED
      BY <1>6, <3>1, <3>2 DEF WakeOne, Inv, PermitsConserved
  <2>3. CASE waiters # <<>>
    <3> DEFINE u == waiters[Len(waiters)]
    <3>1. u \in Tasks
      BY <1>0, <2>3 DEF ShapeInv
    <3>2. waiters' \in Seq(Tasks)
      <4>1. waiters' = SubSeq(waiters, 1, Len(waiters) - 1)
        BY <1>6, <2>3 DEF WakeOne
      <4>2. waiters \in Seq(Tasks) /\ waiters # <<>>
        BY <1>0, <2>3 DEF ShapeInv
      <4> QED
        BY <4>1, <4>2
    <3>3. \A v \in Tasks : pc'[v] = pc[v] \/ (pc[v] \in {"wake", "asleep"} /\ pc'[v] = "load")
      <4>1. /\ pc[t] = "wake"
            /\ \/ pc[u] = "asleep" /\ pc' = [pc EXCEPT ![t] = "load", ![u] = "load"]
               \/ pc' = [pc EXCEPT ![t] = "load"]
        BY <1>6, <2>3 DEF WakeOne, WakingLast, Go
      <4> QED
        BY <1>0, <3>1, <4>1 DEF ShapeInv
    <3>4. /\ pc' \in [Tasks -> {"load", "exchange", "register", "park", "asleep", "hold", "wake"}]
          /\ pc'[t] = "load"
          /\ missed' \subseteq Tasks
      BY <1>0, <1>6, <2>3, <3>1 DEF WakeOne, WakingLast, Waits, Go, ShapeInv
    <3>5. \A v \in Tasks : v # t => rounds'[v] = rounds[v]
      BY <1>0, <1>6 DEF WakeOne, ShapeInv
    <3>6. ShapeInv'
      <4>1. UNCHANGED <<permits, seen, registered>>
        BY <1>6 DEF WakeOne
      <4>2. \A v \in Tasks : pc'[v] \in {"exchange", "hold", "wake"} => v # t /\ pc[v] = pc'[v]
        BY <3>3, <3>4
      <4>3. \A v \in Tasks : pc'[v] = "exchange" => seen'[v] > 0
        BY <1>0, <4>1, <4>2 DEF ShapeInv
      <4>4. \A v \in Tasks : pc'[v] \in {"exchange", "hold", "wake"} => rounds'[v] > 0
        BY <1>0, <3>5, <4>2 DEF ShapeInv
      <4> QED
        BY <1>0, <2>1, <3>2, <3>4, <4>1, <4>3, <4>4 DEF ShapeInv
    <3>7. Holders' = Holders
      BY <3>3 DEF Holders
    <3> QED
      BY <1>6, <3>6, <3>7 DEF WakeOne, Inv, PermitsConserved
  <2> QED
    BY <2>2, <2>3
<1>7. CASE UNCHANGED vars
  <2>1. ShapeInv' /\ Holders' = Holders
    BY <1>0, <1>7 DEF vars, ShapeInv, Holders
  <2> QED
    BY <1>7, <2>1 DEF vars, Inv, PermitsConserved
<1> QED
  BY <1>1, <1>2, <1>3, <1>4, <1>5, <1>6, <1>7 DEF Next, Step

LEMMA InvAlways == Spec => []Inv
  BY InvInit, InvStep, PTL DEF Spec

\* Every reachable state is well typed: permits never pass the number the
\* semaphore was made with, which release only debug_asserts.
THEOREM TypeCorrect == Spec => []TypeOK
<1>1. Inv => TypeOK
  BY Bounded DEF Inv, ShapeInv, TypeOK
<1> QED
  BY <1>1, InvAlways, PTL

\* For any number of tasks and permits, and any race of try_acquire with release,
\* available and held permits add up to what the semaphore was made with.
THEOREM PermitsAlwaysConserved == Spec => []PermitsConserved
<1>1. Inv => PermitsConserved
  BY DEF Inv
<1> QED
  BY <1>1, InvAlways, PTL

-----------------------------------------------------------------------------
(* The oneshot.                                                              *)

OneshotShape ==
  /\ value \in Senders \cup {None}
  /\ {completed, waiter, listed, dropped} \subseteq BOOLEAN
  /\ spc \in [Senders -> {"load", "refused", "value", "store", "wake", "sent"}]
  /\ rpc \in {"load", "take", "register", "park", "asleep", "received"}

\* From the first store of a value to the receiver's take there is one: it may be
\* another sender's, never None. Only a completed oneshot is taken from.
OneshotValue ==
  /\ \A s \in Senders : spc[s] \in {"store", "wake", "sent"} =>
       value \in Senders \/ rpc = "received"
  /\ completed => \E s \in Senders : spc[s] \in {"wake", "sent"}
  /\ rpc = "take" => completed
  /\ rpc = "received" => got \in Senders

\* A receiver that has registered, or sleeps, is in the slot of the waiter or had its
\* wake dropped; when the oneshot completes while it is in the slot, a wake is to come.
OneshotWake ==
  /\ rpc = "park" => listed
  /\ listed => waiter \/ dropped
  /\ rpc = "asleep" => (waiter \/ dropped) /\ ~listed
  /\ completed /\ waiter /\ rpc \in {"park", "asleep"} => \E s \in Senders : spc[s] = "wake"

OneshotInv == OneshotShape /\ OneshotValue /\ OneshotWake

LEMMA OneshotInvInit == InitOneshot => OneshotInv
  BY DEF InitOneshot, OneshotInv, OneshotShape, OneshotValue, OneshotWake

LEMMA OneshotInvStep == OneshotInv /\ [NextOneshot]_oneshot => OneshotInv'
<1> SUFFICES ASSUME OneshotInv, [NextOneshot]_oneshot PROVE OneshotInv'
  OBVIOUS
<1> USE DEF OneshotInv
<1>1. ASSUME NEW s \in Senders, SendLoad(s) PROVE OneshotInv'
  <2>1. OneshotShape'
    BY <1>1 DEF SendLoad, OneshotShape
  <2>2. \A r \in Senders : /\ spc'[r] \in {"store", "wake", "sent"} <=> spc[r] \in {"store", "wake", "sent"}
                           /\ spc'[r] \in {"wake", "sent"} <=> spc[r] \in {"wake", "sent"}
                           /\ spc'[r] = "wake" <=> spc[r] = "wake"
    BY <1>1 DEF SendLoad, OneshotShape
  <2>3. OneshotValue'
    BY <1>1, <2>2 DEF SendLoad, OneshotValue
  <2>4. OneshotWake'
    BY <1>1, <2>2 DEF SendLoad, OneshotWake
  <2> QED
    BY <2>1, <2>3, <2>4
<1>2. ASSUME NEW s \in Senders, SendValue(s) PROVE OneshotInv'
  <2>1. OneshotShape' /\ value' \in Senders
    BY <1>2 DEF SendValue, OneshotShape
  <2>2. \A r \in Senders : /\ spc'[r] \in {"wake", "sent"} <=> spc[r] \in {"wake", "sent"}
                           /\ spc'[r] = "wake" <=> spc[r] = "wake"
    BY <1>2 DEF SendValue, OneshotShape
  <2>3. OneshotValue'
    BY <1>2, <2>1, <2>2 DEF SendValue, OneshotValue
  <2>4. OneshotWake'
    BY <1>2, <2>2 DEF SendValue, OneshotWake
  <2> QED
    BY <2>1, <2>3, <2>4
<1>3. ASSUME NEW s \in Senders, SendStore(s) PROVE OneshotInv'
  <2>1. OneshotShape' /\ spc'[s] = "wake"
    BY <1>3 DEF SendStore, OneshotShape
  <2>2. \A r \in Senders : spc'[r] \in {"store", "wake", "sent"} => spc[r] \in {"store", "wake", "sent"}
    BY <1>3 DEF SendStore, OneshotShape
  <2>3. OneshotValue'
    BY <1>3, <2>1, <2>2 DEF SendStore, OneshotValue
  <2>4. OneshotWake'
    BY <1>3, <2>1 DEF SendStore, OneshotWake
  <2> QED
    BY <2>1, <2>3, <2>4
<1>4. ASSUME NEW s \in Senders, SendWake(s) PROVE OneshotInv'
  <2>1. OneshotShape'
    BY <1>4 DEF SendWake, OneshotShape
  <2>2. \A r \in Senders : /\ spc'[r] \in {"store", "wake", "sent"} <=> spc[r] \in {"store", "wake", "sent"}
                           /\ spc'[r] \in {"wake", "sent"} <=> spc[r] \in {"wake", "sent"}
    BY <1>4 DEF SendWake, OneshotShape
  <2>3. /\ waiter' = FALSE /\ UNCHANGED <<value, completed, listed, got>>
        /\ rpc' = IF waiter /\ rpc = "asleep" THEN "load" ELSE rpc
        /\ dropped' = (dropped \/ (waiter /\ rpc # "asleep"))
    BY <1>4 DEF SendWake
  <2>4. OneshotValue'
    BY <2>2, <2>3 DEF OneshotValue
  <2>5. OneshotWake'
    BY <2>3 DEF OneshotWake
  <2> QED
    BY <2>1, <2>4, <2>5
<1>5. CASE RecvLoad
  <2>1. OneshotShape'
    BY <1>5 DEF RecvLoad, OneshotShape
  <2>2. OneshotValue'
    BY <1>5 DEF RecvLoad, OneshotValue
  <2>3. OneshotWake'
    BY <1>5 DEF RecvLoad, OneshotWake
  <2> QED
    BY <2>1, <2>2, <2>3
<1>6. CASE RecvTake
  <2>1. completed /\ value \in Senders
    BY <1>6 DEF RecvTake, OneshotValue
  <2>2. OneshotShape'
    BY <1>6 DEF RecvTake, OneshotShape
  <2>3. OneshotValue'
    BY <1>6, <2>1 DEF RecvTake, OneshotValue
  <2>4. OneshotWake'
    BY <1>6 DEF RecvTake, OneshotWake
  <2> QED
    BY <2>2, <2>3, <2>4
<1>7. CASE RecvRegister
  BY <1>7 DEF RecvRegister, OneshotShape, OneshotValue, OneshotWake
<1>8. CASE RecvPark
  <2>1. OneshotShape' /\ OneshotValue'
    BY <1>8 DEF RecvPark, OneshotShape, OneshotValue
  <2>2. OneshotWake'
    BY <1>8 DEF RecvPark, OneshotWake
  <2> QED
    BY <2>1, <2>2
<1>9. CASE UNCHANGED oneshot
  BY <1>9 DEF oneshot, OneshotShape, OneshotValue, OneshotWake
<1> QED
  BY <1>1, <1>2, <1>3, <1>4, <1>5, <1>6, <1>7, <1>8, <1>9 DEF NextOneshot, Send, Recv

LEMMA OneshotInvAlways == SpecOneshot => []OneshotInv
  BY OneshotInvInit, OneshotInvStep, PTL DEF SpecOneshot

\* Whatever senders race, the receiver that sees completed takes a value: the stores
\* of value come before those of completed, and no step takes a value but its own.
THEOREM ReceiverTakesAValue == SpecOneshot => []TakesAValue
<1>1. OneshotInv => TakesAValue
  BY DEF OneshotInv, OneshotValue, TakesAValue
<1> QED
  BY <1>1, OneshotInvAlways, PTL

\* A receiver asleep on a completed oneshot has a wake to come, however its register,
\* its second try and its sleep fall between a sender's stores, or was given one before
\* it slept, which wake_task dropped: no other way of sleeping over a value is left.
THEOREM SleeperAlwaysWoken == SpecOneshot => []SleeperIsWoken
<1>1. OneshotInv => SleeperIsWoken
  BY DEF OneshotInv, OneshotWake, SleeperIsWoken
<1> QED
  BY <1>1, OneshotInvAlways, PTL
=============================================================================
