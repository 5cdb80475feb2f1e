------------------------ MODULE EffectHandlersProofs ------------------------
(* Proofs about EffectHandlers for every program and every number of          *)
(* handlers, functions and effects: its type invariant; for disciplined       *)
(* programs, that the linked handler stack follows control, and that it       *)
(* implements NestedHandlers; for programs that evaluate no handle expression *)
(* twice, that early exits and performs past nearer handlers lose no handler. *)
EXTENDS EffectHandlers, SequenceTheorems, FiniteSetTheorems, SetInduction, TLAPS

CallArgs == [h : Handlers \cup {NULL}, eff : Effects,
             op : UNION {OpsOf[e] : e \in Effects}, from : Frames]

\* The type invariant with what keeps it inductive: while code runs, and in every
\* saved context, some function is being executed.
TypeInv ==
  /\ TypeOK
  /\ pc \in {"run", "walk"} => calls # <<>>
  /\ pc = "walk" => walk \in CallArgs /\ walk.op \in OpsOf[walk.eff]
  /\ \A h \in Handlers : env[h] # NULL => env[h].calls # <<>>

LEMMA SubSeqType ==
  ASSUME NEW S, NEW s \in Seq(S), NEW n \in 0..Len(s)
  PROVE  /\ SubSeq(s, 1, n) \in Seq(S)
         /\ Len(SubSeq(s, 1, n)) = n
         /\ \A i \in 1..n : SubSeq(s, 1, n)[i] = s[i]
<1>1. n \in Nat /\ n <= Len(s)
  OBVIOUS
<1>2. \A i \in 1..n : s[i] \in S
  <2>1. \A i \in 1..Len(s) : s[i] \in S
    OBVIOUS
  <2> QED
    BY <1>1, <2>1
<1> QED
  BY <1>1, <1>2

\* Ending activations only clears saved contexts.
LEMMA AliveType ==
  ASSUME TypeInv, NEW c
  PROVE  /\ Alive(c) \in [Handlers -> Context \cup {NULL}]
         /\ \A h \in Handlers : Alive(c)[h] # NULL => Alive(c)[h] = env[h]
  BY DEF TypeInv, TypeOK, Alive

LEMMA TypeInit == Init => TypeInv
  BY ProgramAssumption DEF Init, TypeInv, TypeOK

LEMMA TypeStep == TypeInv /\ [Next]_vars => TypeInv'
<1> SUFFICES ASSUME TypeInv, [Next]_vars PROVE TypeInv'
  OBVIOUS
<1> USE ProgramAssumption
<1>1. ASSUME NEW f \in Frames, Call(f) PROVE TypeInv'
  BY <1>1 DEF Call, TypeInv, TypeOK
<1>2. CASE Return
  <2>1. active' \in Seq(Region)
    BY <1>2, SubSeqType DEF Return, Leaving, TypeInv, TypeOK
  <2>2. calls' \in Seq(Frames)
    BY <1>2 DEF Return, TypeInv, TypeOK
  <2>3. /\ env' \in [Handlers -> Context \cup {NULL}]
        /\ \A h \in Handlers : env'[h] # NULL => env'[h] = env[h]
    BY <1>2, AliveType DEF Return
  <2> QED
    BY <1>2, <2>1, <2>2, <2>3 DEF Return, TypeInv, TypeOK
<1>3. CASE Break
  BY <1>3, SubSeqType DEF Break, Leaving, TypeInv, TypeOK
<1>4. ASSUME NEW h \in Handlers, EnterHandle(h) PROVE TypeInv'
  <2>1. [h |-> h, at |-> 0] \in Region
    BY DEF Region
  <2>2. active' \in Seq(Region)
    BY <1>4, <2>1 DEF EnterHandle, PushHandler, TypeInv, TypeOK
  <2>3. /\ env' \in [Handlers -> Context \cup {NULL}]
        /\ \A g \in Handlers : env'[g] # NULL => env'[g].calls # <<>>
    BY <1>4 DEF EnterHandle, PushHandler, TypeInv, TypeOK, Context
  <2>4. /\ parent' \in [Handlers -> Handlers \cup {NULL}]
        /\ data' \in [Handlers -> Frames \cup {NULL}]
    BY <1>4 DEF EnterHandle, PushHandler, TypeInv, TypeOK
  <2> QED
    BY <1>4, <2>2, <2>3, <2>4 DEF EnterHandle, PushHandler, TypeInv, TypeOK
<1>5. CASE LeaveHandle
  <2>1. active # <<>>
    BY <1>5 DEF LeaveHandle, PopHandler, Here
  <2>2. active' \in Seq(Region)
    BY <1>5, <2>1 DEF LeaveHandle, PopHandler, TypeInv, TypeOK
  <2>3. /\ top' \in Handlers \cup {NULL}
        /\ pc' \in {"run", "undefined"}
    BY <1>5 DEF LeaveHandle, PopHandler, TypeInv, TypeOK
  <2> QED
    BY <1>5, <2>2, <2>3 DEF LeaveHandle, PopHandler, TypeInv, TypeOK
<1>6. ASSUME NEW e \in Effects, NEW op \in OpsOf[e], Perform(e, op) PROVE TypeInv'
  <2>1. calls[Len(calls)] \in Frames
    BY <1>6 DEF Perform, TypeInv, TypeOK
  <2>2. op \in UNION {OpsOf[d] : d \in Effects}
    OBVIOUS
  <2>3. walk' \in CallArgs
    BY <1>6, <2>1, <2>2 DEF Perform, CallArgs, TypeInv, TypeOK
  <2> QED
    BY <1>6, <2>3 DEF Perform, CallArgs, TypeInv, TypeOK
<1>7. CASE WalkOn
  <2>1. walk' \in CallArgs
    BY <1>7 DEF WalkOn, Matches, CallArgs, TypeInv, TypeOK
  <2> QED
    BY <1>7, <2>1 DEF WalkOn, Matches, CallArgs, TypeInv, TypeOK
<1>8. CASE Jump
  <2>1. walk.h \in Handlers /\ walk.from \in Frames /\ env[walk.h] # NULL
    BY <1>8 DEF Jump, Matches, CallArgs, TypeInv
  <2>2. Dispatch(walk.h, walk.op) \in 0..Len(ClauseOps[walk.h])
    <3>1. PICK e \in Effects : walk.op \in OpsOf[e]
      BY <1>8 DEF Jump, Matches, CallArgs, TypeInv
    <3>2. OpId[walk.op] \in Nat
      BY <3>1
    <3> QED
      BY <3>2 DEF Dispatch
  <2>3. /\ calls' \in Seq(Frames) /\ calls' # <<>>
        /\ env[walk.h].active \in Seq(Region)
    BY <1>8, <2>1 DEF Jump, Matches, TypeInv, TypeOK, Context
  <2>4. active' \in Seq(Region)
    <3>1. [h |-> walk.h, at |-> Dispatch(walk.h, walk.op)] \in Region
      BY <2>1, <2>2 DEF Region
    <3> QED
      BY <1>8, <2>3, <3>1 DEF Jump, Matches
  <2>5. /\ env' \in [Handlers -> Context \cup {NULL}]
        /\ \A h \in Handlers : env'[h] # NULL => env'[h] = env[h]
    BY <1>8, AliveType DEF Jump, Matches
  <2>6. data' \in [Handlers -> Frames \cup {NULL}]
    BY <1>8, <2>1 DEF Jump, Matches, TypeInv, TypeOK
  <2> QED
    BY <1>8, <2>3, <2>4, <2>5, <2>6 DEF Jump, Matches, TypeInv, TypeOK
<1>9. CASE WalkDead
  BY <1>9 DEF WalkDead, TypeInv, TypeOK
<1>10. CASE WalkEnd
  BY <1>10 DEF WalkEnd, TypeInv, TypeOK
<1>11. CASE UNCHANGED vars
  BY <1>11 DEF vars, TypeInv, TypeOK
<1> QED
  BY <1>1, <1>2, <1>3, <1>4, <1>5, <1>6, <1>7, <1>8, <1>9, <1>10, <1>11 DEF Next

\* Every reachable state of every program is well typed; in particular
\* build_perform and setjmp's context always name a running function.
THEOREM TypeCorrect == Spec => []TypeOK
<1>1. Spec => []TypeInv
  BY TypeInit, TypeStep, PTL DEF Spec
<1>2. TypeInv => TypeOK
  BY DEF TypeInv
<1> QED
  BY <1>1, <1>2, PTL

-----------------------------------------------------------------------------
(* Disciplined programs: the linked stack follows control.                   *)

Owning(i) == Owner[active[i].h]

\* No function is active twice, and functions own the regions being evaluated in
\* the order of their calls.
CallsInv ==
  /\ \A a, b \in 1..Len(calls) : calls[a] = calls[b] => a = b
  /\ \A i, j \in 1..Len(active) : i < j =>
       \A a, b \in 1..Len(calls) :
         calls[a] = Owning(i) /\ calls[b] = Owning(j) => a <= b

\* setjmp's context of a region being evaluated is the context it was entered in.
SavedContext(i) ==
  \E k \in 1..Len(calls) :
    /\ calls[k] = Owning(i)
    /\ env[active[i].h] # NULL
    /\ env[active[i].h].calls = SubSeq(calls, 1, k)
    /\ env[active[i].h].active = SubSeq(active, 1, i - 1)

\* The nesting depth of each handle expression in the program's text.
Depth == CHOOSE d \in [Handlers -> 1..Cardinality(Handlers)] :
           \A h \in Handlers : text[h] # Nowhere => d[text[h].h] < d[h]

ControlInv ==
  /\ \A i, j \in 1..Len(active) :
       i < j /\ Owning(i) = Owning(j) => Depth[active[i].h] < Depth[active[j].h]
  /\ CallsInv
  /\ \A i \in 1..Len(active) : SavedContext(i)

\* build_perform's cursor is on the chain, past handlers of other effects only.
WalkInv ==
  /\ NearestFirst(walk.eff)
  /\ \E k \in 0..Len(active) :
       /\ walk.h = HandlerAt(k)
       /\ \A j \in (k+1)..Len(active) : EffectOf[active[j].h] # walk.eff

MirrorInv ==
  /\ TypeInv
  /\ NoDanglingHandler
  /\ pc \in {"run", "walk"} => ControlInv /\ StackMirrorsActive
  /\ pc = "walk" => WalkInv
  /\ HandledNeverAborts

LEMMA DepthFact ==
  ASSUME text \in Texts
  PROVE  /\ Depth \in [Handlers -> Int]
         /\ \A h \in Handlers : text[h] # Nowhere => Depth[text[h].h] < Depth[h]
<1>1. Cardinality(Handlers) \in Nat
  BY ProgramAssumption, FS_CardinalityType
<1>2. PICK d \in [Handlers -> 1..Cardinality(Handlers)] :
        \A h \in Handlers : text[h] # Nowhere => d[text[h].h] < d[h]
  BY DEF Texts
<1>3. /\ Depth \in [Handlers -> 1..Cardinality(Handlers)]
      /\ \A h \in Handlers : text[h] # Nowhere => Depth[text[h].h] < Depth[h]
  BY <1>2, Zenon DEF Depth
<1> QED
  BY <1>1, <1>3

LEMMA ActiveType ==
  ASSUME TypeInv
  PROVE  /\ Len(active) \in Nat /\ Len(calls) \in Nat
         /\ \A i \in 1..Len(active) : /\ active[i] \in Region
                                       /\ active[i].h \in Handlers
                                       /\ Owning(i) \in Frames
<1>1. active \in Seq(Region) /\ calls \in Seq(Frames)
  BY DEF TypeInv, TypeOK
<1>2. Len(active) \in Nat /\ Len(calls) \in Nat
  BY <1>1
<1>3. \A i \in 1..Len(active) : active[i] \in Region
  BY <1>1
<1>4. \A i \in 1..Len(active) : active[i].h \in Handlers
  BY <1>3 DEF Region
<1> QED
  BY <1>2, <1>3, <1>4, ProgramAssumption DEF Owning

\* No handle expression is being evaluated twice.
LEMMA Distinct ==
  ASSUME TypeInv, ControlInv, NEW i \in 1..Len(active), NEW j \in 1..Len(active),
         i # j
  PROVE  active[i].h # active[j].h
<1>1. Len(active) \in Nat
  BY ActiveType
<1>2. \A a, b \in 1..Len(active) : a < b => active[a].h # active[b].h
  <2> SUFFICES ASSUME NEW a \in 1..Len(active), NEW b \in 1..Len(active), a < b,
                      active[a].h = active[b].h
               PROVE  FALSE
    OBVIOUS
  <2>1. Depth[active[a].h] < Depth[active[b].h]
    BY DEF ControlInv, Owning
  <2>2. active[a].h \in Handlers
    BY ActiveType
  <2>3. Depth[active[a].h] \in Int
    BY <2>2, DepthFact DEF TypeInv, TypeOK
  <2> QED
    BY <2>1, <2>3
<1> QED
  BY <1>1, <1>2

\* The executing function owns a region being evaluated only if it owns the
\* innermost one.
LEMMA OwnsInnermost ==
  ASSUME TypeInv, ControlInv, NEW i \in 1..Len(active), Owning(i) = calls[Len(calls)]
  PROVE  Owning(Len(active)) = calls[Len(calls)]
<1>1. /\ Len(active) \in Nat /\ Len(calls) \in Nat
      /\ Len(active) \in 1..Len(active)
  BY DEF TypeInv, TypeOK
<1>2. PICK k \in 1..Len(calls) : calls[k] = Owning(Len(active))
  BY <1>1 DEF ControlInv, SavedContext
<1>3. Len(calls) <= k
  BY <1>1, <1>2 DEF ControlInv, CallsInv
<1> QED
  BY <1>1, <1>2, <1>3

LEMMA DepthFixed == UNCHANGED text => Depth' = Depth
  BY DEF Depth

LEMMA MirrorInit == Init => MirrorInv
<1> SUFFICES ASSUME Init PROVE MirrorInv
  OBVIOUS
<1>1. active = <<>> /\ Len(active) = 0 /\ calls = <<Main>> /\ Len(calls) = 1
  BY DEF Init
<1>2. ControlInv
  BY <1>1 DEF ControlInv, CallsInv
<1>3. StackMirrorsActive
  BY <1>1 DEF Init, StackMirrorsActive, HandlerAt
<1> QED
  BY <1>2, <1>3, TypeInit DEF Init, MirrorInv, NoDanglingHandler, HandledNeverAborts

LEMMA MirrorCall ==
  ASSUME MirrorInv, NEW f \in Frames, Call(f)
  PROVE  ControlInv' /\ StackMirrorsActive'
<1>0. TypeInv /\ ControlInv /\ StackMirrorsActive /\ pc = "run"
  BY DEF MirrorInv, Call
<1>1. /\ calls' = Append(calls, f) /\ ~Running(f, calls)
      /\ UNCHANGED <<text, active, top, parent, env>>
  BY DEF Call
<1>2. /\ calls \in Seq(Frames) /\ Len(calls) \in Nat
      /\ Len(calls') = Len(calls) + 1
      /\ \A a \in 1..Len(calls) : calls'[a] = calls[a]
      /\ calls'[Len(calls) + 1] = f
  BY <1>0, <1>1 DEF TypeInv, TypeOK
<1>3. \A a \in 1..Len(calls) : calls[a] # f
  BY <1>1 DEF Running
<1>4. ASSUME NEW i \in 1..Len(active), NEW k \in 1..Len(calls), calls[k] = Owning(i)
      PROVE  SubSeq(calls', 1, k) = SubSeq(calls, 1, k)
  BY <1>1, <1>2
<1>5. ASSUME NEW i \in 1..Len(active) PROVE SavedContext(i)'
  <2>1. PICK k \in 1..Len(calls) :
          /\ calls[k] = Owning(i) /\ env[active[i].h] # NULL
          /\ env[active[i].h].calls = SubSeq(calls, 1, k)
          /\ env[active[i].h].active = SubSeq(active, 1, i - 1)
    BY <1>0 DEF ControlInv, SavedContext
  <2>2. k \in 1..Len(calls') /\ calls'[k] = calls[k] /\ Owning(i)' = Owning(i)
    BY <1>1, <1>2 DEF Owning
  <2>3. SubSeq(calls', 1, k) = SubSeq(calls, 1, k)
    BY <1>4, <2>1
  <2> QED
    BY <1>1, <2>1, <2>2, <2>3 DEF SavedContext
<1>6. \A i \in 1..Len(active) : Owning(i) # f
  BY <1>0, <1>3 DEF ControlInv, SavedContext
<1>7. CallsInv'
  <2>1. \A a, b \in 1..Len(calls') : calls'[a] = calls'[b] => a = b
    BY <1>0, <1>2, <1>3 DEF ControlInv, CallsInv
  <2>2. \A i \in 1..Len(active) : \A a \in 1..Len(calls') :
          calls'[a] = Owning(i) => a \in 1..Len(calls) /\ calls[a] = Owning(i)
    BY <1>2, <1>6
  <2>3. Len(active') = Len(active) /\ \A i \in 1..Len(active) : Owning(i)' = Owning(i)
    BY <1>1 DEF Owning
  <2>4. ASSUME NEW i \in 1..Len(active), NEW j \in 1..Len(active), i < j,
               NEW a \in 1..Len(calls'), NEW b \in 1..Len(calls'),
               calls'[a] = Owning(i), calls'[b] = Owning(j)
        PROVE  a <= b
    <3>1. a \in 1..Len(calls) /\ calls[a] = Owning(i)
      BY <2>2, <2>4
    <3>2. b \in 1..Len(calls) /\ calls[b] = Owning(j)
      BY <2>2, <2>4
    <3> QED
      BY <1>0, <2>4, <3>1, <3>2 DEF ControlInv, CallsInv
  <2> QED
    BY <2>1, <2>3, <2>4 DEF CallsInv
<1>8. ControlInv'
  BY <1>0, <1>1, <1>5, <1>7, DepthFixed DEF ControlInv, Owning
<1> QED
  BY <1>0, <1>1, <1>8 DEF StackMirrorsActive, HandlerAt, Call

LEMMA MirrorReturn ==
  ASSUME MirrorInv, Disciplined, Return, pc' = "run"
  PROVE  ControlInv' /\ StackMirrorsActive'
<1>0. TypeInv /\ ControlInv /\ StackMirrorsActive /\ pc = "run"
  BY DEF MirrorInv, Return
<1> DEFINE m == Len(calls) - 1
<1>1. /\ calls \in Seq(Frames) /\ active \in Seq(Region)
      /\ Len(active) \in Nat /\ Len(calls) \in Nat
  BY <1>0, ActiveType DEF TypeInv, TypeOK
<1>2. /\ Len(active) > 0 => Owning(Len(active)) # calls[Len(calls)]
      /\ active' = active
  <2>1. PICK n \in 0..Len(active) :
          /\ active' = SubSeq(active, 1, n)
          /\ n > 0 => Owner[active[n].h] # calls[Len(calls)]
          /\ n < Len(active) => EarlyExits
    BY DEF Return, Leaving
  <2>2. n = Len(active)
    BY <1>1, <2>1 DEF Disciplined
  <2> QED
    BY <1>1, <2>1, <2>2 DEF Owning
<1>3. /\ calls' = SubSeq(calls, 1, m)
      /\ UNCHANGED <<text, top, parent>>
      /\ env' = Alive(calls')
  BY DEF Return
<1>4. /\ m \in Nat /\ Len(calls') = m
      /\ \A a \in 1..m : a \in 1..Len(calls) /\ calls'[a] = calls[a]
  <2>1. calls # <<>>
    BY <1>0 DEF TypeInv
  <2>2. m \in 0..Len(calls)
    BY <1>1, <2>1
  <2>3. /\ Len(SubSeq(calls, 1, m)) = m
        /\ \A a \in 1..m : SubSeq(calls, 1, m)[a] = calls[a]
    BY <1>1, <2>2, SubSeqType
  <2> QED
    BY <1>1, <1>3, <2>2, <2>3
<1>5. \A i \in 1..Len(active) : Owning(i) # calls[Len(calls)]
  BY <1>0, <1>1, <1>2, OwnsInnermost
<1>6. ASSUME NEW i \in 1..Len(active) PROVE SavedContext(i)'
  <2>1. PICK k \in 1..Len(calls) :
          /\ calls[k] = Owning(i)
          /\ env[active[i].h] # NULL
          /\ env[active[i].h].calls = SubSeq(calls, 1, k)
          /\ env[active[i].h].active = SubSeq(active, 1, i - 1)
    BY <1>0 DEF ControlInv, SavedContext
  <2>2. k \in 1..m
    BY <1>1, <1>5, <2>1
  <2>3. env'[active[i].h] = env[active[i].h]
    BY <1>0, <1>3, <1>4, <2>1, <2>2, ActiveType DEF Alive, Running, Owning
  <2>4. SubSeq(calls', 1, k) = SubSeq(calls, 1, k)
    BY <1>1, <1>3, <1>4, <2>2
  <2> QED
    BY <1>2, <1>4, <2>1, <2>2, <2>3, <2>4 DEF SavedContext, Owning
<1>7. CallsInv'
  BY <1>0, <1>2, <1>4 DEF ControlInv, CallsInv, Owning
<1>8. ControlInv'
  BY <1>0, <1>2, <1>3, <1>6, <1>7, DepthFixed DEF ControlInv, Owning
<1> QED
  BY <1>0, <1>2, <1>3, <1>8 DEF StackMirrorsActive, HandlerAt

LEMMA MirrorEnter ==
  ASSUME MirrorInv, NEW h \in Handlers, EnterHandle(h)
  PROVE  ControlInv' /\ StackMirrorsActive'
<1>0. TypeInv /\ ControlInv /\ StackMirrorsActive /\ pc = "run"
  BY DEF MirrorInv, EnterHandle, PushHandler
<1> PICK n \in Nat : n = Len(active)
  BY <1>0, ActiveType
<1>1. /\ calls \in Seq(Frames) /\ active \in Seq(Region) /\ calls # <<>>
      /\ n = Len(active) /\ Len(calls) \in Nat
  BY <1>0, ActiveType DEF TypeInv, TypeOK
<1>2. /\ Owner[h] = calls[Len(calls)] /\ text[h] = Here
      /\ parent' = [parent EXCEPT ![h] = top] /\ top' = h
      /\ env' = [env EXCEPT ![h] = [calls |-> calls, active |-> active]]
      /\ active' = Append(active, [h |-> h, at |-> 0])
      /\ UNCHANGED <<text, calls, pc>>
  BY DEF EnterHandle, PushHandler
<1>3. /\ Len(active') = n + 1
      /\ \A i \in 1..n : active'[i] = active[i]
      /\ active'[n+1].h = h
  BY <1>1, <1>2
<1>4. /\ Depth \in [Handlers -> Int]
      /\ \A g \in Handlers : text[g] # Nowhere => Depth[text[g].h] < Depth[g]
  BY <1>0, DepthFact DEF TypeInv, TypeOK
\* Regions of the same function enclose h: it is deeper than each of them.
<1>5. \A i \in 1..n : Owning(i) = Owner[h] => Depth[active[i].h] < Depth[h]
  <2> SUFFICES ASSUME NEW i \in 1..n, Owning(i) = Owner[h]
               PROVE  Depth[active[i].h] < Depth[h]
    OBVIOUS
  <2>1. Owning(n) = calls[Len(calls)]
    BY <1>0, <1>2, OwnsInnermost
  <2>2. Here = active[n] /\ n \in 1..n
    BY <1>1, <2>1 DEF Here, Owning
  <2>3. active[n].h \in Handlers /\ active[i].h \in Handlers
    BY <1>0, <2>2, ActiveType
  <2>4. text[h] = active[n] /\ text[h] # Nowhere
    BY <1>2, <2>2, <2>3, ProgramAssumption DEF Nowhere
  <2>5. Depth[active[n].h] < Depth[h]
    BY <1>4, <2>4
  <2>6. i = n \/ Depth[active[i].h] < Depth[active[n].h]
    BY <1>0, <1>1, <1>2, <2>1, <2>2 DEF ControlInv, Owning
  <2>7. /\ Depth[active[i].h] \in Int /\ Depth[active[n].h] \in Int
        /\ Depth[h] \in Int
    BY <1>4, <2>3
  <2> QED
    BY <2>5, <2>6, <2>7
<1>6. \A i \in 1..n : active[i].h # h
  BY <1>0, <1>4, <1>5, ActiveType DEF Owning
<1>7. /\ env \in [Handlers -> Context \cup {NULL}]
      /\ parent \in [Handlers -> Handlers \cup {NULL}]
  BY <1>0 DEF TypeInv, TypeOK
<1>8. ASSUME NEW i \in 1..n PROVE SavedContext(i)'
  <2>1. PICK k \in 1..Len(calls) :
          /\ calls[k] = Owning(i)
          /\ env[active[i].h] # NULL
          /\ env[active[i].h].calls = SubSeq(calls, 1, k)
          /\ env[active[i].h].active = SubSeq(active, 1, i - 1)
    BY <1>0 DEF ControlInv, SavedContext
  <2>2. env'[active[i].h] = env[active[i].h]
    BY <1>0, <1>2, <1>6, <1>7, ActiveType
  <2>3. SubSeq(active', 1, i - 1) = SubSeq(active, 1, i - 1)
    BY <1>1, <1>2, <1>3
  <2> QED
    BY <1>2, <1>3, <2>1, <2>2, <2>3 DEF SavedContext, Owning
<1>9. SavedContext(n + 1)'
  <2>1. env'[h] = [calls |-> calls, active |-> active]
    BY <1>2, <1>7
  <2>2. env'[h] # NULL
    BY <1>1, <2>1, ProgramAssumption DEF Context
  <2>3. SubSeq(active', 1, n) = active /\ SubSeq(calls, 1, Len(calls)) = calls
    BY <1>1, <1>2
  <2> QED
    BY <1>1, <1>2, <1>3, <2>1, <2>2, <2>3 DEF SavedContext, Owning
<1>10. CallsInv'
  <2> SUFFICES ASSUME NEW i \in 1..n+1, NEW j \in 1..n+1, i < j,
                      NEW a \in 1..Len(calls), NEW b \in 1..Len(calls),
                      calls[a] = Owning(i)', calls[b] = Owning(j)'
               PROVE  a <= b
    BY <1>0, <1>2, <1>3 DEF ControlInv, CallsInv
  <2>1. CASE j = n + 1
    <3>1. calls[b] = calls[Len(calls)] /\ Len(calls) \in 1..Len(calls)
      BY <1>1, <1>2, <1>3, <2>1 DEF Owning
    <3>2. b = Len(calls)
      BY <1>0, <3>1 DEF ControlInv, CallsInv
    <3> QED
      BY <1>1, <3>2
  <2>2. CASE j # n + 1
    <3>1. i \in 1..n /\ j \in 1..n
      BY <2>2
    <3>2. calls[a] = Owning(i) /\ calls[b] = Owning(j)
      BY <1>3, <3>1 DEF Owning
    <3> QED
      BY <1>0, <1>1, <3>1, <3>2 DEF ControlInv, CallsInv
  <2> QED
    BY <2>1, <2>2
<1>11. ControlInv'
  <2>1. \A i \in 1..n+1 : SavedContext(i)'
    BY <1>1, <1>8, <1>9
  <2>2. \A i, j \in 1..n+1 : i < j /\ Owning(i)' = Owning(j)'
           => Depth[active'[i].h] < Depth[active'[j].h]
    BY <1>0, <1>1, <1>3, <1>5 DEF ControlInv, Owning
  <2> QED
    BY <1>2, <1>3, <1>10, <2>1, <2>2, DepthFixed DEF ControlInv
<1>12. StackMirrorsActive'
  <2>1. parent'[h] = top /\ \A i \in 1..n : parent'[active[i].h] = parent[active[i].h]
    BY <1>0, <1>2, <1>6, <1>7, ActiveType
  <2>2. \A i \in 1..n : HandlerAt(i)' = HandlerAt(i) /\ HandlerAt(i-1)' = HandlerAt(i-1)
    BY <1>1, <1>3 DEF HandlerAt
  <2>3. HandlerAt(n)' = top
    BY <1>0, <1>1, <1>3 DEF StackMirrorsActive, HandlerAt
  <2> QED
    BY <1>0, <1>1, <1>2, <1>3, <2>1, <2>2, <2>3 DEF StackMirrorsActive, HandlerAt
<1> QED
  BY <1>11, <1>12

LEMMA MirrorLeave ==
  ASSUME MirrorInv, LeaveHandle
  PROVE  pc' = "run" /\ ControlInv' /\ StackMirrorsActive'
<1>0. TypeInv /\ ControlInv /\ StackMirrorsActive /\ pc = "run" /\ active # <<>>
  BY DEF MirrorInv, LeaveHandle, PopHandler, Here
<1>a. active \in Seq(Region) /\ Len(active) \in Nat /\ Len(active) # 0
  BY <1>0, ActiveType DEF TypeInv, TypeOK
<1> PICK n \in Nat : n = Len(active) - 1
  BY <1>a
<1>1. active \in Seq(Region) /\ Len(active) = n + 1 /\ n \in 0..Len(active)
  BY <1>0, ActiveType DEF TypeInv, TypeOK
<1>2. top = active[n+1].h /\ parent[top] = HandlerAt(n)
  BY <1>0, <1>1 DEF StackMirrorsActive, HandlerAt
<1>3. top \in Handlers /\ env[top] # NULL
  BY <1>0, <1>1, <1>2, ActiveType DEF ControlInv, SavedContext
<1>4. /\ pc' = "run" /\ top' = HandlerAt(n)
      /\ UNCHANGED <<text, calls, parent, env>>
  BY <1>0, <1>2, <1>3, ProgramAssumption DEF LeaveHandle, PopHandler
<1>5. /\ active' = SubSeq(active, 1, n) /\ Len(active') = n
      /\ \A i \in 1..n : active'[i] = active[i]
  <2>1. /\ Len(SubSeq(active, 1, n)) = n
        /\ \A i \in 1..n : SubSeq(active, 1, n)[i] = active[i]
    BY <1>1, SubSeqType
  <2> QED
    BY <1>1, <2>1 DEF LeaveHandle, PopHandler
<1>6. ASSUME NEW i \in 1..n PROVE SavedContext(i)'
  <2>1. SubSeq(active', 1, i - 1) = SubSeq(active, 1, i - 1)
    BY <1>1, <1>5
  <2>2. PICK k \in 1..Len(calls) :
          /\ calls[k] = Owning(i)
          /\ env[active[i].h] # NULL
          /\ env[active[i].h].calls = SubSeq(calls, 1, k)
          /\ env[active[i].h].active = SubSeq(active, 1, i - 1)
    BY <1>0, <1>1 DEF ControlInv, SavedContext
  <2>3. calls' = calls /\ env' = env /\ active'[i] = active[i]
    BY <1>4, <1>5
  <2> QED
    BY <2>1, <2>2, <2>3 DEF SavedContext, Owning
<1>7. ControlInv'
  <2>1. \A i \in 1..n : Owning(i)' = Owning(i) /\ i \in 1..Len(active)
    BY <1>1, <1>5 DEF Owning
  <2>2. CallsInv'
    BY <1>0, <1>4, <1>5, <2>1 DEF ControlInv, CallsInv
  <2> QED
    BY <1>0, <1>4, <1>5, <1>6, <2>1, <2>2, DepthFixed DEF ControlInv
<1>8. StackMirrorsActive'
  BY <1>0, <1>1, <1>4, <1>5 DEF StackMirrorsActive, HandlerAt
<1> QED
  BY <1>4, <1>7, <1>8

\* The handler build_perform jumps to is the innermost one, entered from here.
LEMMA JumpsToInnermost ==
  ASSUME MirrorInv, Disciplined, Jump
  PROVE  /\ active # <<>>
         /\ walk.h = active[Len(active)].h
         /\ Dispatch(walk.h, walk.op) = 1
         /\ active' = Append(SubSeq(active, 1, Len(active) - 1), [h |-> walk.h, at |-> 1])
<1>0. TypeInv /\ ControlInv /\ WalkInv
  BY DEF MirrorInv, Jump, Matches
<1>1. Len(active) \in Nat
  BY <1>0, ActiveType
<1>2. PICK k \in 0..Len(active) :
        /\ walk.h = HandlerAt(k)
        /\ \A j \in (k+1)..Len(active) : EffectOf[active[j].h] # walk.eff
  BY <1>0 DEF WalkInv
<1>3. k # 0 /\ walk.h = active[k].h /\ EffectOf[active[k].h] = walk.eff
  BY <1>2 DEF Jump, Matches, HandlerAt
<1>4. EffectOf[active[Len(active)].h] = walk.eff
  BY <1>0, <1>1, <1>2, <1>3 DEF WalkInv, NearestFirst
<1>5. k = Len(active)
  BY <1>1, <1>2, <1>3, <1>4
<1>6. walk.h \in Handlers /\ Len(active) \in 1..Len(active)
  BY <1>0, <1>1, <1>3, <1>5, ActiveType
<1>7. Dispatch(walk.h, walk.op) = 1
  BY <1>6 DEF Dispatch, Disciplined
<1>8. env[walk.h].active = SubSeq(active, 1, Len(active) - 1)
  BY <1>0, <1>1, <1>3, <1>5, <1>6 DEF ControlInv, SavedContext
<1>9. active' = Append(env[walk.h].active, [h |-> walk.h, at |-> 1])
  BY <1>7 DEF Jump, Matches
<1> QED
  BY <1>1, <1>3, <1>5, <1>6, <1>7, <1>8, <1>9

LEMMA MirrorJump ==
  ASSUME MirrorInv, Disciplined, Jump
  PROVE  ControlInv' /\ StackMirrorsActive'
<1>0. TypeInv /\ ControlInv /\ StackMirrorsActive /\ pc = "walk"
  BY DEF MirrorInv, Jump, Matches
<1>a. active \in Seq(Region) /\ Len(active) \in Nat /\ Len(active) # 0
  BY <1>0, ActiveType, JumpsToInnermost DEF TypeInv, TypeOK
<1> PICK n \in Nat : n = Len(active) - 1
  BY <1>a
<1>1. /\ Len(active) = n + 1 /\ n \in 0..Len(active) /\ n + 1 \in 1..Len(active)
      /\ calls \in Seq(Frames) /\ Len(calls) \in Nat
  BY <1>0, <1>a, ActiveType DEF TypeInv, TypeOK
<1>2. /\ walk.h = active[n+1].h
      /\ active' = Append(SubSeq(active, 1, n), [h |-> walk.h, at |-> 1])
  BY <1>1, JumpsToInnermost
<1>3. /\ Len(SubSeq(active, 1, n)) = n /\ SubSeq(active, 1, n) \in Seq(Region)
      /\ \A i \in 1..n : SubSeq(active, 1, n)[i] = active[i]
  BY <1>1, <1>a, SubSeqType
<1>4. /\ Len(active') = n + 1
      /\ \A i \in 1..n : active'[i] = active[i]
      /\ \A i \in 1..n+1 : active'[i].h = active[i].h
  BY <1>2, <1>3
<1>5. PICK m \in 1..Len(calls) :
        /\ calls[m] = Owning(n+1)
        /\ env[walk.h].calls = SubSeq(calls, 1, m)
  BY <1>0, <1>1, <1>2 DEF ControlInv, SavedContext
<1>6. /\ calls' = SubSeq(calls, 1, m) /\ Len(calls') = m
      /\ \A a \in 1..m : a \in 1..Len(calls) /\ calls'[a] = calls[a]
  <2>1. /\ Len(SubSeq(calls, 1, m)) = m
        /\ \A a \in 1..m : SubSeq(calls, 1, m)[a] = calls[a]
    BY <1>1, <1>5, SubSeqType
  <2> QED
    BY <1>1, <1>5, <2>1 DEF Jump, Matches
<1>7. env' = Alive(calls') /\ UNCHANGED <<text, top, parent>>
  BY DEF Jump, Matches
<1>8. ASSUME NEW i \in 1..n+1 PROVE SavedContext(i)'
  <2>1. PICK k \in 1..Len(calls) :
          /\ calls[k] = Owning(i)
          /\ env[active[i].h] # NULL
          /\ env[active[i].h].calls = SubSeq(calls, 1, k)
          /\ env[active[i].h].active = SubSeq(active, 1, i - 1)
    BY <1>0, <1>1 DEF ControlInv, SavedContext
  <2>2. k \in 1..m
    <3>1. CASE i = n + 1
      BY <1>0, <1>5, <2>1, <3>1 DEF ControlInv, CallsInv
    <3>2. CASE i # n + 1
      BY <1>0, <1>1, <1>5, <2>1, <3>2 DEF ControlInv, CallsInv
    <3> QED
      BY <3>1, <3>2
  <2>3. env'[active[i].h] = env[active[i].h]
    BY <1>0, <1>1, <1>6, <1>7, <2>1, <2>2, ActiveType DEF Alive, Running, Owning
  <2>4. SubSeq(calls', 1, k) = SubSeq(calls, 1, k)
    BY <1>1, <1>6, <2>2
  <2>5. SubSeq(active', 1, i - 1) = SubSeq(active, 1, i - 1)
    BY <1>1, <1>a, <1>2, <1>3, <1>4
  <2>6. active'[i].h = active[i].h
    BY <1>4
  <2> QED
    BY <1>6, <2>1, <2>2, <2>3, <2>4, <2>5, <2>6 DEF SavedContext, Owning
<1>9. ControlInv'
  <2>1. \A i \in 1..n+1 : Owning(i)' = Owning(i) /\ i \in 1..Len(active)
    BY <1>1, <1>4 DEF Owning
  <2>2. CallsInv'
    BY <1>0, <1>4, <1>6, <2>1 DEF ControlInv, CallsInv
  <2> QED
    BY <1>0, <1>4, <1>7, <1>8, <2>1, <2>2, DepthFixed DEF ControlInv
<1>10. StackMirrorsActive'
  <2>1. \A i \in 0..n+1 : HandlerAt(i)' = HandlerAt(i)
    BY <1>4 DEF HandlerAt
  <2> QED
    BY <1>0, <1>1, <1>4, <1>7, <2>1 DEF StackMirrorsActive
<1> QED
  BY <1>9, <1>10

\* Steps that leave control, the stack and the contexts alone.
LEMMA MirrorFrame ==
  ASSUME UNCHANGED <<text, calls, active, top, parent, env>>,
         ControlInv, StackMirrorsActive, pc \in {"run", "walk"}
  PROVE  ControlInv' /\ StackMirrorsActive'
<1>1. ControlInv'
  BY DepthFixed DEF ControlInv, CallsInv, SavedContext, Owning
<1>2. StackMirrorsActive'
  BY DEF StackMirrorsActive, HandlerAt
<1> QED
  BY <1>1, <1>2

LEMMA MirrorWalkOn ==
  ASSUME MirrorInv, WalkOn
  PROVE  WalkInv'
<1>0. TypeInv /\ ControlInv /\ StackMirrorsActive /\ WalkInv
  BY DEF MirrorInv, WalkOn, Matches
<1>1. /\ walk' = [walk EXCEPT !.h = parent[walk.h]] /\ walk.h # NULL
      /\ EffectOf[walk.h] # walk.eff /\ walk \in CallArgs
      /\ UNCHANGED <<active, parent>>
  BY DEF WalkOn, Matches, MirrorInv, TypeInv
<1>2. walk'.h = parent[walk.h] /\ walk'.eff = walk.eff
  BY <1>1 DEF CallArgs
<1>3. PICK k \in 0..Len(active) :
        /\ walk.h = HandlerAt(k)
        /\ \A j \in (k+1)..Len(active) : EffectOf[active[j].h] # walk.eff
  BY <1>0 DEF WalkInv
<1>4. k \in 1..Len(active) /\ walk.h = active[k].h
  BY <1>0, <1>1, <1>3, ActiveType DEF HandlerAt
<1>5. parent[walk.h] = HandlerAt(k - 1) /\ k - 1 \in 0..Len(active)
  BY <1>0, <1>4, ActiveType DEF StackMirrorsActive, MirrorInv, WalkOn, Matches
<1>6. \A j \in ((k-1)+1)..Len(active) : EffectOf[active[j].h] # walk.eff
  BY <1>0, <1>1, <1>3, <1>4, ActiveType
<1> QED
  BY <1>0, <1>1, <1>2, <1>5, <1>6 DEF WalkInv, NearestFirst, HandlerAt

LEMMA MirrorStep == Disciplined /\ MirrorInv /\ [Next]_vars => MirrorInv'
<1> SUFFICES ASSUME Disciplined, MirrorInv, [Next]_vars PROVE MirrorInv'
  OBVIOUS
<1>0. TypeInv' /\ TypeInv
  BY TypeStep DEF MirrorInv
<1> USE DEF NoDanglingHandler, HandledNeverAborts
<1>1. ASSUME NEW f \in Frames, Call(f) PROVE MirrorInv'
  BY <1>0, <1>1, MirrorCall DEF Call, MirrorInv
<1>2. CASE Return
  BY <1>0, <1>2, MirrorReturn DEF Return, MirrorInv
<1>3. CASE Break
  BY <1>3 DEF Break, Disciplined
<1>4. ASSUME NEW h \in Handlers, EnterHandle(h) PROVE MirrorInv'
  BY <1>0, <1>4, MirrorEnter DEF EnterHandle, PushHandler, MirrorInv
<1>5. CASE LeaveHandle
  BY <1>0, <1>5, MirrorLeave DEF MirrorInv
<1>6. ASSUME NEW e \in Effects, NEW op \in OpsOf[e], Perform(e, op) PROVE MirrorInv'
  <2>1. ControlInv' /\ StackMirrorsActive'
    BY <1>6, MirrorFrame DEF Perform, MirrorInv
  <2>2. /\ NearestFirst(e) /\ pc' = "walk" /\ active' = active
        /\ walk' = [h |-> top, eff |-> e, op |-> op, from |-> calls[Len(calls)]]
    BY <1>6 DEF Perform, Disciplined
  <2>3. Len(active) \in Nat
    BY <1>0, ActiveType
  <2>4. top = HandlerAt(Len(active))
    BY <1>6 DEF Perform, MirrorInv, StackMirrorsActive
  <2>5. WalkInv'
    BY <2>2, <2>3, <2>4 DEF WalkInv, NearestFirst, HandlerAt
  <2> QED
    BY <1>0, <2>1, <2>2, <2>5 DEF MirrorInv
<1>7. CASE WalkOn
  <2>1. ControlInv' /\ StackMirrorsActive'
    BY <1>7, MirrorFrame DEF WalkOn, Matches, MirrorInv
  <2> QED
    BY <1>0, <1>7, <2>1, MirrorWalkOn DEF WalkOn, Matches, MirrorInv
<1>8. CASE Jump
  BY <1>0, <1>8, MirrorJump DEF Jump, Matches, MirrorInv
<1>9. CASE WalkDead
  <2>1. PICK k \in 0..Len(active) : walk.h = HandlerAt(k)
    BY <1>9 DEF WalkDead, MirrorInv, WalkInv
  <2>2. k \in 1..Len(active) /\ walk.h = active[k].h
    BY <1>0, <1>9, <2>1, ActiveType DEF WalkDead, HandlerAt
  <2> QED
    BY <1>9, <2>2 DEF WalkDead, MirrorInv, ControlInv, SavedContext
<1>10. CASE WalkEnd
  <2>1. PICK k \in 0..Len(active) :
          /\ walk.h = HandlerAt(k)
          /\ \A j \in (k+1)..Len(active) : EffectOf[active[j].h] # walk.eff
    BY <1>10 DEF WalkEnd, MirrorInv, WalkInv
  <2>2. k = 0
    BY <1>0, <1>10, <2>1, ActiveType, ProgramAssumption DEF WalkEnd, HandlerAt
  <2>3. \A j \in 1..Len(active) : EffectOf[active[j].h] # walk.eff
    BY <1>0, <2>1, <2>2, ActiveType
  <2> QED
    BY <1>0, <1>10, <2>3 DEF WalkEnd, MirrorInv
<1>11. CASE UNCHANGED vars
  <2>1. ASSUME pc \in {"run", "walk"} PROVE ControlInv' /\ StackMirrorsActive'
    BY <1>11, <2>1, MirrorFrame DEF vars, MirrorInv
  <2>2. WalkInv => WalkInv'
    BY <1>11 DEF vars, WalkInv, NearestFirst, HandlerAt
  <2> QED
    BY <1>0, <1>11, <2>1, <2>2 DEF vars, MirrorInv
<1> QED
  BY <1>1, <1>2, <1>3, <1>4, <1>5, <1>6, <1>7, <1>8, <1>9, <1>10, <1>11 DEF Next

LEMMA MirrorAlways == ASSUME Disciplined PROVE Spec => []MirrorInv
<1>1. MirrorInv /\ [Next]_vars => MirrorInv'
  BY MirrorStep
<1> QED
  BY <1>1, MirrorInit, PTL DEF Spec

\* For a disciplined program the runtime's linked handler stack is, at every
\* moment compiled code runs, the chain of handle expressions being evaluated.
THEOREM StackFollowsControl == ASSUME Disciplined PROVE Spec => []StackMirrorsActive
<1>1. MirrorInv => StackMirrorsActive
  BY DEF MirrorInv, StackMirrorsActive
<1> QED
  BY <1>1, MirrorAlways, PTL

\* A disciplined program never makes the runtime follow a pointer to a handler
\* struct whose function has ended.
THEOREM NoDangling == ASSUME Disciplined PROVE Spec => []NoDanglingHandler
<1>1. MirrorInv => NoDanglingHandler
  BY DEF MirrorInv
<1> QED
  BY <1>1, MirrorAlways, PTL

\* A disciplined program reports an unhandled effect only when no handle
\* expression being evaluated handles it.
THEOREM AbortsOnlyUnhandled == ASSUME Disciplined PROVE Spec => []HandledNeverAborts
<1>1. MirrorInv => HandledNeverAborts
  BY DEF MirrorInv
<1> QED
  BY <1>1, MirrorAlways, PTL

-----------------------------------------------------------------------------
(* Refinement: each step of the runtime is a step of NestedHandlers or none.  *)

LEMMA NestedInit == Init => Nested!Init
  BY DEF Init, Nested!Init, Outcome, Asked

LEMMA NestedStep ==
  ASSUME Disciplined, MirrorInv, [Next]_vars
  PROVE  [Nested!Next]_(Nested!nvars)
<1>0. TypeInv
  BY DEF MirrorInv
<1>a. active \in Seq(Region) /\ Len(active) \in Nat /\ Len(calls) \in Nat
  BY <1>0, ActiveType DEF TypeInv, TypeOK
<1>1. ASSUME NEW f \in Frames, Call(f) PROVE UNCHANGED Nested!nvars
  BY <1>1 DEF Call, Nested!nvars, Outcome, Asked
<1>2. CASE Return
  <2>1. active' = active
    <3>1. PICK n \in 0..Len(active) :
            active' = SubSeq(active, 1, n) /\ (n < Len(active) => EarlyExits)
      BY <1>2 DEF Return, Leaving
    <3>2. n = Len(active)
      BY <1>a, <3>1 DEF Disciplined
    <3> QED
      BY <1>a, <3>1, <3>2
  <2>2. CASE pc' = "run"
    BY <1>2, <2>1, <2>2 DEF Return, Nested!nvars, Outcome, Asked
  <2>3. CASE pc' = "exited"
    <3>1. Len(calls) = 1
      <4>1. /\ calls \in Seq(Frames) /\ calls # <<>>
            /\ calls' = SubSeq(calls, 1, Len(calls) - 1) /\ calls' = <<>>
        BY <1>2, <1>0, <2>3 DEF Return, TypeInv, TypeOK
      <4>2. Len(calls) - 1 \in 0..Len(calls)
        BY <1>a, <4>1
      <4>3. Len(SubSeq(calls, 1, Len(calls) - 1)) = Len(calls) - 1
        BY <4>1, <4>2, SubSeqType
      <4>4. Len(SubSeq(calls, 1, Len(calls) - 1)) = Len(<<>>)
        BY <4>1, Zenon
      <4>5. Len(<<>>) = 0
        OBVIOUS
      <4>6. Len(calls) - 1 = 0
        BY <4>3, <4>4, <4>5, Zenon
      <4> QED
        BY <1>a, <4>6
    <3>2. Len(active) > 0 => Owning(Len(active)) # calls[Len(calls)]
      <4>1. PICK n \in 0..Len(active) :
              (n > 0 => Owner[active[n].h] # calls[Len(calls)]) /\ (n < Len(active) => EarlyExits)
        BY <1>2 DEF Return, Leaving
      <4> QED
        BY <1>a, <4>1 DEF Disciplined, Owning
    <3>3. ControlInv
      BY <1>2 DEF Return, MirrorInv
    <3>4. Len(active) = 0
      BY <1>a, <3>1, <3>2, <3>3 DEF ControlInv, SavedContext
    <3> QED
      BY <1>2, <1>a, <2>1, <2>3, <3>4 DEF Return, Nested!Next, Nested!Exit, Nested!Executing, Outcome, Asked
  <2> QED
    BY <1>2, <2>2, <2>3 DEF Return
<1>3. CASE Break
  BY <1>3 DEF Break, Disciplined
<1>4. ASSUME NEW h \in Handlers, EnterHandle(h) PROVE Nested!Install(h)
  BY <1>4 DEF EnterHandle, PushHandler, Nested!Install, Nested!Executing, Outcome, Asked
<1>5. CASE LeaveHandle
  <2>1. /\ active # <<>> /\ pc = "run"
        /\ active' = SubSeq(active, 1, Len(active) - 1)
    BY <1>5 DEF LeaveHandle, PopHandler, Here
  <2>2. pc' = "run"
    BY <1>5, MirrorLeave
  <2>3. Nested!Complete
    BY <2>1, <2>2 DEF Nested!Complete, Nested!Executing, Outcome, Asked
  <2> QED
    BY <2>3 DEF Nested!Next
<1>6. ASSUME NEW e \in Effects, NEW op \in OpsOf[e], Perform(e, op)
      PROVE  Nested!Perform(e, op)
  BY <1>6 DEF Perform, Nested!Perform, Nested!Executing, Outcome, Asked
<1>7. CASE WalkOn
  BY <1>7 DEF WalkOn, Matches, Nested!nvars, Outcome, Asked
<1>8. CASE Jump
  <2> DEFINE n == Len(active)
  <2>1. /\ n \in 1..n /\ walk.h = active[n].h /\ walk.h \in Handlers
        /\ active' = Append(SubSeq(active, 1, n - 1), [h |-> walk.h, at |-> 1])
    BY <1>0, <1>8, <1>a, JumpsToInnermost, ActiveType
  <2>2. EffectOf[active[n].h] = walk.eff
    BY <1>8, <2>1 DEF Jump, Matches
  <2>3. walk.eff \in Effects /\ walk.op \in OpsOf[walk.eff]
    BY <1>0, <1>8 DEF Jump, Matches, TypeInv, CallArgs
  <2>4. 1 \in 1..Len(ClauseOps[active[n].h]) /\ ClauseOps[active[n].h][1] = walk.op
    <3>1. Len(ClauseOps[walk.h]) = 1
      BY <2>1 DEF Disciplined
    <3>2. walk.op \in {ClauseOps[walk.h][c] : c \in 1..Len(ClauseOps[walk.h])}
      BY <2>1, <2>2, <2>3, ProgramAssumption
    <3>3. PICK c \in 1..1 : walk.op = ClauseOps[walk.h][c]
      BY <3>1, <3>2
    <3> QED
      BY <2>1, <3>1, <3>3
  <2>5. Nested!Nearest(n, walk.eff)
    BY <1>a, <2>1, <2>2 DEF Nested!Nearest
  <2>6. Nested!Answer(walk.eff, walk.op)
    BY <1>8, <2>1, <2>4, <2>5 DEF Jump, Matches, Nested!Answer, Outcome, Asked
  <2> QED
    BY <2>3, <2>6 DEF Nested!Next
<1>9. CASE WalkDead
  BY <1>9, MirrorStep DEF WalkDead, MirrorInv, NoDanglingHandler
<1>10. CASE WalkEnd
  <2>1. walk.eff \in Effects /\ walk.op \in OpsOf[walk.eff]
    BY <1>10 DEF WalkEnd, MirrorInv, TypeInv, CallArgs
  <2>2. \A i \in 1..Len(active) : EffectOf[active[i].h] # walk.eff
    BY <1>10, MirrorStep DEF WalkEnd, MirrorInv, HandledNeverAborts
  <2>3. Nested!Abort(walk.eff, walk.op)
    BY <1>10, <2>2 DEF WalkEnd, Nested!Abort, Outcome, Asked
  <2> QED
    BY <2>1, <2>3 DEF Nested!Next
<1>11. CASE UNCHANGED vars
  BY <1>11 DEF vars, Nested!nvars, Outcome, Asked
<1> QED
  BY <1>1, <1>2, <1>3, <1>4, <1>5, <1>6, <1>7, <1>8, <1>9, <1>10, <1>11
     DEF Next, Nested!Next

\* For disciplined programs the linked stack with setjmp and longjmp implements
\* nested handlers: the nearest enclosing handler answers each perform, what lies
\* in between is discarded, and only an unhandled effect aborts.
THEOREM Refinement == ASSUME Disciplined PROVE Spec => ImplementsNestedHandlers
<1>1. MirrorInv /\ [Next]_vars => [Nested!Next]_(Nested!nvars)
  BY NestedStep
<1> QED
  BY <1>1, NestedInit, MirrorAlways, PTL DEF Spec, ImplementsNestedHandlers, Nested!Spec

-----------------------------------------------------------------------------
(* Programs that evaluate no handle expression twice, whatever their early    *)
(* exits and performs past nearer handlers leave on the stack.                *)

Below(B, h) == IF h = NULL THEN {} ELSE B[h]

\* B[h] holds the structs linked from h on, h among them: parent pointers are
\* written once and lead to structs pushed before, so the links have no cycle.
Linked(B) ==
  \A h \in entered :
    /\ parent[h] \in entered \cup {NULL}
    /\ B[h] \subseteq entered
    /\ B[h] = {h} \cup Below(B, parent[h])
    /\ h \notin Below(B, parent[h])
    /\ \A g \in B[h] : B[g] \subseteq B[h]

\* The regions of s are linked from h, the inner ones before the outer ones.
Nests(B, s, h) ==
  /\ \A i \in 1..Len(s) : s[i].h \in Below(B, h)
  /\ \A i, j \in 1..Len(s) : i < j => s[i].h \in Below(B, parent[s[j].h])

\* build_perform's cursor is on the stack, and what it looks for is not behind it.
Ahead(B) ==
  /\ walk.h \in Below(B, top) \cup {NULL}
  /\ \A i \in 1..Len(active) :
       EffectOf[active[i].h] = walk.eff => active[i].h \in Below(B, walk.h)

\* What setjmp saved lay on the stack when h was pushed, so it lies below h.
SavedNest(B) ==
  \A h \in Handlers : env[h] # NULL => h \in entered /\ Nests(B, env[h].active, parent[h])

StackInv(B) ==
  /\ Linked(B)
  /\ top \in entered \cup {NULL}
  /\ SavedNest(B)
  /\ pc \in {"run", "walk"} => Nests(B, active, top)
  /\ pc = "walk" => Ahead(B)

OnceInv ==
  /\ TypeInv
  /\ HandledNeverAborts
  /\ \E B \in [Handlers -> SUBSET Handlers] : StackInv(B)

-----------------------------------------------------------------------------
(* The links are kept by every step.                                         *)

LEMMA BelowType ==
  ASSUME TypeInv, NEW B \in [Handlers -> SUBSET Handlers], Linked(B),
         NEW h \in entered \cup {NULL}
  PROVE  Below(B, h) \subseteq entered
  BY DEF Below, Linked

\* Whatever h leads to leads on to no more than h does.
LEMMA BelowTransitive ==
  ASSUME TypeInv, NEW B \in [Handlers -> SUBSET Handlers], Linked(B),
         NEW h \in entered \cup {NULL}, NEW g \in Below(B, h)
  PROVE  /\ g \in entered /\ g # NULL
         /\ Below(B, g) \subseteq Below(B, h)
         /\ Below(B, parent[g]) \subseteq Below(B, g)
<1>1. g \in entered /\ h # NULL
  BY BelowType DEF Below
<1>2. g # NULL /\ h \in entered /\ h # NULL
  BY <1>1, ProgramAssumption DEF TypeInv, TypeOK
<1>3. B[g] = {g} \cup Below(B, parent[g])
  BY <1>1 DEF Linked
<1>4. B[g] \subseteq B[h]
  BY <1>2 DEF Linked, Below
<1> QED
  BY <1>1, <1>2, <1>3, <1>4 DEF Below

\* Below the parent of g lies what lies below g, but for g.
LEMMA BelowParent ==
  ASSUME TypeInv, NEW B \in [Handlers -> SUBSET Handlers], Linked(B), NEW g \in entered
  PROVE  /\ g # NULL
         /\ parent[g] \in entered \cup {NULL}
         /\ Below(B, g) = {g} \cup Below(B, parent[g])
         /\ g \notin Below(B, parent[g])
  BY ProgramAssumption DEF Linked, Below, TypeInv, TypeOK

\* A shorter nest, and the nest of a struct further up, are nests.
LEMMA NestsShorter ==
  ASSUME NEW B, NEW s \in Seq(Region), NEW h, NEW n \in 0..Len(s), Nests(B, s, h)
  PROVE  Nests(B, SubSeq(s, 1, n), h)
<1>1. /\ Len(SubSeq(s, 1, n)) = n
      /\ \A i \in 1..n : SubSeq(s, 1, n)[i] = s[i] /\ i \in 1..Len(s)
  BY SubSeqType
<1> QED
  BY <1>1 DEF Nests

LEMMA OnceInit == Init => OnceInv
<1> SUFFICES ASSUME Init PROVE OnceInv
  OBVIOUS
<1>1. Len(active) = 0 /\ env = [h \in Handlers |-> NULL]
  BY DEF Init
<1>2. [h \in Handlers |-> {}] \in [Handlers -> SUBSET Handlers]
  OBVIOUS
<1>3. StackInv([h \in Handlers |-> {}])
  BY <1>1 DEF Init, StackInv, Linked, SavedNest, Nests, Ahead
<1>4. HandledNeverAborts
  BY DEF Init, HandledNeverAborts
<1> QED
  BY <1>2, <1>3, <1>4, TypeInit DEF OnceInv

\* Steps that push nothing: the links stay, and contexts are at most forgotten.
LEMMA LinksStay ==
  ASSUME UNCHANGED <<parent, entered>>, NEW B, Linked(B)
  PROVE  Linked(B)'
  BY DEF Linked, Below

LEMMA SavedStay ==
  ASSUME UNCHANGED <<parent, entered>>, NEW B, SavedNest(B),
         \A h \in Handlers : env'[h] # NULL => env'[h] = env[h]
  PROVE  SavedNest(B)'
<1>1. parent' = parent /\ entered' = entered
  OBVIOUS
<1>2. ASSUME NEW h \in Handlers, env'[h] # NULL
      PROVE  /\ h \in entered'
             /\ \A i \in 1..Len(env'[h].active) : env'[h].active[i].h \in Below(B, parent'[h])
             /\ \A i, j \in 1..Len(env'[h].active) :
                  i < j => env'[h].active[i].h \in Below(B, parent'[env'[h].active[j].h])
  <2>1. PICK s : s = env[h].active /\ s = env'[h].active
    BY <1>2
  <2>2. h \in entered /\ Nests(B, s, parent[h])
    BY <1>2, <2>1 DEF SavedNest
  <2> QED
    BY <1>1, <2>1, <2>2 DEF Nests
<1> QED
  BY <1>2 DEF SavedNest, Nests, Below

LEMMA NestsStay ==
  ASSUME UNCHANGED parent, NEW B, NEW s, NEW h, Nests(B, s, h)
  PROVE  /\ \A i \in 1..Len(s) : s[i].h \in Below(B, h)
         /\ \A i, j \in 1..Len(s) : i < j => s[i].h \in Below(B, parent'[s[j].h])
  BY DEF Nests, Below

LEMMA OnceEnter ==
  ASSUME TypeInv, ~Reenter, NEW h \in Handlers, EnterHandle(h),
         NEW B \in [Handlers -> SUBSET Handlers], StackInv(B)
  PROVE  \E C \in [Handlers -> SUBSET Handlers] : StackInv(C)'
<1>1. /\ h \notin entered /\ pc = "run" /\ pc' = "run"
      /\ parent' = [parent EXCEPT ![h] = top] /\ top' = h
      /\ active' = Append(active, [h |-> h, at |-> 0])
      /\ env' = [env EXCEPT ![h] = [calls |-> calls, active |-> active]]
      /\ entered' = entered \cup {h}
  BY DEF EnterHandle, PushHandler
<1>2. /\ entered \subseteq Handlers /\ active \in Seq(Region)
      /\ parent \in [Handlers -> Handlers \cup {NULL}]
      /\ env \in [Handlers -> Context \cup {NULL}]
      /\ NULL \notin Handlers
  BY ProgramAssumption DEF TypeInv, TypeOK
<1>3. Linked(B) /\ top \in entered \cup {NULL} /\ Below(B, top) \subseteq entered
  BY BelowType DEF StackInv
<1>4. PICK C \in [Handlers -> SUBSET Handlers] : C = [B EXCEPT ![h] = {h} \cup Below(B, top)]
  BY <1>2, <1>3
<1>5. /\ \A g \in Handlers \ {h} : C[g] = B[g] /\ parent'[g] = parent[g]
      /\ C[h] = {h} \cup Below(B, top) /\ parent'[h] = top
  BY <1>1, <1>2, <1>4
<1>6. \A g \in entered \cup {NULL} : g # h /\ Below(C, g) = Below(B, g)
  BY <1>1, <1>2, <1>5 DEF Below
<1>7. \A g \in entered : parent'[g] = parent[g] /\ parent[g] \in entered \cup {NULL}
  BY <1>1, <1>2, <1>3, <1>5 DEF Linked
<1>8. Linked(C)'
  <2>1. ASSUME NEW g \in entered
        PROVE  /\ parent'[g] \in entered' \cup {NULL}
               /\ C[g] \subseteq entered'
               /\ C[g] = {g} \cup Below(C, parent'[g])
               /\ g \notin Below(C, parent'[g])
               /\ \A f \in C[g] : C[f] \subseteq C[g]
    <3>1. C[g] = B[g] /\ B[g] \subseteq entered
      BY <1>1, <1>2, <1>3, <1>5 DEF Linked
    <3>2. Below(C, parent'[g]) = Below(B, parent[g])
      BY <1>6, <1>7
    <3>3. \A f \in C[g] : C[f] = B[f]
      BY <1>1, <1>2, <1>5, <3>1
    <3> QED
      BY <1>1, <1>3, <1>7, <3>1, <3>2, <3>3 DEF Linked
  <2>2. /\ parent'[h] \in entered' \cup {NULL}
        /\ C[h] \subseteq entered'
        /\ C[h] = {h} \cup Below(C, parent'[h])
        /\ h \notin Below(C, parent'[h])
    BY <1>1, <1>3, <1>5, <1>6
  <2>3. \A f \in C[h] : C[f] \subseteq C[h]
    <3> SUFFICES ASSUME NEW f \in Below(B, top) PROVE C[f] \subseteq C[h]
      BY <1>5
    <3>1. f \in entered /\ f # NULL /\ Below(B, f) \subseteq Below(B, top)
      BY <1>3, BelowTransitive
    <3> QED
      BY <1>1, <1>2, <1>5, <3>1 DEF Below
  <2> QED
    BY <1>1, <2>1, <2>2, <2>3 DEF Linked
<1>9. ASSUME NEW s, NEW g \in entered \cup {NULL}, Nests(B, s, g)
      PROVE  /\ \A i \in 1..Len(s) : s[i].h \in Below(C, g)
             /\ \A i, j \in 1..Len(s) : i < j => s[i].h \in Below(C, parent'[s[j].h])
  <2>1. \A i \in 1..Len(s) : s[i].h \in Below(B, g) /\ s[i].h \in entered
    BY <1>3, <1>9, BelowType DEF Nests
  <2>2. \A i, j \in 1..Len(s) : i < j => s[i].h \in Below(B, parent[s[j].h])
    BY <1>9 DEF Nests
  <2> QED
    BY <1>6, <1>7, <2>1, <2>2
<1>10. Nests(B, active, top)
  BY <1>1 DEF StackInv
<1>11. SavedNest(C)'
  <2> SUFFICES ASSUME NEW g \in Handlers, env'[g] # NULL
               PROVE  g \in entered' /\ Nests(C, env[g].active, parent[g])'
    BY DEF SavedNest
  <2>1. CASE g = h
    <3>1. env'[g].active = active /\ parent'[g] = top /\ g \in entered'
      BY <1>1, <1>2, <2>1
    <3> QED
      BY <1>3, <1>9, <1>10, <3>1 DEF Nests
  <2>2. CASE g # h
    <3>1. env'[g] = env[g] /\ g \in entered /\ Nests(B, env[g].active, parent[g])
      BY <1>1, <1>2, <2>2 DEF StackInv, SavedNest
    <3>2. parent[g] \in entered \cup {NULL} /\ parent'[g] = parent[g] /\ g \in entered'
      BY <1>1, <1>7, <3>1
    <3> QED
      BY <1>9, <3>1, <3>2 DEF Nests
  <2> QED
    BY <2>1, <2>2
<1>12. Nests(C, active, top)'
  <2>1. /\ Len(active') = Len(active) + 1 /\ Len(active) \in Nat
        /\ \A i \in 1..Len(active) : active'[i] = active[i]
        /\ active'[Len(active) + 1].h = h
    BY <1>1, <1>2
  <2>2. /\ \A i \in 1..Len(active) : active[i].h \in Below(C, top)
        /\ \A i, j \in 1..Len(active) : i < j => active[i].h \in Below(C, parent'[active[j].h])
    BY <1>3, <1>9, <1>10
  <2>3. Below(C, top') = {h} \cup Below(C, top) /\ parent'[h] = top
    BY <1>1, <1>2, <1>3, <1>5, <1>6 DEF Below
  <2>4. \A i \in 1..Len(active') : i \in 1..Len(active) \/ i = Len(active) + 1
    BY <2>1
  <2>5. \A i \in 1..Len(active') : active'[i].h \in Below(C, top')
    BY <2>1, <2>2, <2>3, <2>4
  <2>6. ASSUME NEW i \in 1..Len(active'), NEW j \in 1..Len(active'), i < j
        PROVE  active'[i].h \in Below(C, parent'[active'[j].h])
    <3>1. i \in 1..Len(active)
      BY <2>1, <2>6
    <3> QED
      BY <2>1, <2>2, <2>3, <2>4, <2>6, <3>1
  <2> QED
    BY <2>5, <2>6 DEF Nests
<1>13. top' \in entered' \cup {NULL}
  BY <1>1
<1>14. StackInv(C)'
  BY <1>1, <1>8, <1>11, <1>12, <1>13 DEF StackInv
<1> QED
  BY <1>4, <1>14

\* Leaving a region pops the top, which is its handler's struct or one above it.
LEMMA OnceLeave ==
  ASSUME TypeInv, LeaveHandle, NEW B \in [Handlers -> SUBSET Handlers], StackInv(B)
  PROVE  StackInv(B)'
<1>1. /\ pc = "run" /\ UNCHANGED <<parent, env, walk, entered>>
      /\ active' = SubSeq(active, 1, Len(active) - 1) /\ active # <<>>
      /\ \/ pc' = "undefined" /\ top' = top
         \/ pc' = "run" /\ top' = IF top = NULL THEN NULL ELSE parent[top]
  BY DEF LeaveHandle, PopHandler, Here
<1>2. /\ active \in Seq(Region) /\ Len(active) \in Nat /\ Len(active) \in 1..Len(active)
      /\ Len(active) - 1 \in 0..Len(active)
  BY <1>1 DEF TypeInv, TypeOK
<1>3. /\ Linked(B) /\ SavedNest(B) /\ top \in entered \cup {NULL}
      /\ Nests(B, active, top)
  BY <1>1 DEF StackInv
<1>4. Linked(B)' /\ SavedNest(B)'
  BY <1>1, <1>3, LinksStay, SavedStay
<1>5. top \in entered /\ top # NULL
  BY <1>2, <1>3 DEF Nests, Below
<1>6. /\ parent[top] \in entered \cup {NULL}
      /\ Below(B, top) = {top} \cup Below(B, parent[top])
  BY <1>3, <1>5, BelowParent
<1>7. top' \in entered' \cup {NULL}
  BY <1>1, <1>3, <1>6
<1>8. ASSUME pc' = "run" PROVE Nests(B, active, top)'
  <2>1. top' = parent[top]
    BY <1>1, <1>5, <1>8
  <2>2. /\ Len(active') = Len(active) - 1
        /\ \A i \in 1..Len(active') : active'[i] = active[i] /\ i \in 1..Len(active)
    <3> DEFINE n == Len(active) - 1
    <3>1. n \in 0..Len(active) /\ n <= Len(active) /\ active' = SubSeq(active, 1, n)
      BY <1>1, <1>2
    <3> HIDE DEF n
    <3>2. Len(active') = n /\ \A i \in 1..n : active'[i] = active[i]
      BY <1>2, <3>1, SubSeqType
    <3>3. \A i \in 1..n : i \in 1..Len(active)
      BY <1>2, <3>1
    <3> QED
      BY <3>2, <3>3 DEF n
  <2> DEFINE last == active[Len(active)].h
  <2>3. last \in Below(B, top) /\ last \in entered
    BY <1>2, <1>3, <1>5, BelowTransitive DEF Nests
  <2>4. Below(B, parent[last]) \subseteq Below(B, parent[top])
    <3>1. CASE last = top
      BY <3>1
    <3>2. CASE last # top
      <4>1. last \in Below(B, parent[top])
        BY <1>6, <2>3, <3>2
      <4> QED
        BY <1>3, <1>6, <4>1, BelowTransitive
    <3> QED
      BY <3>1, <3>2
  <2>5. \A i \in 1..Len(active') : active'[i].h \in Below(B, parent[last])
    BY <1>2, <1>3, <2>2 DEF Nests
  <2>6. \A i \in 1..Len(active') : active'[i].h \in Below(B, parent[top])
    BY <2>4, <2>5
  <2>7. \A i, j \in 1..Len(active') : i < j => active'[i].h \in Below(B, parent[active'[j].h])
    BY <1>3, <2>2 DEF Nests
  <2> QED
    BY <1>1, <2>1, <2>6, <2>7 DEF Nests
<1> QED
  BY <1>1, <1>4, <1>7, <1>8 DEF StackInv

\* longjmp goes back to a region whose struct is on the stack, and so are those the
\* saved context has under it: the stack only holds more than it did at setjmp.
LEMMA OnceJump ==
  ASSUME TypeInv, Jump, NEW B \in [Handlers -> SUBSET Handlers], StackInv(B)
  PROVE  StackInv(B)'
<1> DEFINE h == walk.h
           at == Dispatch(h, walk.op)
           saved == env[h].active
<1>1. /\ pc = "walk" /\ pc' = "run" /\ h # NULL /\ env[h] # NULL
      /\ UNCHANGED <<parent, entered, top>>
      /\ env' = Alive(calls')
      /\ active' = IF at = 0 THEN saved ELSE Append(saved, [h |-> h, at |-> at])
  BY DEF Jump
<1>2. Linked(B) /\ SavedNest(B) /\ top \in entered \cup {NULL} /\ h \in Below(B, top)
  BY <1>1 DEF StackInv, Ahead
<1>3. /\ h \in entered /\ Below(B, h) \subseteq Below(B, top)
      /\ Below(B, parent[h]) \subseteq Below(B, h)
  BY <1>2, BelowTransitive
<1>4. h \in Handlers /\ env[h] \in Context
  BY <1>1, <1>3 DEF TypeInv, TypeOK
<1>5. saved \in Seq(Region) /\ Nests(B, saved, parent[h])
  BY <1>1, <1>2, <1>4 DEF SavedNest, Context
<1>6. \A g \in Handlers : env'[g] # NULL => env'[g] = env[g]
  BY <1>1, AliveType
<1>7. Linked(B)' /\ SavedNest(B)'
  BY <1>1, <1>2, <1>6, LinksStay, SavedStay
<1> HIDE DEF h, at, saved
<1>8. \A i \in 1..Len(saved) : saved[i].h \in Below(B, parent[h])
  BY <1>5 DEF Nests
<1>9. \A i, j \in 1..Len(saved) : i < j => saved[i].h \in Below(B, parent[saved[j].h])
  BY <1>5 DEF Nests
<1>10. /\ \A i \in 1..Len(active') : active'[i].h \in Below(B, top)
       /\ \A i, j \in 1..Len(active') :
            i < j => active'[i].h \in Below(B, parent[active'[j].h])
  <2>1. CASE at = 0
    BY <1>1, <1>3, <1>8, <1>9, <2>1
  <2>2. CASE at # 0
    <3>1. /\ Len(saved) \in Nat /\ Len(active') = Len(saved) + 1
          /\ \A i \in 1..Len(saved) : active'[i] = saved[i]
          /\ active'[Len(saved) + 1].h = h
      BY <1>1, <1>5, <2>2
    <3>2. \A i \in 1..Len(active') : i \in 1..Len(saved) \/ i = Len(saved) + 1
      BY <3>1
    <3>3. \A i \in 1..Len(active') : active'[i].h \in Below(B, top)
      BY <1>2, <1>3, <1>8, <3>1, <3>2
    <3>4. ASSUME NEW i \in 1..Len(active'), NEW j \in 1..Len(active'), i < j
          PROVE  active'[i].h \in Below(B, parent[active'[j].h])
      <4>1. i \in 1..Len(saved)
        BY <3>1, <3>4
      <4> QED
        BY <1>8, <1>9, <3>1, <3>2, <3>4, <4>1
    <3> QED
      BY <3>3, <3>4
  <2> QED
    BY <2>1, <2>2
<1>11. Nests(B, active, top)'
  BY <1>1, <1>10 DEF Nests
<1> QED
  BY <1>1, <1>2, <1>7, <1>11 DEF StackInv

\* A handler that does not match is no loss to the walk.
LEMMA OnceWalkOn ==
  ASSUME TypeInv, WalkOn, NEW B \in [Handlers -> SUBSET Handlers], StackInv(B)
  PROVE  StackInv(B)'
<1>1. /\ pc = "walk" /\ pc' = "walk" /\ walk.h # NULL
      /\ UNCHANGED <<parent, entered, top, env, active>>
      /\ EffectOf[walk.h] # walk.eff
      /\ walk' = [walk EXCEPT !.h = parent[walk.h]]
  BY DEF WalkOn, Matches
<1>2. Linked(B) /\ SavedNest(B) /\ Nests(B, active, top) /\ Ahead(B) /\ top \in entered \cup {NULL}
  BY <1>1 DEF StackInv
<1>3. walk'.h = parent[walk.h] /\ walk'.eff = walk.eff
  BY <1>1 DEF TypeInv, CallArgs
<1>4. walk.h \in Below(B, top)
  BY <1>1, <1>2 DEF Ahead
<1>5. walk.h \in entered /\ Below(B, walk.h) \subseteq Below(B, top)
  BY <1>2, <1>4, BelowTransitive
<1>6. /\ Below(B, walk.h) = {walk.h} \cup Below(B, parent[walk.h])
      /\ parent[walk.h] \in entered \cup {NULL}
  BY <1>2, <1>5, BelowParent
<1>7. parent[walk.h] \in Below(B, top) \cup {NULL}
  <2>1. CASE parent[walk.h] = NULL
    BY <2>1
  <2>2. CASE parent[walk.h] # NULL
    <3>1. parent[walk.h] \in Below(B, parent[walk.h])
      BY <1>2, <1>6, <2>2, BelowParent
    <3> QED
      BY <1>5, <1>6, <3>1
  <2> QED
    BY <2>1, <2>2
<1>8. \A i \in 1..Len(active) :
        EffectOf[active[i].h] = walk.eff => active[i].h \in Below(B, parent[walk.h])
  BY <1>1, <1>2, <1>6 DEF Ahead
<1>9. Ahead(B)'
  BY <1>1, <1>3, <1>7, <1>8 DEF Ahead, Below
<1>10. Linked(B)' /\ SavedNest(B)' /\ Nests(B, active, top)'
  BY <1>1, <1>2, LinksStay, SavedStay DEF Nests, Below
<1> QED
  BY <1>1, <1>2, <1>9, <1>10 DEF StackInv

\* Leaving regions early pops nothing: the nest gets shorter, the stack does not.
LEMMA OnceShorter ==
  ASSUME TypeInv, NEW B \in [Handlers -> SUBSET Handlers], StackInv(B),
         pc = "run", UNCHANGED <<parent, entered, top>>, pc' # "walk",
         NEW n \in 0..Len(active), active' = SubSeq(active, 1, n),
         \A h \in Handlers : env'[h] # NULL => env'[h] = env[h]
  PROVE  StackInv(B)'
<1>1. Linked(B)' /\ SavedNest(B)'
  BY LinksStay, SavedStay DEF StackInv
<1>2. Nests(B, SubSeq(active, 1, n), top)
  BY NestsShorter DEF StackInv, TypeInv, TypeOK
<1>3. Nests(B, active, top)'
  BY <1>2 DEF Nests, Below
<1> QED
  BY <1>1, <1>3 DEF StackInv

LEMMA OnceStep == ~Reenter /\ OnceInv /\ [Next]_vars => OnceInv'
<1> SUFFICES ASSUME ~Reenter, OnceInv, [Next]_vars PROVE OnceInv'
  OBVIOUS
<1>1. TypeInv /\ TypeInv' /\ HandledNeverAborts
  BY TypeStep DEF OnceInv
<1>2. PICK B \in [Handlers -> SUBSET Handlers] : StackInv(B)
  BY DEF OnceInv
<1>3. /\ \E C \in [Handlers -> SUBSET Handlers] : StackInv(C)'
      /\ HandledNeverAborts'
  <2>1. ASSUME NEW f \in Frames, Call(f) PROVE StackInv(B)' /\ pc' = "run"
    <3>1. UNCHANGED <<parent, entered, top, env, active, pc>> /\ pc = "run"
      BY <2>1 DEF Call
    <3> QED
      BY <1>2, <3>1 DEF StackInv, Linked, SavedNest, Nests, Below
  <2>2. CASE Return
    <3>1. PICK n \in 0..Len(active) : active' = SubSeq(active, 1, n)
      BY <2>2 DEF Return, Leaving
    <3>2. \A h \in Handlers : env'[h] # NULL => env'[h] = env[h]
      BY <1>1, <2>2, AliveType DEF Return
    <3>3. StackInv(B)'
      BY <1>1, <1>2, <2>2, <3>1, <3>2, OnceShorter DEF Return
    <3> QED
      BY <2>2, <3>3 DEF Return, HandledNeverAborts
  <2>3. CASE Break
    <3>1. PICK n \in 0..Len(active) : active' = SubSeq(active, 1, n)
      BY <2>3 DEF Break, Leaving
    <3>2. StackInv(B)'
      BY <1>1, <1>2, <2>3, <3>1, OnceShorter DEF Break
    <3> QED
      BY <2>3, <3>2 DEF Break, HandledNeverAborts
  <2>4. ASSUME NEW h \in Handlers, EnterHandle(h)
        PROVE  /\ \E C \in [Handlers -> SUBSET Handlers] : StackInv(C)'
               /\ HandledNeverAborts'
    <3>1. pc' = "run"
      BY <2>4 DEF EnterHandle
    <3> QED
      BY <1>1, <1>2, <2>4, <3>1, OnceEnter DEF HandledNeverAborts
  <2>5. CASE LeaveHandle
    <3>1. pc' \in {"run", "undefined"}
      BY <2>5 DEF LeaveHandle, PopHandler
    <3> QED
      BY <1>1, <1>2, <2>5, <3>1, OnceLeave DEF HandledNeverAborts
  <2>6. ASSUME NEW e \in Effects, NEW op \in OpsOf[e], Perform(e, op)
        PROVE  StackInv(B)' /\ HandledNeverAborts'
    <3>1. /\ UNCHANGED <<parent, entered, top, env, active>>
          /\ pc = "run" /\ pc' = "walk" /\ walk'.h = top
      BY <2>6 DEF Perform
    <3>2. Nests(B, active, top) /\ top \in entered \cup {NULL}
      BY <1>2, <3>1 DEF StackInv
    <3>3. top \in Below(B, top) \cup {NULL}
      BY <1>1, <1>2, <3>2, BelowParent DEF StackInv
    <3>4. Ahead(B)'
      BY <3>1, <3>2, <3>3 DEF Ahead, Nests, Below
    <3> QED
      BY <1>2, <3>1, <3>4 DEF StackInv, Linked, SavedNest, Nests, Below, HandledNeverAborts
  <2>7. CASE WalkOn
    BY <1>1, <1>2, <2>7, OnceWalkOn DEF WalkOn, HandledNeverAborts
  <2>8. CASE Jump
    BY <1>1, <1>2, <2>8, OnceJump DEF Jump, HandledNeverAborts
  <2>9. CASE WalkDead
    <3>1. /\ UNCHANGED <<parent, entered, top, env, active, walk>>
          /\ pc' = "undefined"
      BY <2>9 DEF WalkDead
    <3> QED
      BY <1>2, <3>1 DEF StackInv, Linked, SavedNest, Nests, Below, HandledNeverAborts
  <2>10. CASE WalkEnd
    <3>1. /\ UNCHANGED <<parent, entered, top, env, active, walk>>
          /\ pc = "walk" /\ pc' = "aborted" /\ walk.h = NULL
      BY <2>10 DEF WalkEnd
    <3>2. \A i \in 1..Len(active) : EffectOf[active[i].h] # walk.eff
      BY <1>2, <3>1 DEF StackInv, Ahead, Below
    <3>3. HandledNeverAborts'
      BY <3>1, <3>2 DEF HandledNeverAborts
    <3>4. Linked(B)' /\ SavedNest(B)'
      BY <1>2, <3>1, LinksStay, SavedStay DEF StackInv
    <3>5. StackInv(B)'
      BY <1>2, <3>1, <3>4 DEF StackInv
    <3> QED
      BY <3>3, <3>5
  <2>11. CASE UNCHANGED vars
    BY <1>1, <1>2, <2>11 DEF vars, StackInv, Linked, SavedNest, Nests, Ahead, Below,
       HandledNeverAborts
  <2>12. \A f \in Frames : ~Call(f) \/ HandledNeverAborts'
    BY <2>1 DEF HandledNeverAborts
  <2> QED
    BY <2>1, <2>2, <2>3, <2>4, <2>5, <2>6, <2>7, <2>8, <2>9, <2>10, <2>11, <2>12 DEF Next
<1> QED
  BY <1>1, <1>3 DEF OnceInv

\* However an abort comes about, nothing being evaluated handles the effect, if no
\* handle expression is evaluated twice: a perform walks the stack from its top, and
\* what early exits leave there only comes before what it looks for.
THEOREM AbortsOnlyUnhandledOnce ==
  ASSUME ~Reenter
  PROVE  Spec => []HandledNeverAborts
<1>1. Spec => []OnceInv
  BY OnceInit, OnceStep, PTL DEF Spec
<1>2. OnceInv => HandledNeverAborts
  BY DEF OnceInv
<1> QED
  BY <1>1, <1>2, PTL

-----------------------------------------------------------------------------
(* The stack read from the top.                                              *)

\* The recursive definition of StackAt defines it.
LEMMA StackAtDefined ==
  ASSUME TypeInv
  PROVE  /\ Cardinality(Handlers) \in Nat
         /\ DOMAIN StackAt = 0..Cardinality(Handlers)
         /\ StackAt[0] = top
         /\ \A n \in 1..Cardinality(Handlers) :
              StackAt[n] = IF StackAt[n-1] = NULL THEN NULL ELSE parent[StackAt[n-1]]
<1> DEFINE N == Cardinality(Handlers)
           Q == Handlers \cup {NULL}
           next == [n \in 1..N |-> [x \in Q |-> IF x = NULL THEN NULL ELSE parent[x]]]
           Defines(f) == f = [n \in 0..N |-> IF n = 0 THEN top
                                            ELSE IF f[n-1] = NULL THEN NULL ELSE parent[f[n-1]]]
<1>1. N \in Nat /\ NULL \notin Handlers
  BY ProgramAssumption, FS_CardinalityType
<1>2. top \in Q /\ \A x \in Q : x # NULL => parent[x] \in Q
  BY DEF TypeInv, TypeOK
<1>3. \A n \in 1..N : \A x \in Q : next[n][x] = IF x = NULL THEN NULL ELSE parent[x]
  OBVIOUS
<1>4. NULL \in Q
  OBVIOUS
<1> HIDE DEF N, next, Q
<1>5. PICK f : Steps(f, top, next, N)
  BY <1>1, Iteration
<1> DEFINE Qs == [n \in 0..N |-> Q]
<1>6. \A n \in 0..N : f[n] \in Q
  <2>1. \A n \in 1..N : n - 1 \in 0..N /\ n \in 0..N
    BY <1>1
  <2>2. \A n \in 0..N : Qs[n] = Q
    OBVIOUS
  <2>3. f[0] \in Qs[0]
    BY <1>1, <1>2, <1>5 DEF Steps
  <2> HIDE DEF Qs
  <2>4. \A n \in 1..N : f[n-1] \in Qs[n-1] => f[n] \in Qs[n]
    BY <1>2, <1>3, <1>4, <1>5, <2>1, <2>2 DEF Steps
  <2>5. \A n \in 0..N : f[n] \in Qs[n]
    BY <1>1, <2>3, <2>4, Stays
  <2> QED
    BY <2>2, <2>5
<1>7. Defines(f)
  <2>1. \A n \in 0..N : n = 0 \/ (n \in 1..N /\ n - 1 \in 0..N)
    BY <1>1
  <2>2. \A n \in 0..N : f[n] = IF n = 0 THEN top
                                ELSE IF f[n-1] = NULL THEN NULL ELSE parent[f[n-1]]
    BY <1>3, <1>5, <1>6, <2>1 DEF Steps
  <2>3. f = [n \in 0..N |-> f[n]]
    BY <1>5 DEF Steps
  <2> QED
    BY <2>2, <2>3
<1>8. StackAt = CHOOSE g : Defines(g)
  BY DEF StackAt, N
<1> USE DEF N
<1> HIDE DEF Defines
<1>9. Defines(StackAt)
  BY <1>7, <1>8, Zenon
<1>10. StackAt = [n \in 0..N |-> IF n = 0 THEN top
                   ELSE IF StackAt[n-1] = NULL THEN NULL ELSE parent[StackAt[n-1]]]
  BY <1>9 DEF Defines
<1> QED
  BY <1>1, <1>10

Size(B, h) == Cardinality(Below(B, h))

\* How many structs are linked from h; one fewer from its parent, and from whatever
\* lies below the parent fewer still.
LEMMA BelowSize ==
  ASSUME TypeInv, NEW B \in [Handlers -> SUBSET Handlers], Linked(B)
  PROVE  /\ Size(B, NULL) = 0
         /\ \A h \in entered \cup {NULL} :
              /\ Size(B, h) \in Nat /\ Size(B, h) <= Cardinality(Handlers)
              /\ h # NULL => Size(B, h) = Size(B, parent[h]) + 1
              /\ \A g \in Below(B, h) : Size(B, g) \in Nat /\ Size(B, g) <= Size(B, h)
<1>1. Size(B, NULL) = 0
  BY FS_EmptySet DEF Size, Below
<1>2. ASSUME NEW h \in entered \cup {NULL}
      PROVE  /\ IsFiniteSet(Below(B, h)) /\ Size(B, h) \in Nat
             /\ Size(B, h) <= Cardinality(Handlers)
  <2>1. Below(B, h) \subseteq Handlers
    BY BelowType DEF TypeInv, TypeOK
  <2> QED
    BY <2>1, FS_Subset, FS_CardinalityType, ProgramAssumption DEF Size
<1>3. ASSUME NEW h \in entered PROVE Size(B, h) = Size(B, parent[h]) + 1
  <2>1. /\ parent[h] \in entered \cup {NULL}
        /\ Below(B, h) = {h} \cup Below(B, parent[h])
        /\ h \notin Below(B, parent[h])
    BY BelowParent
  <2>2. IsFiniteSet(Below(B, parent[h]))
    BY <1>2, <2>1
  <2>3. Below(B, h) = Below(B, parent[h]) \cup {h}
    BY <2>1
  <2> QED
    BY <2>1, <2>2, <2>3, FS_AddElement DEF Size
<1>4. ASSUME NEW h \in entered \cup {NULL}, NEW g \in Below(B, h)
      PROVE  Size(B, g) \in Nat /\ Size(B, g) <= Size(B, h)
  <2>1. g \in entered /\ Below(B, g) \subseteq Below(B, h)
    BY BelowTransitive
  <2> QED
    BY <1>2, <2>1, FS_Subset DEF Size
<1> QED
  BY <1>1, <1>2, <1>3, <1>4

\* Reading the stack from the top meets each struct linked from there, at the place
\* its distance from the bottom gives.
LEMMA StackAtLinked ==
  ASSUME TypeInv, NEW B \in [Handlers -> SUBSET Handlers], Linked(B),
         top \in entered \cup {NULL}, NEW g \in Below(B, top)
  PROVE  /\ Size(B, top) - Size(B, g) \in 0..Cardinality(Handlers)
         /\ StackAt[Size(B, top) - Size(B, g)] = g
<1> DEFINE c == Size(B, top)
           Reads(n) == /\ StackAt[n] \in entered \cup {NULL}
                       /\ Size(B, StackAt[n]) = c - n
                       /\ Size(B, g) <= c - n => g \in Below(B, StackAt[n])
           S == {n \in Nat : Reads(n)}
<1>1. /\ c \in Nat /\ c <= Cardinality(Handlers) /\ Cardinality(Handlers) \in Nat
      /\ Size(B, g) \in Nat /\ Size(B, g) <= c
  BY BelowSize, StackAtDefined
<1>2. 0 \in S
  BY <1>1, StackAtDefined
<1>3. ASSUME NEW n \in 0..c, n \in S, n < c PROVE n + 1 \in S
  <2> DEFINE s == StackAt[n]
  <2>1. s \in entered \cup {NULL} /\ Size(B, s) = c - n
    BY <1>3
  <2>2. s # NULL /\ s \in entered
    BY <1>1, <1>3, <2>1, BelowSize
  <2>3. /\ parent[s] \in entered \cup {NULL}
        /\ Below(B, s) = {s} \cup Below(B, parent[s])
    BY <2>2, BelowParent
  <2>4. StackAt[n + 1] = parent[s]
    <3>1. n + 1 \in 1..Cardinality(Handlers) /\ n + 1 - 1 = n
      BY <1>1, <1>3
    <3> QED
      BY <2>2, <3>1, StackAtDefined
  <2>5. Size(B, parent[s]) = c - (n + 1)
    <3>1. Size(B, s) = Size(B, parent[s]) + 1
      BY <2>2, BelowSize
    <3>2. Size(B, parent[s]) \in Nat
      BY <2>3, BelowSize
    <3> QED
      BY <1>1, <2>1, <3>1, <3>2
  <2>6. ASSUME Size(B, g) <= c - (n + 1) PROVE g \in Below(B, parent[s])
    <3>1. g \in Below(B, s)
      BY <1>1, <1>3, <2>6
    <3>2. g # s
      BY <1>1, <2>1, <2>6
    <3> QED
      BY <2>3, <3>1, <3>2
  <2> QED
    BY <2>3, <2>4, <2>5, <2>6
<1> DEFINE n == c - Size(B, g)
<1>4. n \in 0..c /\ n \in 0..Cardinality(Handlers)
  BY <1>1
<1> HIDE DEF S
<1>5. n \in S
  BY <1>1, <1>2, <1>3, <1>4, UpTo
<1> USE DEF S
<1>6. Reads(n)
  BY <1>5
<1> DEFINE s == StackAt[n]
<1>7. s \in entered \cup {NULL} /\ Size(B, s) = Size(B, g) /\ g \in Below(B, s)
  BY <1>1, <1>6
<1>8. s # NULL /\ s \in entered
  BY <1>7 DEF Below
<1>9. g = s
  <2> SUFFICES ASSUME g # s PROVE FALSE
    OBVIOUS
  <2>1. /\ parent[s] \in entered \cup {NULL}
        /\ Below(B, s) = {s} \cup Below(B, parent[s])
    BY <1>8, BelowParent
  <2>2. g \in Below(B, parent[s])
    BY <1>7, <2>1
  <2>3. Size(B, g) <= Size(B, parent[s]) /\ Size(B, parent[s]) \in Nat
    BY <2>1, <2>2, BelowSize
  <2>4. Size(B, s) = Size(B, parent[s]) + 1
    BY <1>8, BelowSize
  <2> QED
    BY <1>1, <1>7, <2>3, <2>4
<1> QED
  BY <1>4, <1>9

LEMMA NestOnStack == OnceInv => ActiveStaysOnStack
<1> SUFFICES ASSUME OnceInv, pc \in {"run", "walk"}
             PROVE  \E pos \in [1..Len(active) -> DOMAIN StackAt] :
                      /\ \A i \in 1..Len(active) : StackAt[pos[i]] = active[i].h
                      /\ \A i, j \in 1..Len(active) : i < j => pos[i] > pos[j]
  BY DEF ActiveStaysOnStack
<1>1. TypeInv
  BY DEF OnceInv
<1>2. PICK B \in [Handlers -> SUBSET Handlers] : StackInv(B)
  BY DEF OnceInv
<1>3. Linked(B) /\ top \in entered \cup {NULL} /\ Nests(B, active, top)
  BY <1>2 DEF StackInv
<1> DEFINE pos == [i \in 1..Len(active) |-> Size(B, top) - Size(B, active[i].h)]
<1>4. \A i \in 1..Len(active) :
        /\ active[i].h \in Below(B, top)
        /\ Size(B, top) - Size(B, active[i].h) \in 0..Cardinality(Handlers)
        /\ StackAt[Size(B, top) - Size(B, active[i].h)] = active[i].h
  BY <1>1, <1>3, StackAtLinked DEF Nests
<1>5. pos \in [1..Len(active) -> DOMAIN StackAt]
  BY <1>1, <1>4, StackAtDefined
<1>6. \A i \in 1..Len(active) : StackAt[pos[i]] = active[i].h
  BY <1>4
<1>7. ASSUME NEW i \in 1..Len(active), NEW j \in 1..Len(active), i < j
      PROVE  pos[i] > pos[j]
  <2> DEFINE g == active[i].h
             h == active[j].h
  <2>1. g \in Below(B, parent[h]) /\ h \in Below(B, top)
    BY <1>3, <1>7 DEF Nests
  <2>2. h \in entered /\ h # NULL
    BY <1>1, <1>3, <2>1, BelowTransitive
  <2>3. parent[h] \in entered \cup {NULL}
    BY <1>1, <1>3, <2>2, BelowParent
  <2>4. /\ Size(B, g) \in Nat /\ Size(B, g) <= Size(B, parent[h])
        /\ Size(B, parent[h]) \in Nat /\ Size(B, h) = Size(B, parent[h]) + 1
        /\ Size(B, top) \in Nat
    BY <1>1, <1>3, <2>1, <2>2, <2>3, BelowSize
  <2>5. pos[i] = Size(B, top) - Size(B, g) /\ pos[j] = Size(B, top) - Size(B, h)
    OBVIOUS
  <2> HIDE DEF pos, g, h
  <2> QED
    BY <2>4, <2>5
<1> HIDE DEF pos
<1> WITNESS pos \in [1..Len(active) -> DOMAIN StackAt]
<1> QED
  BY <1>6, <1>7

\* No handler a program is still inside of is ever popped, in programs that evaluate
\* no handle expression twice: what return, break and performs past nearer handlers
\* leave linked only delays the pops, it never takes one from an outer expression.
THEOREM ActiveNeverPopped ==
  ASSUME ~Reenter
  PROVE  Spec => []ActiveStaysOnStack
<1>1. Spec => []OnceInv
  BY OnceInit, OnceStep, PTL DEF Spec
<1> QED
  BY <1>1, NestOnStack, PTL

=============================================================================
