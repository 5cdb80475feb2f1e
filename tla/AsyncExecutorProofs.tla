------------------------ MODULE AsyncExecutorProofs ------------------------
(* Proofs about AsyncExecutor for any number of tasks and threads, and any    *)
(* calls they make: its type invariant, that a task is never in two places,   *)
(* that a completed task stays finished, and how a wake can be lost.          *)
EXTENDS AsyncExecutor, SequenceTheorems, FiniteSetTheorems, TLAPS

Slots(x) == 1..Len(todo[x])

\* An operation's arguments.
WellFormed(o) ==
  /\ o.op \in {"turn", "unlock", "event"} \/ o.t \in Tasks
  /\ o.op \in {"join", "check", "link"} => o.u \in Tasks

TypeInv ==
  /\ state \in [Tasks -> TaskState]
  /\ queue \in Seq(Tasks)
  /\ qlock \in Threads \cup {NULL} /\ tlock \in Threads \cup {NULL}
  /\ children \in [Tasks -> Seq(Tasks)]
  /\ waiters \in [Tasks -> Seq(Tasks)]
  /\ armed \subseteq Tasks
  /\ pendings \in [Tasks -> 0..MaxPending]
  /\ missed \subseteq Tasks
  /\ todo \in [Threads -> Seq(Op)]
  /\ \A x \in Threads : \A i \in Slots(x) : WellFormed(todo[x][i])

-----------------------------------------------------------------------------
(* What Then does to the operations of the threads: the first of th's is      *)
(* replaced by ops, the others keep their order.                              *)

\* Where the operation at place j of thread x is after Then(th, ops).
After(th, ops, x, j) == IF x = th THEN j + Len(ops) - 1 ELSE j

LEMMA Moved ==
  ASSUME todo \in [Threads -> Seq(Op)], NEW th \in Threads, todo[th] # <<>>,
         NEW ops \in Seq(Op), Then(th, ops)
  PROVE  /\ todo' \in [Threads -> Seq(Op)]
         /\ 1 \in Slots(th) /\ Head(todo[th]) = todo[th][1] /\ Len(ops) \in Nat
         /\ \A k \in 1..Len(ops) : k \in Slots(th)' /\ todo'[th][k] = ops[k]
         /\ \A x \in Threads : \A i \in Slots(x)' :
              \/ x = th /\ i \in 1..Len(ops)
              \/ \E j \in Slots(x) : /\ <<x, j>> # <<th, 1>>
                                     /\ i = After(th, ops, x, j) /\ todo'[x][i] = todo[x][j]
         /\ \A x \in Threads : \A j \in Slots(x) :
              <<x, j>> # <<th, 1>> => /\ After(th, ops, x, j) \in Slots(x)'
                                      /\ todo'[x][After(th, ops, x, j)] = todo[x][j]
<1> DEFINE n == Len(ops)
           m == Len(todo[th])
<1>1. /\ todo[th] \in Seq(Op) /\ m \in Nat /\ m > 0 /\ n \in Nat
      /\ Tail(todo[th]) \in Seq(Op) /\ Len(Tail(todo[th])) = m - 1
      /\ \A i \in 1..(m - 1) : Tail(todo[th])[i] = todo[th][i+1]
      /\ Head(todo[th]) = todo[th][1]
  BY HeadTailProperties, EmptySeq, LenProperties
<1>2. /\ ops \o Tail(todo[th]) \in Seq(Op)
      /\ Len(ops \o Tail(todo[th])) = n + m - 1
      /\ \A i \in 1..(n + m - 1) : (ops \o Tail(todo[th]))[i] =
           IF i <= n THEN ops[i] ELSE Tail(todo[th])[i - n]
  BY <1>1, ConcatProperties
<1>3. /\ todo' = [todo EXCEPT ![th] = ops \o Tail(todo[th])]
      /\ todo'[th] = ops \o Tail(todo[th])
      /\ \A x \in Threads : x # th => todo'[x] = todo[x]
  BY DEF Then
<1>4. todo' \in [Threads -> Seq(Op)]
  BY <1>2, <1>3
<1>5. ASSUME NEW k \in 1..n PROVE k \in Slots(th)' /\ todo'[th][k] = ops[k]
  BY <1>1, <1>2, <1>3 DEF Slots
<1>6. ASSUME NEW i \in Slots(th)', i \notin 1..n
      PROVE  \E j \in Slots(th) : j # 1 /\ i = j + n - 1 /\ todo'[th][i] = todo[th][j]
  <2>1. i \in 1..(n + m - 1) /\ i > n
    BY <1>1, <1>2, <1>3, <1>6 DEF Slots
  <2>2. i - n \in 1..(m - 1) /\ i - n + 1 \in 1..m /\ i - n + 1 # 1 /\ i = (i - n + 1) + n - 1
    BY <1>1, <2>1
  <2>3. todo'[th][i] = todo[th][i - n + 1]
    BY <1>1, <1>2, <1>3, <2>1, <2>2
  <2> QED
    BY <2>2, <2>3 DEF Slots
<1>7. ASSUME NEW j \in Slots(th), j # 1
      PROVE  j + n - 1 \in Slots(th)' /\ todo'[th][j + n - 1] = todo[th][j]
  <2>1. j \in 1..m /\ j + n - 1 \in 1..(n + m - 1) /\ j + n - 1 > n /\ (j + n - 1) - n \in 1..(m - 1)
        /\ ((j + n - 1) - n) + 1 = j
    BY <1>1, <1>7 DEF Slots
  <2> QED
    BY <1>1, <1>2, <1>3, <2>1 DEF Slots
<1>8. ASSUME NEW x \in Threads, x # th PROVE Slots(x)' = Slots(x) /\ todo'[x] = todo[x]
  BY <1>3, <1>8 DEF Slots
<1>9. 1 \in Slots(th)
  BY <1>1 DEF Slots
<1>10. ASSUME NEW x \in Threads, NEW i \in Slots(x)', ~(x = th /\ i \in 1..n)
       PROVE  \E j \in Slots(x) : /\ <<x, j>> # <<th, 1>>
                                  /\ i = After(th, ops, x, j) /\ todo'[x][i] = todo[x][j]
  BY <1>6, <1>8, <1>10 DEF After
<1>11. ASSUME NEW x \in Threads, NEW j \in Slots(x), <<x, j>> # <<th, 1>>
       PROVE  /\ After(th, ops, x, j) \in Slots(x)'
              /\ todo'[x][After(th, ops, x, j)] = todo[x][j]
  BY <1>7, <1>8, <1>11 DEF After
<1> QED
  BY <1>1, <1>4, <1>5, <1>9, <1>10, <1>11

-----------------------------------------------------------------------------
(* Type correctness.                                                          *)

Names == Holding \cup {"block_on", "turn", "unlock", "notify", "wake", "ready",
                       "cancel", "kids", "spawn", "insert", "link", "event"}

LEMMA OpsTyped ==
  /\ \A op \in Names, t, u \in Tasks \cup {NULL} : Do(op, t) \in Op /\ With(op, t, u) \in Op
  /\ <<>> \in Seq(Op) /\ Len(<<>>) = 0
  /\ \A o \in Op : <<o>> \in Seq(Op) /\ Len(<<o>>) = 1 /\ <<o>>[1] = o
  /\ \A o, p \in Op : <<o, p>> \in Seq(Op) /\ Len(<<o, p>>) = 2 /\ <<o, p>>[1] = o /\ <<o, p>>[2] = p
  /\ \A o, p, q \in Op : /\ <<o, p, q>> \in Seq(Op) /\ Len(<<o, p, q>>) = 3
                         /\ <<o, p, q>>[1] = o /\ <<o, p, q>>[2] = p /\ <<o, p, q>>[3] = q
<1>1. \A op \in Names, t, u \in Tasks \cup {NULL} : Do(op, t) \in Op /\ With(op, t, u) \in Op
  BY DEF Op, Do, With, Names
<1> QED
  BY <1>1, EmptySeq

\* The first operation of a thread that is at op.
LEMMA AtFirst ==
  ASSUME TypeInv, NEW th \in Threads, NEW op, At(th, op)
  PROVE  /\ todo[th] # <<>> /\ Head(todo[th]) = todo[th][1] /\ 1 \in Slots(th)
         /\ todo[th][1].op = op /\ todo[th][1].t = It(th) /\ todo[th][1].u = Other(th)
         /\ todo[th][1] \in Op /\ WellFormed(todo[th][1])
<1>1. todo[th] \in Seq(Op) /\ todo[th] # <<>>
  BY DEF TypeInv, At
<1>2. /\ Len(todo[th]) \in Nat /\ Len(todo[th]) > 0 /\ Head(todo[th]) = todo[th][1]
      /\ 1 \in Slots(th)
  BY <1>1, EmptySeq DEF Slots
<1>3. todo[th][1] \in Op /\ WellFormed(todo[th][1])
  BY <1>1, <1>2 DEF TypeInv, Slots
<1> QED
  BY <1>1, <1>2, <1>3 DEF At, It, Other

LEMMA TodoType ==
  ASSUME TypeInv, NEW th \in Threads, todo[th] # <<>>, NEW ops \in Seq(Op), Then(th, ops),
         \A k \in 1..Len(ops) : WellFormed(ops[k])
  PROVE  /\ todo' \in [Threads -> Seq(Op)]
         /\ \A x \in Threads : \A i \in Slots(x)' : WellFormed(todo'[x][i])
<1>1. todo \in [Threads -> Seq(Op)] /\ \A x \in Threads : \A i \in Slots(x) : WellFormed(todo[x][i])
  BY DEF TypeInv
<1>2. todo' \in [Threads -> Seq(Op)]
  BY <1>1, Moved
<1>3. ASSUME NEW x \in Threads, NEW i \in Slots(x)' PROVE WellFormed(todo'[x][i])
  <2>1. CASE x = th /\ i \in 1..Len(ops)
    BY <1>1, <2>1, Moved
  <2>2. CASE \E j \in Slots(x) : todo'[x][i] = todo[x][j]
    BY <1>1, <2>2
  <2> QED
    BY <1>1, <1>3, <2>1, <2>2, Moved
<1> QED
  BY <1>2, <1>3

\* The operations a thread may have to do.
Good == {o \in Op : WellFormed(o)}

Todo == /\ todo \in [Threads -> Seq(Op)]
        /\ \A x \in Threads : \A i \in Slots(x) : WellFormed(todo[x][i])

LEMMA TodoNone ==
  ASSUME TypeInv, NEW th \in Threads, todo[th] # <<>>, Then(th, <<>>)
  PROVE  Todo'
<1>1. <<>> \in Seq(Op) /\ \A k \in 1..Len(<<>>) : WellFormed(<<>>[k])
  BY EmptySeq
<1> QED
  BY <1>1, TodoType DEF Todo

LEMMA TodoOne ==
  ASSUME TypeInv, NEW th \in Threads, todo[th] # <<>>, NEW o \in Good, Then(th, <<o>>)
  PROVE  Todo'
<1> DEFINE ops == <<o>>
<1>1. ops \in Seq(Op) /\ \A k \in 1..Len(ops) : WellFormed(ops[k])
  BY DEF Good
<1>2. Then(th, ops)
  OBVIOUS
<1> HIDE DEF ops
<1> QED
  BY <1>1, <1>2, TodoType DEF Todo

LEMMA TodoTwo ==
  ASSUME TypeInv, NEW th \in Threads, todo[th] # <<>>, NEW o \in Good, NEW p \in Good,
         Then(th, <<o, p>>)
  PROVE  Todo'
<1> DEFINE ops == <<o, p>>
<1>1. ops \in Seq(Op) /\ \A k \in 1..Len(ops) : WellFormed(ops[k])
  BY DEF Good
<1>2. Then(th, ops)
  OBVIOUS
<1> HIDE DEF ops
<1> QED
  BY <1>1, <1>2, TodoType DEF Todo

LEMMA TodoThree ==
  ASSUME TypeInv, NEW th \in Threads, todo[th] # <<>>,
         NEW o \in Good, NEW p \in Good, NEW q \in Good, Then(th, <<o, p, q>>)
  PROVE  Todo'
<1> DEFINE ops == <<o, p, q>>
<1>1. ops \in Seq(Op) /\ \A k \in 1..Len(ops) : WellFormed(ops[k])
  BY DEF Good
<1>2. Then(th, ops)
  OBVIOUS
<1> HIDE DEF ops
<1> QED
  BY <1>1, <1>2, TodoType DEF Todo

LEMMA GoodOps ==
  /\ \A t \in Tasks :
       /\ Do("wake", t) \in Good /\ Do("ready", t) \in Good /\ Do("push", t) \in Good
       /\ Do("run", t) \in Good /\ Do("start", t) \in Good /\ Do("poll", t) \in Good
       /\ Do("complete", t) \in Good /\ Do("park", t) \in Good /\ Do("notify", t) \in Good
       /\ Do("cancel", t) \in Good /\ Do("kids", t) \in Good /\ Do("insert", t) \in Good
  /\ \A t, u \in Tasks :
       With("join", t, u) \in Good /\ With("check", t, u) \in Good /\ With("link", t, u) \in Good
  /\ Do("turn", NULL) \in Good /\ Do("unlock", NULL) \in Good
<1>1. \A op \in Names, t, u \in Tasks \cup {NULL} : Do(op, t) \in Op /\ With(op, t, u) \in Op
  BY OpsTyped
<1>2. \A op \in Names \ {"join", "check", "link"} : \A t \in Tasks : Do(op, t) \in Good
  BY <1>1 DEF Good, WellFormed, Do
<1>3. \A op \in Names : \A t, u \in Tasks : With(op, t, u) \in Good
  BY <1>1 DEF Good, WellFormed, With
<1>4. Do("turn", NULL) \in Good /\ Do("unlock", NULL) \in Good
  BY <1>1 DEF Good, WellFormed, Do, Names
<1>5. /\ {"wake", "ready", "push", "run", "start", "poll", "complete", "park", "notify", "cancel",
          "kids", "insert"} \subseteq Names \ {"join", "check", "link"}
      /\ {"join", "check", "link"} \subseteq Names
  BY DEF Names, Holding
<1> QED
  BY <1>2, <1>3, <1>4, <1>5

\* The first operation of a thread has its arguments.
LEMMA FirstGood ==
  ASSUME TypeInv, NEW th \in Threads, NEW op, At(th, op)
  PROVE  /\ todo[th] # <<>> /\ Head(todo[th]) \in Good /\ Head(todo[th]) = todo[th][1]
         /\ op \notin {"turn", "unlock", "event"} => It(th) \in Tasks
         /\ op \in {"join", "check", "link"} => Other(th) \in Tasks
         /\ Other(th) \in Tasks \cup {NULL}
<1>1. /\ todo[th] # <<>> /\ Head(todo[th]) = todo[th][1]
      /\ todo[th][1].op = op /\ todo[th][1].t = It(th) /\ todo[th][1].u = Other(th)
      /\ todo[th][1] \in Op /\ WellFormed(todo[th][1])
  BY AtFirst
<1>2. todo[th][1].u \in Tasks \cup {NULL}
  BY <1>1 DEF Op
<1> QED
  BY <1>1, <1>2 DEF Good, WellFormed

LEMMA TypeInit == Init => TypeInv
<1> SUFFICES ASSUME Init PROVE TypeInv
  OBVIOUS
<1> USE ExecutorAssumption
<1>1. state \in [Tasks -> TaskState] /\ pendings \in [Tasks -> 0..MaxPending]
  BY DEF Init, TaskState
<1>2. queue \in Seq(Tasks)
  <2>1. Queued \subseteq Tasks /\ Cardinality(Queued) \in Nat
    BY FS_Subset, FS_CardinalityType DEF Queued
  <2>2. queue \in [1..Cardinality(Queued) -> Queued]
    BY DEF Init, Orders
  <2>3. queue \in [1..Cardinality(Queued) -> Tasks]
    BY <2>1, <2>2
  <2> QED
    BY <2>1, <2>3, SeqDef
<1>3. <<>> \in Seq(Tasks)
  BY EmptySeq
<1>4. ASSUME NEW x \in Threads, NEW i \in Slots(x) PROVE WellFormed(todo[x][i])
  BY <1>4 DEF Init, Slots, WellFormed
<1> QED
  BY <1>1, <1>2, <1>3, <1>4 DEF Init, TypeInv

\* The lists that notify_waiters and cancel make of the tasks they find.
LEMMA ListTyped ==
  ASSUME NEW s \in Seq(Tasks), NEW op \in Names
  PROVE  /\ [i \in 1..Len(s) |-> Do(op, s[i])] \in Seq(Op)
         /\ Len([i \in 1..Len(s) |-> Do(op, s[i])]) = Len(s)
         /\ \A i \in 1..Len(s) : s[i] \in Tasks
<1>1. Len(s) \in Nat /\ \A i \in 1..Len(s) : s[i] \in Tasks
  BY ElementOfSeq, LenProperties
<1>2. \A i \in 1..Len(s) : Do(op, s[i]) \in Op
  BY <1>1, OpsTyped
<1>3. [i \in 1..Len(s) |-> Do(op, s[i])] \in [1..Len(s) -> Op]
  BY <1>2
<1> QED
  BY <1>1, <1>3, SeqDef

\* notify_waiters and cancel put such a list before what is left to do.
LEMMA ListThen ==
  ASSUME NEW s \in Seq(Tasks), NEW op \in Names, NEW rest \in Seq(Op),
         \A i \in 1..Len(rest) : WellFormed(rest[i]),
         \A t \in Tasks : WellFormed(Do(op, t)),
         NEW ops, ops = [i \in 1..Len(s) |-> Do(op, s[i])] \o rest
  PROVE  /\ ops \in Seq(Op)
         /\ \A k \in 1..Len(ops) : \/ \E i \in 1..Len(s) : ops[k] = Do(op, s[i])
                                   \/ \E i \in 1..Len(rest) : ops[k] = rest[i]
         /\ \A k \in 1..Len(ops) : WellFormed(ops[k])
<1> DEFINE l == [i \in 1..Len(s) |-> Do(op, s[i])]
<1>1. l \in Seq(Op) /\ Len(l) = Len(s) /\ \A i \in 1..Len(s) : s[i] \in Tasks /\ l[i] = Do(op, s[i])
  BY ListTyped
<1> HIDE DEF l
<1>2. ops = l \o rest
  BY DEF l
<1>0. Len(l) \in Nat /\ Len(rest) \in Nat
  BY <1>1, LenProperties
<1>3. /\ ops \in Seq(Op) /\ Len(l) \in Nat /\ Len(rest) \in Nat /\ Len(ops) = Len(l) + Len(rest)
      /\ \A k \in 1..(Len(l) + Len(rest)) : ops[k] = IF k <= Len(l) THEN l[k] ELSE rest[k - Len(l)]
  BY <1>0, <1>1, <1>2, ConcatProperties
<1>4. ASSUME NEW k \in 1..Len(ops)
      PROVE  \/ k \in 1..Len(s) /\ ops[k] = Do(op, s[k])
             \/ k - Len(l) \in 1..Len(rest) /\ ops[k] = rest[k - Len(l)]
  BY <1>1, <1>3
<1> QED
  BY <1>1, <1>3, <1>4

LEMMA TypeStep == TypeInv /\ [Next]_vars => TypeInv'
<1> SUFFICES ASSUME TypeInv, [Next]_vars PROVE TypeInv'
  OBVIOUS
<1>1. CASE UNCHANGED vars
  BY <1>1 DEF TypeInv, vars, Slots
<1>2. ASSUME NEW th \in Threads, Step(th) PROVE TypeInv'
  <2>1. CASE Wake(th)
    <3>1. todo[th] # <<>> /\ It(th) \in Tasks
      <4>1. At(th, "wake")
        BY <2>1 DEF Wake
      <4> QED
        BY <4>1, FirstGood
    <3>2. Todo'
      BY <2>1, <3>1, GoodOps, TodoNone, TodoOne DEF Wake
    <3>3. missed' \subseteq Tasks
      BY <2>1, <3>1 DEF Wake, TypeInv
    <3> QED
      BY <2>1, <3>2, <3>3 DEF Wake, TypeInv, Todo
  <2>2. CASE MakeReady(th)
    <3>1. todo[th] # <<>> /\ It(th) \in Tasks
      <4>1. At(th, "ready")
        BY <2>2 DEF MakeReady
      <4> QED
        BY <4>1, FirstGood
    <3>2. Todo'
      BY <2>2, <3>1, GoodOps, TodoOne DEF MakeReady
    <3> QED
      BY <2>2, <3>1, <3>2 DEF MakeReady, TypeInv, Todo, TaskState
  <2>3. CASE Push(th)
    <3>1. todo[th] # <<>> /\ It(th) \in Tasks
      <4>1. At(th, "push")
        BY <2>3 DEF Push
      <4> QED
        BY <4>1, FirstGood
    <3>2. Todo'
      BY <2>3, <3>1, TodoNone DEF Push
    <3>3. queue' \in Seq(Tasks)
      BY <2>3, <3>1, AppendProperties DEF Push, TypeInv, Todo
    <3> QED
      BY <2>3, <3>2, <3>3 DEF Push, TypeInv, Todo
  <2>4. CASE Notify(th)
    <3>1. todo[th] # <<>> /\ It(th) \in Tasks
      <4>1. At(th, "notify")
        BY <2>4 DEF Notify
      <4> QED
        BY <4>1, FirstGood
    <3> DEFINE l == [i \in 1..Len(waiters[It(th)]) |-> Do("wake", waiters[It(th)][i])]
    <3>2. waiters[It(th)] \in Seq(Tasks)
      BY <3>1 DEF TypeInv, Todo
    <3>3. l \in Seq(Op) /\ \A k \in 1..Len(l) : WellFormed(l[k])
      <4>1. "wake" \in Names
        BY DEF Names
      <4> QED
        BY <3>2, <4>1, GoodOps, ListTyped DEF Good
    <3>4. Then(th, l)
      BY <2>4 DEF Notify
    <3> HIDE DEF l
    <3>5. Todo'
      BY <3>1, <3>3, <3>4, TodoType DEF Todo
    <3>6. waiters' \in [Tasks -> Seq(Tasks)]
      BY <2>4, <3>1, EmptySeq DEF Notify, TypeInv, Todo
    <3> QED
      BY <2>4, <3>5, <3>6 DEF Notify, TypeInv, Todo
  <2>5. CASE Event(th)
    <3>1. todo[th] # <<>> /\ Head(todo[th]) \in Good
      <4>1. At(th, "event")
        BY <2>5 DEF Event
      <4> QED
        BY <4>1, FirstGood
    <3>2. PICK t \in armed : /\ armed' = armed \ {t} \/ UNCHANGED armed
                             /\ Then(th, <<Do("wake", t), Head(todo[th])>>)
      BY <2>5, <3>1 DEF Event
    <3>3. t \in Tasks /\ armed' \subseteq Tasks
      BY <3>2 DEF TypeInv, Todo
    <3>4. Todo'
      BY <3>1, <3>2, <3>3, GoodOps, TodoTwo
    <3> QED
      BY <2>5, <3>3, <3>4 DEF Event, TypeInv, Todo
  <2>6. CASE BlockOn(th)
    <3>1. todo[th] # <<>> /\ Head(todo[th]) \in Good
      <4>1. At(th, "block_on")
        BY <2>6 DEF BlockOn
      <4> QED
        BY <4>1, FirstGood
    <3>2. Todo'
      BY <2>6, <3>1, GoodOps, TodoNone, TodoTwo DEF BlockOn
    <3> QED
      BY <2>6, <3>2 DEF BlockOn, TypeInv, Todo
  <2>7. CASE Turn(th)
    <3>1. todo[th] # <<>>
      <4>1. At(th, "turn")
        BY <2>7 DEF Turn
      <4> QED
        BY <4>1, FirstGood
    <3>2. queue # <<>> => Head(queue) \in Tasks /\ Tail(queue) \in Seq(Tasks)
      BY HeadTailProperties DEF TypeInv, Todo
    <3>3. Todo'
      BY <2>7, <3>1, <3>2, GoodOps, TodoOne, TodoTwo DEF Turn
    <3> QED
      BY <2>7, <3>2, <3>3 DEF Turn, TypeInv, Todo
  <2>8. CASE Unlock(th)
    <3>1. todo[th] # <<>>
      <4>1. At(th, "unlock")
        BY <2>8 DEF Unlock
      <4> QED
        BY <4>1, FirstGood
    <3>2. Todo'
      BY <2>8, <3>1, TodoNone DEF Unlock
    <3> QED
      BY <2>8, <3>2 DEF Unlock, TypeInv, Todo
  <2>9. CASE Run(th)
    <3>1. todo[th] # <<>> /\ It(th) \in Tasks
      <4>1. At(th, "run")
        BY <2>9 DEF Run
      <4> QED
        BY <4>1, FirstGood
    <3>2. Todo'
      BY <2>9, <3>1, GoodOps, TodoNone, TodoOne DEF Run
    <3> QED
      BY <2>9, <3>2 DEF Run, TypeInv, Todo
  <2>10. CASE StartTask(th)
    <3>1. todo[th] # <<>> /\ It(th) \in Tasks
      <4>1. At(th, "start")
        BY <2>10 DEF StartTask
      <4> QED
        BY <4>1, FirstGood
    <3>2. Todo'
      BY <2>10, <3>1, GoodOps, TodoOne DEF StartTask
    <3> QED
      BY <2>10, <3>1, <3>2 DEF StartTask, TypeInv, Todo, TaskState
  <2>11. CASE Poll(th)
    <3> DEFINE t == It(th)
    <3>1. todo[th] # <<>> /\ t \in Tasks
      <4>1. At(th, "poll")
        BY <2>11 DEF Poll
      <4> QED
        BY <4>1, FirstGood
    <3>2. \/ Then(th, <<Do("complete", t)>>) \/ Then(th, <<Do("park", t)>>)
          \/ \E u \in Tasks : Then(th, <<With("join", t, u)>>)
      BY <2>11, <3>1, ExecutorAssumption DEF Poll
    <3>3. Todo'
      BY <3>1, <3>2, GoodOps, TodoOne
    <3>4. armed' \subseteq Tasks
      BY <2>11, <3>1 DEF Poll, TypeInv, Todo
    <3>5. pendings' \in [Tasks -> 0..MaxPending]
      <4>1. CASE UNCHANGED pendings
        BY <4>1 DEF TypeInv, Todo
      <4>2. CASE pendings[t] < MaxPending /\ pendings' = [pendings EXCEPT ![t] = @ + 1]
        <5>1. pendings[t] \in 0..MaxPending
          BY <3>1 DEF TypeInv, Todo
        <5>2. pendings[t] + 1 \in 0..MaxPending
          BY <4>2, <5>1, ExecutorAssumption
        <5> QED
          BY <3>1, <4>2, <5>2 DEF TypeInv, Todo
      <4> QED
        BY <2>11, <4>1, <4>2 DEF Poll
    <3> QED
      BY <2>11, <3>3, <3>4, <3>5 DEF Poll, TypeInv, Todo
  <2>12. CASE Join(th)
    <3>1. todo[th] # <<>> /\ It(th) \in Tasks /\ Other(th) \in Tasks
      <4>1. At(th, "join")
        BY <2>12 DEF Join
      <4> QED
        BY <4>1, FirstGood
    <3>2. Todo'
      BY <2>12, <3>1, GoodOps, TodoOne DEF Join
    <3>3. waiters' \in [Tasks -> Seq(Tasks)]
      BY <2>12, <3>1, AppendProperties DEF Join, TypeInv, Todo
    <3> QED
      BY <2>12, <3>2, <3>3 DEF Join, TypeInv, Todo
  <2>13. CASE Check(th)
    <3>1. todo[th] # <<>> /\ It(th) \in Tasks
      <4>1. At(th, "check")
        BY <2>13 DEF Check
      <4> QED
        BY <4>1, FirstGood
    <3>2. Todo'
      BY <2>13, <3>1, GoodOps, TodoOne DEF Check
    <3> QED
      BY <2>13, <3>2 DEF Check, TypeInv, Todo
  <2>14. CASE CompleteTask(th)
    <3>1. todo[th] # <<>> /\ It(th) \in Tasks
      <4>1. At(th, "complete")
        BY <2>14 DEF CompleteTask
      <4> QED
        BY <4>1, FirstGood
    <3>2. Todo'
      BY <2>14, <3>1, GoodOps, TodoOne DEF CompleteTask
    <3> QED
      BY <2>14, <3>1, <3>2 DEF CompleteTask, TypeInv, Todo, TaskState
  <2>15. CASE Park(th)
    <3>1. todo[th] # <<>> /\ It(th) \in Tasks
      <4>1. At(th, "park")
        BY <2>15 DEF Park
      <4> QED
        BY <4>1, FirstGood
    <3>2. Todo'
      BY <2>15, <3>1, TodoNone DEF Park
    <3> QED
      BY <2>15, <3>1, <3>2 DEF Park, TypeInv, Todo, TaskState
  <2>16. CASE Cancel(th)
    <3>1. todo[th] # <<>> /\ It(th) \in Tasks
      <4>1. At(th, "cancel")
        BY <2>16 DEF Cancel
      <4> QED
        BY <4>1, FirstGood
    <3>2. Todo'
      BY <2>16, <3>1, GoodOps, TodoNone, TodoOne DEF Cancel
    <3> QED
      BY <2>16, <3>1, <3>2 DEF Cancel, TypeInv, Todo, TaskState
  <2>17. CASE CancelKids(th)
    <3>1. todo[th] # <<>> /\ It(th) \in Tasks
      <4>1. At(th, "kids")
        BY <2>17 DEF CancelKids
      <4> QED
        BY <4>1, FirstGood
    <3> DEFINE kids == children[It(th)]
               l == [i \in 1..Len(kids) |-> Do("cancel", kids[i])] \o <<Do("notify", It(th))>>
    <3>2. kids \in Seq(Tasks) /\ "cancel" \in Names /\ Do("notify", It(th)) \in Good
      BY <3>1, GoodOps DEF TypeInv, Names
    <3>3. l \in Seq(Op) /\ \A k \in 1..Len(l) : WellFormed(l[k])
      <4> DEFINE rest == <<Do("notify", It(th))>>
      <4>1. rest \in Seq(Op) /\ \A i \in 1..Len(rest) : WellFormed(rest[i])
        BY <3>2 DEF Good
      <4>2. \A t \in Tasks : WellFormed(Do("cancel", t))
        BY GoodOps DEF Good
      <4> HIDE DEF rest
      <4>3. l = [i \in 1..Len(kids) |-> Do("cancel", kids[i])] \o rest
        BY DEF rest
      <4> HIDE DEF l, kids
      <4> QED
        BY <3>2, <4>1, <4>2, <4>3, ListThen
    <3>4. Then(th, l)
      BY <2>17 DEF CancelKids
    <3> HIDE DEF l
    <3>5. Todo'
      BY <3>1, <3>3, <3>4, TodoType DEF Todo
    <3> QED
      BY <2>17, <3>5 DEF CancelKids, TypeInv, Todo
  <2>18. CASE Spawn(th)
    <3> DEFINE t == It(th)
               u == Other(th)
    <3>1. todo[th] # <<>> /\ t \in Tasks /\ u \in Tasks \cup {NULL}
      <4>1. At(th, "spawn")
        BY <2>18 DEF Spawn
      <4> QED
        BY <4>1, FirstGood
    <3>2. \/ Then(th, <<Do("insert", t), Do("push", t)>>) \/ Then(th, <<>>)
          \/ u \in Tasks /\ Then(th, <<Do("insert", t), Do("push", t), With("link", t, u)>>)
      BY <2>18, <3>1 DEF Spawn
    <3>3. Todo'
      BY <3>1, <3>2, GoodOps, TodoNone, TodoTwo, TodoThree
    <3> QED
      BY <2>18, <3>3 DEF Spawn, TypeInv, Todo
  <2>19. CASE Insert(th)
    <3>1. todo[th] # <<>> /\ It(th) \in Tasks
      <4>1. At(th, "insert")
        BY <2>19 DEF Insert
      <4> QED
        BY <4>1, FirstGood
    <3>2. Todo'
      BY <2>19, <3>1, TodoNone DEF Insert
    <3> QED
      BY <2>19, <3>1, <3>2 DEF Insert, TypeInv, Todo, TaskState
  <2>20. CASE Link(th)
    <3>1. todo[th] # <<>> /\ It(th) \in Tasks /\ Other(th) \in Tasks
      <4>1. At(th, "link")
        BY <2>20 DEF Link
      <4> QED
        BY <4>1, FirstGood
    <3>2. Todo'
      BY <2>20, <3>1, TodoNone DEF Link
    <3>3. children' \in [Tasks -> Seq(Tasks)]
      BY <2>20, <3>1, AppendProperties DEF Link, TypeInv, Todo
    <3> QED
      BY <2>20, <3>2, <3>3 DEF Link, TypeInv, Todo
  <2> QED
    BY <1>2, <2>1, <2>2, <2>3, <2>4, <2>5, <2>6, <2>7, <2>8, <2>9, <2>10, <2>11, <2>12, <2>13,
       <2>14, <2>15, <2>16, <2>17, <2>18, <2>19, <2>20 DEF Step
<1> QED
  BY <1>1, <1>2 DEF Next

-----------------------------------------------------------------------------
(* The inductive invariant. *)

\* The operations that claim their task: nothing else may hold it.
Claim == Holding \cup {"ready", "spawn"}

Claims(o, t) == o.op \in Claim /\ o.t = t

InSeq(t, q) == \E i \in 1..Len(q) : q[i] = t

\* Each lock is held by the thread that has to release it, once.
TasksLock ==
  /\ \A x \in Threads : tlock = x => \E i \in Slots(x) : todo[x][i].op = "ready"
  /\ \A x \in Threads : \A i \in Slots(x) : todo[x][i].op = "ready" => i = 1 /\ tlock = x

QueueLock ==
  /\ \A x \in Threads : qlock = x => \E i \in Slots(x) : todo[x][i].op = "unlock"
  /\ \A x \in Threads : \A i \in Slots(x) : todo[x][i].op = "unlock" => qlock = x
  /\ \A x \in Threads : \A i, j \in Slots(x) :
       todo[x][i].op = "unlock" /\ todo[x][j].op = "unlock" => i = j

LockInv == TasksLock /\ QueueLock

\* A task is claimed once, or queued once.
OneClaim ==
  \A x, y \in Threads : \A i \in Slots(x), j \in Slots(y) :
    todo[x][i].op \in Claim /\ Claims(todo[y][j], todo[x][i].t) => x = y /\ i = j

Apart ==
  \A x \in Threads : \A i \in Slots(x) : todo[x][i].op \in Claim => ~InSeq(todo[x][i].t, queue)

QueueInv ==
  /\ \A i, j \in 1..Len(queue) : queue[i] = queue[j] => i = j
  /\ \A t \in Tasks : InSeq(t, queue) => state[t] \in {"Ready", "Cancelled"}

\* What an operation that claims its task may find its state to be.
Fits(o, s) ==
  /\ o.op = "ready" => s[o.t] \in {"Waiting", "Cancelled"}
  /\ o.op \in {"run", "start"} => s[o.t] \in {"Ready", "Cancelled"}
  /\ o.op \in {"poll", "join", "check", "complete", "park"} => s[o.t] \in {"Running", "Cancelled"}
  /\ o.op = "push" => s[o.t] \in {"unborn", "Ready", "Cancelled"}
  /\ o.op \in {"spawn", "insert"} => s[o.t] = "unborn"

SlotInv == \A x \in Threads : \A i \in Slots(x) : Fits(todo[x][i], state)

\* spawn inserts a task right before it pushes it, and nobody else pushes an unborn one.
SpawnInv ==
  \A x \in Threads : \A i \in Slots(x) :
    /\ todo[x][i].op = "insert" =>
         i = 1 /\ 2 \in Slots(x) /\ todo[x][2].op = "push" /\ todo[x][2].t = todo[x][i].t
    /\ todo[x][i].op = "push" /\ state[todo[x][i].t] = "unborn" =>
         i = 2 /\ todo[x][1].op = "insert" /\ todo[x][1].t = todo[x][i].t

ReadyInv ==
  \A t \in Tasks : state[t] = "Ready" =>
    InSeq(t, queue) \/ \E x \in Threads : \E i \in Slots(x) :
                    todo[x][i].op \in {"push", "run", "start"} /\ todo[x][i].t = t

ClaimInv == OneClaim /\ Apart /\ QueueInv /\ SlotInv /\ SpawnInv /\ ReadyInv

Inv == TypeInv /\ LockInv /\ ClaimInv

\* An operation of one of these kinds on t is still to be done.
Called(S, t) ==
  \E x \in Threads : \E i \in Slots(x) : todo[x][i].op \in S /\ todo[x][i].t = t

\* A wake of t is to come, or was dropped.
Woken(t) == t \in missed \/ Called({"wake", "ready"}, t)

\* u is to finish, or to notify the tasks that joined it.
Unfinished(u) == ~Complete(u) \/ Called({"cancel", "kids", "notify"}, u)

\* What wakes t if it waits, unless its wake was dropped.
Coming(t) ==
  t \in armed \/ Woken(t) \/ \E u \in Tasks : InSeq(t, waiters[u]) /\ Unfinished(u)

\* From the poll that answers Pending on, a task has a wake to come: between its
\* register_wait and its second look at the task it joins the list alone keeps it.
WakeInv ==
  /\ \A x \in Threads : \A i \in Slots(x) : \A t, u \in Tasks :
       /\ todo[x][i].op = "join" /\ todo[x][i].u = u => state[u] # "unborn"
       /\ todo[x][i].op = "check" /\ todo[x][i].t = t /\ todo[x][i].u = u =>
            InSeq(t, waiters[u]) \/ Woken(t)
       /\ todo[x][i].op = "park" /\ todo[x][i].t = t => Coming(t)
  /\ \A t \in Tasks : state[t] = "Waiting" => Coming(t)
  /\ \A u \in Tasks : waiters[u] # <<>> => state[u] # "unborn"

-----------------------------------------------------------------------------
(* What keeps each part of the invariant when th replaces its first operation *)
(* by ops.                                                                    *)

LEMMA TasksLockKept ==
  ASSUME TypeInv, TasksLock, NEW th \in Threads, todo[th] # <<>>, NEW ops \in Seq(Op), Then(th, ops),
         todo[th][1].op # "ready", \A k \in 1..Len(ops) : ops[k].op # "ready",
         UNCHANGED tlock
  PROVE  TasksLock'
<1>1. todo \in [Threads -> Seq(Op)] /\ Len(ops) \in Nat
  BY LenProperties DEF TypeInv
<1>a. \A k \in 1..Len(ops) : todo'[th][k] = ops[k]
  BY <1>1, Moved
<1>b. \A x \in Threads : \A i \in Slots(x)' :
        \/ x = th /\ i \in 1..Len(ops)
        \/ \E j \in Slots(x) : /\ <<x, j>> # <<th, 1>>
                               /\ i = After(th, ops, x, j) /\ todo'[x][i] = todo[x][j]
  BY <1>1, Moved
<1>2. ASSUME NEW x \in Threads, NEW i \in Slots(x)', todo'[x][i].op = "ready"
      PROVE  i = 1 /\ tlock' = x
  <2>1. PICK j \in Slots(x) : /\ <<x, j>> # <<th, 1>>
                              /\ i = After(th, ops, x, j) /\ todo'[x][i] = todo[x][j]
    BY <1>2, <1>a, <1>b
  <2>2. j = 1 /\ tlock = x
    BY <1>2, <2>1 DEF TasksLock
  <2> QED
    BY <2>1, <2>2 DEF After
<1>3. ASSUME NEW x \in Threads, tlock' = x PROVE \E i \in Slots(x)' : todo'[x][i].op = "ready"
  <2>1. PICK j \in Slots(x) : todo[x][j].op = "ready"
    BY <1>3 DEF TasksLock
  <2>2. <<x, j>> # <<th, 1>>
    BY <2>1
  <2>3. /\ After(th, ops, x, j) \in Slots(x)'
        /\ todo'[x][After(th, ops, x, j)] = todo[x][j]
    BY <1>1, <2>2, Moved
  <2> QED
    BY <2>1, <2>3
<1> QED
  BY <1>2, <1>3 DEF TasksLock

LEMMA QueueLockKept ==
  ASSUME TypeInv, QueueLock, NEW th \in Threads, todo[th] # <<>>, NEW ops \in Seq(Op), Then(th, ops),
         todo[th][1].op # "unlock", \A k \in 1..Len(ops) : ops[k].op # "unlock",
         UNCHANGED qlock
  PROVE  QueueLock'
<1>1. todo \in [Threads -> Seq(Op)] /\ Len(ops) \in Nat
  BY LenProperties DEF TypeInv
<1>a. \A k \in 1..Len(ops) : todo'[th][k] = ops[k]
  BY <1>1, Moved
<1>b. \A x \in Threads : \A i \in Slots(x)' :
        \/ x = th /\ i \in 1..Len(ops)
        \/ \E j \in Slots(x) : /\ <<x, j>> # <<th, 1>>
                               /\ i = After(th, ops, x, j) /\ todo'[x][i] = todo[x][j]
  BY <1>1, Moved
<1>2. ASSUME NEW x \in Threads, NEW i \in Slots(x)', todo'[x][i].op = "unlock"
      PROVE  \E j \in Slots(x) : /\ <<x, j>> # <<th, 1>>
                                 /\ i = After(th, ops, x, j) /\ todo'[x][i] = todo[x][j]
  BY <1>2, <1>a, <1>b
<1>3. ASSUME NEW x \in Threads, NEW i \in Slots(x)', todo'[x][i].op = "unlock" PROVE qlock' = x
  BY <1>2, <1>3 DEF QueueLock
<1>4. ASSUME NEW x \in Threads, NEW i \in Slots(x)', NEW j \in Slots(x)',
             todo'[x][i].op = "unlock", todo'[x][j].op = "unlock"
      PROVE  i = j
  BY <1>2, <1>4 DEF QueueLock
<1>5. ASSUME NEW x \in Threads, qlock' = x PROVE \E i \in Slots(x)' : todo'[x][i].op = "unlock"
  <2>1. PICK j \in Slots(x) : todo[x][j].op = "unlock"
    BY <1>5 DEF QueueLock
  <2>2. <<x, j>> # <<th, 1>>
    BY <2>1
  <2>3. /\ After(th, ops, x, j) \in Slots(x)'
        /\ todo'[x][After(th, ops, x, j)] = todo[x][j]
    BY <1>1, <2>2, Moved
  <2> QED
    BY <2>1, <2>3
<1> QED
  BY <1>3, <1>4, <1>5 DEF QueueLock

\* A new claim is the only one among ops, and for a task that only the operation
\* just done may have claimed.
LEMMA ClaimsKept ==
  ASSUME TypeInv, OneClaim, NEW th \in Threads, todo[th] # <<>>, NEW ops \in Seq(Op), Then(th, ops),
         \A k, l \in 1..Len(ops) : ops[k].op \in Claim /\ ops[l].op \in Claim => k = l,
         \A k \in 1..Len(ops) : ops[k].op \in Claim =>
           \A x \in Threads : \A j \in Slots(x) :
             Claims(todo[x][j], ops[k].t) => <<x, j>> = <<th, 1>>
  PROVE  OneClaim'
<1>1. todo \in [Threads -> Seq(Op)] /\ Len(ops) \in Nat
  BY LenProperties DEF TypeInv
<1>2. SUFFICES ASSUME NEW x \in Threads, NEW y \in Threads, NEW i \in Slots(x)', NEW j \in Slots(y)',
                      todo'[x][i].op \in Claim, Claims(todo'[y][j], todo'[x][i].t)
               PROVE  x = y /\ i = j
  BY DEF OneClaim, Claims
<1> DEFINE New(z, k) == z = th /\ k \in 1..Len(ops)
<1>3. ASSUME NEW z \in Threads, NEW k \in Slots(z)', ~New(z, k)
      PROVE  \E l \in Slots(z) : /\ <<z, l>> # <<th, 1>>
                                 /\ k = After(th, ops, z, l) /\ todo'[z][k] = todo[z][l]
  BY <1>1, <1>3, Moved
<1>4. ASSUME NEW k \in 1..Len(ops) PROVE todo'[th][k] = ops[k]
  BY <1>1, Moved
<1>5. CASE New(x, i) /\ New(y, j)
  BY <1>2, <1>4, <1>5 DEF Claims
<1>6. CASE New(x, i) /\ ~New(y, j)
  BY <1>2, <1>3, <1>4, <1>6
<1>7. CASE ~New(x, i) /\ New(y, j)
  <2>1. PICK l \in Slots(x) : <<x, l>> # <<th, 1>> /\ todo'[x][i] = todo[x][l]
    BY <1>3, <1>7
  <2>2. ops[j].op \in Claim /\ Claims(todo[x][l], ops[j].t)
    BY <1>2, <1>4, <1>7, <2>1 DEF Claims
  <2> QED
    BY <1>7, <2>1, <2>2
<1>8. CASE ~New(x, i) /\ ~New(y, j)
  BY <1>2, <1>3, <1>8 DEF OneClaim
<1> QED
  BY <1>5, <1>6, <1>7, <1>8

LEMMA ApartKept ==
  ASSUME TypeInv, NEW th \in Threads, todo[th] # <<>>, NEW ops \in Seq(Op), Then(th, ops),
         \A x \in Threads : \A j \in Slots(x) :
           <<x, j>> # <<th, 1>> /\ todo[x][j].op \in Claim => ~InSeq(todo[x][j].t, queue'),
         \A k \in 1..Len(ops) : ops[k].op \in Claim => ~InSeq(ops[k].t, queue')
  PROVE  Apart'
<1>1. todo \in [Threads -> Seq(Op)]
  BY DEF TypeInv
<1>2. SUFFICES ASSUME NEW x \in Threads, NEW i \in Slots(x)', todo'[x][i].op \in Claim
               PROVE  ~InSeq(todo'[x][i].t, queue')
  BY DEF Apart, InSeq
<1>3. \/ x = th /\ i \in 1..Len(ops) /\ todo'[x][i] = ops[i]
      \/ \E j \in Slots(x) : <<x, j>> # <<th, 1>> /\ todo'[x][i] = todo[x][j]
  BY <1>1, Moved
<1> QED
  BY <1>2, <1>3

LEMMA SlotsKept ==
  ASSUME TypeInv, NEW th \in Threads, todo[th] # <<>>, NEW ops \in Seq(Op), Then(th, ops),
         \A x \in Threads : \A j \in Slots(x) : <<x, j>> # <<th, 1>> => Fits(todo[x][j], state'),
         \A k \in 1..Len(ops) : Fits(ops[k], state')
  PROVE  SlotInv'
<1>1. todo \in [Threads -> Seq(Op)]
  BY DEF TypeInv
<1>2. SUFFICES ASSUME NEW x \in Threads, NEW i \in Slots(x)' PROVE Fits(todo'[x][i], state')
  BY DEF SlotInv, Fits
<1>3. \/ x = th /\ i \in 1..Len(ops) /\ todo'[x][i] = ops[i]
      \/ \E j \in Slots(x) : <<x, j>> # <<th, 1>> /\ todo'[x][i] = todo[x][j]
  BY <1>1, Moved
<1> QED
  BY <1>3

LEMMA SpawnsKept ==
  ASSUME TypeInv, SpawnInv, NEW th \in Threads, todo[th] # <<>>, NEW ops \in Seq(Op), Then(th, ops),
         todo[th][1].op # "insert",
         \A k \in 1..Len(ops) : /\ ops[k].op # "insert"
                                /\ ops[k].op = "push" => state'[ops[k].t] # "unborn",
         \A t \in Tasks : state'[t] = "unborn" => state[t] = "unborn"
  PROVE  SpawnInv'
<1>1. todo \in [Threads -> Seq(Op)] /\ Len(ops) \in Nat
  BY LenProperties DEF TypeInv
<1>2. ASSUME NEW j \in Slots(th)
      PROVE  /\ todo[th][j].op # "insert"
             /\ todo[th][j].op = "push" => state[todo[th][j].t] # "unborn"
  BY <1>2 DEF SpawnInv
<1>3. ASSUME NEW i \in Slots(th)'
      PROVE  /\ todo'[th][i].op # "insert"
             /\ todo'[th][i].op = "push" => state'[todo'[th][i].t] # "unborn"
  <2>1. CASE i \in 1..Len(ops)
    BY <1>1, <2>1, Moved
  <2>2. CASE \E j \in Slots(th) : todo'[th][i] = todo[th][j]
    <3>1. PICK j \in Slots(th) : todo'[th][i] = todo[th][j]
      BY <2>2
    <3>2. todo[th][j].op = "push" => todo[th][j].t \in Tasks
      BY DEF TypeInv, WellFormed
    <3> QED
      BY <1>2, <3>1, <3>2
  <2> QED
    BY <1>1, <2>1, <2>2, Moved
<1>4. ASSUME NEW x \in Threads, x # th PROVE todo'[x] = todo[x] /\ Slots(x)' = Slots(x)
  BY <1>1, <1>4 DEF Then, Slots
<1>5. ASSUME NEW x \in Threads, x # th, NEW i \in Slots(x)
      PROVE  todo[x][i].op = "push" => todo[x][i].t \in Tasks
  BY DEF TypeInv, WellFormed
<1>6. ASSUME NEW x \in Threads, NEW i \in Slots(x)', todo'[x][i].op = "insert"
      PROVE  i = 1 /\ 2 \in Slots(x)' /\ todo'[x][2].op = "push" /\ todo'[x][2].t = todo'[x][i].t
  <2>0. x # th
    BY <1>3, <1>6
  <2>1. i \in Slots(x) /\ todo'[x] = todo[x] /\ Slots(x)' = Slots(x)
    BY <1>4, <1>6, <2>0
  <2>2. todo[x][i].op = "insert"
    BY <1>6, <2>1
  <2> QED
    BY <2>1, <2>2 DEF SpawnInv
<1>7. ASSUME NEW x \in Threads, NEW i \in Slots(x)',
             todo'[x][i].op = "push", state'[todo'[x][i].t] = "unborn"
      PROVE  i = 2 /\ todo'[x][1].op = "insert" /\ todo'[x][1].t = todo'[x][i].t
  BY <1>3, <1>4, <1>5, <1>7 DEF SpawnInv
<1> QED
  BY <1>6, <1>7 DEF SpawnInv

LEMMA ReadyKept ==
  ASSUME TypeInv, ReadyInv, NEW th \in Threads, todo[th] # <<>>, NEW ops \in Seq(Op), Then(th, ops),
         \A t \in Tasks : state'[t] = "Ready" =>
           \/ InSeq(t, queue')
           \/ \E k \in 1..Len(ops) : ops[k].op \in {"push", "run", "start"} /\ ops[k].t = t
           \/ /\ state[t] = "Ready" /\ (InSeq(t, queue) => InSeq(t, queue'))
              /\ ~(todo[th][1].op \in {"push", "run", "start"} /\ todo[th][1].t = t)
  PROVE  ReadyInv'
<1>1. todo \in [Threads -> Seq(Op)]
  BY DEF TypeInv
<1>2. SUFFICES ASSUME NEW t \in Tasks, state'[t] = "Ready", ~InSeq(t, queue')
               PROVE  \E x \in Threads : \E i \in Slots(x)' :
                        todo'[x][i].op \in {"push", "run", "start"} /\ todo'[x][i].t = t
  BY DEF ReadyInv, InSeq
<1>3. CASE \E k \in 1..Len(ops) : ops[k].op \in {"push", "run", "start"} /\ ops[k].t = t
  <2>1. PICK k \in 1..Len(ops) : ops[k].op \in {"push", "run", "start"} /\ ops[k].t = t
    BY <1>3
  <2>2. k \in Slots(th)' /\ todo'[th][k] = ops[k]
    BY <1>1, Moved
  <2> QED
    BY <2>1, <2>2
<1>4. CASE /\ state[t] = "Ready" /\ ~InSeq(t, queue)
           /\ ~(todo[th][1].op \in {"push", "run", "start"} /\ todo[th][1].t = t)
  <2>0. PICK x \in Threads : \E i \in Slots(x) :
          todo[x][i].op \in {"push", "run", "start"} /\ todo[x][i].t = t
    BY <1>4 DEF ReadyInv
  <2>1. PICK i \in Slots(x) : todo[x][i].op \in {"push", "run", "start"} /\ todo[x][i].t = t
    BY <2>0
  <2>2. <<x, i>> # <<th, 1>>
    BY <1>4, <2>1
  <2>3. /\ After(th, ops, x, i) \in Slots(x)'
        /\ todo'[x][After(th, ops, x, i)] = todo[x][i]
    BY <1>1, <2>2, Moved
  <2> QED
    BY <2>1, <2>3
<1> QED
  BY <1>2, <1>3, <1>4

-----------------------------------------------------------------------------
(* Steps that make no claim, and steps of the operation that has the claim.   *)

LEMMA FirstSlot ==
  ASSUME TypeInv, NEW th \in Threads, todo[th] # <<>>
  PROVE  1 \in Slots(th)
<1>1. todo[th] \in Seq(Op)
  BY DEF TypeInv
<1> QED
  BY <1>1, EmptySeq DEF Slots

LEMMA NoClaimStep ==
  ASSUME TypeInv, ClaimInv, NEW th \in Threads, todo[th] # <<>>, NEW ops \in Seq(Op), Then(th, ops),
         todo[th][1].op \notin {"push", "run", "start", "insert"},
         \A k \in 1..Len(ops) : ops[k].op \notin Claim \cup {"insert"},
         UNCHANGED queue,
         \/ UNCHANGED state
         \/ \E t \in Tasks : state[t] # "unborn" /\ state' = [state EXCEPT ![t] = "Cancelled"]
  PROVE  ClaimInv'
<1> USE DEF ClaimInv
<1>1. \A t \in Tasks : \/ state'[t] = state[t]
                       \/ state[t] # "unborn" /\ state'[t] = "Cancelled"
  BY DEF TypeInv
<1>2. OneClaim'
  BY ClaimsKept
<1>3. Apart'
  BY ApartKept DEF Apart
<1>4. QueueInv'
  BY <1>1 DEF QueueInv, InSeq
<1>5. SlotInv'
  <2>1. ASSUME NEW x \in Threads, NEW j \in Slots(x) PROVE Fits(todo[x][j], state')
    <3>1. Fits(todo[x][j], state) /\ WellFormed(todo[x][j])
      BY DEF SlotInv, TypeInv
    <3> QED
      BY <1>1, <3>1 DEF Fits, WellFormed
  <2>2. \A k \in 1..Len(ops) : Fits(ops[k], state')
    BY DEF Fits, Claim, Holding
  <2> QED
    BY <2>1, <2>2, SlotsKept
<1>6. SpawnInv'
  <2>1. \A k \in 1..Len(ops) : ops[k].op # "insert" /\ ops[k].op # "push"
    BY DEF Claim, Holding
  <2>2. \A t \in Tasks : state'[t] = "unborn" => state[t] = "unborn"
    BY <1>1
  <2> QED
    BY <2>1, <2>2, SpawnsKept
<1>7. ReadyInv'
  <2>1. \A t \in Tasks : state'[t] = "Ready" => state[t] = "Ready"
    BY <1>1
  <2> QED
    BY <2>1, ReadyKept
<1> QED
  BY <1>2, <1>3, <1>4, <1>5, <1>6, <1>7

LEMMA OwnStep ==
  ASSUME TypeInv, ClaimInv, NEW th \in Threads, todo[th] # <<>>, NEW ops \in Seq(Op), Then(th, ops),
         NEW t \in Tasks, todo[th][1].op \in Claim \ {"push", "spawn"}, todo[th][1].t = t,
         Len(ops) \in 0..1,
         Len(ops) = 1 => /\ ops[1].op # "insert" /\ (ops[1].op \in Claim => ops[1].t = t)
                         /\ Fits(ops[1], state'),
         UNCHANGED queue,
         \A u \in Tasks : u # t => state'[u] = state[u], state'[t] \in TaskState \ {"unborn"},
         state'[t] = "Ready" =>
           Len(ops) = 1 /\ ops[1].op \in {"push", "run", "start"} /\ ops[1].t = t
  PROVE  ClaimInv'
<1>0. /\ \A k, l \in 1..Len(ops) : k = l
      /\ \A k \in 1..Len(ops) : /\ ops[k].op # "insert" /\ (ops[k].op \in Claim => ops[k].t = t)
                                /\ Fits(ops[k], state')
  <2>1. CASE Len(ops) = 0
    BY <2>1
  <2>2. CASE Len(ops) = 1
    BY <2>2
  <2> QED
    BY <2>1, <2>2
<1> USE DEF ClaimInv
<1>2. 1 \in Slots(th)
  BY FirstSlot
<1>3. ASSUME NEW x \in Threads, NEW j \in Slots(x), Claims(todo[x][j], t) PROVE <<x, j>> = <<th, 1>>
  BY <1>2, <1>3 DEF OneClaim, Claims
<1>4. ~InSeq(t, queue)
  BY <1>2 DEF Apart
<1>5. OneClaim'
  BY <1>0, <1>3, ClaimsKept
<1>6. Apart'
  BY <1>0, <1>4, ApartKept DEF Apart
<1>7. QueueInv'
  BY <1>4 DEF QueueInv, InSeq
<1>8. SlotInv'
  <2>1. ASSUME NEW x \in Threads, NEW j \in Slots(x), <<x, j>> # <<th, 1>>
        PROVE  Fits(todo[x][j], state')
    <3>1. Fits(todo[x][j], state) /\ WellFormed(todo[x][j])
      BY DEF SlotInv, TypeInv
    <3>2. CASE todo[x][j].op \notin Claim \cup {"insert"}
      BY <3>2 DEF Fits, Claim, Holding
    <3>3. CASE todo[x][j].op \in Claim
      <4>1. todo[x][j].t # t
        BY <1>3, <2>1, <3>3 DEF Claims
      <4>2. todo[x][j].t \in Tasks
        BY <3>1, <3>3 DEF WellFormed, Claim, Holding
      <4> QED
        BY <3>1, <4>1, <4>2 DEF Fits
    <3>4. CASE todo[x][j].op = "insert"
      <4>1. 2 \in Slots(x) /\ Claims(todo[x][2], todo[x][j].t)
        BY <3>4 DEF SpawnInv, Claims, Claim, Holding
      <4>2. todo[x][j].t # t
        BY <1>3, <4>1
      <4>3. todo[x][j].t \in Tasks
        BY <3>1, <3>4 DEF WellFormed
      <4> QED
        BY <3>1, <4>2, <4>3 DEF Fits
    <3> QED
      BY <3>2, <3>3, <3>4
  <2> QED
    BY <1>0, <2>1, SlotsKept
<1>9. SpawnInv'
  <2>1. \A u \in Tasks : state'[u] = "unborn" => state[u] = "unborn"
    OBVIOUS
  <2>2. todo[th][1].op # "insert"
    BY DEF Claim, Holding
  <2>3. \A k \in 1..Len(ops) : ops[k].op = "push" => state'[ops[k].t] # "unborn"
    BY <1>0 DEF Claim, Holding
  <2> QED
    BY <1>0, <2>1, <2>2, <2>3, SpawnsKept
<1>10. ReadyInv'
  <2>1. ASSUME NEW u \in Tasks, state'[u] = "Ready", u # t
        PROVE  /\ state[u] = "Ready" /\ (InSeq(u, queue) => InSeq(u, queue'))
               /\ ~(todo[th][1].op \in {"push", "run", "start"} /\ todo[th][1].t = u)
    BY <2>1
  <2> QED
    BY <2>1, ReadyKept
<1> QED
  BY <1>5, <1>6, <1>7, <1>8, <1>9, <1>10

-----------------------------------------------------------------------------
(* The operations a step leaves to do, as a sequence with its elements. *)

LEMMA LeavesNone ==
  ASSUME NEW th \in Threads, Then(th, <<>>)
  PROVE  \E ops \in Seq(Op) : Then(th, ops) /\ Len(ops) = 0
BY EmptySeq

LEMMA LeavesOne ==
  ASSUME NEW th \in Threads, NEW o \in Good, Then(th, <<o>>)
  PROVE  \E ops \in Seq(Op) : Then(th, ops) /\ Len(ops) = 1 /\ ops[1] = o
<1>1. <<o>> \in Seq(Op) /\ Len(<<o>>) = 1 /\ <<o>>[1] = o
  BY DEF Good
<1> QED
  BY <1>1

LEMMA LeavesTwo ==
  ASSUME NEW th \in Threads, NEW o \in Good, NEW p \in Good, Then(th, <<o, p>>)
  PROVE  \E ops \in Seq(Op) : Then(th, ops) /\ Len(ops) = 2 /\ ops[1] = o /\ ops[2] = p
<1>1. <<o, p>> \in Seq(Op) /\ Len(<<o, p>>) = 2 /\ <<o, p>>[1] = o /\ <<o, p>>[2] = p
  BY DEF Good
<1> QED
  BY <1>1

LEMMA LeavesThree ==
  ASSUME NEW th \in Threads, NEW o \in Good, NEW p \in Good, NEW q \in Good, Then(th, <<o, p, q>>)
  PROVE  \E ops \in Seq(Op) : /\ Then(th, ops)
                              /\ Len(ops) = 3 /\ ops[1] = o /\ ops[2] = p /\ ops[3] = q
<1> DEFINE ops == <<o, p, q>>
<1>1. ops \in Seq(Op) /\ Len(ops) = 3 /\ ops[1] = o /\ ops[2] = p /\ ops[3] = q
  BY DEF Good
<1>2. Then(th, ops)
  OBVIOUS
<1> HIDE DEF ops
<1> QED
  BY <1>1, <1>2

LEMMA LeavesWakes ==
  ASSUME TypeInv, NEW th \in Threads, Notify(th)
  PROVE  \E ops \in Seq(Op) : Then(th, ops) /\ \A k \in 1..Len(ops) : ops[k].op = "wake"
<1> DEFINE woken == waiters[It(th)]
           l == [i \in 1..Len(woken) |-> Do("wake", woken[i])]
<1>1. It(th) \in Tasks
  BY FirstGood DEF Notify
<1>2. woken \in Seq(Tasks) /\ "wake" \in Names
  BY <1>1 DEF TypeInv, Names
<1>3. l \in Seq(Op) /\ Len(l) = Len(woken)
  BY <1>2, ListTyped
<1>4. \A k \in 1..Len(l) : l[k].op = "wake"
  BY <1>3 DEF Do
<1>5. Then(th, l)
  BY DEF Notify
<1> QED
  BY <1>3, <1>4, <1>5

LEMMA LeavesCancels ==
  ASSUME TypeInv, NEW th \in Threads, CancelKids(th)
  PROVE  \E ops \in Seq(Op) : /\ Then(th, ops)
                              /\ \A k \in 1..Len(ops) : ops[k].op \in {"cancel", "notify"}
<1> DEFINE kids == children[It(th)]
           front == [i \in 1..Len(kids) |-> Do("cancel", kids[i])]
           rest == <<Do("notify", It(th))>>
           l == front \o rest
<1>1. It(th) \in Tasks
  BY FirstGood DEF CancelKids
<1>2. kids \in Seq(Tasks) /\ "cancel" \in Names /\ Do("notify", It(th)) \in Good
  BY <1>1, GoodOps DEF TypeInv, Names
<1>3. rest \in Seq(Op) /\ Len(rest) = 1 /\ \A i \in 1..Len(rest) : rest[i].op = "notify"
  BY <1>2 DEF Good, Do
<1>4. /\ front \in Seq(Op) /\ Len(front) = Len(kids)
      /\ \A i \in 1..Len(front) : front[i].op = "cancel"
  BY <1>2, ListTyped DEF Do
<1>5. Then(th, l)
  BY DEF CancelKids
<1> HIDE DEF rest, front
<1>6. Len(front) \in Nat /\ Len(rest) \in Nat
  BY <1>3, <1>4, LenProperties
<1>7. front \in Seq(Op) /\ rest \in Seq(Op) /\ l = front \o rest
  BY <1>3, <1>4
<1> HIDE DEF l
<1>8. l \in Seq(Op) /\ Len(l) = Len(front) + Len(rest)
  BY <1>7, ConcatProperties
<1>9. \A k \in 1..(Len(front) + Len(rest)) :
         l[k] = IF k <= Len(front) THEN front[k] ELSE rest[k - Len(front)]
  BY <1>7, ConcatProperties
<1>10. ASSUME NEW k \in 1..Len(l) PROVE l[k].op \in {"cancel", "notify"}
  <2>1. CASE k <= Len(front)
    BY <1>4, <1>6, <1>8, <1>9, <2>1
  <2>2. CASE ~(k <= Len(front))
    <3>1. k - Len(front) \in 1..Len(rest) /\ l[k] = rest[k - Len(front)]
      BY <1>6, <1>8, <1>9, <2>2
    <3> QED
      BY <1>3, <3>1
  <2> QED
    BY <2>1, <2>2
<1> QED
  BY <1>5, <1>8, <1>10

-----------------------------------------------------------------------------
(* The steps that make a claim, give one up or take a lock. *)

LEMMA WakeStep ==
  ASSUME Inv, NEW th \in Threads, Wake(th)
  PROVE  LockInv' /\ ClaimInv'
<1> DEFINE t == It(th)
<1>a. TypeInv /\ TasksLock /\ QueueLock /\ ClaimInv /\ NULL \notin Threads
  BY ExecutorAssumption DEF Inv, LockInv
<1>0. At(th, "wake")
  BY DEF Wake
<1>1. /\ todo[th] # <<>> /\ 1 \in Slots(th) /\ todo[th][1].op = "wake" /\ todo[th][1].t = t
      /\ t \in Tasks /\ todo \in [Threads -> Seq(Op)]
  <2>1. t \in Tasks
    BY <1>a, <1>0, FirstGood
  <2>2. todo \in [Threads -> Seq(Op)]
    BY <1>a DEF TypeInv
  <2> QED
    BY <1>a, <1>0, <2>1, <2>2, AtFirst
<1>2. CASE ~Wakable(t)
  <2>1. PICK ops \in Seq(Op) : Then(th, ops) /\ Len(ops) = 0
    BY <1>2, LeavesNone DEF Wake
  <2>0. \A k \in 1..Len(ops) : ops[k].op \notin Claim \cup {"insert", "ready", "unlock"}
    BY <2>1
  <2>2. TasksLock' /\ QueueLock'
    BY <1>a, <1>1, <1>2, <2>0, <2>1, TasksLockKept, QueueLockKept DEF Wake
  <2>3. ClaimInv'
    BY <1>a, <1>1, <2>0, <2>1, NoClaimStep DEF Wake
  <2> QED
    BY <2>2, <2>3 DEF LockInv
<1>3. CASE Wakable(t)
  <2>1. PICK ops \in Seq(Op) : Then(th, ops) /\ Len(ops) = 1 /\ ops[1] = Do("ready", t)
    BY <1>1, <1>3, GoodOps, LeavesOne DEF Wake
  <2>2. /\ \A k \in 1..Len(ops) : k = 1 /\ ops[k].op = "ready" /\ ops[k].t = t
        /\ 1 \in 1..Len(ops)
    BY <2>1 DEF Do
  <2>3. state[t] = "Waiting" /\ tlock = NULL /\ tlock' = th
    BY <1>3 DEF Wakable, Wake
  <2>4. ASSUME NEW x \in Threads, NEW j \in Slots(x) PROVE ~Claims(todo[x][j], t)
    <3>1. Fits(todo[x][j], state) /\ todo[x][j].op # "ready"
      BY <1>a, <2>3 DEF ClaimInv, SlotInv, TasksLock
    <3> QED
      BY <2>3, <3>1 DEF Fits, Claims, Claim, Holding
  <2>5. QueueLock'
    BY <1>a, <1>1, <2>1, <2>2, QueueLockKept DEF Wake
  <2>6. TasksLock'
    <3>1. ASSUME NEW x \in Threads, NEW i \in Slots(x)', todo'[x][i].op = "ready"
          PROVE  x = th /\ i = 1
      <4>1. ~\E j \in Slots(x) : todo'[x][i] = todo[x][j]
        BY <1>a, <2>3, <3>1 DEF TasksLock
      <4> QED
        BY <1>1, <2>1, <2>2, <4>1, Moved
    <3>2. 1 \in Slots(th)' /\ todo'[th][1].op = "ready"
      BY <1>1, <2>1, <2>2, Moved
    <3> QED
      BY <1>a, <2>3, <3>1, <3>2 DEF TasksLock
  <2>7. OneClaim'
    BY <1>a, <1>1, <2>1, <2>2, <2>4, ClaimsKept DEF ClaimInv
  <2>8. state' = state /\ queue' = queue
    BY DEF Wake
  <2>9. ~InSeq(t, queue)
    BY <1>a, <1>1, <2>3 DEF ClaimInv, QueueInv
  <2>10. Apart'
    BY <1>a, <1>1, <2>1, <2>2, <2>8, <2>9, ApartKept DEF ClaimInv, Apart
  <2>11. QueueInv'
    BY <1>a, <2>8 DEF ClaimInv, QueueInv, InSeq
  <2>12. SlotInv'
    <3>1. \A k \in 1..Len(ops) : Fits(ops[k], state')
      BY <2>2, <2>3, <2>8 DEF Fits
    <3> QED
      BY <1>a, <1>1, <2>1, <2>8, <3>1, SlotsKept DEF ClaimInv, SlotInv
  <2>13. SpawnInv'
    BY <1>a, <1>1, <2>1, <2>2, <2>8, SpawnsKept DEF ClaimInv
  <2>14. ReadyInv'
    BY <1>a, <1>1, <2>1, <2>8, ReadyKept DEF ClaimInv
  <2> QED
    BY <2>5, <2>6, <2>7, <2>10, <2>11, <2>12, <2>13, <2>14 DEF ClaimInv, LockInv
<1> QED
  BY <1>2, <1>3

LEMMA MakeReadyStep ==
  ASSUME Inv, NEW th \in Threads, MakeReady(th)
  PROVE  LockInv' /\ ClaimInv'
<1> DEFINE t == It(th)
<1>a. TypeInv /\ TasksLock /\ QueueLock /\ ClaimInv /\ NULL \notin Threads
  BY ExecutorAssumption DEF Inv, LockInv
<1>0. At(th, "ready")
  BY DEF MakeReady
<1>1. /\ todo[th] # <<>> /\ 1 \in Slots(th) /\ todo[th][1].op = "ready" /\ todo[th][1].t = t
      /\ t \in Tasks /\ todo \in [Threads -> Seq(Op)]
  <2>1. t \in Tasks
    BY <1>a, <1>0, FirstGood
  <2>2. todo \in [Threads -> Seq(Op)]
    BY <1>a DEF TypeInv
  <2> QED
    BY <1>a, <1>0, <2>1, <2>2, AtFirst
<1>2. PICK ops \in Seq(Op) : Then(th, ops) /\ Len(ops) = 1 /\ ops[1] = Do("push", t)
  BY <1>1, GoodOps, LeavesOne DEF MakeReady
<1>3. /\ \A k \in 1..Len(ops) : k = 1 /\ ops[k].op = "push" /\ ops[k].t = t
      /\ 1 \in 1..Len(ops)
  BY <1>2 DEF Do
<1>4. QueueLock'
  BY <1>a, <1>1, <1>2, <1>3, QueueLockKept DEF MakeReady
<1>5. TasksLock'
  <2>1. tlock = th /\ tlock' = NULL
    BY <1>a, <1>1 DEF TasksLock, MakeReady
  <2>2. ASSUME NEW x \in Threads, NEW j \in Slots(x), <<x, j>> # <<th, 1>> PROVE todo[x][j].op # "ready"
    BY <1>a, <2>1, <2>2 DEF TasksLock
  <2>3. ASSUME NEW x \in Threads, NEW i \in Slots(x)' PROVE todo'[x][i].op # "ready"
    <3>1. \/ i \in 1..Len(ops) /\ todo'[x][i] = ops[i]
          \/ \E j \in Slots(x) : <<x, j>> # <<th, 1>> /\ todo'[x][i] = todo[x][j]
      BY <1>1, <1>2, Moved
    <3> QED
      BY <1>3, <2>2, <3>1
  <2> QED
    BY <1>a, <2>1, <2>3 DEF TasksLock
<1>6. state' = [state EXCEPT ![t] = "Ready"] /\ state'[t] = "Ready"
  BY <1>a, <1>1 DEF MakeReady, TypeInv
<1>7. Fits(ops[1], state')
  BY <1>3, <1>6 DEF Fits
<1>8. "Ready" \in TaskState \ {"unborn"} /\ "ready" \in Claim \ {"push", "spawn"}
  BY DEF TaskState, Claim, Holding
<1>9. ClaimInv'
  <2>1. todo[th][1].op \in Claim \ {"push", "spawn"} /\ ops[1].op = "push" /\ ops[1].t = t
    BY <1>1, <1>3, <1>8
  <2>2. UNCHANGED queue
    BY DEF MakeReady
  <2>3. /\ \A u \in Tasks : u # t => state'[u] = state[u]
        /\ state'[t] \in TaskState \ {"unborn"} /\ Len(ops) \in 0..1
    BY <1>a, <1>2, <1>6, <1>8 DEF TypeInv
  <2> QED
    BY <1>a, <1>1, <1>2, <1>7, <2>1, <2>2, <2>3, OwnStep
<1> QED
  BY <1>4, <1>5, <1>9 DEF LockInv

LEMMA LocksKept ==
  ASSUME TypeInv, LockInv, NEW th \in Threads, todo[th] # <<>>, NEW ops \in Seq(Op), Then(th, ops),
         todo[th][1].op \notin {"ready", "unlock"},
         \A k \in 1..Len(ops) : ops[k].op \notin {"ready", "unlock"},
         UNCHANGED <<qlock, tlock>>
  PROVE  LockInv'
<1>1. TasksLock'
  BY TasksLockKept DEF LockInv
<1>2. QueueLock'
  BY QueueLockKept DEF LockInv
<1> QED
  BY <1>1, <1>2 DEF LockInv

\* The operations on a task that its claim allows, one after the other.
LEMMA FirstFits ==
  ASSUME Inv, NEW th \in Threads, NEW op, At(th, op)
  PROVE  /\ TypeInv /\ LockInv /\ ClaimInv
         /\ todo[th] # <<>> /\ 1 \in Slots(th) /\ todo[th][1].op = op /\ todo[th][1].t = It(th)
         /\ todo[th][1] \in Good /\ Fits(todo[th][1], state)
         /\ op \notin {"turn", "unlock", "event"} => It(th) \in Tasks /\ state[It(th)] \in TaskState
         /\ op \in {"join", "check", "link"} => Other(th) \in Tasks
<1>1. TypeInv /\ LockInv /\ ClaimInv
  BY DEF Inv
<1>2. /\ todo[th] # <<>> /\ 1 \in Slots(th) /\ todo[th][1].op = op /\ todo[th][1].t = It(th)
      /\ todo[th][1] \in Good
  BY <1>1, AtFirst DEF Good
<1>3. Fits(todo[th][1], state)
  BY <1>1, <1>2 DEF ClaimInv, SlotInv
<1>4. /\ op \notin {"turn", "unlock", "event"} => It(th) \in Tasks
      /\ op \in {"join", "check", "link"} => Other(th) \in Tasks
  BY <1>1, FirstGood
<1>5. It(th) \in Tasks => state[It(th)] \in TaskState
  BY <1>1 DEF TypeInv
<1> QED
  BY <1>1, <1>2, <1>3, <1>4, <1>5

LEMMA OwnOneStep ==
  ASSUME Inv, NEW th \in Threads, NEW op \in Claim \ {"push", "spawn", "ready"}, At(th, op),
         NEW o \in Good, Then(th, <<o>>), o.op \notin {"insert", "ready", "unlock"},
         o.op \in Claim => o.t = It(th),
         UNCHANGED <<queue, qlock, tlock>>,
         Fits(o, state'),
         \A u \in Tasks : u # It(th) => state'[u] = state[u],
         state'[It(th)] \in TaskState \ {"unborn"},
         state'[It(th)] = "Ready" => o.op \in {"push", "run", "start"} /\ o.t = It(th)
  PROVE  LockInv' /\ ClaimInv'
<1>1. PICK ops \in Seq(Op) : Then(th, ops) /\ Len(ops) = 1 /\ ops[1] = o
  BY LeavesOne
<1>2. op \notin {"turn", "unlock", "event", "ready"}
  BY DEF Claim, Holding
<1>3. /\ TypeInv /\ LockInv /\ ClaimInv /\ todo[th] # <<>>
      /\ todo[th][1].op = op /\ todo[th][1].t = It(th) /\ It(th) \in Tasks
  BY <1>2, FirstFits
<1>4. LockInv'
  BY <1>1, <1>2, <1>3, LocksKept
<1>5. ClaimInv'
  BY <1>1, <1>3, OwnStep
<1> QED
  BY <1>4, <1>5

LEMMA OwnNoneStep ==
  ASSUME Inv, NEW th \in Threads, NEW op \in Claim \ {"push", "spawn", "ready"}, At(th, op),
         Then(th, <<>>), UNCHANGED <<queue, qlock, tlock>>,
         \A u \in Tasks : u # It(th) => state'[u] = state[u],
         state'[It(th)] \in TaskState \ {"unborn", "Ready"}
  PROVE  LockInv' /\ ClaimInv'
<1>1. PICK ops \in Seq(Op) : Then(th, ops) /\ Len(ops) = 0
  BY LeavesNone
<1>2. op \notin {"turn", "unlock", "event", "ready"}
  BY DEF Claim, Holding
<1>3. /\ TypeInv /\ LockInv /\ ClaimInv /\ todo[th] # <<>>
      /\ todo[th][1].op = op /\ todo[th][1].t = It(th) /\ It(th) \in Tasks
  BY <1>2, FirstFits
<1>4. /\ \A k \in 1..Len(ops) : ops[k].op \notin {"ready", "unlock"}
      /\ Len(ops) \in 0..1 /\ Len(ops) # 1
      /\ state'[It(th)] \in TaskState \ {"unborn"} /\ state'[It(th)] # "Ready"
  BY <1>1
<1>5. LockInv'
  BY <1>1, <1>2, <1>3, <1>4, LocksKept
<1>6. ClaimInv'
  BY <1>1, <1>3, <1>4, OwnStep
<1> QED
  BY <1>5, <1>6

\* run_task and the task's poll.
LEMMA RunSteps ==
  ASSUME Inv, NEW th \in Threads,
         \/ Run(th) \/ StartTask(th) \/ Poll(th) \/ Join(th) \/ Check(th)
         \/ CompleteTask(th) \/ Park(th)
  PROVE  LockInv' /\ ClaimInv'
<1> DEFINE t == It(th)
<1>0. \A op \in {"run", "start", "poll", "join", "check", "complete", "park"} :
        op \in Claim \ {"push", "spawn", "ready"}
  BY DEF Claim, Holding
<1>1. CASE Run(th)
  <2>1. At(th, "run")
    BY <1>1 DEF Run
  <2>2. t \in Tasks /\ state[t] \in {"Ready", "Cancelled"} /\ UNCHANGED <<state, queue, qlock, tlock>>
    BY <1>1, <2>1, FirstFits DEF Fits, Run
  <2>3. CASE state[t] = "Ready"
    <3>1. Then(th, <<Do("start", t)>>) /\ Do("start", t) \in Good
      BY <1>1, <2>2, <2>3, GoodOps DEF Run
    <3>2. /\ Do("start", t).op = "start" /\ Do("start", t).t = t /\ Fits(Do("start", t), state')
      BY <2>2 DEF Do, Fits
    <3> QED
      BY <1>0, <2>1, <2>2, <3>1, <3>2, OwnOneStep DEF TaskState
  <2>4. CASE state[t] # "Ready"
    <3>1. Then(th, <<>>)
      BY <1>1, <2>4 DEF Run
    <3> QED
      BY <1>0, <2>1, <2>2, <2>4, <3>1, OwnNoneStep DEF TaskState
  <2> QED
    BY <2>3, <2>4
<1>2. CASE StartTask(th)
  <2>1. At(th, "start") /\ Then(th, <<Do("poll", t)>>) /\ UNCHANGED <<queue, qlock, tlock>>
    BY <1>2 DEF StartTask
  <2>0. t \in Tasks /\ TypeInv
    BY <2>1, FirstFits
  <2>2. /\ t \in Tasks /\ TypeInv /\ Do("poll", t) \in Good
        /\ Do("poll", t).op = "poll" /\ Do("poll", t).t = t
    BY <2>0, GoodOps DEF Do
  <2>3. state'[t] = "Running" /\ \A u \in Tasks : u # t => state'[u] = state[u]
    BY <1>2, <2>2 DEF StartTask, TypeInv
  <2>4. Fits(Do("poll", t), state')
    BY <2>2, <2>3 DEF Fits
  <2> QED
    BY <1>0, <2>1, <2>2, <2>3, <2>4, OwnOneStep DEF TaskState
<1>3. CASE Poll(th)
  <2>1. At(th, "poll") /\ UNCHANGED <<state, queue, qlock, tlock>>
    BY <1>3 DEF Poll
  <2>2. t \in Tasks /\ state[t] \in {"Running", "Cancelled"}
    BY <2>1, FirstFits DEF Fits
  <2>3. \E o \in Good : Then(th, <<o>>) /\ o.op \in {"complete", "park", "join"} /\ o.t = t
    <3>1. \A u \in Tasks : /\ Do("complete", t) \in Good /\ Do("park", t) \in Good
                           /\ With("join", t, u) \in Good
      BY <2>2, GoodOps
    <3>2. \/ Then(th, <<Do("complete", t)>>) \/ Then(th, <<Do("park", t)>>)
          \/ \E u \in Tasks : Then(th, <<With("join", t, u)>>)
      BY <1>3, <2>2, ExecutorAssumption DEF Poll
    <3> QED
      BY <2>2, <3>1, <3>2 DEF Do, With
  <2>4. PICK o \in Good : Then(th, <<o>>) /\ o.op \in {"complete", "park", "join"} /\ o.t = t
    BY <2>3
  <2>5. Fits(o, state')
    BY <2>1, <2>2, <2>4 DEF Fits
  <2> QED
    BY <1>0, <2>1, <2>2, <2>4, <2>5, OwnOneStep DEF TaskState
<1>4. CASE Join(th)
  <2>1. /\ At(th, "join") /\ UNCHANGED <<state, queue, qlock, tlock>>
        /\ Then(th, <<With("check", t, Other(th))>>)
    BY <1>4 DEF Join
  <2>2. t \in Tasks /\ Other(th) \in Tasks /\ state[t] \in {"Running", "Cancelled"}
    BY <2>1, FirstFits DEF Fits
  <2> DEFINE o == With("check", t, Other(th))
  <2>3. o \in Good /\ o.op = "check" /\ o.t = t
    BY <2>2, GoodOps DEF With
  <2> HIDE DEF o
  <2>4. Fits(o, state')
    BY <2>1, <2>2, <2>3 DEF Fits
  <2>5. Then(th, <<o>>)
    BY <2>1 DEF o
  <2> QED
    BY <1>0, <2>1, <2>2, <2>3, <2>4, <2>5, OwnOneStep DEF TaskState
<1>5. CASE Check(th)
  <2> DEFINE o == Do(IF Complete(Other(th)) THEN "complete" ELSE "park", t)
  <2>1. At(th, "check") /\ Then(th, <<o>>) /\ UNCHANGED <<state, queue, qlock, tlock>>
    BY <1>5 DEF Check
  <2>2. t \in Tasks /\ state[t] \in {"Running", "Cancelled"}
    BY <2>1, FirstFits DEF Fits
  <2>3. o \in Good /\ o.op \in {"complete", "park"} /\ o.t = t
    BY <2>2, GoodOps DEF Do
  <2> HIDE DEF o
  <2>4. Fits(o, state')
    BY <2>1, <2>2, <2>3 DEF Fits
  <2> QED
    BY <1>0, <2>1, <2>2, <2>3, <2>4, OwnOneStep DEF TaskState
<1>6. CASE CompleteTask(th)
  <2>1. At(th, "complete") /\ Then(th, <<Do("notify", t)>>) /\ UNCHANGED <<queue, qlock, tlock>>
    BY <1>6 DEF CompleteTask
  <2>0. t \in Tasks /\ TypeInv
    BY <2>1, FirstFits
  <2>2. t \in Tasks /\ TypeInv /\ Do("notify", t) \in Good /\ Do("notify", t).op = "notify"
    BY <2>0, GoodOps DEF Do
  <2>3. state'[t] = "Completed" /\ \A u \in Tasks : u # t => state'[u] = state[u]
    BY <1>6, <2>2 DEF CompleteTask, TypeInv
  <2>4. Fits(Do("notify", t), state') /\ "notify" \notin Claim
    BY <2>2 DEF Fits, Claim, Holding
  <2> QED
    BY <1>0, <2>1, <2>2, <2>3, <2>4, OwnOneStep DEF TaskState
<1>7. CASE Park(th)
  <2>1. At(th, "park") /\ Then(th, <<>>) /\ UNCHANGED <<queue, qlock, tlock>>
    BY <1>7 DEF Park
  <2>2. t \in Tasks /\ TypeInv
    BY <2>1, FirstFits
  <2>3. state'[t] = "Waiting" /\ \A u \in Tasks : u # t => state'[u] = state[u]
    BY <1>7, <2>2 DEF Park, TypeInv
  <2> QED
    BY <1>0, <2>1, <2>2, <2>3, OwnNoneStep DEF TaskState
<1> QED
  BY <1>1, <1>2, <1>3, <1>4, <1>5, <1>6, <1>7

LEMMA NoClaimOps ==
  ASSUME Inv, NEW th \in Threads, NEW op, At(th, op),
         op \notin {"push", "run", "start", "insert", "ready", "unlock"},
         NEW ops \in Seq(Op), Then(th, ops),
         \A k \in 1..Len(ops) : ops[k].op \notin Claim \cup {"insert", "unlock"},
         UNCHANGED <<queue, qlock, tlock>>,
         \/ UNCHANGED state
         \/ \E t \in Tasks : state[t] # "unborn" /\ state' = [state EXCEPT ![t] = "Cancelled"]
  PROVE  LockInv' /\ ClaimInv'
<1>1. TypeInv /\ LockInv /\ ClaimInv /\ todo[th] # <<>> /\ todo[th][1].op = op
  BY FirstFits
<1>2. \A k \in 1..Len(ops) : /\ ops[k].op \notin {"ready", "unlock"}
                             /\ ops[k].op \notin Claim \cup {"insert"}
  BY DEF Claim
<1>3. LockInv'
  BY <1>1, <1>2, LocksKept
<1>4. ClaimInv'
  BY <1>1, <1>2, NoClaimStep
<1> QED
  BY <1>3, <1>4

\* Waking, joining loops, events, cancelling and linking claim nothing.
LEMMA OtherSteps ==
  ASSUME Inv, NEW th \in Threads,
         \/ Notify(th) \/ Event(th) \/ BlockOn(th) \/ Cancel(th) \/ CancelKids(th) \/ Link(th)
  PROVE  LockInv' /\ ClaimInv'
<1> DEFINE t == It(th)
           Free == {"wake", "turn", "block_on", "event", "kids", "cancel", "notify"}
<1>0. \A op \in Free : op \notin Claim \cup {"insert", "unlock"}
  BY DEF Claim, Holding
<1>1. CASE Notify(th)
  <2>1. At(th, "notify") /\ UNCHANGED <<state, queue, qlock, tlock>>
    BY <1>1 DEF Notify
  <2>2. PICK ops \in Seq(Op) : Then(th, ops) /\ \A k \in 1..Len(ops) : ops[k].op = "wake"
    BY <1>1, LeavesWakes DEF Inv
  <2>3. \A k \in 1..Len(ops) : ops[k].op \notin Claim \cup {"insert", "unlock"}
    BY <1>0, <2>2
  <2> QED
    BY <2>1, <2>2, <2>3, NoClaimOps
<1>2. CASE Event(th)
  <2>1. At(th, "event") /\ UNCHANGED <<state, queue, qlock, tlock>>
    BY <1>2 DEF Event
  <2>2. Head(todo[th]) \in Good /\ Head(todo[th]).op = "event" /\ TypeInv
    BY <2>1, FirstGood DEF At, Inv
  <2>3. PICK u \in armed : Then(th, <<Do("wake", u), Head(todo[th])>>)
    BY <1>2 DEF Event
  <2>4. u \in Tasks
    BY <2>2 DEF TypeInv
  <2>5. Do("wake", u) \in Good /\ Do("wake", u).op = "wake"
    BY <2>4, GoodOps DEF Do
  <2>6. PICK ops \in Seq(Op) : /\ Then(th, ops) /\ Len(ops) = 2
                               /\ ops[1] = Do("wake", u) /\ ops[2] = Head(todo[th])
    BY <2>2, <2>3, <2>5, LeavesTwo
  <2>7. \A k \in 1..Len(ops) : ops[k].op \in Free
    BY <2>2, <2>5, <2>6
  <2> QED
    BY <1>0, <2>1, <2>6, <2>7, NoClaimOps
<1>3. CASE BlockOn(th)
  <2>1. At(th, "block_on") /\ UNCHANGED <<state, queue, qlock, tlock>>
    BY <1>3 DEF BlockOn
  <2>2. Head(todo[th]) \in Good /\ Head(todo[th]).op = "block_on"
    BY <2>1, FirstGood DEF At, Inv
  <2>3. Do("turn", NULL) \in Good /\ Do("turn", NULL).op = "turn"
    BY GoodOps DEF Do
  <2>4. Then(th, <<>>) \/ Then(th, <<Do("turn", NULL), Head(todo[th])>>)
    BY <1>3 DEF BlockOn
  <2>5. \E ops \in Seq(Op) : Then(th, ops) /\ \A k \in 1..Len(ops) : ops[k].op \in Free
    <3>1. CASE Then(th, <<>>)
      <4>1. PICK ops \in Seq(Op) : Then(th, ops) /\ Len(ops) = 0
        BY <3>1, LeavesNone
      <4>2. \A k \in 1..Len(ops) : ops[k].op \in Free
        BY <4>1
      <4> QED
        BY <4>1, <4>2
    <3>2. CASE Then(th, <<Do("turn", NULL), Head(todo[th])>>)
      <4>1. PICK ops \in Seq(Op) : /\ Then(th, ops) /\ Len(ops) = 2
                                   /\ ops[1] = Do("turn", NULL) /\ ops[2] = Head(todo[th])
        BY <2>2, <2>3, <3>2, LeavesTwo
      <4>2. \A k \in 1..Len(ops) : ops[k].op \in Free
        BY <2>2, <2>3, <4>1
      <4> QED
        BY <4>1, <4>2
    <3> QED
      BY <2>4, <3>1, <3>2
  <2>6. PICK ops \in Seq(Op) : Then(th, ops) /\ \A k \in 1..Len(ops) : ops[k].op \in Free
    BY <2>5
  <2> QED
    BY <1>0, <2>1, <2>6, NoClaimOps
<1>4. CASE Cancel(th)
  <2>1. At(th, "cancel") /\ UNCHANGED <<queue, qlock, tlock>>
    BY <1>4 DEF Cancel
  <2>2. t \in Tasks
    BY <2>1, FirstFits
  <2>3. CASE state[t] = "unborn"
    <3>1. Then(th, <<>>) /\ UNCHANGED state
      BY <1>4, <2>3 DEF Cancel
    <3>2. PICK ops \in Seq(Op) : Then(th, ops) /\ Len(ops) = 0
      BY <3>1, LeavesNone
    <3>3. \A k \in 1..Len(ops) : ops[k].op \notin Claim \cup {"insert", "unlock"}
      BY <3>2
    <3> QED
      BY <2>1, <3>1, <3>2, <3>3, NoClaimOps
  <2>4. CASE state[t] # "unborn"
    <3>1. Then(th, <<Do("kids", t)>>) /\ state' = [state EXCEPT ![t] = "Cancelled"]
      BY <1>4, <2>4 DEF Cancel
    <3>2. Do("kids", t) \in Good /\ Do("kids", t).op = "kids"
      BY <2>2, GoodOps DEF Do
    <3>3. PICK ops \in Seq(Op) : Then(th, ops) /\ Len(ops) = 1 /\ ops[1] = Do("kids", t)
      BY <3>1, <3>2, LeavesOne
    <3>4. \A k \in 1..Len(ops) : ops[k].op \in Free
      BY <3>2, <3>3
    <3> QED
      BY <1>0, <2>1, <2>2, <2>4, <3>1, <3>3, <3>4, NoClaimOps
  <2> QED
    BY <2>3, <2>4
<1>5. CASE CancelKids(th)
  <2>1. At(th, "kids") /\ UNCHANGED <<state, queue, qlock, tlock>>
    BY <1>5 DEF CancelKids
  <2>2. PICK ops \in Seq(Op) : Then(th, ops) /\ \A k \in 1..Len(ops) : ops[k].op \in {"cancel", "notify"}
    BY <1>5, LeavesCancels DEF Inv
  <2>3. \A k \in 1..Len(ops) : ops[k].op \notin Claim \cup {"insert", "unlock"}
    BY <1>0, <2>2
  <2> QED
    BY <2>1, <2>2, <2>3, NoClaimOps
<1>6. CASE Link(th)
  <2>1. At(th, "link") /\ Then(th, <<>>) /\ UNCHANGED <<state, queue, qlock, tlock>>
    BY <1>6 DEF Link
  <2>2. PICK ops \in Seq(Op) : Then(th, ops) /\ Len(ops) = 0
    BY <2>1, LeavesNone
  <2>3. \A k \in 1..Len(ops) : ops[k].op \notin Claim \cup {"insert", "unlock"}
    BY <2>2
  <2> QED
    BY <2>1, <2>2, <2>3, NoClaimOps
<1> QED
  BY <1>1, <1>2, <1>3, <1>4, <1>5, <1>6

\* What enters the queue leaves its hand; what leaves the queue enters one.
LEMMA PushStep ==
  ASSUME Inv, NEW th \in Threads, Push(th)
  PROVE  LockInv' /\ ClaimInv'
<1> DEFINE t == It(th)
<1>1. /\ TypeInv /\ LockInv /\ ClaimInv
      /\ todo[th] # <<>> /\ 1 \in Slots(th) /\ todo[th][1].op = "push" /\ todo[th][1].t = t
      /\ t \in Tasks /\ Fits(todo[th][1], state)
  BY FirstFits DEF Push
<1>2. PICK ops \in Seq(Op) : Then(th, ops) /\ Len(ops) = 0
  BY LeavesNone DEF Push
<1>3. /\ \A k \in 1..Len(ops) : /\ ops[k].op \notin Claim \cup {"insert", "ready", "unlock"}
                                /\ Fits(ops[k], state')
      /\ "push" \in Claim
  BY <1>2 DEF Claim, Holding
<1>4. state' = state /\ queue' = Append(queue, t) /\ UNCHANGED <<qlock, tlock>>
  BY DEF Push
<1>5. state[t] \in {"Ready", "Cancelled"}
  <2>1. state[t] # "unborn"
    BY <1>1 DEF ClaimInv, SpawnInv
  <2> QED
    BY <1>1, <2>1 DEF Fits
<1>6. /\ Len(queue) \in Nat /\ Len(queue') = Len(queue) + 1
      /\ \A i \in 1..Len(queue) : queue'[i] = queue[i]
      /\ queue'[Len(queue) + 1] = t
  BY <1>1, <1>4, AppendProperties, LenProperties DEF TypeInv
<1>7. \A u \in Tasks : InSeq(u, queue') <=> InSeq(u, queue) \/ u = t
  <2>1. ASSUME NEW u \in Tasks, InSeq(u, queue') PROVE InSeq(u, queue) \/ u = t
    BY <1>6, <2>1 DEF InSeq
  <2>2. ASSUME NEW u \in Tasks, InSeq(u, queue) \/ u = t PROVE InSeq(u, queue')
    BY <1>6, <2>2 DEF InSeq
  <2> QED
    BY <2>1, <2>2
<1>8. ~InSeq(t, queue)
  BY <1>1, <1>3 DEF ClaimInv, Apart
<1>9. ASSUME NEW x \in Threads, NEW j \in Slots(x), <<x, j>> # <<th, 1>>, todo[x][j].op \in Claim
      PROVE  todo[x][j].t # t /\ todo[x][j].t \in Tasks
  <2>1. todo[x][j].t # t
    BY <1>1, <1>3, <1>9 DEF ClaimInv, OneClaim, Claims
  <2>2. WellFormed(todo[x][j])
    BY <1>1 DEF TypeInv
  <2> QED
    BY <1>9, <2>1, <2>2 DEF WellFormed, Claim, Holding
<1>10. LockInv'
  BY <1>1, <1>2, <1>3, <1>4, LocksKept
<1>11. OneClaim'
  BY <1>1, <1>2, <1>3, ClaimsKept DEF ClaimInv
<1>12. Apart'
  <2>1. \A x \in Threads : \A j \in Slots(x) :
          <<x, j>> # <<th, 1>> /\ todo[x][j].op \in Claim => ~InSeq(todo[x][j].t, queue')
    BY <1>1, <1>7, <1>9 DEF ClaimInv, Apart
  <2> QED
    BY <1>1, <1>2, <1>3, <2>1, ApartKept
<1>13. QueueInv'
  <2>1. ASSUME NEW i \in 1..Len(queue'), NEW j \in 1..Len(queue'), queue'[i] = queue'[j] PROVE i = j
    <3>1. \A k \in 1..Len(queue) : queue[k] # t
      BY <1>8 DEF InSeq
    <3> QED
      BY <1>1, <1>6, <2>1, <3>1 DEF ClaimInv, QueueInv
  <2>2. \A u \in Tasks : InSeq(u, queue') => state'[u] \in {"Ready", "Cancelled"}
    BY <1>1, <1>4, <1>5, <1>7 DEF ClaimInv, QueueInv
  <2> QED
    BY <2>1, <2>2 DEF QueueInv, InSeq
<1>14. SlotInv'
  BY <1>1, <1>2, <1>3, <1>4, SlotsKept DEF ClaimInv, SlotInv
<1>15. SpawnInv'
  BY <1>1, <1>2, <1>3, <1>4, SpawnsKept DEF ClaimInv
<1>16. ReadyInv'
  <2>1. ASSUME NEW u \in Tasks, state'[u] = "Ready", ~InSeq(u, queue')
        PROVE  /\ state[u] = "Ready" /\ (InSeq(u, queue) => InSeq(u, queue'))
               /\ ~(todo[th][1].op \in {"push", "run", "start"} /\ todo[th][1].t = u)
    BY <1>1, <1>4, <1>7, <2>1
  <2> QED
    BY <1>1, <1>2, <2>1, ReadyKept DEF ClaimInv
<1> QED
  BY <1>10, <1>11, <1>12, <1>13, <1>14, <1>15, <1>16 DEF ClaimInv

LEMMA TurnStep ==
  ASSUME Inv, NEW th \in Threads, Turn(th)
  PROVE  LockInv' /\ ClaimInv'
<1>1. /\ TypeInv /\ LockInv /\ ClaimInv /\ NULL \notin Threads
      /\ todo[th] # <<>> /\ 1 \in Slots(th) /\ todo[th][1].op = "turn"
      /\ todo \in [Threads -> Seq(Op)]
  BY FirstFits, ExecutorAssumption DEF Turn, TypeInv
<1>2. qlock = NULL /\ qlock' = th /\ UNCHANGED <<state, tlock>>
  BY DEF Turn, QueueFree
<1>3. \A x \in Threads : \A j \in Slots(x) : todo[x][j].op # "unlock"
  BY <1>1, <1>2 DEF LockInv, QueueLock
<1>4. ASSUME NEW ops \in Seq(Op), Then(th, ops), NEW n \in 1..Len(ops),
             \A k \in 1..Len(ops) : (ops[k].op = "unlock") = (k = n)
      PROVE  QueueLock'
  <2>1. ASSUME NEW x \in Threads, NEW i \in Slots(x)', todo'[x][i].op = "unlock"
        PROVE  x = th /\ i = n
    <3>1. \/ x = th /\ i \in 1..Len(ops) /\ todo'[x][i] = ops[i]
          \/ \E j \in Slots(x) : todo'[x][i] = todo[x][j]
      BY <1>1, <1>4, Moved
    <3> QED
      BY <1>3, <1>4, <2>1, <3>1
  <2>2. n \in Slots(th)' /\ todo'[th][n].op = "unlock"
    <3>1. n \in Slots(th)' /\ todo'[th][n] = ops[n]
      BY <1>1, <1>4, Moved
    <3> QED
      BY <1>4, <3>1
  <2> QED
    BY <1>2, <2>1, <2>2 DEF QueueLock
<1>5. ASSUME queue = <<>> PROVE LockInv' /\ ClaimInv'
  <2>1. Do("unlock", NULL) \in Good /\ Do("unlock", NULL).op = "unlock"
    BY GoodOps DEF Do
  <2>2. PICK ops \in Seq(Op) : Then(th, ops) /\ Len(ops) = 1 /\ ops[1] = Do("unlock", NULL)
    BY <1>5, <2>1, LeavesOne DEF Turn
  <2>3. /\ 1 \in 1..Len(ops) /\ \A k \in 1..Len(ops) : k = 1 /\ ops[k].op = "unlock"
        /\ \A k \in 1..Len(ops) : ops[k].op \notin Claim \cup {"insert", "ready"}
    BY <2>1, <2>2 DEF Claim, Holding
  <2>4. QueueLock'
    <3>1. 1 \in 1..Len(ops) /\ \A k \in 1..Len(ops) : (ops[k].op = "unlock") = (k = 1)
      BY <2>3
    <3> QED
      BY <1>4, <2>2, <3>1
  <2>5. TasksLock'
    BY <1>1, <1>2, <2>2, <2>3, TasksLockKept DEF LockInv
  <2>6. ClaimInv'
    <3>1. UNCHANGED queue
      BY <1>5 DEF Turn
    <3> QED
      BY <1>1, <1>2, <2>2, <2>3, <3>1, NoClaimStep
  <2> QED
    BY <2>4, <2>5, <2>6 DEF LockInv
<1>6. ASSUME queue # <<>> PROVE LockInv' /\ ClaimInv'
  <2> DEFINE t == Head(queue)
  <2>1. /\ t \in Tasks /\ Len(queue) \in Nat /\ Len(queue) > 0 /\ t = queue[1]
        /\ queue' = Tail(queue) /\ Len(queue') = Len(queue) - 1
        /\ \A i \in 1..Len(queue') : queue'[i] = queue[i + 1]
    <3>1. queue \in Seq(Tasks) /\ queue' = Tail(queue)
      BY <1>1, <1>6 DEF TypeInv, Turn
    <3> QED
      BY <1>6, <3>1, HeadTailProperties, EmptySeq
  <2> HIDE DEF t
  <2>2. /\ Do("run", t) \in Good /\ Do("run", t).op = "run" /\ Do("run", t).t = t
        /\ Do("unlock", NULL) \in Good /\ Do("unlock", NULL).op = "unlock"
    BY <2>1, GoodOps DEF Do
  <2>3. Then(th, <<Do("run", t), Do("unlock", NULL)>>)
    BY <1>6 DEF Turn, t
  <2>4. PICK ops \in Seq(Op) : /\ Then(th, ops) /\ Len(ops) = 2
                               /\ ops[1] = Do("run", t) /\ ops[2] = Do("unlock", NULL)
    BY <2>2, <2>3, LeavesTwo
  <2>5. /\ 1 \in 1..Len(ops) /\ 2 \in 1..Len(ops) /\ \A k \in 1..Len(ops) : k = 1 \/ k = 2
        /\ ops[1].op = "run" /\ ops[1].t = t /\ ops[2].op = "unlock"
        /\ "run" \in Claim /\ "unlock" \notin Claim
    BY <2>2, <2>4 DEF Claim, Holding
  <2>6. \A k \in 1..Len(ops) :
          /\ ops[k].op \in {"run", "unlock"}
          /\ (ops[k].op = "unlock") = (k = 2)
          /\ ops[k].op \in Claim => k = 1 /\ ops[k].t = t
    BY <2>5
  <2>7. InSeq(t, queue) /\ state[t] \in {"Ready", "Cancelled"}
    <3>1. InSeq(t, queue)
      BY <2>1 DEF InSeq
    <3> QED
      BY <1>1, <2>1, <3>1 DEF ClaimInv, QueueInv
  <2>8. ~InSeq(t, queue') /\ \A u \in Tasks : /\ InSeq(u, queue') => InSeq(u, queue)
                                              /\ InSeq(u, queue) /\ u # t => InSeq(u, queue')
    <3>1. ASSUME NEW i \in 1..Len(queue') PROVE i + 1 \in 1..Len(queue) /\ queue'[i] = queue[i + 1] /\ i + 1 # 1
      BY <2>1
    <3>2. ~InSeq(t, queue')
      <4>1. ASSUME NEW i \in 1..Len(queue'), queue'[i] = t PROVE FALSE
        <5>1. queue[i + 1] = queue[1] /\ 1 \in 1..Len(queue)
          BY <2>1, <3>1, <4>1
        <5> QED
          BY <1>1, <3>1, <5>1 DEF ClaimInv, QueueInv
      <4> QED
        BY <4>1 DEF InSeq
    <3>3. ASSUME NEW u \in Tasks, InSeq(u, queue') PROVE InSeq(u, queue)
      BY <3>1, <3>3 DEF InSeq
    <3>4. ASSUME NEW u \in Tasks, InSeq(u, queue), u # t PROVE InSeq(u, queue')
      <4>1. PICK i \in 1..Len(queue) : queue[i] = u
        BY <3>4 DEF InSeq
      <4>2. i - 1 \in 1..Len(queue') /\ queue'[i - 1] = queue[(i - 1) + 1] /\ (i - 1) + 1 = i
        BY <2>1, <3>4, <4>1
      <4> QED
        BY <4>1, <4>2 DEF InSeq
    <3> QED
      BY <3>2, <3>3, <3>4
  <2>9. QueueLock'
    <3>1. 2 \in 1..Len(ops) /\ \A k \in 1..Len(ops) : (ops[k].op = "unlock") = (k = 2)
      BY <2>5, <2>6
    <3> QED
      BY <1>4, <2>4, <3>1
  <2>10. TasksLock'
    BY <1>1, <1>2, <2>4, <2>6, TasksLockKept DEF LockInv
  <2>11. ASSUME NEW x \in Threads, NEW j \in Slots(x), todo[x][j].op \in Claim
         PROVE  todo[x][j].t # t /\ ~InSeq(todo[x][j].t, queue')
    <3>1. ~InSeq(todo[x][j].t, queue) /\ WellFormed(todo[x][j])
      BY <1>1, <2>11 DEF ClaimInv, Apart, TypeInv
    <3>2. todo[x][j].t \in Tasks
      BY <2>11, <3>1 DEF WellFormed, Claim, Holding
    <3> QED
      BY <2>7, <2>8, <3>1, <3>2
  <2>12. OneClaim'
    <3>1. \A k, l \in 1..Len(ops) : ops[k].op \in Claim /\ ops[l].op \in Claim => k = l
      BY <2>6
    <3>2. \A k \in 1..Len(ops) : ops[k].op \in Claim =>
            \A x \in Threads : \A j \in Slots(x) : ~Claims(todo[x][j], ops[k].t)
      BY <2>6, <2>11 DEF Claims
    <3> QED
      BY <1>1, <2>4, <3>1, <3>2, ClaimsKept DEF ClaimInv
  <2>13. Apart'
    BY <1>1, <2>4, <2>6, <2>8, <2>11, ApartKept
  <2>14. QueueInv'
    <3>1. ASSUME NEW i \in 1..Len(queue'), NEW j \in 1..Len(queue'), queue'[i] = queue'[j] PROVE i = j
      <4>1. /\ i + 1 \in 1..Len(queue) /\ j + 1 \in 1..Len(queue) /\ queue[i + 1] = queue[j + 1]
        BY <2>1, <3>1
      <4>2. i + 1 = j + 1
        BY <1>1, <4>1 DEF ClaimInv, QueueInv
      <4> QED
        BY <4>2
    <3>2. \A u \in Tasks : InSeq(u, queue') => state'[u] \in {"Ready", "Cancelled"}
      BY <1>1, <1>2, <2>8 DEF ClaimInv, QueueInv
    <3> QED
      BY <3>1, <3>2 DEF QueueInv, InSeq
  <2>15. SlotInv'
    <3>1. \A k \in 1..Len(ops) : Fits(ops[k], state')
      <4>1. Fits(ops[1], state') /\ Fits(ops[2], state')
        BY <1>2, <2>5, <2>7 DEF Fits
      <4> QED
        BY <2>5, <4>1
    <3> QED
      BY <1>1, <1>2, <2>4, <3>1, SlotsKept DEF ClaimInv, SlotInv
  <2>16. SpawnInv'
    <3>1. \A k \in 1..Len(ops) : ops[k].op # "insert" /\ ops[k].op # "push"
      BY <2>6
    <3> QED
      BY <1>1, <1>2, <2>4, <3>1, SpawnsKept DEF ClaimInv
  <2>17. ReadyInv'
    <3>1. ASSUME NEW u \in Tasks, state'[u] = "Ready", u # t
          PROVE  /\ state[u] = "Ready" /\ (InSeq(u, queue) => InSeq(u, queue'))
                 /\ ~(todo[th][1].op \in {"push", "run", "start"} /\ todo[th][1].t = u)
      BY <1>1, <1>2, <2>8, <3>1
    <3>2. \E k \in 1..Len(ops) : ops[k].op \in {"push", "run", "start"} /\ ops[k].t = t
      BY <2>5
    <3> QED
      BY <1>1, <2>4, <3>1, <3>2, ReadyKept DEF ClaimInv
  <2> QED
    BY <2>9, <2>10, <2>12, <2>13, <2>14, <2>15, <2>16, <2>17 DEF ClaimInv, LockInv
<1> QED
  BY <1>5, <1>6

LEMMA UnlockStep ==
  ASSUME Inv, NEW th \in Threads, Unlock(th)
  PROVE  LockInv' /\ ClaimInv'
<1>1. /\ TypeInv /\ LockInv /\ ClaimInv /\ NULL \notin Threads
      /\ todo[th] # <<>> /\ 1 \in Slots(th) /\ todo[th][1].op = "unlock"
      /\ todo \in [Threads -> Seq(Op)]
  BY FirstFits, ExecutorAssumption DEF Unlock, TypeInv
<1>2. qlock' = NULL /\ UNCHANGED <<state, queue, tlock>>
  BY DEF Unlock
<1>3. PICK ops \in Seq(Op) : Then(th, ops) /\ Len(ops) = 0
  BY LeavesNone DEF Unlock
<1>4. \A k \in 1..Len(ops) : ops[k].op \notin Claim \cup {"insert", "ready", "unlock"}
  BY <1>3
<1>5. QueueLock'
  <2>1. qlock = th
    BY <1>1 DEF LockInv, QueueLock
  <2>2. ASSUME NEW x \in Threads, NEW j \in Slots(x), <<x, j>> # <<th, 1>> PROVE todo[x][j].op # "unlock"
    BY <1>1, <2>1, <2>2 DEF LockInv, QueueLock
  <2>3. ASSUME NEW x \in Threads, NEW i \in Slots(x)' PROVE todo'[x][i].op # "unlock"
    <3>1. \/ i \in 1..Len(ops)
          \/ \E j \in Slots(x) : <<x, j>> # <<th, 1>> /\ todo'[x][i] = todo[x][j]
      <4>1. Then(th, ops)
        BY <1>3
      <4> QED
        BY <1>1, <4>1, Moved
    <3> QED
      BY <1>3, <2>2, <3>1
  <2> QED
    BY <1>1, <1>2, <2>3 DEF QueueLock
<1>6. TasksLock'
  BY <1>1, <1>2, <1>3, <1>4, TasksLockKept DEF LockInv
<1>7. ClaimInv'
  BY <1>1, <1>2, <1>3, <1>4, NoClaimStep
<1> QED
  BY <1>5, <1>6, <1>7 DEF LockInv

\* Executor::spawn: the claim on a task nobody has seen passes to the push to come.
LEMMA SpawnStep ==
  ASSUME Inv, NEW th \in Threads, Spawn(th)
  PROVE  LockInv' /\ ClaimInv'
<1> DEFINE t == It(th)
           u == Other(th)
<1>1. /\ TypeInv /\ LockInv /\ ClaimInv /\ t \in Tasks
      /\ todo[th] # <<>> /\ 1 \in Slots(th) /\ todo[th][1].op = "spawn" /\ todo[th][1].t = t
      /\ todo \in [Threads -> Seq(Op)] /\ state[t] = "unborn"
  BY FirstFits DEF Spawn, TypeInv, Fits
<1>2. UNCHANGED <<state, queue, qlock, tlock>>
  BY DEF Spawn
<1>3. CASE Then(th, <<>>)
  <2>1. PICK ops \in Seq(Op) : Then(th, ops) /\ Len(ops) = 0
    BY <1>3, LeavesNone
  <2>2. \A k \in 1..Len(ops) : ops[k].op \notin Claim \cup {"insert", "ready", "unlock"}
    BY <2>1
  <2> QED
    BY <1>1, <1>2, <2>1, <2>2, NoClaimStep, LocksKept
<1>4. CASE ~Then(th, <<>>)
  <2>1. /\ Do("insert", t) \in Good /\ Do("insert", t).op = "insert" /\ Do("insert", t).t = t
        /\ Do("push", t) \in Good /\ Do("push", t).op = "push" /\ Do("push", t).t = t
        /\ \A v \in Tasks : With("link", t, v) \in Good /\ With("link", t, v).op = "link"
    BY <1>1, GoodOps DEF Do, With
  <2>2. \/ Then(th, <<Do("insert", t), Do("push", t)>>)
        \/ u \in Tasks /\ Then(th, <<Do("insert", t), Do("push", t), With("link", t, u)>>)
    <3>1. u \in Tasks \cup {NULL}
      BY <1>1, FirstGood DEF Spawn
    <3> QED
      BY <1>4, <3>1 DEF Spawn
  <2>3. \E ops \in Seq(Op) : /\ Then(th, ops) /\ Len(ops) \in 2..3
                             /\ ops[1] = Do("insert", t) /\ ops[2] = Do("push", t)
                             /\ Len(ops) = 3 => ops[3].op = "link"
    <3>1. CASE Then(th, <<Do("insert", t), Do("push", t)>>)
      <4>1. PICK ops \in Seq(Op) : /\ Then(th, ops) /\ Len(ops) = 2
                                   /\ ops[1] = Do("insert", t) /\ ops[2] = Do("push", t)
        BY <2>1, <3>1, LeavesTwo
      <4> QED
        BY <4>1
    <3>2. CASE u \in Tasks /\ Then(th, <<Do("insert", t), Do("push", t), With("link", t, u)>>)
      <4>1. PICK ops \in Seq(Op) : /\ Then(th, ops) /\ Len(ops) = 3
                                   /\ ops[1] = Do("insert", t) /\ ops[2] = Do("push", t)
                                   /\ ops[3] = With("link", t, u)
        BY <2>1, <3>2, LeavesThree
      <4> QED
        BY <2>1, <3>2, <4>1
    <3> QED
      BY <2>2, <3>1, <3>2
  <2>4. PICK ops \in Seq(Op) : /\ Then(th, ops) /\ Len(ops) \in 2..3
                               /\ ops[1] = Do("insert", t) /\ ops[2] = Do("push", t)
                               /\ Len(ops) = 3 => ops[3].op = "link"
    BY <2>3
  <2>5. /\ 1 \in 1..Len(ops) /\ 2 \in 1..Len(ops)
        /\ ops[1].op = "insert" /\ ops[1].t = t /\ ops[2].op = "push" /\ ops[2].t = t
        /\ \A k \in 1..Len(ops) : \/ k = 1
                                  \/ k = 2
                                  \/ ops[k].op = "link"
        /\ "insert" \notin Claim /\ "push" \in Claim /\ "link" \notin Claim /\ "spawn" \in Claim
    <3>1. CASE Len(ops) = 2
      BY <2>1, <2>4, <3>1 DEF Claim, Holding
    <3>2. CASE Len(ops) = 3
      BY <2>1, <2>4, <3>2 DEF Claim, Holding
    <3> QED
      BY <2>4, <3>1, <3>2
  <2>6. \A k \in 1..Len(ops) :
          /\ ops[k].op \in {"insert", "push", "link"}
          /\ ops[k].op = "insert" => k = 1
          /\ ops[k].op = "push" => k = 2
          /\ ops[k].op \in Claim => k = 2 /\ ops[k].t = t
    BY <2>5
  <2>7. LockInv'
    BY <1>1, <1>2, <2>4, <2>6, LocksKept
  <2>8. \A x \in Threads : \A j \in Slots(x) : Claims(todo[x][j], t) => <<x, j>> = <<th, 1>>
    BY <1>1, <2>5 DEF ClaimInv, OneClaim, Claims
  <2>9. ~InSeq(t, queue)
    BY <1>1, <2>5 DEF ClaimInv, Apart
  <2>10. OneClaim'
    BY <1>1, <2>4, <2>6, <2>8, ClaimsKept DEF ClaimInv
  <2>11. Apart'
    BY <1>1, <1>2, <2>4, <2>6, <2>9, ApartKept DEF ClaimInv, Apart
  <2>12. QueueInv'
    BY <1>1, <1>2 DEF ClaimInv, QueueInv, InSeq
  <2>13. SlotInv'
    <3>1. \A k \in 1..Len(ops) : Fits(ops[k], state')
      <4>1. Fits(ops[1], state') /\ Fits(ops[2], state')
        BY <1>1, <1>2, <2>5 DEF Fits
      <4>2. \A k \in 1..Len(ops) : ops[k].op = "link" => Fits(ops[k], state')
        BY DEF Fits
      <4> QED
        BY <2>5, <4>1, <4>2
    <3> QED
      BY <1>1, <1>2, <2>4, <3>1, SlotsKept DEF ClaimInv, SlotInv
  <2>14. SpawnInv'
    <3>1. /\ 1 \in Slots(th)' /\ todo'[th][1] = ops[1]
          /\ 2 \in Slots(th)' /\ todo'[th][2] = ops[2]
      BY <1>1, <2>4, <2>5, Moved
    <3>2. \A j \in Slots(th) : /\ todo[th][j].op # "insert"
                               /\ todo[th][j].op = "push" => state[todo[th][j].t] # "unborn"
      BY <1>1 DEF ClaimInv, SpawnInv
    <3>3. ASSUME NEW i \in Slots(th)'
          PROVE  \/ i \in 1..Len(ops) /\ todo'[th][i] = ops[i]
                 \/ /\ todo'[th][i].op # "insert"
                    /\ todo'[th][i].op = "push" => state[todo'[th][i].t] # "unborn"
      <4>1. \/ i \in 1..Len(ops) /\ todo'[th][i] = ops[i]
            \/ \E j \in Slots(th) : todo'[th][i] = todo[th][j]
        BY <1>1, <2>4, Moved
      <4> QED
        BY <3>2, <4>1
    <3>4. ASSUME NEW x \in Threads, x # th PROVE todo'[x] = todo[x] /\ Slots(x)' = Slots(x)
      BY <1>1, <2>4, <3>4 DEF Then, Slots
    <3>5. ASSUME NEW x \in Threads, NEW i \in Slots(x)'
          PROVE  /\ todo'[x][i].op = "insert" =>
                      /\ i = 1 /\ 2 \in Slots(x)' /\ todo'[x][2].op = "push"
                      /\ todo'[x][2].t = todo'[x][i].t
                 /\ todo'[x][i].op = "push" /\ state'[todo'[x][i].t] = "unborn" =>
                      i = 2 /\ todo'[x][1].op = "insert" /\ todo'[x][1].t = todo'[x][i].t
      <4>1. CASE x = th
        BY <1>2, <2>5, <2>6, <3>1, <3>3, <4>1
      <4>2. CASE x # th
        <5>1. i \in Slots(x) /\ todo'[x] = todo[x] /\ Slots(x)' = Slots(x) /\ state' = state
          BY <1>2, <3>4, <3>5, <4>2
        <5> QED
          BY <1>1, <5>1 DEF ClaimInv, SpawnInv
      <4> QED
        BY <4>1, <4>2
    <3> QED
      BY <3>5 DEF SpawnInv
  <2>15. ReadyInv'
    BY <1>1, <1>2, <2>4, ReadyKept DEF ClaimInv
  <2> QED
    BY <2>7, <2>10, <2>11, <2>12, <2>13, <2>14, <2>15 DEF ClaimInv
<1> QED
  BY <1>3, <1>4

LEMMA InsertStep ==
  ASSUME Inv, NEW th \in Threads, Insert(th)
  PROVE  LockInv' /\ ClaimInv'
<1> DEFINE t == It(th)
<1>1. /\ TypeInv /\ LockInv /\ ClaimInv /\ t \in Tasks
      /\ todo[th] # <<>> /\ 1 \in Slots(th) /\ todo[th][1].op = "insert" /\ todo[th][1].t = t
      /\ todo \in [Threads -> Seq(Op)] /\ state[t] = "unborn"
  BY FirstFits DEF Insert, TypeInv, Fits
<1>2. /\ UNCHANGED <<queue, qlock, tlock>>
      /\ state'[t] = "Ready" /\ \A u \in Tasks : u # t => state'[u] = state[u]
  BY <1>1 DEF Insert, TypeInv
<1>3. PICK ops \in Seq(Op) : Then(th, ops) /\ Len(ops) = 0
  BY LeavesNone DEF Insert
<1>4. \A k \in 1..Len(ops) : /\ ops[k].op \notin Claim \cup {"insert", "ready", "unlock", "push"}
                             /\ Fits(ops[k], state')
  BY <1>3
<1>5. 2 \in Slots(th) /\ todo[th][2].op = "push" /\ todo[th][2].t = t /\ "push" \in Claim
  BY <1>1 DEF ClaimInv, SpawnInv, Claim, Holding
<1>6. ASSUME NEW x \in Threads, NEW j \in Slots(x), Claims(todo[x][j], t) PROVE <<x, j>> = <<th, 2>>
  BY <1>1, <1>5, <1>6 DEF ClaimInv, OneClaim, Claims
<1>7. ASSUME NEW x \in Threads, NEW j \in Slots(x), todo[x][j].op = "insert", todo[x][j].t = t
      PROVE  <<x, j>> = <<th, 1>>
  <2>1. j = 1 /\ 2 \in Slots(x) /\ todo[x][2].op = "push" /\ todo[x][2].t = t
    BY <1>1, <1>7 DEF ClaimInv, SpawnInv
  <2> QED
    BY <1>5, <1>6, <2>1 DEF Claims
<1>8. ~InSeq(t, queue)
  BY <1>1 DEF ClaimInv, QueueInv
<1>9. LockInv'
  BY <1>1, <1>2, <1>3, <1>4, LocksKept
<1>10. OneClaim'
  BY <1>1, <1>3, <1>4, ClaimsKept DEF ClaimInv
<1>11. Apart'
  BY <1>1, <1>2, <1>3, <1>4, ApartKept DEF ClaimInv, Apart
<1>12. QueueInv'
  BY <1>1, <1>2, <1>8 DEF ClaimInv, QueueInv, InSeq
<1>13. SlotInv'
  <2>1. ASSUME NEW x \in Threads, NEW j \in Slots(x), <<x, j>> # <<th, 1>>
        PROVE  Fits(todo[x][j], state')
    <3> DEFINE o == todo[x][j]
    <3>1. Fits(o, state) /\ WellFormed(o)
      BY <1>1 DEF ClaimInv, SlotInv, TypeInv
    <3>2. CASE o.op \notin Claim \cup {"insert"}
      BY <3>2 DEF Fits, Claim, Holding
    <3>3. CASE o.op \in Claim \cup {"insert"} /\ o.t = t
      <4>1. o.op = "push"
        BY <1>5, <1>6, <1>7, <2>1, <3>3 DEF Claims
      <4> QED
        BY <1>2, <3>3, <4>1 DEF Fits
    <3>4. CASE o.op \in Claim \cup {"insert"} /\ o.t # t
      <4>1. o.t \in Tasks
        BY <3>1, <3>4 DEF WellFormed, Claim, Holding
      <4> QED
        BY <1>2, <3>1, <3>4, <4>1 DEF Fits
    <3> QED
      BY <3>2, <3>3, <3>4
  <2> QED
    BY <1>1, <1>3, <1>4, <2>1, SlotsKept
<1>14. SpawnInv'
  <2>1. ASSUME NEW j \in Slots(th), j # 1
        PROVE  /\ todo[th][j].op # "insert"
               /\ todo[th][j].op = "push" => state'[todo[th][j].t] # "unborn"
    <3>1. todo[th][j].op # "insert"
      BY <1>1, <2>1 DEF ClaimInv, SpawnInv
    <3>2. ASSUME todo[th][j].op = "push" PROVE state'[todo[th][j].t] # "unborn"
      <4>1. todo[th][j].t \in Tasks
        BY <1>1, <3>2 DEF TypeInv, WellFormed
      <4>2. CASE todo[th][j].t = t
        BY <1>2, <4>2
      <4>3. CASE todo[th][j].t # t
        BY <1>1, <1>2, <3>2, <4>1, <4>3 DEF ClaimInv, SpawnInv
      <4> QED
        BY <4>2, <4>3
    <3> QED
      BY <3>1, <3>2
  <2>2. ASSUME NEW i \in Slots(th)'
        PROVE  /\ todo'[th][i].op # "insert"
               /\ todo'[th][i].op = "push" => state'[todo'[th][i].t] # "unborn"
    <3>1. Then(th, ops)
      BY <1>3
    <3>2. \/ i \in 1..Len(ops)
          \/ \E j \in Slots(th) : j # 1 /\ todo'[th][i] = todo[th][j]
      BY <1>1, <3>1, Moved
    <3> QED
      BY <1>3, <2>1, <3>2
  <2>3. ASSUME NEW x \in Threads, x # th PROVE todo'[x] = todo[x] /\ Slots(x)' = Slots(x)
    BY <1>1, <1>3, <2>3 DEF Then, Slots
  <2>4. ASSUME NEW x \in Threads, NEW i \in Slots(x)'
        PROVE  /\ todo'[x][i].op = "insert" =>
                    /\ i = 1 /\ 2 \in Slots(x)' /\ todo'[x][2].op = "push"
                    /\ todo'[x][2].t = todo'[x][i].t
               /\ todo'[x][i].op = "push" /\ state'[todo'[x][i].t] = "unborn" =>
                    i = 2 /\ todo'[x][1].op = "insert" /\ todo'[x][1].t = todo'[x][i].t
    <3>1. CASE x = th
      BY <2>2, <3>1
    <3>2. CASE x # th
      <4>1. i \in Slots(x) /\ todo'[x] = todo[x] /\ Slots(x)' = Slots(x)
        BY <2>3, <2>4, <3>2
      <4>2. todo[x][i].op = "push" => todo[x][i].t \in Tasks
        BY <1>1, <4>1 DEF TypeInv, WellFormed
      <4>3. \A v \in Tasks : state'[v] = "unborn" => state[v] = "unborn"
        BY <1>1, <1>2
      <4> QED
        BY <1>1, <4>1, <4>2, <4>3 DEF ClaimInv, SpawnInv
    <3> QED
      BY <3>1, <3>2
  <2> QED
    BY <2>4 DEF SpawnInv
<1>15. ReadyInv'
  <2>1. \E x \in Threads : \E i \in Slots(x)' : todo'[x][i].op = "push" /\ todo'[x][i].t = t
    <3>1. Then(th, ops)
      BY <1>3
    <3>2. After(th, ops, th, 2) \in Slots(th)' /\ todo'[th][After(th, ops, th, 2)] = todo[th][2]
      BY <1>1, <1>5, <3>1, Moved
    <3> QED
      BY <1>5, <3>2
  <2>2. ASSUME NEW u \in Tasks, state'[u] = "Ready", u # t, ~InSeq(u, queue')
        PROVE  \E x \in Threads : \E i \in Slots(x)' :
                 todo'[x][i].op \in {"push", "run", "start"} /\ todo'[x][i].t = u
    <3>1. state[u] = "Ready" /\ ~InSeq(u, queue)
      BY <1>2, <2>2
    <3>2. PICK x \in Threads : \E i \in Slots(x) :
            todo[x][i].op \in {"push", "run", "start"} /\ todo[x][i].t = u
      BY <1>1, <3>1 DEF ClaimInv, ReadyInv
    <3>3. PICK i \in Slots(x) : todo[x][i].op \in {"push", "run", "start"} /\ todo[x][i].t = u
      BY <3>2
    <3>4. <<x, i>> # <<th, 1>> /\ Then(th, ops)
      BY <1>1, <1>3, <3>3
    <3>5. After(th, ops, x, i) \in Slots(x)' /\ todo'[x][After(th, ops, x, i)] = todo[x][i]
      BY <1>1, <3>4, Moved
    <3> QED
      BY <3>3, <3>5
  <2> QED
    BY <2>1, <2>2 DEF ReadyInv, InSeq
<1> QED
  BY <1>9, <1>10, <1>11, <1>12, <1>13, <1>14, <1>15 DEF ClaimInv

-----------------------------------------------------------------------------
(* The invariant holds at the start, and every step keeps it. *)

LEMMA InvInit == Init => Inv
<1> SUFFICES ASSUME Init PROVE Inv
  OBVIOUS
<1>1. TypeInv
  BY TypeInit
<1>2. \A x \in Threads : \A i \in Slots(x) :
        /\ todo[x][i].op \in {"block_on", "cancel", "spawn", "event"}
        /\ todo[x][i].op = "spawn" => todo[x][i].t \in Tasks \ Queued
  BY ExecutorAssumption DEF Init, Slots, Queued
<1>3. LockInv
  BY <1>2, ExecutorAssumption DEF Init, LockInv, TasksLock, QueueLock
<1>4. /\ IsFiniteSet(Queued) /\ Cardinality(Queued) \in Nat /\ Queued \subseteq Tasks
      /\ queue \in [1..Cardinality(Queued) -> Queued]
      /\ {queue[i] : i \in 1..Cardinality(Queued)} = Queued
      /\ Len(queue) = Cardinality(Queued)
  <2>1. IsFiniteSet(Queued) /\ Queued \subseteq Tasks /\ Cardinality(Queued) \in Nat
    BY ExecutorAssumption, FS_Subset, FS_CardinalityType DEF Queued
  <2>2. /\ queue \in [1..Cardinality(Queued) -> Queued]
        /\ {queue[i] : i \in 1..Cardinality(Queued)} = Queued
    BY DEF Init, Orders
  <2>3. Len(queue) = Cardinality(Queued)
    BY <2>1, <2>2, LenProperties, <1>1 DEF TypeInv
  <2> QED
    BY <2>1, <2>2, <2>3
<1>5. \A t \in Tasks : InSeq(t, queue) <=> t \in Queued
  BY <1>4 DEF InSeq
<1>6. \A t \in Tasks : state[t] = IF t \in Queued THEN "Ready" ELSE "unborn"
  BY DEF Init
<1>7. OneClaim
  <2>1. SUFFICES ASSUME NEW x \in Threads, NEW y \in Threads, NEW i \in Slots(x), NEW j \in Slots(y),
                        todo[x][i].op \in Claim, Claims(todo[y][j], todo[x][i].t)
                 PROVE  x = y /\ i = j
    BY DEF OneClaim
  <2>2. todo[x][i].op = "spawn" /\ todo[y][j].op = "spawn" /\ todo[x][i].t = todo[y][j].t
    BY <1>2, <2>1 DEF Claims, Claim, Holding
  <2>3. todo = Calls
    BY DEF Init
  <2> QED
    BY <2>2, <2>3, ExecutorAssumption DEF Slots
<1>8. Apart
  BY <1>2, <1>5 DEF Apart, Claim, Holding
<1>9. QueueInv
  <2>1. queue \in Surjection(1..Cardinality(Queued), Queued)
    BY <1>4 DEF Surjection
  <2>2. IsFiniteSet(1..Cardinality(Queued)) /\ Cardinality(1..Cardinality(Queued)) = Cardinality(Queued)
    <3> DEFINE n == Cardinality(Queued)
    <3>1. n \in Int /\ n >= 0
      BY <1>4
    <3>2. IsFiniteSet(1..n) /\ Cardinality(1..n) = IF 1 > n THEN 0 ELSE n - 1 + 1
      BY <3>1, FS_Interval
    <3> QED
      BY <3>1, <3>2
  <2>3. queue \in Injection(1..Cardinality(Queued), Queued)
    BY <1>4, <2>1, <2>2, FS_SurjSameCardinalityImpliesInj
  <2>4. \A i, j \in 1..Len(queue) : queue[i] = queue[j] => i = j
    BY <1>4, <2>3 DEF Injection, IsInjective
  <2> QED
    BY <1>5, <1>6, <2>4 DEF QueueInv
<1>10. SlotInv
  BY <1>2, <1>6 DEF SlotInv, Fits
<1>11. SpawnInv
  BY <1>2 DEF SpawnInv
<1>12. ReadyInv
  BY <1>5, <1>6 DEF ReadyInv
<1> QED
  BY <1>1, <1>3, <1>7, <1>8, <1>9, <1>10, <1>11, <1>12 DEF Inv, ClaimInv

LEMMA InvStep == Inv /\ [Next]_vars => Inv'
<1> SUFFICES ASSUME Inv, [Next]_vars PROVE Inv'
  OBVIOUS
<1>1. TypeInv'
  BY TypeStep DEF Inv
<1>2. CASE UNCHANGED vars
  BY <1>2 DEF vars, Inv, TypeInv, LockInv, TasksLock, QueueLock, ClaimInv, OneClaim, Apart, QueueInv,
              SlotInv, SpawnInv, ReadyInv, Slots, WellFormed, InSeq, Fits, Claims
<1>3. ASSUME NEW th \in Threads, Step(th) PROVE LockInv' /\ ClaimInv'
  BY <1>3, WakeStep, MakeReadyStep, RunSteps, OtherSteps, PushStep, TurnStep, UnlockStep,
     SpawnStep, InsertStep DEF Step
<1> QED
  BY <1>1, <1>2, <1>3 DEF Next, Inv

THEOREM Invariance == Spec => []Inv
BY InvInit, InvStep, PTL DEF Spec

\* Every variable keeps its shape, and the mutex of the queue and the lock of tasks are
\* held exactly by the thread that still has to release them.
THEOREM TypeCorrect == Spec => []TypeOK
<1>1. Inv => TypeOK
  <2> SUFFICES ASSUME Inv PROVE TypeOK
    OBVIOUS
  <2>1. TypeInv /\ LockInv
    BY DEF Inv
  <2>2. ASSUME NEW x \in Threads
        PROVE  /\ (qlock = x) <=> ("unlock" \in Ops(x))
               /\ (tlock = x) <=> ("ready" \in Ops(x))
    BY <2>1 DEF LockInv, TasksLock, QueueLock, Ops, Slots
  <2>3. \A th \in Threads : /\ (qlock = th) = ("unlock" \in Ops(th))
                            /\ (tlock = th) = ("ready" \in Ops(th))
    BY <2>2
  <2> QED
    BY <2>1, <2>3 DEF TypeInv, TypeOK
<1> QED
  BY <1>1, Invariance, PTL

\* Whatever wakes, cancels, joins and spawns race, a task is in the queue or in one
\* hand, never twice; a Ready task is in exactly one place.
THEOREM TasksHeldOnce == Spec => []HeldOnce
<1> DEFINE Places(t) == {i \in 1..Len(queue) : queue[i] = t}
           Mine(x, t) == {j \in 1..Len(todo[x]) : todo[x][j].op \in Holding /\ todo[x][j].t = t}
           Hands(t) == UNION {{<<x, i>> : i \in Mine(x, t)} : x \in Threads}
<1>1. ASSUME Inv, NEW t \in Tasks
      PROVE  /\ Holders(t) <= 1
             /\ state[t] = "Ready" => Holders(t) = 1
             /\ state[t] = "Waiting" => Holders(t) = 0
  <2>1. Holders(t) = Cardinality(Places(t)) + Cardinality(Hands(t))
    BY DEF Holders
  <2>2. \A z : z \in Hands(t) <=> \E x \in Threads : \E i \in Slots(x) :
                 z = <<x, i>> /\ todo[x][i].op \in Holding /\ todo[x][i].t = t
    BY DEF Slots
  <2>3. TypeInv /\ ClaimInv /\ Holding \subseteq Claim
    BY <1>1 DEF Inv, Claim
  <2>4. \A y, z \in Hands(t) : y = z
    BY <2>2, <2>3 DEF ClaimInv, OneClaim, Claims
  <2>5. \A i, j \in Places(t) : i = j
    BY <2>3 DEF ClaimInv, QueueInv
  <2>6. Places(t) = {} \/ Hands(t) = {}
    BY <2>2, <2>3 DEF ClaimInv, Apart, InSeq
  <2>7. state[t] = "Ready" => Places(t) # {} \/ Hands(t) # {}
    <3>1. ASSUME state[t] = "Ready", ~InSeq(t, queue) PROVE Hands(t) # {}
      <4>1. PICK x \in Threads : \E i \in Slots(x) :
              todo[x][i].op \in {"push", "run", "start"} /\ todo[x][i].t = t
        BY <2>3, <3>1 DEF ClaimInv, ReadyInv
      <4>2. PICK i \in Slots(x) : todo[x][i].op \in {"push", "run", "start"} /\ todo[x][i].t = t
        BY <4>1
      <4>3. <<x, i>> \in Hands(t)
        BY <2>2, <4>2 DEF Holding
      <4> QED
        BY <4>3
    <3>2. InSeq(t, queue) => Places(t) # {}
      BY DEF InSeq
    <3> QED
      BY <3>1, <3>2
  <2>8. state[t] = "Waiting" => Places(t) = {} /\ Hands(t) = {}
    <3>1. ASSUME state[t] = "Waiting" PROVE Places(t) = {}
      BY <2>3, <3>1 DEF ClaimInv, QueueInv, InSeq
    <3>2. ASSUME state[t] = "Waiting", NEW x \in Threads, NEW i \in Slots(x),
                 todo[x][i].op \in Holding, todo[x][i].t = t
          PROVE  FALSE
      BY <2>3, <3>2 DEF ClaimInv, SlotInv, Fits, Holding
    <3> QED
      BY <2>2, <3>1, <3>2
  <2> HIDE DEF Places, Hands
  <2>9. \A S : (\A y, z \in S : y = z) =>
          /\ S = {} => Cardinality(S) = 0
          /\ S # {} => Cardinality(S) = 1
    <3>1. ASSUME NEW S, \A y, z \in S : y = z, S # {} PROVE Cardinality(S) = 1
      <4>1. PICK z : S = {z}
        BY <3>1
      <4> QED
        BY <4>1, FS_Singleton
    <3> QED
      BY <3>1, FS_EmptySet
  <2>10. /\ Places(t) = {} => Cardinality(Places(t)) = 0
         /\ Places(t) # {} => Cardinality(Places(t)) = 1
         /\ Hands(t) = {} => Cardinality(Hands(t)) = 0
         /\ Hands(t) # {} => Cardinality(Hands(t)) = 1
    BY <2>4, <2>5, <2>9
  <2> QED
    BY <2>1, <2>6, <2>7, <2>8, <2>10
<1>2. Inv => HeldOnce
  BY <1>1 DEF HeldOnce
<1> QED
  BY <1>2, Invariance, PTL

\* No late wake, repeated event, join or cancel makes a completed task live again.
THEOREM CompletedIsFinal == Spec => CompletedStaysFinished
<1> DEFINE Stays == \A t \in Tasks : state[t] = "Completed" => state'[t] \in {"Completed", "Cancelled"}
<1>1. ASSUME Inv, [Next]_vars PROVE [Stays]_vars
  <2>1. ASSUME NEW th \in Threads, Step(th) PROVE Stays
    <3>1. CASE UNCHANGED state
      BY <3>1
    <3>2. CASE MakeReady(th)
      <4>1. Fits(todo[th][1], state) /\ todo[th][1].op = "ready" /\ todo[th][1].t = It(th)
        BY <1>1, <3>2, FirstFits DEF MakeReady
      <4> QED
        BY <1>1, <3>2, <4>1 DEF MakeReady, Fits, Inv, TypeInv
    <3>3. CASE StartTask(th)
      <4>1. Fits(todo[th][1], state) /\ todo[th][1].op = "start" /\ todo[th][1].t = It(th)
        BY <1>1, <3>3, FirstFits DEF StartTask
      <4> QED
        BY <1>1, <3>3, <4>1 DEF StartTask, Fits, Inv, TypeInv
    <3>4. CASE CompleteTask(th)
      BY <1>1, <3>4 DEF CompleteTask, Inv, TypeInv
    <3>5. CASE Park(th)
      <4>1. Fits(todo[th][1], state) /\ todo[th][1].op = "park" /\ todo[th][1].t = It(th)
        BY <1>1, <3>5, FirstFits DEF Park
      <4> QED
        BY <1>1, <3>5, <4>1 DEF Park, Fits, Inv, TypeInv
    <3>6. CASE Cancel(th)
      BY <1>1, <3>6 DEF Cancel, Inv, TypeInv
    <3>7. CASE Insert(th)
      <4>1. Fits(todo[th][1], state) /\ todo[th][1].op = "insert" /\ todo[th][1].t = It(th)
        BY <1>1, <3>7, FirstFits DEF Insert
      <4> QED
        BY <1>1, <3>7, <4>1 DEF Insert, Fits, Inv, TypeInv
    <3> QED
      BY <2>1, <3>1, <3>2, <3>3, <3>4, <3>5, <3>6, <3>7
         DEF Step, Wake, Push, Notify, Event, BlockOn, Turn, Unlock, Run, Poll, Join, Check,
             CancelKids, Spawn, Link
  <2> QED
    BY <1>1, <2>1 DEF Next
<1> QED
  BY <1>1, Invariance, PTL DEF Spec, CompletedStaysFinished

-----------------------------------------------------------------------------
(* Wake-ups. *)

LEMMA CalledKept ==
  ASSUME TypeInv, NEW th \in Threads, todo[th] # <<>>, NEW ops \in Seq(Op), Then(th, ops),
         NEW S, NEW t, Called(S, t), ~(todo[th][1].op \in S /\ todo[th][1].t = t)
  PROVE  Called(S, t)'
<1>1. todo \in [Threads -> Seq(Op)]
  BY DEF TypeInv
<1>2. PICK x \in Threads : \E i \in Slots(x) : todo[x][i].op \in S /\ todo[x][i].t = t
  BY DEF Called
<1>3. PICK i \in Slots(x) : todo[x][i].op \in S /\ todo[x][i].t = t
  BY <1>2
<1>4. <<x, i>> # <<th, 1>>
  BY <1>3
<1>5. After(th, ops, x, i) \in Slots(x)' /\ todo'[x][After(th, ops, x, i)] = todo[x][i]
  BY <1>1, <1>4, Moved
<1> QED
  BY <1>3, <1>5 DEF Called

LEMMA CalledNew ==
  ASSUME TypeInv, NEW th \in Threads, todo[th] # <<>>, NEW ops \in Seq(Op), Then(th, ops),
         NEW S, NEW t, NEW k \in 1..Len(ops), ops[k].op \in S, ops[k].t = t
  PROVE  Called(S, t)'
<1>1. todo \in [Threads -> Seq(Op)]
  BY DEF TypeInv
<1>2. k \in Slots(th)' /\ todo'[th][k] = ops[k]
  BY <1>1, Moved
<1> QED
  BY <1>2 DEF Called

\* Most steps leave no join to do and no task to park.
LEMMA LeavesPlain ==
  ASSUME Inv, NEW th \in Threads,
         \/ Push(th) \/ Notify(th) \/ BlockOn(th) \/ Turn(th) \/ Unlock(th) \/ Run(th) \/ StartTask(th)
         \/ CompleteTask(th) \/ Park(th) \/ Cancel(th) \/ CancelKids(th) \/ Spawn(th)
         \/ Insert(th) \/ Link(th) \/ MakeReady(th)
  PROVE  \E ops \in Seq(Op) :
           Then(th, ops) /\ \A k \in 1..Len(ops) : ops[k].op \notin {"join", "check", "park"}
<1> DEFINE t == It(th)
           h == Head(todo[th])
           Joining == {"join", "check", "park"}
           Plain == {o \in Good : o.op \notin Joining}
           Goal == \E ops \in Seq(Op) : Then(th, ops) /\ \A k \in 1..Len(ops) : ops[k].op \notin Joining
<1> SUFFICES Goal
  OBVIOUS
<1>0. TypeInv
  BY DEF Inv
<1>1. ASSUME Then(th, <<>>) PROVE Goal
  <2>1. PICK ops \in Seq(Op) : Then(th, ops) /\ Len(ops) = 0
    BY <1>1, LeavesNone
  <2>2. \A k \in 1..Len(ops) : ops[k].op \notin Joining
    BY <2>1
  <2> QED
    BY <2>1, <2>2
<1>2. ASSUME NEW o \in Plain, Then(th, <<o>>) PROVE Goal
  <2>1. PICK ops \in Seq(Op) : Then(th, ops) /\ Len(ops) = 1 /\ ops[1] = o
    BY <1>2, LeavesOne
  <2>2. \A k \in 1..Len(ops) : ops[k].op \notin Joining
    BY <2>1
  <2> QED
    BY <2>1, <2>2
<1>3. ASSUME NEW o \in Plain, NEW p \in Plain, Then(th, <<o, p>>) PROVE Goal
  <2>1. PICK ops \in Seq(Op) : Then(th, ops) /\ Len(ops) = 2 /\ ops[1] = o /\ ops[2] = p
    BY <1>3, LeavesTwo
  <2>2. \A k \in 1..Len(ops) : ops[k].op \notin Joining
    BY <2>1
  <2> QED
    BY <2>1, <2>2
<1>4. ASSUME NEW o \in Plain, NEW p \in Plain, NEW q \in Plain, Then(th, <<o, p, q>>) PROVE Goal
  <2>1. PICK ops \in Seq(Op) : Then(th, ops) /\ Len(ops) = 3 /\ ops[1] = o /\ ops[2] = p /\ ops[3] = q
    BY <1>4, LeavesThree
  <2>2. \A k \in 1..Len(ops) : ops[k].op \notin Joining
    BY <2>1
  <2> QED
    BY <2>1, <2>2
<1>5. \A u \in Tasks : /\ Do("start", u) \in Plain /\ Do("poll", u) \in Plain /\ Do("notify", u) \in Plain
                       /\ Do("kids", u) \in Plain /\ Do("push", u) \in Plain
                       /\ Do("insert", u) \in Plain /\ Do("run", u) \in Plain
  BY GoodOps DEF Do
<1>6. Do("turn", NULL) \in Plain /\ Do("unlock", NULL) \in Plain
  BY GoodOps DEF Do
<1>7. \A u, v \in Tasks : With("link", u, v) \in Plain
  BY GoodOps DEF With
<1> HIDE DEF Goal, Plain
<1>8. CASE Push(th) \/ Unlock(th) \/ Park(th) \/ Insert(th) \/ Link(th)
  BY <1>1, <1>8 DEF Push, Unlock, Park, Insert, Link
<1>9. CASE Notify(th)
  BY <1>0, <1>9, LeavesWakes DEF Goal
<1>10. CASE CancelKids(th)
  BY <1>0, <1>10, LeavesCancels DEF Goal
<1>11. CASE BlockOn(th)
  <2>1. h \in Plain
    BY <1>0, <1>11, FirstGood DEF BlockOn, At, Plain
  <2> QED
    BY <1>1, <1>3, <1>6, <1>11, <2>1 DEF BlockOn
<1>12. CASE Turn(th)
  <2>1. queue # <<>> => Head(queue) \in Tasks
    BY <1>0, HeadTailProperties DEF TypeInv
  <2> QED
    BY <1>2, <1>3, <1>5, <1>6, <1>12, <2>1 DEF Turn
<1>13. CASE Run(th)
  BY <1>0, <1>1, <1>2, <1>5, <1>13, FirstGood DEF Run
<1>14. CASE StartTask(th)
  BY <1>0, <1>2, <1>5, <1>14, FirstGood DEF StartTask
<1>15. CASE CompleteTask(th)
  BY <1>0, <1>2, <1>5, <1>15, FirstGood DEF CompleteTask
<1>16. CASE Cancel(th)
  BY <1>0, <1>1, <1>2, <1>5, <1>16, FirstGood DEF Cancel
<1>17. CASE Spawn(th)
  <2>1. t \in Tasks /\ Other(th) \in Tasks \cup {NULL}
    BY <1>0, <1>17, FirstGood DEF Spawn
  <2> QED
    BY <1>1, <1>3, <1>4, <1>5, <1>7, <1>17, <2>1 DEF Spawn
<1>18. CASE MakeReady(th)
  BY <1>0, <1>2, <1>5, <1>18, FirstGood DEF MakeReady
<1> QED
  BY <1>8, <1>9, <1>10, <1>11, <1>12, <1>13, <1>14, <1>15, <1>16, <1>17, <1>18

\* What the other steps leave to do.
LEMMA LeavesOther ==
  ASSUME Inv, NEW th \in Threads, Wake(th) \/ Event(th) \/ Poll(th) \/ Join(th) \/ Check(th)
  PROVE  \E ops \in Seq(Op) :
           /\ Then(th, ops)
           /\ \A k \in 1..Len(ops) :
                /\ ops[k].op = "join" => Poll(th) /\ state[ops[k].u] # "unborn"
                /\ ops[k].op = "check" => Join(th) /\ ops[k].t = It(th) /\ ops[k].u = Other(th)
                /\ ops[k].op = "park" =>
                     /\ ops[k].t = It(th)
                     /\ \/ Poll(th) /\ armed' = armed \cup {It(th)}
                        \/ Check(th) /\ ~Complete(Other(th))
           /\ Wake(th) /\ Wakable(It(th)) => Len(ops) = 1 /\ ops[1] = Do("ready", It(th))
<1> DEFINE t == It(th)
           Ok(ops) ==
             /\ Then(th, ops)
             /\ \A k \in 1..Len(ops) :
                  /\ ops[k].op = "join" => Poll(th) /\ state[ops[k].u] # "unborn"
                  /\ ops[k].op = "check" => Join(th) /\ ops[k].t = It(th) /\ ops[k].u = Other(th)
                  /\ ops[k].op = "park" =>
                       /\ ops[k].t = It(th)
                       /\ \/ Poll(th) /\ armed' = armed \cup {It(th)}
                          \/ Check(th) /\ ~Complete(Other(th))
             /\ Wake(th) /\ Wakable(It(th)) => Len(ops) = 1 /\ ops[1] = Do("ready", It(th))
<1> SUFFICES \E ops \in Seq(Op) : Ok(ops)
  OBVIOUS
<1>0. TypeInv
  BY DEF Inv
<1>1. CASE Wake(th)
  <2>1. At(th, "wake") /\ t \in Tasks
    BY <1>1, FirstFits DEF Wake
  <2>2. Do("ready", t) \in Good /\ Do("ready", t).op = "ready"
    BY <2>1, GoodOps DEF Do
  <2>3. CASE Wakable(t)
    <3>1. PICK ops \in Seq(Op) : Then(th, ops) /\ Len(ops) = 1 /\ ops[1] = Do("ready", t)
      BY <1>1, <2>2, <2>3, LeavesOne DEF Wake
    <3>2. \A k \in 1..Len(ops) : ops[k].op = "ready"
      BY <2>2, <3>1
    <3> QED
      BY <3>1, <3>2
  <2>4. CASE ~Wakable(t)
    <3>1. PICK ops \in Seq(Op) : Then(th, ops) /\ Len(ops) = 0
      BY <1>1, <2>4, LeavesNone DEF Wake
    <3>2. \A k \in 1..Len(ops) : FALSE
      BY <3>1
    <3> QED
      BY <2>4, <3>1, <3>2
  <2> QED
    BY <2>3, <2>4
<1>2. CASE Event(th)
  <2>1. PICK v \in armed : Then(th, <<Do("wake", v), Head(todo[th])>>)
    BY <1>2 DEF Event
  <2>2. /\ v \in Tasks /\ Head(todo[th]) \in Good /\ Head(todo[th]).op = "event"
        /\ At(th, "event") /\ ~Wake(th)
    BY <1>0, <1>2, FirstGood DEF Event, At, TypeInv, Wake
  <2>3. Do("wake", v) \in Good /\ Do("wake", v).op = "wake"
    BY <2>2, GoodOps DEF Do
  <2>4. PICK ops \in Seq(Op) : /\ Then(th, ops) /\ Len(ops) = 2
                               /\ ops[1] = Do("wake", v) /\ ops[2] = Head(todo[th])
    BY <2>1, <2>2, <2>3, LeavesTwo
  <2>5. \A k \in 1..Len(ops) : ops[k].op \in {"wake", "event"}
    BY <2>2, <2>3, <2>4
  <2> QED
    BY <2>2, <2>4, <2>5
<1>3. CASE Poll(th)
  <2>1. At(th, "poll") /\ t \in Tasks /\ ~Wake(th)
    BY <1>3, FirstFits DEF Poll, At, Wake
  <2>2. /\ Do("complete", t) \in Good /\ Do("complete", t).op = "complete"
        /\ Do("park", t) \in Good /\ Do("park", t).op = "park" /\ Do("park", t).t = t
    BY <2>1, GoodOps DEF Do
  <2>3. \/ Then(th, <<Do("complete", t)>>)
        \/ Then(th, <<Do("park", t)>>) /\ armed' = armed \cup {t}
        \/ \E u \in Joins[t] : state[u] # "unborn" /\ Then(th, <<With("join", t, u)>>)
    BY <1>3 DEF Poll
  <2>4. CASE Then(th, <<Do("complete", t)>>)
    <3>1. PICK ops \in Seq(Op) : Then(th, ops) /\ Len(ops) = 1 /\ ops[1] = Do("complete", t)
      BY <2>2, <2>4, LeavesOne
    <3>2. \A k \in 1..Len(ops) : ops[k].op = "complete"
      BY <2>2, <3>1
    <3> QED
      BY <2>1, <3>1, <3>2
  <2>5. CASE Then(th, <<Do("park", t)>>) /\ armed' = armed \cup {t}
    <3>1. PICK ops \in Seq(Op) : Then(th, ops) /\ Len(ops) = 1 /\ ops[1] = Do("park", t)
      BY <2>2, <2>5, LeavesOne
    <3>2. \A k \in 1..Len(ops) : ops[k].op = "park" /\ ops[k].t = t
      BY <2>2, <3>1
    <3> QED
      BY <1>3, <2>1, <2>5, <3>1, <3>2
  <2>6. CASE \E u \in Joins[t] : state[u] # "unborn" /\ Then(th, <<With("join", t, u)>>)
    <3>0. PICK u \in Joins[t] : state[u] # "unborn" /\ Then(th, <<With("join", t, u)>>)
      BY <2>6
    <3>1. u \in Tasks
      BY <2>1, ExecutorAssumption
    <3>2. With("join", t, u) \in Good /\ With("join", t, u).op = "join" /\ With("join", t, u).u = u
      BY <2>1, <3>1, GoodOps DEF With
    <3>3. PICK ops \in Seq(Op) : Then(th, ops) /\ Len(ops) = 1 /\ ops[1] = With("join", t, u)
      BY <3>0, <3>2, LeavesOne
    <3>4. \A k \in 1..Len(ops) : ops[k].op = "join" /\ ops[k].u = u
      BY <3>2, <3>3
    <3> QED
      BY <1>3, <2>1, <3>0, <3>3, <3>4
  <2> QED
    BY <2>3, <2>4, <2>5, <2>6
<1>4. CASE Join(th)
  <2>1. At(th, "join") /\ t \in Tasks /\ Other(th) \in Tasks /\ ~Wake(th)
    BY <1>4, FirstFits DEF Join, At, Wake
  <2>2. /\ With("check", t, Other(th)) \in Good /\ With("check", t, Other(th)).op = "check"
        /\ With("check", t, Other(th)).t = t /\ With("check", t, Other(th)).u = Other(th)
    BY <2>1, GoodOps DEF With
  <2>3. PICK ops \in Seq(Op) : Then(th, ops) /\ Len(ops) = 1 /\ ops[1] = With("check", t, Other(th))
    BY <1>4, <2>2, LeavesOne DEF Join
  <2>4. \A k \in 1..Len(ops) : ops[k].op = "check" /\ ops[k].t = t /\ ops[k].u = Other(th)
    BY <2>2, <2>3
  <2> QED
    BY <1>4, <2>1, <2>3, <2>4
<1>5. CASE Check(th)
  <2>1. At(th, "check") /\ t \in Tasks /\ ~Wake(th)
    BY <1>5, FirstFits DEF Check, At, Wake
  <2>2. /\ Do("complete", t) \in Good /\ Do("complete", t).op = "complete"
        /\ Do("park", t) \in Good /\ Do("park", t).op = "park" /\ Do("park", t).t = t
    BY <2>1, GoodOps DEF Do
  <2>3. CASE Complete(Other(th))
    <3>1. PICK ops \in Seq(Op) : Then(th, ops) /\ Len(ops) = 1 /\ ops[1] = Do("complete", t)
      BY <1>5, <2>2, <2>3, LeavesOne DEF Check
    <3>2. \A k \in 1..Len(ops) : ops[k].op = "complete"
      BY <2>2, <3>1
    <3> QED
      BY <2>1, <3>1, <3>2
  <2>4. CASE ~Complete(Other(th))
    <3>1. PICK ops \in Seq(Op) : Then(th, ops) /\ Len(ops) = 1 /\ ops[1] = Do("park", t)
      BY <1>5, <2>2, <2>4, LeavesOne DEF Check
    <3>2. \A k \in 1..Len(ops) : ops[k].op = "park" /\ ops[k].t = t
      BY <2>2, <3>1
    <3> QED
      BY <1>5, <2>1, <2>4, <3>1, <3>2
  <2> QED
    BY <2>3, <2>4
<1> QED
  BY <1>1, <1>2, <1>3, <1>4, <1>5

\* A step does a thread's first operation.
LEMMA StepOps ==
  ASSUME Inv, NEW th \in Threads, Step(th)
  PROVE  /\ TypeInv /\ todo[th] # <<>> /\ 1 \in Slots(th) /\ Head(todo[th]) = todo[th][1]
         /\ todo[th][1].t = It(th)
         /\ \E ops \in Seq(Op) : Then(th, ops)
<1>1. \E op \in Names : At(th, op)
  BY DEF Step, At, Wake, MakeReady, Push, Notify, Event, BlockOn, Turn, Unlock, Run, StartTask, Poll,
         Join, Check, CompleteTask, Park, Cancel, CancelKids, Spawn, Insert, Link, Names, Holding
<1>2. PICK op \in Names : At(th, op)
  BY <1>1
<1>3. /\ TypeInv /\ todo[th] # <<>> /\ 1 \in Slots(th) /\ Head(todo[th]) = todo[th][1]
      /\ todo[th][1].t = It(th)
  BY <1>2, AtFirst DEF Inv
<1>4. \E ops \in Seq(Op) : Then(th, ops)
  <2>1. CASE Wake(th) \/ Event(th) \/ Poll(th) \/ Join(th) \/ Check(th)
    BY <2>1, LeavesOther
  <2>2. CASE \/ Push(th) \/ Notify(th) \/ BlockOn(th) \/ Turn(th) \/ Unlock(th) \/ Run(th) \/ StartTask(th)
             \/ CompleteTask(th) \/ Park(th) \/ Cancel(th) \/ CancelKids(th) \/ Spawn(th)
             \/ Insert(th) \/ Link(th) \/ MakeReady(th)
    BY <2>2, LeavesPlain
  <2> QED
    BY <2>1, <2>2 DEF Step
<1> QED
  BY <1>3, <1>4

\* The step t's own wake is turned into, and the one that forgets what t has missed.
Restarts(th, t) == It(th) = t /\ (At(th, "ready") \/ At(th, "start"))

LEMMA WokenKept ==
  ASSUME Inv, NEW th \in Threads, Step(th), NEW t \in Tasks, Woken(t), ~Restarts(th, t)
  PROVE  Woken(t)'
<1>1. /\ TypeInv /\ todo[th] # <<>> /\ Head(todo[th]) = todo[th][1] /\ todo[th][1].t = It(th)
  BY StepOps
<1>2. PICK ops \in Seq(Op) : Then(th, ops)
  BY StepOps
<1>3. CASE t \in missed
  <2>1. missed \subseteq missed' \/ (At(th, "start") /\ missed' = missed \ {It(th)})
    BY DEF Step, Wake, MakeReady, Push, Notify, Event, BlockOn, Turn, Unlock, Run, StartTask, Poll,
           Join, Check, CompleteTask, Park, Cancel, CancelKids, Spawn, Insert, Link
  <2> QED
    BY <1>3, <2>1 DEF Restarts, Woken
<1>4. CASE Called({"wake", "ready"}, t)
  <2>1. CASE ~(todo[th][1].op \in {"wake", "ready"} /\ todo[th][1].t = t)
    <3>1. Called({"wake", "ready"}, t)'
      BY <1>1, <1>2, <1>4, <2>1, CalledKept
    <3> QED
      BY <3>1 DEF Woken
  <2>2. CASE todo[th][1].op \in {"wake", "ready"} /\ todo[th][1].t = t
    <3>1. At(th, "wake") /\ It(th) = t
      BY <1>1, <2>2 DEF At, Restarts
    <3>2. Wake(th)
      BY <3>1 DEF Step, At, Wake, MakeReady, Push, Notify, Event, BlockOn, Turn, Unlock, Run,
                  StartTask, Poll, Join, Check, CompleteTask, Park, Cancel, CancelKids, Spawn,
                  Insert, Link
    <3>3. CASE Wakable(t)
      <4>1. PICK new \in Seq(Op) : Then(th, new) /\ Len(new) = 1 /\ new[1] = Do("ready", t)
        BY <3>1, <3>2, <3>3, LeavesOther
      <4>2. 1 \in 1..Len(new) /\ new[1].op \in {"wake", "ready"} /\ new[1].t = t
        BY <4>1 DEF Do
      <4>3. Called({"wake", "ready"}, t)'
        BY <1>1, <4>1, <4>2, CalledNew
      <4> QED
        BY <4>3 DEF Woken
    <3>4. CASE ~Wakable(t)
      BY <3>1, <3>2, <3>4 DEF Wake, Wakable, Woken
    <3> QED
      BY <3>3, <3>4
  <2> QED
    BY <2>1, <2>2
<1> QED
  BY <1>3, <1>4 DEF Woken

\* A task whose event happens is about to be woken.
LEMMA ArmedKept ==
  ASSUME Inv, NEW th \in Threads, Step(th), NEW t \in armed
  PROVE  t \in armed' \/ Woken(t)'
<1>1. TypeInv /\ todo[th] # <<>>
  BY StepOps
<1>2. CASE Event(th)
  <2>1. PICK v \in armed : /\ armed' = armed \ {v} \/ armed' = armed
                           /\ Then(th, <<Do("wake", v), Head(todo[th])>>)
    BY <1>2 DEF Event
  <2>2. v \in Tasks /\ Head(todo[th]) \in Good
    BY <1>1, <1>2, FirstGood DEF Event, TypeInv
  <2>3. Do("wake", v) \in Good /\ Do("wake", v).op = "wake" /\ Do("wake", v).t = v
    BY <2>2, GoodOps DEF Do
  <2>4. PICK ops \in Seq(Op) : Then(th, ops) /\ Len(ops) = 2 /\ ops[1] = Do("wake", v)
    BY <2>1, <2>2, <2>3, LeavesTwo
  <2>5. 1 \in 1..Len(ops) /\ ops[1].op \in {"wake", "ready"} /\ ops[1].t = v
    BY <2>3, <2>4
  <2>6. Called({"wake", "ready"}, v)'
    BY <1>1, <2>4, <2>5, CalledNew
  <2> QED
    BY <2>1, <2>6 DEF Woken
<1>3. CASE ~Event(th)
  <2>1. armed \subseteq armed'
    BY <1>3 DEF Step, Wake, MakeReady, Push, Notify, BlockOn, Turn, Unlock, Run, StartTask, Poll,
                Join, Check, CompleteTask, Park, Cancel, CancelKids, Spawn, Insert, Link
  <2> QED
    BY <2>1
<1> QED
  BY <1>2, <1>3

\* notify_waiters is about to wake everyone in the list it takes.
LEMMA NotifyWakes ==
  ASSUME Inv, NEW th \in Threads, Notify(th), NEW t \in Tasks, InSeq(t, waiters[It(th)])
  PROVE  Woken(t)'
<1> DEFINE list == waiters[It(th)]
           l == [i \in 1..Len(list) |-> Do("wake", list[i])]
<1>1. TypeInv /\ It(th) \in Tasks /\ todo[th] # <<>>
  BY FirstFits DEF Notify
<1>2. list \in Seq(Tasks) /\ "wake" \in Names
  BY <1>1 DEF TypeInv, Names
<1>3. l \in Seq(Op) /\ Len(l) = Len(list)
  BY <1>2, ListTyped
<1>4. PICK k \in 1..Len(list) : list[k] = t
  BY DEF InSeq
<1>5. k \in 1..Len(l) /\ l[k].op \in {"wake", "ready"} /\ l[k].t = t
  BY <1>3, <1>4 DEF Do
<1>6. Then(th, l)
  BY DEF Notify
<1> HIDE DEF l
<1>7. Called({"wake", "ready"}, t)'
  BY <1>1, <1>3, <1>5, <1>6, CalledNew
<1> QED
  BY <1>7 DEF Woken

\* A waker stays in the list of a task until notify_waiters takes the list.
LEMMA ListedKept ==
  ASSUME Inv, NEW th \in Threads, Step(th), NEW t \in Tasks, NEW u \in Tasks, InSeq(t, waiters[u])
  PROVE  InSeq(t, waiters[u])' \/ Woken(t)'
<1>1. waiters \in [Tasks -> Seq(Tasks)] /\ waiters[u] \in Seq(Tasks)
  BY DEF Inv, TypeInv
<1>2. CASE Notify(th)
  <2>1. CASE It(th) = u
    BY <1>2, <2>1, NotifyWakes
  <2>2. CASE It(th) # u
    BY <1>1, <1>2, <2>2 DEF Notify, InSeq
  <2> QED
    BY <2>1, <2>2
<1>3. CASE Join(th)
  <2>1. It(th) \in Tasks /\ Other(th) \in Tasks
    BY <1>3, FirstFits DEF Join
  <2>2. waiters'[u] = waiters[u] \/ waiters'[u] = Append(waiters[u], It(th))
    BY <1>1, <1>3, <2>1 DEF Join
  <2>3. InSeq(t, Append(waiters[u], It(th)))
    BY <1>1, <2>1, AppendProperties DEF InSeq
  <2>4. InSeq(t, waiters'[u])
    BY <2>2, <2>3
  <2> QED
    BY <2>4 DEF InSeq
<1>4. CASE ~Notify(th) /\ ~Join(th)
  <2>1. waiters' = waiters
    BY <1>4 DEF Step, Wake, MakeReady, Push, Event, BlockOn, Turn, Unlock, Run, StartTask, Poll,
                Check, CompleteTask, Park, Cancel, CancelKids, Spawn, Insert, Link
  <2> QED
    BY <2>1 DEF InSeq
<1> QED
  BY <1>2, <1>3, <1>4

\* What the steps do to the state of a task: it stays registered, and is marked as done
\* only by the step that completes it or cancels it.
LEMMA StateSteps ==
  ASSUME Inv, NEW th \in Threads, Step(th), NEW u \in Tasks
  PROVE  /\ state[u] # "unborn" => state'[u] # "unborn"
         /\ ~Complete(u) /\ Complete(u)' => It(th) = u /\ (CompleteTask(th) \/ Cancel(th))
         /\ state'[u] = "Waiting" => state[u] = "Waiting" \/ (Park(th) /\ It(th) = u)
         /\ state'[u] = "Waiting" => ~Restarts(th, u)
<1>0. TypeInv
  BY DEF Inv
<1>1. CASE UNCHANGED state
  <2>1. ~At(th, "ready") /\ ~At(th, "start")
    <3>1. ~MakeReady(th) /\ ~StartTask(th)
      <4>1. ASSUME MakeReady(th) PROVE FALSE
        <5>1. It(th) \in Tasks /\ Fits(todo[th][1], state) /\ todo[th][1].op = "ready" /\ todo[th][1].t = It(th)
          BY <4>1, FirstFits DEF MakeReady
        <5> QED
          BY <1>0, <1>1, <4>1, <5>1 DEF MakeReady, Fits, TypeInv
      <4>2. ASSUME StartTask(th) PROVE FALSE
        <5>1. It(th) \in Tasks /\ Fits(todo[th][1], state) /\ todo[th][1].op = "start" /\ todo[th][1].t = It(th)
          BY <4>2, FirstFits DEF StartTask
        <5> QED
          BY <1>0, <1>1, <4>2, <5>1 DEF StartTask, Fits, TypeInv
      <4> QED
        BY <4>1, <4>2
    <3> QED
      BY <3>1 DEF Step, At, Wake, Push, Notify, Event, BlockOn, Turn, Unlock, Run,
                  Poll, Join, Check, CompleteTask, Park, Cancel, CancelKids, Spawn, Insert, Link
  <2> QED
    BY <1>1, <2>1 DEF Complete, Restarts
<1>2. CASE MakeReady(th)
  <2>1. It(th) \in Tasks /\ At(th, "ready")
    BY <1>2, FirstFits DEF MakeReady
  <2> QED
    BY <1>0, <1>2, <2>1 DEF MakeReady, TypeInv, Complete, Restarts, At
<1>3. CASE StartTask(th)
  <2>1. It(th) \in Tasks /\ At(th, "start")
    BY <1>3, FirstFits DEF StartTask
  <2> QED
    BY <1>0, <1>3, <2>1 DEF StartTask, TypeInv, Complete, Restarts, At
<1>4. CASE CompleteTask(th)
  <2>1. It(th) \in Tasks /\ At(th, "complete")
    BY <1>4, FirstFits DEF CompleteTask
  <2> QED
    BY <1>0, <1>4, <2>1 DEF CompleteTask, TypeInv, Complete, Restarts, At
<1>5. CASE Park(th)
  <2>1. It(th) \in Tasks /\ At(th, "park")
    BY <1>5, FirstFits DEF Park
  <2> QED
    BY <1>0, <1>5, <2>1 DEF Park, TypeInv, Complete, Restarts, At
<1>6. CASE Cancel(th)
  <2>1. It(th) \in Tasks /\ At(th, "cancel")
    BY <1>6, FirstFits DEF Cancel
  <2> QED
    BY <1>0, <1>6, <2>1 DEF Cancel, TypeInv, Complete, Restarts, At
<1>7. CASE Insert(th)
  <2>1. It(th) \in Tasks /\ At(th, "insert")
    BY <1>7, FirstFits DEF Insert
  <2> QED
    BY <1>0, <1>7, <2>1 DEF Insert, TypeInv, Complete, Restarts, At
<1> QED
  BY <1>1, <1>2, <1>3, <1>4, <1>5, <1>6, <1>7
     DEF Step, Wake, Push, Notify, Event, BlockOn, Turn, Unlock, Run, Poll, Join, Check,
         CancelKids, Spawn, Link

\* A task that is not done, or has not notified its waiters, stays so until it does.
LEMMA UnfinishedKept ==
  ASSUME Inv, NEW th \in Threads, Step(th), NEW u \in Tasks, state[u] # "unborn", Unfinished(u),
         ~(Notify(th) /\ It(th) = u)
  PROVE  Unfinished(u)'
<1> DEFINE S == {"cancel", "kids", "notify"}
<1>1. TypeInv /\ todo[th] # <<>> /\ Head(todo[th]) = todo[th][1] /\ todo[th][1].t = It(th)
  BY StepOps
<1>2. PICK ops \in Seq(Op) : Then(th, ops)
  BY StepOps
<1>3. ASSUME CompleteTask(th), It(th) = u PROVE Called(S, u)'
  <2>1. Do("notify", u) \in Good /\ Do("notify", u).op = "notify" /\ Do("notify", u).t = u
    BY GoodOps DEF Do
  <2>2. PICK new \in Seq(Op) : Then(th, new) /\ Len(new) = 1 /\ new[1] = Do("notify", u)
    BY <1>3, <2>1, LeavesOne DEF CompleteTask
  <2>3. 1 \in 1..Len(new) /\ new[1].op \in S /\ new[1].t = u
    BY <2>1, <2>2
  <2> QED
    BY <1>1, <2>2, <2>3, CalledNew
<1>4. ASSUME Cancel(th), It(th) = u PROVE Called(S, u)'
  <2>1. Do("kids", u) \in Good /\ Do("kids", u).op = "kids" /\ Do("kids", u).t = u
    BY GoodOps DEF Do
  <2>2. PICK new \in Seq(Op) : Then(th, new) /\ Len(new) = 1 /\ new[1] = Do("kids", u)
    BY <1>4, <2>1, LeavesOne DEF Cancel
  <2>3. 1 \in 1..Len(new) /\ new[1].op \in S /\ new[1].t = u
    BY <2>1, <2>2
  <2> QED
    BY <1>1, <2>2, <2>3, CalledNew
<1>5. ASSUME CancelKids(th), It(th) = u PROVE Called(S, u)'
  <2> DEFINE kids == children[u]
             front == [i \in 1..Len(kids) |-> Do("cancel", kids[i])]
             last == Do("notify", u)
             l == front \o <<last>>
  <2>1. kids \in Seq(Tasks) /\ "cancel" \in Names /\ last \in Op
    BY <1>1, GoodOps DEF TypeInv, Names, Good
  <2>2. front \in Seq(Op) /\ Len(front) \in Nat
    BY <2>1, ListTyped, LenProperties
  <2>3. Then(th, l)
    BY <1>5 DEF CancelKids
  <2>4. last.op = "notify" /\ last.t = u
    BY DEF Do
  <2> HIDE DEF front, last
  <2>5. /\ l \in Seq(Op) /\ Len(l) = Len(front) + 1 /\ l[Len(front) + 1] = last
    <3>1. <<last>> \in Seq(Op) /\ Len(<<last>>) = 1 /\ <<last>>[1] = last
      BY <2>1
    <3> QED
      BY <2>2, <3>1, ConcatProperties
  <2> HIDE DEF l
  <2>6. Len(front) + 1 \in 1..Len(l) /\ l[Len(front) + 1].op \in S /\ l[Len(front) + 1].t = u
    BY <2>2, <2>4, <2>5
  <2> QED
    BY <1>1, <2>3, <2>5, <2>6, CalledNew
<1>6. CASE ~Complete(u)
  <2>1. CASE ~Complete(u)'
    BY <2>1 DEF Unfinished
  <2>2. CASE Complete(u)'
    <3>1. It(th) = u /\ (CompleteTask(th) \/ Cancel(th))
      BY <1>6, <2>2, StateSteps
    <3> QED
      BY <1>3, <1>4, <3>1 DEF Unfinished
  <2> QED
    BY <2>1, <2>2
<1>7. CASE Called(S, u)
  <2>1. CASE ~(todo[th][1].op \in S /\ todo[th][1].t = u)
    <3>1. Called(S, u)'
      <4> HIDE DEF S
      <4> QED
        BY <1>1, <1>2, <1>7, <2>1, CalledKept
    <3> QED
      BY <3>1 DEF Unfinished
  <2>2. CASE todo[th][1].op \in S /\ todo[th][1].t = u
    <3>1. (Cancel(th) \/ CancelKids(th) \/ Notify(th)) /\ It(th) = u
      BY <1>1, <2>2 DEF Step, At, Wake, MakeReady, Push, Event, BlockOn, Turn, Unlock, Run,
                  StartTask, Poll, Join, Check, CompleteTask, Park, Spawn, Insert, Link
    <3> QED
      BY <1>4, <1>5, <3>1 DEF Unfinished
  <2> QED
    BY <2>1, <2>2
<1> QED
  BY <1>6, <1>7 DEF Unfinished

LEMMA ComingKept ==
  ASSUME Inv, WakeInv, NEW th \in Threads, Step(th), NEW t \in Tasks, Coming(t), ~Restarts(th, t)
  PROVE  Coming(t)'
<1>1. CASE Woken(t)
  <2>1. Woken(t)'
    BY <1>1, WokenKept
  <2> QED
    BY <2>1 DEF Coming
<1>2. CASE t \in armed
  <2>1. t \in armed' \/ Woken(t)'
    BY <1>2, ArmedKept
  <2> QED
    BY <2>1 DEF Coming
<1>3. CASE \E u \in Tasks : InSeq(t, waiters[u]) /\ Unfinished(u)
  <2>1. PICK u \in Tasks : InSeq(t, waiters[u]) /\ Unfinished(u)
    BY <1>3
  <2>2. state[u] # "unborn"
    <3>1. waiters[u] # <<>>
      BY <2>1, EmptySeq DEF InSeq
    <3> QED
      BY <3>1 DEF WakeInv
  <2>3. CASE Notify(th) /\ It(th) = u
    <3>1. Woken(t)'
      BY <2>1, <2>3, NotifyWakes
    <3> QED
      BY <3>1 DEF Coming
  <2>4. CASE ~(Notify(th) /\ It(th) = u)
    <3>1. Unfinished(u)'
      BY <2>1, <2>2, <2>4, UnfinishedKept
    <3>2. InSeq(t, waiters[u])' \/ Woken(t)'
      BY <2>1, ListedKept
    <3> QED
      BY <3>1, <3>2 DEF Coming
  <2> QED
    BY <2>3, <2>4
<1> QED
  BY <1>1, <1>2, <1>3 DEF Coming

\* An operation that another one's claim keeps from being done: not of its task.
LEMMA OtherRestarts ==
  ASSUME Inv, NEW th \in Threads, Step(th), NEW x \in Threads, NEW i \in Slots(x),
         <<x, i>> # <<th, 1>>, todo[x][i].op \in {"check", "park"}
  PROVE  ~Restarts(th, todo[x][i].t)
<1>1. 1 \in Slots(th) /\ Head(todo[th]) = todo[th][1] /\ todo[th][1].t = It(th)
  BY StepOps
<1>2. todo[x][i].op \in Claim
  BY DEF Claim, Holding
<1>3. ASSUME Restarts(th, todo[x][i].t) PROVE Claims(todo[th][1], todo[x][i].t)
  BY <1>1, <1>3 DEF Restarts, At, Claims, Claim, Holding
<1> QED
  BY <1>1, <1>2, <1>3 DEF Inv, ClaimInv, OneClaim

LEMMA WakeStepInv == Inv /\ WakeInv /\ [Next]_vars => WakeInv'
<1> SUFFICES ASSUME Inv, WakeInv, [Next]_vars PROVE WakeInv'
  OBVIOUS
<1>1. CASE UNCHANGED vars
  BY <1>1 DEF vars, WakeInv, Slots, Coming, Woken, Unfinished, Called, Complete, InSeq
<1>2. ASSUME NEW th \in Threads, Step(th) PROVE WakeInv'
  <2>0. /\ TypeInv /\ todo \in [Threads -> Seq(Op)] /\ todo[th] # <<>> /\ 1 \in Slots(th)
        /\ Head(todo[th]) = todo[th][1] /\ todo[th][1].t = It(th)
    BY <1>2, StepOps DEF TypeInv
  <2>1. ASSUME NEW x \in Threads, NEW i \in Slots(x), <<x, i>> # <<th, 1>>, NEW t \in Tasks, NEW u \in Tasks
        PROVE  /\ todo[x][i].op = "join" /\ todo[x][i].u = u => state'[u] # "unborn"
               /\ todo[x][i].op = "check" /\ todo[x][i].t = t /\ todo[x][i].u = u =>
                    InSeq(t, waiters[u])' \/ Woken(t)'
               /\ todo[x][i].op = "park" /\ todo[x][i].t = t => Coming(t)'
    <3>1. ASSUME todo[x][i].op = "join", todo[x][i].u = u PROVE state'[u] # "unborn"
      BY <1>2, <3>1, StateSteps DEF WakeInv
    <3>2. ASSUME todo[x][i].op = "check", todo[x][i].t = t, todo[x][i].u = u
          PROVE  InSeq(t, waiters[u])' \/ Woken(t)'
      <4>1. ~Restarts(th, t)
        BY <1>2, <2>1, <3>2, OtherRestarts
      <4>2. InSeq(t, waiters[u]) \/ Woken(t)
        BY <3>2 DEF WakeInv
      <4>3. Woken(t) => Woken(t)'
        BY <1>2, <4>1, WokenKept
      <4>4. InSeq(t, waiters[u]) => InSeq(t, waiters[u])' \/ Woken(t)'
        BY <1>2, ListedKept
      <4> QED
        BY <4>2, <4>3, <4>4
    <3>3. ASSUME todo[x][i].op = "park", todo[x][i].t = t PROVE Coming(t)'
      <4>1. ~Restarts(th, t) /\ Coming(t)
        BY <1>2, <2>1, <3>3, OtherRestarts DEF WakeInv
      <4> QED
        BY <1>2, <4>1, ComingKept
    <3> QED
      BY <3>1, <3>2, <3>3
  <2>2. \E ops \in Seq(Op) : Then(th, ops) /\ \A k \in 1..Len(ops) : \A t, u \in Tasks :
          /\ ops[k].op = "join" /\ ops[k].u = u => state'[u] # "unborn"
          /\ ops[k].op = "check" /\ ops[k].t = t /\ ops[k].u = u => InSeq(t, waiters[u])' \/ Woken(t)'
          /\ ops[k].op = "park" /\ ops[k].t = t => Coming(t)'
    <3>1. CASE \/ Push(th) \/ Notify(th) \/ BlockOn(th) \/ Turn(th) \/ Unlock(th) \/ Run(th) \/ StartTask(th)
               \/ CompleteTask(th) \/ Park(th) \/ Cancel(th) \/ CancelKids(th) \/ Spawn(th)
               \/ Insert(th) \/ Link(th) \/ MakeReady(th)
      BY <3>1, LeavesPlain
    <3>2. CASE Wake(th) \/ Event(th) \/ Poll(th) \/ Join(th) \/ Check(th)
      <4>1. PICK ops \in Seq(Op) :
              /\ Then(th, ops)
              /\ \A k \in 1..Len(ops) :
                   /\ ops[k].op = "join" => Poll(th) /\ state[ops[k].u] # "unborn"
                   /\ ops[k].op = "check" => Join(th) /\ ops[k].t = It(th) /\ ops[k].u = Other(th)
                   /\ ops[k].op = "park" =>
                        /\ ops[k].t = It(th)
                        /\ \/ Poll(th) /\ armed' = armed \cup {It(th)}
                           \/ Check(th) /\ ~Complete(Other(th))
        BY <3>2, LeavesOther
      <4>2. Poll(th) => state' = state
        BY DEF Poll
      <4>3. ASSUME NEW t \in Tasks, NEW u \in Tasks, Join(th), It(th) = t, Other(th) = u
            PROVE  InSeq(t, waiters[u])'
        <5>1. todo[th][1].op = "join" /\ todo[th][1].u = u
          BY <2>0, <4>3 DEF Join, Other, At
        <5>2. state[u] # "unborn"
          BY <2>0, <5>1 DEF WakeInv
        <5>3. waiters[u] \in Seq(Tasks) /\ waiters'[u] = Append(waiters[u], t)
          BY <2>0, <4>3, <5>2 DEF Join, TypeInv
        <5> QED
          BY <5>3, AppendProperties, LenProperties DEF InSeq
      <4>4. ASSUME NEW t \in Tasks, It(th) = t, armed' = armed \cup {It(th)} PROVE Coming(t)'
        BY <4>4 DEF Coming
      <4>5. ASSUME NEW t \in Tasks, It(th) = t, Check(th), ~Complete(Other(th)) PROVE Coming(t)'
        <5>1. /\ Other(th) \in Tasks
              /\ todo[th][1].op = "check" /\ todo[th][1].u = Other(th)
          BY <1>2, <2>0, <4>5, FirstFits DEF Check, Other, At
        <5>2. InSeq(t, waiters[Other(th)]) \/ Woken(t)
          BY <2>0, <4>5, <5>1 DEF WakeInv
        <5>3. Coming(t) /\ ~Restarts(th, t)
          BY <4>5, <5>1, <5>2, <2>0 DEF Coming, Unfinished, Restarts, At
        <5> QED
          BY <1>2, <5>3, ComingKept
      <4>6. ASSUME NEW k \in 1..Len(ops), NEW t \in Tasks, NEW u \in Tasks
            PROVE  /\ ops[k].op = "join" /\ ops[k].u = u => state'[u] # "unborn"
                   /\ ops[k].op = "check" /\ ops[k].t = t /\ ops[k].u = u =>
                        InSeq(t, waiters[u])' \/ Woken(t)'
                   /\ ops[k].op = "park" /\ ops[k].t = t => Coming(t)'
        BY <4>1, <4>2, <4>3, <4>4, <4>5
      <4> QED
        BY <4>1, <4>6
    <3> QED
      BY <1>2, <3>1, <3>2 DEF Step
  <2>3. PICK ops \in Seq(Op) : Then(th, ops) /\ \A k \in 1..Len(ops) : \A t, u \in Tasks :
          /\ ops[k].op = "join" /\ ops[k].u = u => state'[u] # "unborn"
          /\ ops[k].op = "check" /\ ops[k].t = t /\ ops[k].u = u => InSeq(t, waiters[u])' \/ Woken(t)'
          /\ ops[k].op = "park" /\ ops[k].t = t => Coming(t)'
    BY <2>2
  <2>4. ASSUME NEW x \in Threads, NEW i \in Slots(x)', NEW t \in Tasks, NEW u \in Tasks
        PROVE  /\ todo'[x][i].op = "join" /\ todo'[x][i].u = u => state'[u] # "unborn"
               /\ todo'[x][i].op = "check" /\ todo'[x][i].t = t /\ todo'[x][i].u = u =>
                    InSeq(t, waiters[u])' \/ Woken(t)'
               /\ todo'[x][i].op = "park" /\ todo'[x][i].t = t => Coming(t)'
    <3>1. \/ x = th /\ i \in 1..Len(ops) /\ todo'[x][i] = ops[i]
          \/ \E j \in Slots(x) : <<x, j>> # <<th, 1>> /\ todo'[x][i] = todo[x][j]
      BY <2>0, <2>3, Moved
    <3>2. CASE x = th /\ i \in 1..Len(ops) /\ todo'[x][i] = ops[i]
      BY <2>3, <3>2
    <3>3. CASE \E j \in Slots(x) : <<x, j>> # <<th, 1>> /\ todo'[x][i] = todo[x][j]
      <4>1. PICK j \in Slots(x) : <<x, j>> # <<th, 1>> /\ todo'[x][i] = todo[x][j]
        BY <3>3
      <4> QED
        BY <2>1, <4>1
    <3> QED
      BY <3>1, <3>2, <3>3
  <2>5. ASSUME NEW t \in Tasks, state'[t] = "Waiting" PROVE Coming(t)'
    <3>1. ~Restarts(th, t) /\ (state[t] = "Waiting" \/ (Park(th) /\ It(th) = t))
      BY <1>2, <2>5, StateSteps
    <3>2. Coming(t)
      <4>1. CASE state[t] = "Waiting"
        BY <4>1 DEF WakeInv
      <4>2. CASE Park(th) /\ It(th) = t
        <5>1. todo[th][1].op = "park"
          BY <2>0, <4>2 DEF Park, At
        <5> QED
          BY <2>0, <4>2, <5>1 DEF WakeInv
      <4> QED
        BY <3>1, <4>1, <4>2
    <3> QED
      BY <1>2, <3>1, <3>2, ComingKept
  <2>6. ASSUME NEW u \in Tasks, waiters'[u] # <<>> PROVE state'[u] # "unborn"
    <3>1. state[u] # "unborn"
      <4>1. CASE waiters[u] # <<>>
        BY <4>1 DEF WakeInv
      <4>2. CASE waiters[u] = <<>>
        <5>1. Join(th) /\ Other(th) = u
          BY <1>2, <2>0, <2>6, <4>2
             DEF Step, Wake, MakeReady, Push, Notify, Event, BlockOn, Turn, Unlock, Run, StartTask,
                 Poll, Join, Check, CompleteTask, Park, Cancel, CancelKids, Spawn, Insert, Link, TypeInv
        <5>2. todo[th][1].op = "join" /\ todo[th][1].u = u
          BY <2>0, <5>1 DEF Join, At, Other
        <5> QED
          BY <2>0, <5>2 DEF WakeInv
      <4> QED
        BY <4>1, <4>2
    <3> QED
      BY <1>2, <3>1, StateSteps
  <2> QED
    BY <2>4, <2>5, <2>6 DEF WakeInv
<1> QED
  BY <1>1, <1>2 DEF Next

\* Whatever is polled, joined, cancelled, spawned and woken, early or twice: a waiting
\* task that has missed no wake since it began to run has one to come. The only way to
\* lose one is wake_task's finding the task not yet Waiting.
THEOREM WakeupsNotLost == Spec => []NoLostWakeup
<1>1. Init => WakeInv
  <2> SUFFICES ASSUME Init PROVE WakeInv
    OBVIOUS
  <2>1. \A x \in Threads : \A i \in Slots(x) : todo[x][i].op \notin {"join", "check", "park"}
    BY ExecutorAssumption DEF Init, Slots
  <2>2. /\ \A t \in Tasks : state[t] # "Waiting"
        /\ \A u \in Tasks : waiters[u] = <<>>
    BY DEF Init
  <2> QED
    BY <2>1, <2>2 DEF WakeInv
<1>2. Inv /\ WakeInv /\ [Next]_vars => WakeInv'
  BY WakeStepInv
<1>3. WakeInv => NoLostWakeup
  BY DEF WakeInv, NoLostWakeup, Coming, Woken, Unfinished, Called, InSeq, Slots
<1> QED
  BY <1>1, <1>2, <1>3, Invariance, InvInit, InvStep, PTL DEF Spec
=============================================================================
