---------------------------- MODULE AsyncExecutor ----------------------------
(* The task executor of runtime/async_rt.rs: task states, the global queue,   *)
(* Waker::wake, Executor::spawn, spawn_child, cancel and block_on, and        *)
(* JoinHandle, called by any number of threads. Each thread holds the list of *)
(* operations it still has to do, innermost call first; one action is one     *)
(* atomic operation on shared state: a critical section, a load or a store.   *)
EXTENDS Naturals, Sequences, FiniteSets

CONSTANTS
  Tasks,
  Threads,
  Calls,       \* [Threads -> Seq(Op)]: the calls each thread makes
  Joins,       \* [Tasks -> SUBSET Tasks]: the tasks a task's future may join
  MaxPending,  \* how often a task's poll may answer Pending
  EarlyWake,   \* an event may wake a task before the poll that asked for it has
               \* returned, and more than once
  NULL

VARIABLES
  state,       \* TaskState of each task; "unborn" before it is in ExecutorInner.tasks
  queue,       \* ExecutorInner.global_queue
  qlock,       \* the thread inside block_on that holds the lock of global_queue
  tlock,       \* the thread inside wake_task that holds the lock of tasks
  children,    \* Task.children
  waiters,     \* Task.waiters: the tasks whose wakers register_wait stored
  armed,       \* tasks whose wakers event sources hold
  pendings,    \* how often each task's poll has answered Pending
  todo,        \* what each thread still has to do
  missed       \* tasks a wake of which was dropped since they last started to run
               \* (history)

vars == <<state, queue, qlock, tlock, children, waiters, armed, pendings, todo, missed>>

TaskState == {"unborn", "Ready", "Running", "Waiting", "Completed", "Cancelled"}

\* Operations with a task in hand: it has left the queue, or is about to enter it.
Holding == {"push", "run", "start", "poll", "join", "check", "complete", "park"}

\* An operation on task t; u is the parent in "spawn" and "link", the task to
\* join in "join" and "check".
Op == [op : Holding \cup {"block_on", "turn", "unlock", "notify", "wake", "ready",
                          "cancel", "kids", "spawn", "insert", "link", "event"},
       t : Tasks \cup {NULL}, u : Tasks \cup {NULL}]

\* What threads call. The task of a spawn is a new one: spawn takes its id from a
\* counter that only grows.
ASSUME ExecutorAssumption ==
  /\ IsFiniteSet(Tasks) /\ NULL \notin Tasks \cup Threads
  /\ Calls \in [Threads -> Seq(Op)]
  /\ \A th \in Threads : \A i \in 1..Len(Calls[th]) :
       /\ Calls[th][i].op \in {"block_on", "cancel", "spawn", "event"}
       /\ Calls[th][i].op # "event" => Calls[th][i].t \in Tasks
  /\ \A th, ti \in Threads : \A i \in 1..Len(Calls[th]), j \in 1..Len(Calls[ti]) :
       Calls[th][i].op = "spawn" /\ Calls[ti][j].op = "spawn" /\ Calls[th][i].t = Calls[ti][j].t
         => th = ti /\ i = j
  /\ Joins \in [Tasks -> SUBSET Tasks]
  /\ MaxPending \in Nat /\ EarlyWake \in BOOLEAN

Do(op, t) == [op |-> op, t |-> t, u |-> NULL]
With(op, t, u) == [op |-> op, t |-> t, u |-> u]

At(th, op) == todo[th] # <<>> /\ Head(todo[th]).op = op
It(th) == Head(todo[th]).t
Other(th) == Head(todo[th]).u

\* th has done its first operation, which amounts to doing ops.
Then(th, ops) == todo' = [todo EXCEPT ![th] = ops \o Tail(@)]

\* Tasks with a future, registered and queued before the threads start.
Queued == {t \in Tasks : \A th \in Threads : \A i \in 1..Len(Calls[th]) :
                           ~(Calls[th][i].op = "spawn" /\ Calls[th][i].t = t)}

Orders(S) == {s \in [1..Cardinality(S) -> S] : {s[i] : i \in 1..Cardinality(S)} = S}

Init ==
  /\ state = [t \in Tasks |-> IF t \in Queued THEN "Ready" ELSE "unborn"]
  /\ queue \in Orders(Queued)
  /\ qlock = NULL
  /\ tlock = NULL
  /\ children = [t \in Tasks |-> <<>>]
  /\ waiters = [t \in Tasks |-> <<>>]
  /\ armed = {}
  /\ pendings = [t \in Tasks |-> 0]
  /\ todo = Calls
  /\ missed = {}

\* is_complete and JoinHandle::is_finished: an unknown task counts as complete.
\* (get_task locks tasks for the lookup alone, and a registered task stays: here, in
\* cancel, spawn_child and register_wait the lookup is one with the load or store of
\* the task that follows it, which needs no lock of tasks.)
Complete(t) == state[t] \in {"unborn", "Completed", "Cancelled"}

QueueFree == qlock = NULL

-----------------------------------------------------------------------------
(* ExecutorInner::wake_task and Task::notify_waiters.                         *)

\* Bug: a running task is made ready too.
WakableRunning(t) == state[t] \in {"Waiting", "Running"}

\* Bug: every known task is made ready.
WakableKnown(t) == state[t] # "unborn"

\* Bug: the wrong state is tested.
WakableReady(t) == state[t] = "Ready"

Wakable(t) == state[t] = "Waiting"

\* wake_task locks tasks and loads the task's state. It drops the wake of a task that
\* is not Waiting, the Running one that run_task is about to store Waiting of included.
Wake(th) ==
  /\ At(th, "wake") /\ tlock = NULL
  /\ IF Wakable(It(th))
     THEN tlock' = th /\ Then(th, <<Do("ready", It(th))>>)
     ELSE UNCHANGED tlock /\ Then(th, <<>>)
  /\ missed' = missed \cup ({It(th)} \ {t \in Tasks : state[t] = "Waiting"})
  /\ UNCHANGED <<state, queue, qlock, children, waiters, armed, pendings>>

\* It stores Ready and unlocks tasks.
MakeReady(th) ==
  /\ At(th, "ready")
  /\ state' = [state EXCEPT ![It(th)] = "Ready"]
  /\ tlock' = NULL
  /\ Then(th, <<Do("push", It(th))>>)
  /\ UNCHANGED <<queue, qlock, children, waiters, armed, pendings, missed>>

\* wake_task and spawn put the task at the back of global_queue.
Push(th) ==
  /\ At(th, "push") /\ QueueFree
  /\ queue' = Append(queue, It(th))
  /\ Then(th, <<>>)
  /\ UNCHANGED <<state, qlock, tlock, children, waiters, armed, pendings, missed>>

\* notify_waiters takes the list of waiters, then wakes each in order.
Notify(th) ==
  /\ At(th, "notify")
  /\ LET woken == waiters[It(th)] IN
       Then(th, [i \in 1..Len(woken) |-> Do("wake", woken[i])])
  /\ waiters' = [waiters EXCEPT ![It(th)] = <<>>]
  /\ UNCHANGED <<state, queue, qlock, tlock, children, armed, pendings, missed>>

\* An event some task's poll asked for happens: its source wakes the task.
Event(th) ==
  /\ At(th, "event")
  /\ \E t \in armed :
       /\ EarlyWake \/ state[t] = "Waiting"
       /\ \/ armed' = armed \ {t}
          \/ EarlyWake /\ UNCHANGED armed
       /\ Then(th, <<Do("wake", t), Head(todo[th])>>)
  /\ UNCHANGED <<state, queue, qlock, tlock, children, waiters, pendings, missed>>

-----------------------------------------------------------------------------
(* Executor::block_on and run_task.                                           *)

\* while !self.is_complete(task_id)
BlockOn(th) ==
  /\ At(th, "block_on")
  /\ Then(th, IF Complete(It(th)) THEN <<>> ELSE <<Do("turn", NULL), Head(todo[th])>>)
  /\ UNCHANGED <<state, queue, qlock, tlock, children, waiters, armed, pendings, missed>>

\* The loop's body locks global_queue and takes its first task, if any. The guard
\* is a temporary of the if-let: it is dropped after run_task or yield_now.
Turn(th) ==
  /\ At(th, "turn") /\ QueueFree
  /\ qlock' = th
  /\ IF queue = <<>>
     THEN UNCHANGED queue /\ Then(th, <<Do("unlock", NULL)>>)
     ELSE queue' = Tail(queue) /\ Then(th, <<Do("run", Head(queue)), Do("unlock", NULL)>>)
  /\ UNCHANGED <<state, tlock, children, waiters, armed, pendings, missed>>

Unlock(th) ==
  /\ At(th, "unlock")
  /\ qlock' = NULL
  /\ Then(th, <<>>)
  /\ UNCHANGED <<state, queue, tlock, children, waiters, armed, pendings, missed>>

\* run_task returns at once unless it reads Ready.
Run(th) ==
  /\ At(th, "run")
  /\ Then(th, IF state[It(th)] = "Ready" THEN <<Do("start", It(th))>> ELSE <<>>)
  /\ UNCHANGED <<state, queue, qlock, tlock, children, waiters, armed, pendings, missed>>

StartTask(th) ==
  /\ At(th, "start")
  /\ state' = [state EXCEPT ![It(th)] = "Running"]
  /\ Then(th, <<Do("poll", It(th))>>)
  /\ missed' = missed \ {It(th)}
  /\ UNCHANGED <<queue, qlock, tlock, children, waiters, armed, pendings>>

\* The task's future is ready, or waits for an event, or joins another task, whose
\* handle it has from spawn: the task is registered. A task made by spawn has no poll
\* function: it is ready at once.
Poll(th) ==
  LET t == It(th) IN
  /\ At(th, "poll")
  /\ \/ Then(th, <<Do("complete", t)>>) /\ UNCHANGED <<armed, pendings>>
     \/ /\ t \in Queued /\ pendings[t] < MaxPending
        /\ pendings' = [pendings EXCEPT ![t] = @ + 1]
        /\ \/ Then(th, <<Do("park", t)>>) /\ armed' = armed \cup {t}
           \/ \E u \in Joins[t] : /\ state[u] # "unborn"
                                 /\ Then(th, <<With("join", t, u)>>) /\ UNCHANGED armed
  /\ UNCHANGED <<state, queue, qlock, tlock, children, waiters, missed>>

\* JoinHandle::register_wait, for a task that is registered.
Join(th) ==
  LET u == Other(th) IN
  /\ At(th, "join")
  /\ waiters' = IF state[u] = "unborn" THEN waiters
                ELSE [waiters EXCEPT ![u] = Append(@, It(th))]
  /\ Then(th, <<With("check", It(th), u)>>)
  /\ UNCHANGED <<state, queue, qlock, tlock, children, armed, pendings, missed>>

\* JoinHandle::is_finished, after registering: ready if it is, else pending.
Check(th) ==
  /\ At(th, "check")
  /\ Then(th, <<Do(IF Complete(Other(th)) THEN "complete" ELSE "park", It(th))>>)
  /\ UNCHANGED <<state, queue, qlock, tlock, children, waiters, armed, pendings, missed>>

\* Poll::Ready: Completed is stored, then the waiters are notified.
CompleteTask(th) ==
  /\ At(th, "complete")
  /\ state' = [state EXCEPT ![It(th)] = "Completed"]
  /\ Then(th, <<Do("notify", It(th))>>)
  /\ UNCHANGED <<queue, qlock, tlock, children, waiters, armed, pendings, missed>>

\* Poll::Pending: Waiting is stored.
Park(th) ==
  /\ At(th, "park")
  /\ state' = [state EXCEPT ![It(th)] = "Waiting"]
  /\ Then(th, <<>>)
  /\ UNCHANGED <<queue, qlock, tlock, children, waiters, armed, pendings, missed>>

-----------------------------------------------------------------------------
(* Executor::spawn, spawn_child and cancel.                                   *)

\* A known task is marked, whatever it is doing.
Cancel(th) ==
  LET t == It(th) IN
  /\ At(th, "cancel")
  /\ IF state[t] = "unborn"
     THEN UNCHANGED state /\ Then(th, <<>>)
     ELSE state' = [state EXCEPT ![t] = "Cancelled"] /\ Then(th, <<Do("kids", t)>>)
  /\ UNCHANGED <<queue, qlock, tlock, children, waiters, armed, pendings, missed>>

\* Its children, as they are now, are cancelled in turn; then its waiters learn of it.
CancelKids(th) ==
  LET kids == children[It(th)] IN
  /\ At(th, "kids")
  /\ Then(th, [i \in 1..Len(kids) |-> Do("cancel", kids[i])] \o <<Do("notify", It(th))>>)
  /\ UNCHANGED <<state, queue, qlock, tlock, children, waiters, armed, pendings, missed>>

\* spawn_child looks its parent up first, and links the child last.
Spawn(th) ==
  LET t == It(th)
      u == Other(th)
  IN
  /\ At(th, "spawn")
  /\ IF u = NULL THEN Then(th, <<Do("insert", t), Do("push", t)>>)
     ELSE Then(th, IF state[u] = "unborn" THEN <<>>
                   ELSE <<Do("insert", t), Do("push", t), With("link", t, u)>>)
  /\ UNCHANGED <<state, queue, qlock, tlock, children, waiters, armed, pendings, missed>>

Insert(th) ==
  /\ At(th, "insert") /\ tlock = NULL
  /\ state' = [state EXCEPT ![It(th)] = "Ready"]
  /\ Then(th, <<>>)
  /\ UNCHANGED <<queue, qlock, tlock, children, waiters, armed, pendings, missed>>

Link(th) ==
  /\ At(th, "link")
  /\ children' = [children EXCEPT ![Other(th)] = Append(@, It(th))]
  /\ Then(th, <<>>)
  /\ UNCHANGED <<state, queue, qlock, tlock, waiters, armed, pendings, missed>>

-----------------------------------------------------------------------------
Step(th) ==
  \/ Wake(th) \/ MakeReady(th) \/ Push(th) \/ Notify(th) \/ Event(th)
  \/ BlockOn(th) \/ Turn(th) \/ Unlock(th)
  \/ Run(th) \/ StartTask(th) \/ Poll(th) \/ Join(th) \/ Check(th)
  \/ CompleteTask(th) \/ Park(th)
  \/ Cancel(th) \/ CancelKids(th) \/ Spawn(th) \/ Insert(th) \/ Link(th)

Next == \E th \in Threads : Step(th)

Spec == Init /\ [][Next]_vars

\* Threads are scheduled, a mutex that keeps being released is eventually got,
\* and the events tasks wait for happen.
FairSpec == Spec /\ \A th \in Threads : SF_vars(Step(th))

-----------------------------------------------------------------------------
(* Properties.                                                               *)

Ops(th) == {todo[th][i].op : i \in 1..Len(todo[th])}

\* Every variable keeps its shape, and each lock is held by the thread that has
\* to release it. Behaviour: the fields of Task and ExecutorInner and the two
\* mutex guards of wake_task and block_on.
TypeOK ==
  /\ state \in [Tasks -> TaskState]
  /\ queue \in Seq(Tasks)
  /\ {qlock, tlock} \subseteq Threads \cup {NULL}
  /\ \A th \in Threads : (qlock = th) = ("unlock" \in Ops(th))
                      /\ (tlock = th) = ("ready" \in Ops(th))
  /\ children \in [Tasks -> Seq(Tasks)]
  /\ waiters \in [Tasks -> Seq(Tasks)]
  /\ armed \subseteq Tasks
  /\ pendings \in [Tasks -> 0..MaxPending]
  /\ todo \in [Threads -> Seq(Op)]
  /\ missed \subseteq Tasks

\* How many places hold t: entries of the queue, and hands.
Holders(t) ==
  Cardinality({i \in 1..Len(queue) : queue[i] = t})
  + Cardinality(UNION {{<<th, i>> : i \in {j \in 1..Len(todo[th]) :
                          todo[th][j].op \in Holding /\ todo[th][j].t = t}} : th \in Threads})

\* A task is in the queue or in one hand, never twice, whatever wakes, cancels and
\* spawns race: a Ready task is in exactly one place, so run_task will find it and
\* no two threads poll it; a Waiting task is in none until it is woken.
HeldOnce ==
  \A t \in Tasks :
    /\ Holders(t) <= 1
    /\ state[t] = "Ready" => Holders(t) = 1
    /\ state[t] = "Waiting" => Holders(t) = 0

\* A wake is lost in one way only: by finding its task still running. A Waiting task
\* that has missed no wake since it began to run has one to come: its waker is with an
\* event source, in a thread that is about to wake it, or in the list of a task it
\* joins that has not finished or not yet notified; whatever is cancelled meanwhile.
NoLostWakeup ==
  \A t \in Tasks :
    state[t] = "Waiting" =>
      \/ t \in missed
      \/ t \in armed
      \/ \E th \in Threads : \E i \in 1..Len(todo[th]) :
           todo[th][i].op \in {"wake", "ready"} /\ todo[th][i].t = t
      \/ \E u \in Tasks :
           /\ \E i \in 1..Len(waiters[u]) : waiters[u][i] = t
           /\ ~Complete(u) \/ \E th \in Threads : \E i \in 1..Len(todo[th]) :
                                todo[th][i].op \in {"cancel", "kids", "notify"} /\ todo[th][i].t = u

\* run_task stores Completed once: no late wake, repeated event, join or cancel ever
\* makes a task that has completed Ready, Running or Waiting again.
CompletedStaysFinished ==
  [][\A t \in Tasks : state[t] = "Completed" => state'[t] \in {"Completed", "Cancelled"}]_vars

\* block_on: "Block until a task completes", with tasks whose events happen and whose
\* wakers are called, each "scheduling it for execution". It returns.
BlockOnReturns ==
  \A th \in Threads : ("block_on" \in Ops(th)) ~> ("block_on" \notin Ops(th))
=============================================================================
