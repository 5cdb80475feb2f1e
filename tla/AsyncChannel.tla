----------------------------- MODULE AsyncChannel -----------------------------
(* The bounded channel of runtime/async_rt.rs, used by sending and receiving  *)
(* tasks the way its interface asks for: try; when the channel is full (or    *)
(* empty) register a waker, try once more, and only then wait to be woken.    *)
(* One action is one critical section or one atomic load or store.            *)
EXTENDS Naturals, Sequences, FiniteSets

CONSTANTS
  Senders, Receivers, Closers,
  Capacity,
  Sends,       \* [Senders -> Nat]: how many values each sender sends
  Receives     \* [Receivers -> Nat]: how many values each receiver wants

Clients == Senders \cup Receivers

ASSUME ChannelAssumption ==
  /\ Capacity \in Nat
  /\ Senders \cap Receivers = {} /\ Closers \cap Clients = {}
  /\ Sends \in [Senders -> Nat]
  /\ Receives \in [Receivers -> Nat]

VARIABLES
  buffer,      \* Channel.buffer: <<sender, number>> for each value
  closed,      \* Channel.closed
  sendWaiters, \* Channel.send_waiters
  recvWaiters, \* Channel.recv_waiters
  pc,          \* what each client does next
  left,        \* how many values each client has left to send or receive
  registered,  \* clients that have registered a waker for this value
  missed,      \* clients a wake of which was dropped since they last registered
               \* (history)
  closers,     \* what each closer does next
  accepted,    \* the values try_send took, in order (history)
  delivered    \* the values try_recv gave, in order (history)

vars == <<buffer, closed, sendWaiters, recvWaiters, pc, left, registered, missed,
          closers, accepted, delivered>>

Init ==
  /\ buffer = <<>>
  /\ closed = FALSE
  /\ sendWaiters = <<>>
  /\ recvWaiters = <<>>
  /\ pc = [c \in Clients |-> "try"]
  /\ left = [c \in Clients |-> IF c \in Senders THEN Sends[c] ELSE Receives[c]]
  /\ registered = {}
  /\ missed = {}
  /\ closers = [k \in Closers |-> "store"]
  /\ accepted = <<>>
  /\ delivered = <<>>

-----------------------------------------------------------------------------
\* Where clients stand after c went to place and the tasks of W were woken: wake_task
\* makes a Waiting one ready, which tries again, and drops the wake of another one.
GoWaking(c, place, W) ==
  /\ pc' = [d \in Clients |-> IF d \in W /\ pc[d] = "asleep" THEN "try"
                              ELSE IF d = c THEN place ELSE pc[d]]
  /\ missed' = missed \cup {d \in W : pc[d] # "asleep"}

\* if let Some(waker) = waiters.pop() { waker.wake() }
Last1(waiters) == IF waiters = <<>> THEN {} ELSE {waiters[Len(waiters)]}
AllButLast(waiters) == IF waiters = <<>> THEN <<>> ELSE SubSeq(waiters, 1, Len(waiters) - 1)

\* A value has been passed: the next one is registered for anew.
Passed(c) == left' = [left EXCEPT ![c] = @ - 1] /\ registered' = registered \ {c}

\* Full or Empty: register the first time, wait the second time.
Retry(c) == IF c \in registered THEN "park" ELSE "register"

-----------------------------------------------------------------------------
\* try_send loads closed, without a lock.
TrySend(s) ==
  /\ pc[s] = "try" /\ left[s] > 0
  /\ pc' = [pc EXCEPT ![s] = IF closed THEN "done" ELSE "send"]
  /\ UNCHANGED <<buffer, closed, sendWaiters, recvWaiters, left, registered, missed,
                 closers, accepted, delivered>>

\* Bug: one value too many fits.
FullLate == Len(buffer) > Capacity

Full == Len(buffer) >= Capacity

\* It then locks buffer: Full, or the value is put in and one receiver is woken.
Send(s) ==
  /\ pc[s] = "send"
  /\ IF Full
     THEN /\ pc' = [pc EXCEPT ![s] = Retry(s)]
          /\ UNCHANGED <<buffer, recvWaiters, left, registered, missed, accepted>>
     ELSE /\ buffer' = Append(buffer, <<s, left[s]>>)
          /\ accepted' = Append(accepted, <<s, left[s]>>)
          /\ recvWaiters' = AllButLast(recvWaiters)
          /\ GoWaking(s, "try", Last1(recvWaiters))
          /\ Passed(s)
  /\ UNCHANGED <<closed, sendWaiters, closers, delivered>>

\* Bug: the newest value is taken out.
TakenLast == <<buffer[Len(buffer)], SubSeq(buffer, 1, Len(buffer) - 1)>>

\* pop_front: the value and what is left.
Taken == <<Head(buffer), Tail(buffer)>>

\* The sender to wake and the waiters that stay.
WakeSender == <<Last1(sendWaiters), AllButLast(sendWaiters)>>

\* try_recv locks buffer: the oldest value, and one sender is woken; or Closed; or
\* Empty.
Receive(r) ==
  /\ pc[r] = "try" /\ left[r] > 0
  /\ IF buffer # <<>>
     THEN /\ buffer' = Taken[2]
          /\ delivered' = Append(delivered, Taken[1])
          /\ sendWaiters' = WakeSender[2]
          /\ GoWaking(r, "try", WakeSender[1])
          /\ Passed(r)
     ELSE /\ pc' = [pc EXCEPT ![r] = IF closed THEN "done" ELSE Retry(r)]
          /\ UNCHANGED <<buffer, sendWaiters, left, registered, missed, delivered>>
  /\ UNCHANGED <<closed, recvWaiters, closers, accepted>>

\* register_send_wait and register_recv_wait
Register(c) ==
  /\ pc[c] = "register"
  /\ IF c \in Senders THEN sendWaiters' = Append(sendWaiters, c) /\ UNCHANGED recvWaiters
                      ELSE recvWaiters' = Append(recvWaiters, c) /\ UNCHANGED sendWaiters
  /\ registered' = registered \cup {c}
  /\ missed' = missed \ {c}
  /\ pc' = [pc EXCEPT ![c] = "try"]
  /\ UNCHANGED <<buffer, closed, left, closers, accepted, delivered>>

\* The task's poll answers Pending: run_task stores Waiting, whatever wake came first.
Park(c) ==
  /\ pc[c] = "park"
  /\ pc' = [pc EXCEPT ![c] = "asleep"]
  /\ registered' = registered \ {c}
  /\ UNCHANGED <<buffer, closed, sendWaiters, recvWaiters, left, missed, closers, accepted, delivered>>

-----------------------------------------------------------------------------
\* close: the flag, then the senders, then the receivers. Waking them takes the
\* lists' locks, one after the other.
CloseStore(k) ==
  /\ closers[k] = "store"
  /\ closed' = TRUE
  /\ closers' = [closers EXCEPT ![k] = "senders"]
  /\ UNCHANGED <<buffer, sendWaiters, recvWaiters, pc, left, registered, missed,
                 accepted, delivered>>

Elements(waiters) == {waiters[i] : i \in 1..Len(waiters)}

\* Bug: one waiter is woken, as a send or a receive does.
DrainedOne(waiters) == Last1(waiters)

\* The waiters close wakes.
Drained(waiters) == Elements(waiters)

CloseSenders(k) ==
  /\ closers[k] = "senders"
  /\ sendWaiters' = <<>>
  /\ GoWaking(k, "try", Drained(sendWaiters))
  /\ closers' = [closers EXCEPT ![k] = "receivers"]
  /\ UNCHANGED <<buffer, closed, recvWaiters, left, registered, accepted, delivered>>

CloseReceivers(k) ==
  /\ closers[k] = "receivers"
  /\ recvWaiters' = <<>>
  /\ GoWaking(k, "try", Drained(recvWaiters))
  /\ closers' = [closers EXCEPT ![k] = "closed"]
  /\ UNCHANGED <<buffer, closed, sendWaiters, left, registered, accepted, delivered>>

-----------------------------------------------------------------------------
Step(c) ==
  \/ c \in Senders /\ (TrySend(c) \/ Send(c))
  \/ c \in Receivers /\ Receive(c)
  \/ Register(c) \/ Park(c)

Close(k) == CloseStore(k) \/ CloseSenders(k) \/ CloseReceivers(k)

Next == (\E c \in Clients : Step(c)) \/ (\E k \in Closers : Close(k))

Spec == Init /\ [][Next]_vars

\* Clients that do not wait run, and a close that has begun ends.
FairSpec ==
  /\ Spec
  /\ \A c \in Clients : WF_vars(Step(c))
  /\ \A k \in Closers : WF_vars(CloseSenders(k) \/ CloseReceivers(k))

-----------------------------------------------------------------------------
(* Properties.                                                               *)

\* Whose value it is, and how many the sender had left.
Value == Senders \X Nat

\* Every variable keeps its shape. Behaviour: the fields of Channel, and at most
\* Capacity values in the buffer.
TypeOK ==
  /\ buffer \in Seq(Value) /\ Len(buffer) <= Capacity
  /\ closed \in BOOLEAN
  /\ sendWaiters \in Seq(Senders)
  /\ recvWaiters \in Seq(Receivers)
  /\ pc \in [Clients -> {"try", "send", "register", "park", "asleep", "done"}]
  /\ left \in [Clients -> Nat]
  /\ registered \subseteq Clients /\ missed \subseteq Clients
  /\ closers \in [Closers -> {"store", "senders", "receivers", "closed"}]
  /\ accepted \in Seq(Value)
  /\ delivered \in Seq(Value)

\* The channel is first in, first out, across all senders and receivers, and
\* through a close: what was delivered and what is buffered is what was accepted.
FirstInFirstOut == accepted = delivered \o buffer

\* A task sleeps only while a waker of its own is in the channel's list, or a wake of
\* it was dropped since it registered: that wake's waker is gone. Whoever else is woken
\* in its place: pop takes the waker registered last, which may be of a task that no
\* longer waits.
SleepersListed ==
  /\ \A s \in Senders : pc[s] = "asleep" => s \in Elements(sendWaiters) \cup missed
  /\ \A r \in Receivers : pc[r] = "asleep" => r \in Elements(recvWaiters) \cup missed

\* Once close has returned a task sleeps on the channel only if its wake came before
\* its sleep and was dropped: none that had loaded closed, or registered, or gone to
\* sleep, before, between or after close's steps was passed over.
NobodySleepsOnClosed ==
  (\E k \in Closers : closers[k] = "closed") =>
    \A c \in Clients : pc[c] = "asleep" => c \in missed

\* close: "Wake all waiters". A task that sleeps on a closed channel and has missed no
\* wake is woken, whichever of its steps the close fell between.
CloseReleasesAll ==
  \A c \in Clients : (closed /\ pc[c] = "asleep" /\ c \notin missed) ~> (pc[c] # "asleep")
=============================================================================
