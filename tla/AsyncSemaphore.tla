---------------------------- MODULE AsyncSemaphore ----------------------------
(* The semaphore of runtime/async_rt.rs, used by tasks the way its interface  *)
(* asks for: try_acquire; when that fails register_wait, try_acquire once     *)
(* more, and only then wait to be woken. One action is one atomic operation.  *)
EXTENDS Naturals, Sequences, FiniteSets

CONSTANTS
  Tasks,
  MaxPermits,  \* Semaphore::new's argument
  Rounds       \* how often each task acquires

ASSUME SemaphoreAssumption ==
  /\ IsFiniteSet(Tasks)
  /\ MaxPermits \in Nat
  /\ Rounds \in Nat

VARIABLES
  permits,     \* Semaphore.permits
  waiters,     \* Semaphore.waiters
  pc,          \* what each task does next
  seen,        \* try_acquire's current
  registered,  \* tasks that have called register_wait since they last slept
  missed,      \* tasks that waited while a wake was given to a task not asleep (history)
  rounds       \* how often each task still has to acquire

vars == <<permits, waiters, pc, seen, registered, missed, rounds>>

Init ==
  /\ permits = MaxPermits
  /\ waiters = <<>>
  /\ pc = [t \in Tasks |-> "load"]
  /\ seen = [t \in Tasks |-> 0]
  /\ registered = {}
  /\ missed = {}
  /\ rounds = [t \in Tasks |-> Rounds]

Go(t, place) == pc' = [pc EXCEPT ![t] = place]

-----------------------------------------------------------------------------
(* try_acquire: a load, then a compare-exchange, until one of them decides.   *)

\* Bug: an empty semaphore is not noticed.
SomeAlways == TRUE

Some == permits # 0

Load(t) ==
  /\ pc[t] = "load" /\ rounds[t] > 0
  /\ IF Some
     THEN seen' = [seen EXCEPT ![t] = permits] /\ Go(t, "exchange")
     ELSE UNCHANGED seen /\ Go(t, IF t \in registered THEN "park" ELSE "register")
  /\ UNCHANGED <<permits, waiters, registered, missed, rounds>>

\* Bug: the value loaded earlier is written back, whatever permits is by now.
ExchangeStale(t) ==
  /\ pc[t] = "exchange"
  /\ permits' = seen[t] - 1
  /\ Go(t, "hold")
  /\ UNCHANGED <<waiters, seen, registered, missed, rounds>>

\* compare_exchange_weak fails when permits has changed, and may fail anyway.
Exchange(t) ==
  /\ pc[t] = "exchange"
  /\ \/ permits = seen[t] /\ permits' = permits - 1 /\ Go(t, "hold")
     \/ UNCHANGED permits /\ Go(t, "load")
  /\ UNCHANGED <<waiters, seen, registered, missed, rounds>>

Register(t) ==
  /\ pc[t] = "register"
  /\ waiters' = Append(waiters, t)
  /\ registered' = registered \cup {t}
  /\ missed' = missed \ {t}
  /\ Go(t, "load")
  /\ UNCHANGED <<permits, seen, rounds>>

\* The task's poll answers Pending: run_task stores Waiting, whatever wake came first.
Park(t) ==
  /\ pc[t] = "park"
  /\ registered' = registered \ {t}
  /\ Go(t, "asleep")
  /\ UNCHANGED <<permits, waiters, seen, missed, rounds>>

-----------------------------------------------------------------------------
(* release: fetch_add, then one waiter, the last that registered, is woken.   *)

Release(t) ==
  /\ pc[t] = "hold"
  /\ permits' = permits + 1
  /\ registered' = registered \ {t}
  /\ Go(t, "wake")
  /\ UNCHANGED <<waiters, seen, missed, rounds>>

\* Those that wait for a permit: asleep, or registered and about to try once more.
Waits == {t \in Tasks : pc[t] = "asleep"} \cup registered

\* t goes on once the last waiter was woken: wake_task makes a Waiting task ready,
\* which loads again, and drops the wake of another one.
WakingLast(t) ==
  LET u == waiters[Len(waiters)] IN
  IF pc[u] = "asleep"
  THEN pc' = [pc EXCEPT ![t] = "load", ![u] = "load"] /\ UNCHANGED missed
  ELSE Go(t, "load") /\ missed' = missed \cup Waits

\* Bug: a waiter is woken only when several are left.
WakeOneOfMany(t) ==
  /\ pc[t] = "wake"
  /\ rounds' = [rounds EXCEPT ![t] = @ - 1]
  /\ IF Len(waiters) < 2 THEN Go(t, "load") /\ UNCHANGED <<waiters, missed>>
     ELSE waiters' = SubSeq(waiters, 1, Len(waiters) - 1) /\ WakingLast(t)
  /\ UNCHANGED <<permits, seen, registered>>

WakeOne(t) ==
  /\ pc[t] = "wake"
  /\ rounds' = [rounds EXCEPT ![t] = @ - 1]
  /\ IF waiters = <<>> THEN Go(t, "load") /\ UNCHANGED <<waiters, missed>>
     ELSE waiters' = SubSeq(waiters, 1, Len(waiters) - 1) /\ WakingLast(t)
  /\ UNCHANGED <<permits, seen, registered>>

-----------------------------------------------------------------------------
Step(t) ==
  Load(t) \/ Exchange(t) \/ Register(t) \/ Park(t) \/ Release(t) \/ WakeOne(t)

Next == \E t \in Tasks : Step(t)

Spec == Init /\ [][Next]_vars

\* Tasks that are not waiting run, and a compare-exchange does not fail forever.
FairSpec ==
  /\ Spec
  /\ \A t \in Tasks : WF_vars(Step(t)) /\ SF_vars(Exchange(t) /\ pc'[t] = "hold")

-----------------------------------------------------------------------------
(* Properties.                                                               *)

\* Every variable keeps its shape. Behaviour: the fields of Semaphore and what a
\* caller of it may be doing.
TypeOK ==
  /\ permits \in 0..MaxPermits
  /\ waiters \in Seq(Tasks)
  /\ pc \in [Tasks -> {"load", "exchange", "register", "park", "asleep", "hold", "wake"}]
  /\ seen \in [Tasks -> 0..MaxPermits]
  /\ registered \subseteq Tasks
  /\ missed \subseteq Tasks
  /\ rounds \in [Tasks -> 0..Rounds]

Holders == {t \in Tasks : pc[t] = "hold"}

\* No permit is lost or made: those available and those held add up to the
\* number the semaphore was made with, through every race of try_acquire's load
\* and compare-exchange with other acquires and releases.
PermitsConserved == permits + Cardinality(Holders) = MaxPermits

\* A task that waits for a permit gets one, however its try, its register_wait and its
\* sleep fall between the releases of others, unless release gave a wake meanwhile to a
\* task that was not asleep, whose waker stayed in the list after it had its permit.
EveryoneAcquires ==
  \A t \in Tasks : (pc[t] = "asleep" /\ t \notin missed) ~> (pc[t] = "hold" \/ t \in missed)
=============================================================================
