----------------------------- MODULE AsyncOneshot -----------------------------
(* The one-value channel of runtime/async_rt.rs: any number of tasks call     *)
(* send, one task receives the way the interface asks for: try_recv, then     *)
(* register_wait, try_recv again, and wait to be woken. One action is one     *)
(* critical section or one atomic load or store.                              *)
EXTENDS Naturals, FiniteSets

CONSTANTS
  Senders,     \* tasks that call send, once each
  None         \* Option::None

ASSUME OneshotAssumption == None \notin Senders

VARIABLES
  value,       \* Oneshot.value: None, or whose value it is
  completed,   \* Oneshot.completed
  waiter,      \* Oneshot.waiter is set
  spc,         \* what each sender does next
  rpc,         \* what the receiver does next
  listed,      \* the receiver has registered since it last slept
  dropped,     \* the receiver's wake was dropped since it last registered (history)
  got          \* what the receiver received

oneshot == <<value, completed, waiter, spc, rpc, listed, dropped, got>>

InitOneshot ==
  /\ value = None
  /\ completed = FALSE
  /\ waiter = FALSE
  /\ spc = [s \in Senders |-> "load"]
  /\ rpc = "load"
  /\ listed = FALSE
  /\ dropped = FALSE
  /\ got = None

-----------------------------------------------------------------------------
(* send                                                                      *)

SendLoad(s) ==
  /\ spc[s] = "load"
  /\ spc' = [spc EXCEPT ![s] = IF completed THEN "refused" ELSE "value"]
  /\ UNCHANGED <<value, completed, waiter, rpc, listed, dropped, got>>

SendValue(s) ==
  /\ spc[s] = "value"
  /\ value' = s
  /\ spc' = [spc EXCEPT ![s] = "store"]
  /\ UNCHANGED <<completed, waiter, rpc, listed, dropped, got>>

SendStore(s) ==
  /\ spc[s] = "store"
  /\ completed' = TRUE
  /\ spc' = [spc EXCEPT ![s] = "wake"]
  /\ UNCHANGED <<value, waiter, rpc, listed, dropped, got>>

\* Bug: the waiter is not woken.
SendWakeNobody(s) ==
  /\ spc[s] = "wake"
  /\ spc' = [spc EXCEPT ![s] = "sent"]
  /\ waiter' = FALSE
  /\ UNCHANGED <<value, completed, rpc, listed, dropped, got>>

\* The waiter is taken and woken: wake_task makes a Waiting task ready and drops the
\* wake of another one.
SendWake(s) ==
  /\ spc[s] = "wake"
  /\ spc' = [spc EXCEPT ![s] = "sent"]
  /\ waiter' = FALSE
  /\ rpc' = IF waiter /\ rpc = "asleep" THEN "load" ELSE rpc
  /\ dropped' = (dropped \/ (waiter /\ rpc # "asleep"))
  /\ UNCHANGED <<value, completed, listed, got>>

-----------------------------------------------------------------------------
(* The receiver.                                                             *)

\* Bug: the value is looked for before it is complete.
RecvLoadAlways ==
  /\ rpc = "load"
  /\ rpc' = "take"
  /\ UNCHANGED <<value, completed, waiter, spc, listed, dropped, got>>

\* try_recv loads completed: it goes for the value or has none.
RecvLoad ==
  /\ rpc = "load"
  /\ rpc' = IF completed THEN "take" ELSE IF listed THEN "park" ELSE "register"
  /\ UNCHANGED <<value, completed, waiter, spc, listed, dropped, got>>

RecvTake ==
  /\ rpc = "take"
  /\ got' = value
  /\ value' = None
  /\ rpc' = "received"
  /\ UNCHANGED <<completed, waiter, spc, listed, dropped>>

RecvRegister ==
  /\ rpc = "register"
  /\ waiter' = TRUE
  /\ listed' = TRUE
  /\ dropped' = FALSE
  /\ rpc' = "load"
  /\ UNCHANGED <<value, completed, spc, got>>

\* The poll answers Pending: run_task stores Waiting, whatever wake came first.
RecvPark ==
  /\ rpc = "park"
  /\ rpc' = "asleep"
  /\ listed' = FALSE
  /\ UNCHANGED <<value, completed, waiter, spc, dropped, got>>

-----------------------------------------------------------------------------
Send(s) == SendLoad(s) \/ SendValue(s) \/ SendStore(s) \/ SendWake(s)
Recv == RecvLoad \/ RecvTake \/ RecvRegister \/ RecvPark

NextOneshot == (\E s \in Senders : Send(s)) \/ Recv

SpecOneshot == InitOneshot /\ [][NextOneshot]_oneshot

\* Tasks that do not wait run.
FairOneshot == SpecOneshot /\ WF_oneshot(Recv) /\ \A s \in Senders : WF_oneshot(Send(s))

-----------------------------------------------------------------------------
(* Properties.                                                               *)

\* The values that send accepted (it returned Ok, or is about to).
Accepted == {s \in Senders : spc[s] \in {"wake", "sent"}}

\* Once completed is seen there is a value to take: the receiver never takes None,
\* whatever senders race, so try_recv after a send never misses it.
TakesAValue == rpc = "received" => got \in Senders

\* The receiver does not sleep over a value: while it is asleep and the oneshot is
\* completed, a sender is still about to wake it, or did before it slept and was ignored.
SleeperIsWoken == rpc = "asleep" /\ completed => dropped \/ \E s \in Senders : spc[s] = "wake"

\* A value that was sent reaches the receiver, awake or asleep, unless the wake for it
\* came between the receiver's second try and its sleep, and was dropped.
ReceiverServed ==
  (Accepted # {}) ~> (rpc = "received" \/ (rpc = "asleep" /\ dropped))
=============================================================================
