-------------------------- MODULE MCAsyncExecutor --------------------------
(* Instances of AsyncExecutor for TLC: tasks a and b are queued from the      *)
(* start, c is spawned as a child of a. Thread r runs the executor.           *)
EXTENDS AsyncExecutor, TLC

CONSTANTS a, b, c, r, s, e, x

MCTasks == {a, b, c}
MCTwoTasks == {a, b}

NoJoins == [t \in Tasks |-> {}]
JoinA == [t \in Tasks |-> IF t = b THEN {a} ELSE {}]

\* Everything at once: r runs a, which b may join, e delivers events, s spawns a child
\* of a, x cancels a and with it the children it has by then.
RacingThreads == {r, s, e, x}
RacingCalls == r :> <<Do("block_on", a)>> @@ s :> <<With("spawn", c, a), Do("block_on", c)>>
               @@ e :> <<Do("event", NULL)>> @@ x :> <<Do("cancel", a)>>

\* No cancellation and no join: r blocks on a, and the events tasks wait for happen.
FairThreads == {r, e}
FairCalls == r :> <<Do("block_on", a)>> @@ e :> <<Do("event", NULL)>>
=============================================================================
