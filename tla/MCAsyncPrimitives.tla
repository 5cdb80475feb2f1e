------------------------ MODULE MCAsyncPrimitives ------------------------
(* Instance of AsyncSemaphore and AsyncOneshot for TLC, one after the other   *)
(* so that their states add up: tasks work under the semaphore; when all have *)
(* done their rounds and left no waker behind (a single state, of the many    *)
(* they may end in) each sends on the oneshot, which a receiver reads.        *)
EXTENDS AsyncSemaphore, AsyncOneshot

CONSTANTS t1, t2, t3
ThreeTasks == {t1, t2, t3}

both == <<vars, oneshot>>

AllWorked ==
  /\ \A t \in Tasks : rounds[t] = 0 /\ pc[t] = "load"
  /\ waiters = <<>> /\ registered = {} /\ missed = {}

WorkStep(t) == Step(t) /\ UNCHANGED oneshot
SendStep(t) == AllWorked /\ Send(t) /\ UNCHANGED vars
RecvStep == AllWorked /\ Recv /\ UNCHANGED vars

InitBoth == Init /\ InitOneshot
NextBoth == (\E t \in Tasks : WorkStep(t) \/ SendStep(t)) \/ RecvStep

\* The fairness of FairSpec and of FairOneshot.
FairBoth ==
  /\ InitBoth /\ [][NextBoth]_both
  /\ \A t \in Tasks : /\ WF_both(WorkStep(t)) /\ WF_both(SendStep(t))
                      /\ SF_both(Exchange(t) /\ pc'[t] = "hold" /\ UNCHANGED oneshot)
  /\ WF_both(RecvStep)
=============================================================================
