------------------------- MODULE AsyncChannelProofs -------------------------
(* Proofs about AsyncChannel for any number of senders, receivers and closers, *)
(* any capacity and any traffic: its type invariant, first in first out, and   *)
(* that a task asleep, on an open or a closed channel, has a waker in the list *)
(* or had a wake dropped.                                                      *)
EXTENDS AsyncChannel, SequenceTheorems, TLAPS

\* The type invariant, and that a sender that goes on has a value to send.
TypeInv ==
  /\ TypeOK
  /\ \A s \in Senders : pc[s] = "send" => left[s] > 0

-----------------------------------------------------------------------------
(* What the helpers on lists of waiters give.                                 *)

LEMMA FrontType ==
  ASSUME NEW S, NEW s \in Seq(S), NEW n \in 0..Len(s)
  PROVE  /\ SubSeq(s, 1, n) \in Seq(S)
         /\ Len(SubSeq(s, 1, n)) = n
         /\ \A i \in 1..n : SubSeq(s, 1, n)[i] = s[i]
<1>1. n \in Nat /\ \A i \in 1..n : i \in 1..Len(s)
  OBVIOUS
<1>2. \A i \in 1..n : s[i] \in S
  BY <1>1, ElementOfSeq
<1> QED
  BY <1>1, <1>2

LEMMA LastOnes ==
  ASSUME NEW S, NEW w \in Seq(S)
  PROVE  /\ AllButLast(w) \in Seq(S)
         /\ Last1(w) \subseteq S /\ Elements(w) \subseteq S
         /\ Elements(w) \subseteq Elements(AllButLast(w)) \cup Last1(w)
<1>1. CASE w = <<>>
  BY <1>1 DEF AllButLast, Last1, Elements
<1>2. CASE w # <<>>
  <2>1. Len(w) \in Nat /\ Len(w) > 0 /\ Len(w) - 1 \in Nat
    BY <1>2, EmptySeq
  <2>2. \A i \in 1..Len(w) : w[i] \in S
    BY ElementOfSeq
  <2>3. AllButLast(w) = SubSeq(w, 1, Len(w) - 1) /\ Last1(w) = {w[Len(w)]}
    BY <1>2 DEF AllButLast, Last1
  <2>4. Len(w) - 1 \in 0..Len(w)
    BY <2>1
  <2>5. /\ SubSeq(w, 1, Len(w) - 1) \in Seq(S)
        /\ Len(SubSeq(w, 1, Len(w) - 1)) = Len(w) - 1
        /\ \A i \in 1..(Len(w) - 1) : SubSeq(w, 1, Len(w) - 1)[i] = w[i]
    BY <2>4, FrontType
  <2>6. ASSUME NEW i \in 1..Len(w) PROVE w[i] \in Elements(AllButLast(w)) \cup Last1(w)
    <3>1. CASE i = Len(w)
      BY <2>3, <3>1
    <3>2. CASE i # Len(w)
      BY <2>1, <2>3, <2>5, <3>2 DEF Elements
    <3> QED
      BY <3>1, <3>2
  <2> QED
    BY <2>1, <2>2, <2>3, <2>5, <2>6 DEF Elements
<1> QED
  BY <1>1, <1>2

LEMMA Appended ==
  ASSUME NEW S, NEW w \in Seq(S), NEW x \in S
  PROVE  Append(w, x) \in Seq(S) /\ Elements(Append(w, x)) = Elements(w) \cup {x}
  BY AppendProperties DEF Elements

\* Where clients are sent, and whom a wake reaches.
LEMMA Woken ==
  ASSUME TypeOK, NEW c \in Clients \cup Closers, NEW W \in SUBSET Clients, GoWaking(c, "try", W)
  PROVE  /\ pc' \in [Clients -> {"try", "send", "register", "park", "asleep", "done"}]
         /\ missed' \subseteq Clients /\ missed \subseteq missed'
         /\ \A d \in Clients : pc'[d] = pc[d] \/ pc'[d] = "try"
         /\ \A d \in W : pc'[d] # "asleep" /\ (pc[d] # "asleep" => d \in missed')
         /\ \A d \in Clients : pc[d] = "asleep" => d \notin missed' \/ d \in missed
         /\ c \in Clients => pc'[c] = "try"
  BY DEF GoWaking, TypeOK

-----------------------------------------------------------------------------
(* Type correctness.                                                          *)

LEMMA TypeInit == Init => TypeInv
<1> SUFFICES ASSUME Init PROVE TypeInv
  OBVIOUS
<1>1. left \in [Clients -> Nat]
  BY ChannelAssumption DEF Init, Clients
<1>2. /\ pc \in [Clients -> {"try", "send", "register", "park", "asleep", "done"}]
      /\ closers \in [Closers -> {"store", "senders", "receivers", "closed"}]
      /\ \A s \in Senders : pc[s] # "send"
  BY DEF Init, Clients
<1>3. <<>> \in Seq(Value) /\ <<>> \in Seq(Senders) /\ <<>> \in Seq(Receivers) /\ Len(<<>>) = 0
  BY EmptySeq
<1> QED
  <2>1. TypeOK
    <3>1. 0 <= Capacity
      BY ChannelAssumption
    <3>2. buffer \in Seq(Value) /\ Len(buffer) <= Capacity
      BY <1>3, <3>1 DEF Init
    <3> QED
      BY <1>1, <1>2, <1>3, <3>2 DEF Init, TypeOK
  <2> QED
    BY <1>2, <2>1 DEF TypeInv

LEMMA TypeStep == TypeInv /\ [Next]_vars => TypeInv'
<1> SUFFICES ASSUME TypeInv, [Next]_vars PROVE TypeInv'
  OBVIOUS
<1>0. TypeOK
  BY DEF TypeInv
<1> USE ChannelAssumption
<1>a. /\ Len(buffer) \in Nat
      /\ Last1(sendWaiters) \subseteq Senders /\ AllButLast(sendWaiters) \in Seq(Senders)
      /\ Last1(recvWaiters) \subseteq Receivers /\ AllButLast(recvWaiters) \in Seq(Receivers)
      /\ Elements(sendWaiters) \subseteq Senders /\ Elements(recvWaiters) \subseteq Receivers
  <2>1. buffer \in Seq(Value) /\ sendWaiters \in Seq(Senders) /\ recvWaiters \in Seq(Receivers)
    BY <1>0 DEF TypeOK
  <2> QED
    BY <2>1, LastOnes, LenProperties
<1>b. Senders \subseteq Clients /\ Receivers \subseteq Clients
  BY DEF Clients
<1>1. ASSUME NEW s \in Senders, TrySend(s) PROVE TypeInv'
  BY <1>0, <1>1, <1>b DEF TrySend, TypeInv, TypeOK
<1>2. ASSUME NEW s \in Senders, Send(s) PROVE TypeInv'
  <2>1. CASE Full
    BY <1>0, <1>2, <1>b, <2>1 DEF Send, Retry, TypeInv, TypeOK
  <2>2. CASE ~Full
    <3>1. /\ buffer' = Append(buffer, <<s, left[s]>>) /\ accepted' = Append(accepted, <<s, left[s]>>)
          /\ recvWaiters' = AllButLast(recvWaiters) /\ GoWaking(s, "try", Last1(recvWaiters))
          /\ left' = [left EXCEPT ![s] = @ - 1] /\ registered' = registered \ {s}
          /\ UNCHANGED <<closed, sendWaiters, closers, delivered>>
      BY <1>2, <2>2 DEF Send, Passed
    <3>2. left[s] \in Nat /\ left[s] > 0 /\ left' \in [Clients -> Nat]
          /\ \A d \in Clients : d # s => left'[d] = left[d]
      BY <1>0, <1>2, <1>b, <3>1 DEF Send, TypeInv, TypeOK
    <3>3. <<s, left[s]>> \in Value
      BY <3>2 DEF Value
    <3>4. /\ buffer' \in Seq(Value) /\ Len(buffer') = Len(buffer) + 1
          /\ accepted' \in Seq(Value)
      BY <1>0, <3>1, <3>3, AppendProperties DEF TypeOK
    <3>5. Len(buffer') <= Capacity
      BY <1>a, <2>2, <3>4 DEF Full
    <3>6. /\ pc' \in [Clients -> {"try", "send", "register", "park", "asleep", "done"}]
          /\ missed' \subseteq Clients /\ pc'[s] = "try"
          /\ \A d \in Clients : pc'[d] = pc[d] \/ pc'[d] = "try"
      BY <1>0, <1>a, <1>b, <3>1, Woken
    <3>7. \A d \in Senders : pc'[d] = "send" => left'[d] > 0
      BY <1>b, <3>2, <3>6 DEF TypeInv
    <3> QED
      BY <1>0, <1>a, <3>1, <3>2, <3>4, <3>5, <3>6, <3>7 DEF TypeInv, TypeOK
  <2> QED
    BY <2>1, <2>2
<1>3. ASSUME NEW r \in Receivers, Receive(r) PROVE TypeInv'
  <2>1. CASE buffer = <<>>
    BY <1>0, <1>3, <1>b, <2>1 DEF Receive, Retry, TypeInv, TypeOK
  <2>2. CASE buffer # <<>>
    <3>1. /\ buffer' = Tail(buffer) /\ delivered' = Append(delivered, Head(buffer))
          /\ sendWaiters' = AllButLast(sendWaiters) /\ GoWaking(r, "try", Last1(sendWaiters))
          /\ left' = [left EXCEPT ![r] = @ - 1] /\ registered' = registered \ {r}
          /\ left[r] > 0
          /\ UNCHANGED <<closed, recvWaiters, closers, accepted>>
      BY <1>3, <2>2 DEF Receive, Passed, Taken, WakeSender
    <3>2. left' \in [Clients -> Nat] /\ \A s \in Senders : left'[s] = left[s]
      BY <1>0, <1>b, <3>1 DEF TypeOK
    <3>3. /\ buffer' \in Seq(Value) /\ Len(buffer') = Len(buffer) - 1
          /\ Head(buffer) \in Value
      BY <1>0, <2>2, <3>1, HeadTailProperties DEF TypeOK
    <3>4. delivered' \in Seq(Value)
      BY <1>0, <3>1, <3>3, AppendProperties DEF TypeOK
    <3>5. Len(buffer') <= Capacity
      BY <1>0, <1>a, <3>3 DEF TypeOK
    <3>6. /\ pc' \in [Clients -> {"try", "send", "register", "park", "asleep", "done"}]
          /\ missed' \subseteq Clients
          /\ \A d \in Clients : pc'[d] = pc[d] \/ pc'[d] = "try"
      BY <1>0, <1>a, <1>b, <3>1, Woken
    <3>7. \A d \in Senders : pc'[d] = "send" => left'[d] > 0
      BY <1>b, <3>2, <3>6 DEF TypeInv
    <3> QED
      BY <1>0, <1>a, <3>1, <3>2, <3>3, <3>4, <3>5, <3>6, <3>7 DEF TypeInv, TypeOK
  <2> QED
    BY <2>1, <2>2
<1>4. ASSUME NEW c \in Clients, Register(c) PROVE TypeInv'
  <2>1. CASE c \in Senders
    <3>a. sendWaiters' = Append(sendWaiters, c) /\ UNCHANGED recvWaiters
      BY <1>4, <2>1 DEF Register
    <3>1. sendWaiters' \in Seq(Senders) /\ UNCHANGED recvWaiters
      BY <1>0, <2>1, <3>a, AppendProperties DEF TypeOK
    <3> QED
      BY <1>0, <1>4, <3>1 DEF Register, TypeInv, TypeOK
  <2>2. CASE c \in Receivers /\ c \notin Senders
    <3>a. recvWaiters' = Append(recvWaiters, c) /\ UNCHANGED sendWaiters
      BY <1>4, <2>2 DEF Register
    <3>1. recvWaiters' \in Seq(Receivers) /\ UNCHANGED sendWaiters
      BY <1>0, <2>2, <3>a, AppendProperties DEF TypeOK
    <3> QED
      BY <1>0, <1>4, <3>1 DEF Register, TypeInv, TypeOK
  <2> QED
    BY <2>1, <2>2 DEF Clients
<1>5. ASSUME NEW c \in Clients, Park(c) PROVE TypeInv'
  BY <1>0, <1>5 DEF Park, TypeInv, TypeOK
<1>6. ASSUME NEW k \in Closers, CloseStore(k) PROVE TypeInv'
  BY <1>0, <1>6 DEF CloseStore, TypeInv, TypeOK
<1>7. ASSUME NEW k \in Closers, CloseSenders(k) PROVE TypeInv'
  <2>1. GoWaking(k, "try", Elements(sendWaiters))
    BY <1>7 DEF CloseSenders, Drained
  <2>2. /\ pc' \in [Clients -> {"try", "send", "register", "park", "asleep", "done"}]
        /\ missed' \subseteq Clients
        /\ \A d \in Clients : pc'[d] = pc[d] \/ pc'[d] = "try"
    BY <1>0, <1>a, <1>b, <2>1, Woken
  <2>3. <<>> \in Seq(Senders)
    BY EmptySeq
  <2> QED
    BY <1>0, <1>7, <1>b, <2>2, <2>3 DEF CloseSenders, TypeInv, TypeOK
<1>8. ASSUME NEW k \in Closers, CloseReceivers(k) PROVE TypeInv'
  <2>1. GoWaking(k, "try", Elements(recvWaiters))
    BY <1>8 DEF CloseReceivers, Drained
  <2>2. /\ pc' \in [Clients -> {"try", "send", "register", "park", "asleep", "done"}]
        /\ missed' \subseteq Clients
        /\ \A d \in Clients : pc'[d] = pc[d] \/ pc'[d] = "try"
    BY <1>0, <1>a, <1>b, <2>1, Woken
  <2>3. <<>> \in Seq(Receivers)
    BY EmptySeq
  <2> QED
    BY <1>0, <1>8, <1>b, <2>2, <2>3 DEF CloseReceivers, TypeInv, TypeOK
<1>9. CASE UNCHANGED vars
  BY <1>0, <1>9 DEF vars, TypeInv, TypeOK
<1> QED
  BY <1>1, <1>2, <1>3, <1>4, <1>5, <1>6, <1>7, <1>8, <1>9 DEF Next, Step, Close

LEMMA TypeAlways == Spec => []TypeInv
  BY TypeInit, TypeStep, PTL DEF Spec

\* Every reachable state is well typed, and the buffer never holds more than
\* Capacity values, although try_send tests closed before it locks the buffer.
THEOREM TypeCorrect == Spec => []TypeOK
<1>1. TypeInv => TypeOK
  BY DEF TypeInv
<1> QED
  BY <1>1, TypeAlways, PTL
-----------------------------------------------------------------------------
(* First in, first out.                                                       *)

LEMMA FifoStep ==
  ASSUME TypeInv, FirstInFirstOut, [Next]_vars
  PROVE  FirstInFirstOut'
<1>1. buffer \in Seq(Value) /\ delivered \in Seq(Value)
  BY DEF TypeInv, TypeOK
<1>2. ASSUME NEW s \in Senders, Send(s), ~Full PROVE FirstInFirstOut'
  <2>1. <<s, left[s]>> \in Value
    BY <1>2 DEF TypeInv, TypeOK, Value, Clients
  <2>2. /\ buffer' = Append(buffer, <<s, left[s]>>) /\ accepted' = Append(accepted, <<s, left[s]>>)
        /\ delivered' = delivered
    BY <1>2 DEF Send
  <2>3. delivered \o buffer \in Seq(Value)
    BY <1>1, ConcatProperties
  <2>4. <<<<s, left[s]>>>> \in Seq(Value)
    BY <2>1
  <2>5. Append(delivered \o buffer, <<s, left[s]>>) = delivered \o Append(buffer, <<s, left[s]>>)
    <3> DEFINE v == <<s, left[s]>>
    <3>1. Append(delivered \o buffer, v) = (delivered \o buffer) \o <<v>>
      BY <2>1, <2>3, AppendIsConcat
    <3>2. Append(buffer, v) = buffer \o <<v>>
      BY <1>1, <2>1, AppendIsConcat
    <3>3. (delivered \o buffer) \o <<v>> = delivered \o (buffer \o <<v>>)
      BY <1>1, <2>4, ConcatAssociative
    <3> QED
      BY <3>1, <3>2, <3>3
  <2> QED
    BY <2>2, <2>5 DEF FirstInFirstOut
<1>3. ASSUME NEW r \in Receivers, Receive(r), buffer # <<>> PROVE FirstInFirstOut'
  <2>1. /\ buffer' = Tail(buffer) /\ delivered' = Append(delivered, Head(buffer))
        /\ accepted' = accepted
    BY <1>3 DEF Receive, Taken
  <2>2. /\ Head(buffer) \in Value /\ <<Head(buffer)>> \in Seq(Value) /\ Tail(buffer) \in Seq(Value)
        /\ buffer = <<Head(buffer)>> \o Tail(buffer)
    BY <1>1, <1>3, HeadTailProperties
  <2>3. Append(delivered, Head(buffer)) \o Tail(buffer) = delivered \o buffer
    BY <1>1, <2>2, AppendIsConcat, ConcatAssociative
  <2> QED
    BY <2>1, <2>3 DEF FirstInFirstOut
<1>4. CASE UNCHANGED <<buffer, accepted, delivered>>
  BY <1>4 DEF FirstInFirstOut
<1>5. \/ \E s \in Senders : Send(s) /\ ~Full
      \/ \E r \in Receivers : Receive(r) /\ buffer # <<>>
      \/ UNCHANGED <<buffer, accepted, delivered>>
  BY DEF Next, Step, Close, TrySend, Send, Receive, Register, Park, CloseStore, CloseSenders,
         CloseReceivers, vars
<1> QED
  BY <1>2, <1>3, <1>4, <1>5

\* Whatever senders, receivers and closers race, the values delivered are those
\* accepted, in the same order, and those not yet delivered are in the buffer.
THEOREM ChannelIsFifo == Spec => []FirstInFirstOut
<1>1. Init => FirstInFirstOut
  BY DEF Init, FirstInFirstOut
<1>2. TypeInv /\ FirstInFirstOut /\ [Next]_vars => FirstInFirstOut'
  BY FifoStep
<1> QED
  BY <1>1, <1>2, TypeAlways, PTL DEF Spec

-----------------------------------------------------------------------------
(* Sleepers and close.                                                        *)

\* Who will wake c: its waker in the list.
Listed(c) ==
  \/ c \in Senders /\ c \in Elements(sendWaiters)
  \/ c \in Receivers /\ c \in Elements(recvWaiters)

\* A client that has registered, or sleeps, is in a list or had a wake dropped since; one
\* about to wait has registered.
WakerInv ==
  \A c \in Clients :
    /\ c \in registered \/ pc[c] = "asleep" => Listed(c) \/ c \in missed
    /\ pc[c] = "park" => c \in registered
    /\ pc[c] = "asleep" => c \notin registered
    /\ pc[c] = "register" => c \notin registered

\* A client of a closed channel that is past its test of closed had a wake dropped.
PastClose(c) ==
  /\ pc[c] \in {"park", "asleep"} => c \in missed
  /\ pc[c] = "send" /\ c \in registered => c \in missed

\* How far a close has come, and what it has done to the clients.
CloseInv ==
  \A k \in Closers :
    /\ closers[k] # "store" => closed
    /\ closers[k] \in {"receivers", "closed"} => \A s \in Senders : PastClose(s)
    /\ closers[k] = "closed" => \A r \in Receivers : PastClose(r)

SleepInv == TypeInv /\ WakerInv /\ CloseInv

\* A step that wakes the tasks it takes off a list loses nobody.
LEMMA WakeKeeps ==
  ASSUME TypeInv, WakerInv, NEW c \in Clients \cup Closers, NEW W \in SUBSET Clients,
         GoWaking(c, "try", W), registered' = registered \ {c},
         \A d \in Clients : Listed(d) => Listed(d)' \/ d \in W
  PROVE  /\ WakerInv'
         /\ \A d \in Clients : PastClose(d) => PastClose(d)'
<1>1. ASSUME NEW d \in Clients
      PROVE  /\ pc'[d] = IF d \in W /\ pc[d] = "asleep" THEN "try"
                         ELSE IF d = c THEN "try" ELSE pc[d]
             /\ d \in missed' <=> d \in missed \/ (d \in W /\ pc[d] # "asleep")
  BY <1>1 DEF GoWaking
<1>2. ASSUME NEW d \in Clients
      PROVE  /\ d \in registered' \/ pc'[d] = "asleep" => Listed(d)' \/ d \in missed'
             /\ pc'[d] = "park" => d \in registered'
             /\ pc'[d] = "asleep" => d \notin registered'
             /\ pc'[d] = "register" => d \notin registered'
  BY <1>1, <1>2 DEF WakerInv
<1>3. ASSUME NEW d \in Clients, PastClose(d) PROVE PastClose(d)'
  BY <1>1, <1>3 DEF PastClose
<1> QED
  BY <1>2, <1>3 DEF WakerInv

LEMMA SleepInit == Init => SleepInv
<1> SUFFICES ASSUME Init PROVE SleepInv
  OBVIOUS
<1>1. WakerInv
  BY DEF Init, WakerInv
<1>2. CloseInv
  BY DEF Init, CloseInv
<1> QED
  BY <1>1, <1>2, TypeInit DEF SleepInv

\* A step of one client that wakes nobody keeps what is true of the others.
LEMMA OneSteps ==
  ASSUME SleepInv, TypeInv', NEW c \in Clients,
         \A d \in Clients \ {c} :
           /\ pc'[d] = pc[d] /\ (d \in missed' <=> d \in missed)
           /\ d \in registered' <=> d \in registered
           /\ Listed(d) => Listed(d)',
         /\ c \in registered' \/ pc'[c] = "asleep" => Listed(c)' \/ c \in missed'
         /\ pc'[c] = "park" => c \in registered'
         /\ pc'[c] = "asleep" => c \notin registered'
         /\ pc'[c] = "register" => c \notin registered',
         closed /\ PastClose(c) => PastClose(c)',
         UNCHANGED <<closed, closers>>
  PROVE  SleepInv'
<1>1. WakerInv'
  BY DEF SleepInv, WakerInv
<1>2. \A d \in Clients : closed /\ PastClose(d) => PastClose(d)'
  BY DEF PastClose
<1>3. CloseInv'
  BY <1>2 DEF SleepInv, CloseInv, Clients
<1> QED
  BY <1>1, <1>3 DEF SleepInv

LEMMA SleepStep == SleepInv /\ [Next]_vars => SleepInv'
<1> SUFFICES ASSUME SleepInv, [Next]_vars PROVE SleepInv'
  OBVIOUS
<1>0. TypeInv /\ WakerInv /\ CloseInv /\ TypeInv'
  BY TypeStep DEF SleepInv
<1>a. /\ pc \in [Clients -> {"try", "send", "register", "park", "asleep", "done"}]
      /\ sendWaiters \in Seq(Senders) /\ recvWaiters \in Seq(Receivers)
      /\ registered \subseteq Clients
  BY <1>0 DEF TypeInv, TypeOK
<1>b. Senders \subseteq Clients /\ Receivers \subseteq Clients /\ Closers \cap Clients = {}
      /\ Senders \cap Receivers = {}
  BY ChannelAssumption DEF Clients
<1>1. ASSUME NEW s \in Senders, TrySend(s) PROVE SleepInv'
  <2>1. /\ pc[s] = "try" /\ pc' = [pc EXCEPT ![s] = IF closed THEN "done" ELSE "send"]
        /\ UNCHANGED <<sendWaiters, recvWaiters, registered, missed, closed, closers>>
    BY <1>1 DEF TrySend
  <2>2. pc'[s] = IF closed THEN "done" ELSE "send"
    BY <1>a, <1>b, <2>1
  <2>3. \A d \in Clients : Listed(d)' <=> Listed(d)
    BY <2>1 DEF Listed
  <2>4. \A d \in Clients \ {s} : pc'[d] = pc[d]
    BY <1>a, <1>b, <2>1
  <2> QED
    BY <1>0, <1>b, <2>1, <2>2, <2>3, <2>4, OneSteps DEF WakerInv, PastClose
<1>2. ASSUME NEW s \in Senders, Send(s) PROVE SleepInv'
  <2>1. CASE Full
    <3>1. /\ pc[s] = "send" /\ pc' = [pc EXCEPT ![s] = Retry(s)]
          /\ UNCHANGED <<sendWaiters, recvWaiters, registered, missed, closed, closers>>
      BY <1>2, <2>1 DEF Send
    <3>2. pc'[s] = IF s \in registered THEN "park" ELSE "register"
      BY <1>a, <1>b, <3>1 DEF Retry
    <3>3. \A d \in Clients : Listed(d)' <=> Listed(d)
      BY <3>1 DEF Listed
    <3>4. \A d \in Clients \ {s} : pc'[d] = pc[d]
      BY <1>a, <1>b, <3>1
    <3> QED
      BY <1>0, <1>b, <3>1, <3>2, <3>3, <3>4, OneSteps DEF WakerInv, PastClose
  <2>2. CASE ~Full
    <3>1. /\ recvWaiters' = AllButLast(recvWaiters) /\ GoWaking(s, "try", Last1(recvWaiters))
          /\ registered' = registered \ {s}
          /\ UNCHANGED <<closed, sendWaiters, closers>>
      BY <1>2, <2>2 DEF Send, Passed
    <3>2. /\ Last1(recvWaiters) \in SUBSET Clients
          /\ Elements(recvWaiters) \subseteq Elements(recvWaiters') \cup Last1(recvWaiters)
      BY <1>a, <1>b, <3>1, LastOnes
    <3>3. \A d \in Clients : Listed(d) => Listed(d)' \/ d \in Last1(recvWaiters)
      BY <3>1, <3>2 DEF Listed
    <3>4. WakerInv' /\ \A d \in Clients : PastClose(d) => PastClose(d)'
      BY <1>0, <1>b, <3>1, <3>2, <3>3, WakeKeeps
    <3> QED
      BY <1>0, <1>b, <3>1, <3>4 DEF SleepInv, CloseInv
  <2> QED
    BY <2>1, <2>2
<1>3. ASSUME NEW r \in Receivers, Receive(r) PROVE SleepInv'
  <2>1. CASE buffer = <<>>
    <3>1. /\ pc[r] = "try" /\ pc' = [pc EXCEPT ![r] = IF closed THEN "done" ELSE Retry(r)]
          /\ UNCHANGED <<sendWaiters, recvWaiters, registered, missed, closed, closers>>
      BY <1>3, <2>1 DEF Receive
    <3>2. pc'[r] = IF closed THEN "done" ELSE IF r \in registered THEN "park" ELSE "register"
      BY <1>a, <1>b, <3>1 DEF Retry
    <3>3. \A d \in Clients : Listed(d)' <=> Listed(d)
      BY <3>1 DEF Listed
    <3>4. \A d \in Clients \ {r} : pc'[d] = pc[d]
      BY <1>a, <1>b, <3>1
    <3> QED
      BY <1>0, <1>b, <3>1, <3>2, <3>3, <3>4, OneSteps DEF WakerInv, PastClose
  <2>2. CASE buffer # <<>>
    <3>1. /\ sendWaiters' = AllButLast(sendWaiters) /\ GoWaking(r, "try", Last1(sendWaiters))
          /\ registered' = registered \ {r}
          /\ UNCHANGED <<closed, recvWaiters, closers>>
      BY <1>3, <2>2 DEF Receive, Passed, WakeSender
    <3>2. /\ Last1(sendWaiters) \in SUBSET Clients
          /\ Elements(sendWaiters) \subseteq Elements(sendWaiters') \cup Last1(sendWaiters)
      BY <1>a, <1>b, <3>1, LastOnes
    <3>3. \A d \in Clients : Listed(d) => Listed(d)' \/ d \in Last1(sendWaiters)
      BY <3>1, <3>2 DEF Listed
    <3>4. WakerInv' /\ \A d \in Clients : PastClose(d) => PastClose(d)'
      BY <1>0, <1>b, <3>1, <3>2, <3>3, WakeKeeps
    <3> QED
      BY <1>0, <1>b, <3>1, <3>4 DEF SleepInv, CloseInv
  <2> QED
    BY <2>1, <2>2
<1>4. ASSUME NEW c \in Clients, Register(c) PROVE SleepInv'
  <2>1. /\ pc[c] = "register" /\ pc' = [pc EXCEPT ![c] = "try"] /\ registered' = registered \cup {c}
        /\ missed' = missed \ {c} /\ UNCHANGED <<closed, closers>>
    BY <1>4 DEF Register
  <2>2. Listed(c)' /\ \A d \in Clients : Listed(d) => Listed(d)'
    <3>1. CASE c \in Senders
      <4>1. sendWaiters' = Append(sendWaiters, c) /\ UNCHANGED recvWaiters
        BY <1>4, <3>1 DEF Register
      <4>2. Elements(sendWaiters') = Elements(sendWaiters) \cup {c}
        BY <1>a, <3>1, <4>1, Appended
      <4> QED
        BY <3>1, <4>1, <4>2 DEF Listed
    <3>2. CASE c \in Receivers
      <4>1. recvWaiters' = Append(recvWaiters, c) /\ UNCHANGED sendWaiters
        BY <1>4, <1>b, <3>2 DEF Register
      <4>2. Elements(recvWaiters') = Elements(recvWaiters) \cup {c}
        BY <1>a, <3>2, <4>1, Appended
      <4> QED
        BY <3>2, <4>1, <4>2 DEF Listed
    <3> QED
      BY <3>1, <3>2 DEF Clients
  <2>3. pc'[c] = "try" /\ \A d \in Clients \ {c} : pc'[d] = pc[d]
    BY <1>a, <2>1
  <2> QED
    BY <1>0, <2>1, <2>2, <2>3, OneSteps DEF PastClose
<1>5. ASSUME NEW c \in Clients, Park(c) PROVE SleepInv'
  <2>1. /\ pc[c] = "park" /\ pc' = [pc EXCEPT ![c] = "asleep"]
        /\ registered' = registered \ {c} /\ UNCHANGED missed
        /\ UNCHANGED <<closed, sendWaiters, recvWaiters, closers>>
    BY <1>5 DEF Park
  <2>2. pc'[c] = "asleep" /\ \A d \in Clients \ {c} : pc'[d] = pc[d]
    BY <1>a, <2>1
  <2>3. \A d \in Clients : Listed(d)' <=> Listed(d)
    BY <2>1 DEF Listed
  <2>4. c \notin missed => Listed(c)
    BY <1>0, <2>1 DEF WakerInv
  <2> QED
    BY <1>0, <2>1, <2>2, <2>3, <2>4, OneSteps DEF PastClose
<1>6. ASSUME NEW k \in Closers, CloseStore(k) PROVE SleepInv'
  <2>1. /\ closed' = TRUE /\ closers' = [closers EXCEPT ![k] = "senders"]
        /\ UNCHANGED <<sendWaiters, recvWaiters, pc, registered, missed>>
    BY <1>6 DEF CloseStore
  <2>2. WakerInv'
    BY <1>0, <2>1 DEF WakerInv, Listed
  <2>3. \A d \in Clients : PastClose(d)' <=> PastClose(d)
    BY <2>1 DEF PastClose
  <2>4. \A j \in Closers : closers'[j] \in {"receivers", "closed"} => closers'[j] = closers[j]
    BY <1>0, <2>1 DEF TypeInv, TypeOK
  <2>5. CloseInv'
    BY <1>0, <1>b, <2>1, <2>3, <2>4 DEF CloseInv
  <2> QED
    BY <1>0, <2>2, <2>5 DEF SleepInv
<1>7. ASSUME NEW k \in Closers, CloseSenders(k) PROVE SleepInv'
  <2>1. /\ closers[k] = "senders" /\ closers' = [closers EXCEPT ![k] = "receivers"]
        /\ sendWaiters' = <<>> /\ GoWaking(k, "try", Elements(sendWaiters))
        /\ registered' = registered /\ UNCHANGED <<closed, recvWaiters>>
    BY <1>7 DEF CloseSenders, Drained
  <2>2. registered' = registered \ {k} /\ Elements(sendWaiters) \in SUBSET Clients
    <3>1. Elements(sendWaiters) \subseteq Senders
      BY <1>a, LastOnes
    <3>2. k \notin registered
      BY <1>a, <1>b
    <3> QED
      BY <1>b, <2>1, <3>1, <3>2
  <2>3. \A d \in Clients : Listed(d) => Listed(d)' \/ d \in Elements(sendWaiters)
    BY <2>1 DEF Listed
  <2>4. WakerInv' /\ \A d \in Clients : PastClose(d) => PastClose(d)'
    BY <1>0, <2>1, <2>2, <2>3, WakeKeeps
  <2>5. ASSUME NEW s \in Senders PROVE PastClose(s)'
    <3>1. Listed(s) <=> s \in Elements(sendWaiters)
      BY <1>b, <2>5 DEF Listed
    <3>2. /\ s \in Elements(sendWaiters) => pc'[s] # "asleep" /\ (pc[s] # "asleep" => s \in missed')
          /\ pc'[s] = pc[s] \/ pc'[s] = "try"
          /\ s \in missed => s \in missed'
      BY <1>0, <1>b, <2>1, <2>2, Woken DEF TypeInv
    <3> QED
      BY <1>0, <1>b, <2>1, <3>1, <3>2 DEF WakerInv, PastClose
  <2>6. \A j \in Closers : closers'[j] = IF j = k THEN "receivers" ELSE closers[j]
    BY <1>0, <2>1 DEF TypeInv, TypeOK
  <2>7. CloseInv'
    BY <1>0, <1>b, <2>1, <2>4, <2>5, <2>6 DEF CloseInv
  <2> QED
    BY <1>0, <2>4, <2>7 DEF SleepInv
<1>8. ASSUME NEW k \in Closers, CloseReceivers(k) PROVE SleepInv'
  <2>1. /\ closers[k] = "receivers" /\ closers' = [closers EXCEPT ![k] = "closed"]
        /\ recvWaiters' = <<>> /\ GoWaking(k, "try", Elements(recvWaiters))
        /\ registered' = registered /\ UNCHANGED <<closed, sendWaiters>>
    BY <1>8 DEF CloseReceivers, Drained
  <2>2. registered' = registered \ {k} /\ Elements(recvWaiters) \in SUBSET Clients
    <3>1. Elements(recvWaiters) \subseteq Receivers
      BY <1>a, LastOnes
    <3>2. k \notin registered
      BY <1>a, <1>b
    <3> QED
      BY <1>b, <2>1, <3>1, <3>2
  <2>3. \A d \in Clients : Listed(d) => Listed(d)' \/ d \in Elements(recvWaiters)
    BY <2>1 DEF Listed
  <2>4. WakerInv' /\ \A d \in Clients : PastClose(d) => PastClose(d)'
    BY <1>0, <2>1, <2>2, <2>3, WakeKeeps
  <2>5. ASSUME NEW r \in Receivers PROVE PastClose(r)'
    <3>1. Listed(r) <=> r \in Elements(recvWaiters)
      BY <1>b, <2>5 DEF Listed
    <3>2. /\ r \in Elements(recvWaiters) => pc'[r] # "asleep" /\ (pc[r] # "asleep" => r \in missed')
          /\ pc'[r] = pc[r] \/ pc'[r] = "try"
          /\ r \in missed => r \in missed'
      BY <1>0, <1>b, <2>1, <2>2, Woken DEF TypeInv
    <3> QED
      BY <1>0, <1>b, <2>1, <3>1, <3>2 DEF WakerInv, PastClose
  <2>6. \A j \in Closers : closers'[j] = IF j = k THEN "closed" ELSE closers[j]
    BY <1>0, <2>1 DEF TypeInv, TypeOK
  <2>7. CloseInv'
    BY <1>0, <1>b, <2>1, <2>4, <2>5, <2>6 DEF CloseInv
  <2> QED
    BY <1>0, <2>4, <2>7 DEF SleepInv
<1>9. CASE UNCHANGED vars
  <2>1. WakerInv'
    BY <1>0, <1>9 DEF vars, WakerInv, Listed
  <2>2. CloseInv'
    BY <1>0, <1>9 DEF vars, CloseInv, PastClose
  <2> QED
    BY <1>0, <2>1, <2>2 DEF SleepInv
<1> QED
  BY <1>1, <1>2, <1>3, <1>4, <1>5, <1>6, <1>7, <1>8, <1>9 DEF Next, Step, Close

LEMMA SleepAlways == Spec => []SleepInv
  BY SleepInit, SleepStep, PTL DEF Spec

\* No waker is lost by the channel: a task asleep on it has a waker in its list, which
\* the next send, receive or close that reaches the end of the list wakes, unless it
\* was still polling when its wake came and wake_task dropped it.
THEOREM SleepersAlwaysListed == Spec => []SleepersListed
<1>1. SleepInv => SleepersListed
  BY ChannelAssumption DEF SleepInv, WakerInv, Listed, SleepersListed, Clients
<1> QED
  BY <1>1, SleepAlways, PTL

\* Once a close has returned nobody sleeps on the channel but tasks whose wake was
\* dropped, for any number of tasks and however their steps and other closes fell
\* between its three steps.
THEOREM CloseReachesSleepers == Spec => []NobodySleepsOnClosed
<1>1. SleepInv => NobodySleepsOnClosed
  BY DEF SleepInv, CloseInv, PastClose, NobodySleepsOnClosed, Clients
<1> QED
  BY <1>1, SleepAlways, PTL
=============================================================================
