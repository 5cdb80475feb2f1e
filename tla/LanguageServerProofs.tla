------------------------ MODULE LanguageServerProofs ------------------------
(* Proofs about LanguageServer for any number of documents, texts and         *)
(* messages under way, and either pipe closed at any moment. For every editor *)
(* the answers and the documents are those that the server's reading of what  *)
(* it said amounts to; for one that sends whole texts they are those of its   *)
(* own texts, and so are the diagnostics.                                     *)
EXTENDS LanguageServer, SequenceTheorems, SetInduction, TLAPS

\* The editor changes a document by sending its new text (section 4 of README.md
\* says what becomes of ranges).
SendsWholeTexts ==
  \A m \in Messages :
    m.method = "didChange" => m.changes = <<Change(NoRange, m.changes[1].text)>>

Texts == {m.changes[1].text : m \in Messages} \cup {NoText}
Stores == [Uris -> Texts]
Replies == [op : {"result", "error", "diagnostics"}, id : Nat, uri : Uris, text : Texts]
Numbered(m, n) == [m EXCEPT !.id = n]
Sent == {s \in {Numbered(m, n) : m \in Messages, n \in Nat} : s.id # 0 <=> s.method \in Requests}

-----------------------------------------------------------------------------
(* Answers.                                                                  *)

Keep(p, o) == IF o.op = "diagnostics" THEN p ELSE Append(p, o)

Keeps(f, s) ==
  /\ \A n \in 0..Len(s) : f[n] \in Seq(Replies)
  /\ f[0] = <<>>
  /\ \A n \in 1..Len(s) : f[n] = Keep(f[n-1], s[n])
  /\ f[Len(s)] = Answers(s)

LEMMA AnswersIs == ASSUME NEW s \in Seq(Replies) PROVE \E f : Keeps(f, s)
<1> DEFINE N == Len(s)
           Q == [n \in 0..N |-> Seq(Replies)]
           next == [n \in 1..N |-> [p \in Seq(Replies) |-> Keep(p, s[n])]]
           Defines(g) == g = [n \in 0..Len(s) |->
                                IF n = 0 THEN <<>>
                                ELSE IF s[n].op = "diagnostics" THEN g[n-1]
                                ELSE Append(g[n-1], s[n])]
<1>1. N \in Nat /\ \A n \in 1..N : s[n] \in Replies /\ n \in 0..N /\ n - 1 \in 0..N /\ n # 0
  BY ElementOfSeq, LenProperties
<1>2. \A n \in 1..N : \A p \in Seq(Replies) : next[n][p] = Keep(p, s[n])
  OBVIOUS
<1>3. \A n \in 1..N : \A p \in Seq(Replies) : Keep(p, s[n]) \in Seq(Replies)
  BY <1>1, AppendProperties DEF Keep
<1>4. \A n \in 0..N : Q[n] = Seq(Replies)
  OBVIOUS
<1> HIDE DEF N, Q, next
<1>5. PICK f : Steps(f, <<>>, next, N)
  BY <1>1, Iteration
<1>6. \A n \in 0..N : f[n] \in Q[n]
  <2>1. 0 \in 0..N /\ <<>> \in Seq(Replies)
    BY <1>1
  <2>2. f[0] \in Q[0]
    BY <1>4, <1>5, <2>1 DEF Steps
  <2>3. ASSUME NEW n \in 1..N, f[n-1] \in Q[n-1] PROVE f[n] \in Q[n]
    <3>1. f[n-1] \in Seq(Replies) /\ f[n] = next[n][f[n-1]]
      BY <1>1, <1>4, <1>5, <2>3 DEF Steps
    <3>2. f[n] = Keep(f[n-1], s[n])
      BY <1>2, <3>1
    <3>3. f[n] \in Seq(Replies)
      BY <1>3, <3>1, <3>2
    <3> QED
      BY <1>1, <1>4, <3>3
  <2> QED
    BY <1>1, <2>2, <2>3, Stays
<1>7. f[0] = <<>> /\ \A n \in 1..N : f[n] = Keep(f[n-1], s[n])
  <2> SUFFICES ASSUME NEW n \in 1..N PROVE f[n] = Keep(f[n-1], s[n])
    BY <1>5 DEF Steps
  <2>1. f[n-1] \in Seq(Replies) /\ f[n] = next[n][f[n-1]]
    BY <1>1, <1>4, <1>5, <1>6 DEF Steps
  <2> QED
    BY <1>2, <2>1
<1>8. Defines(f)
  <2>1. f = [n \in 0..N |-> f[n]]
    BY <1>5 DEF Steps
  <2>2. \A n \in 0..N : n = 0 \/ n \in 1..N
    BY <1>1
  <2>3. \A n \in 0..N : f[n] = IF n = 0 THEN <<>>
                                ELSE IF s[n].op = "diagnostics" THEN f[n-1]
                                ELSE Append(f[n-1], s[n])
    BY <1>1, <1>7, <2>2 DEF Keep
  <2> QED
    BY <2>1, <2>3 DEF N
<1> DEFINE kept == CHOOSE g : Defines(g)
<1>9. Answers(s) = kept[N]
  BY DEF Answers, N
<1> HIDE DEF Defines
<1>10. Defines(kept)
  BY <1>8
<1> HIDE DEF kept
<1>11. \A n \in 0..N : kept[n] = IF n = 0 THEN <<>>
                                ELSE IF s[n].op = "diagnostics" THEN kept[n-1]
                                ELSE Append(kept[n-1], s[n])
  BY <1>10 DEF Defines, N
<1> DEFINE S == {n \in Nat : kept[n] = f[n]}
<1>12. 0 \in S
  BY <1>1, <1>7, <1>11
<1>13. ASSUME NEW n \in 0..N, n \in S, n < N PROVE n + 1 \in S
  <2>1. n + 1 \in 1..N /\ n + 1 \in 0..N /\ n + 1 - 1 = n /\ n + 1 # 0
    BY <1>1, <1>13
  <2>2. kept[n+1] = Keep(kept[n], s[n+1])
    BY <1>11, <2>1 DEF Keep
  <2>3. f[n+1] = Keep(f[n], s[n+1])
    BY <1>7, <2>1
  <2> QED
    BY <1>13, <2>2, <2>3
<1> HIDE DEF S
<1>14. 0..N \subseteq S
  BY <1>1, <1>12, <1>13, UpTo
<1>15. kept[N] = f[N]
  BY <1>1, <1>14 DEF S
<1> QED
  BY <1>4, <1>6, <1>7, <1>9, <1>15 DEF Keeps, N

\* Functions that keep the answers of two sequences agree as far as these do.
LEMMA KeepsAgree ==
  ASSUME NEW s \in Seq(Replies), NEW t \in Seq(Replies), Len(s) <= Len(t),
         \A n \in 1..Len(s) : t[n] = s[n],
         NEW f, NEW g, Keeps(f, s), Keeps(g, t)
  PROVE  g[Len(s)] = Answers(s)
<1>1. Len(s) \in Nat /\ Len(t) \in Nat
  BY LenProperties
<1> DEFINE S == {n \in Nat : g[n] = f[n]}
<1>2. 0 \in S
  BY DEF Keeps
<1>3. ASSUME NEW n \in 0..Len(s), n \in S, n < Len(s) PROVE n + 1 \in S
  <2>1. n + 1 \in 1..Len(s) /\ n + 1 \in 1..Len(t) /\ n + 1 - 1 = n
    BY <1>1, <1>3
  <2>2. f[n+1] = Keep(f[n], s[n+1])
    BY <2>1 DEF Keeps
  <2>3. g[n+1] = Keep(g[n], t[n+1])
    BY <2>1 DEF Keeps
  <2> QED
    BY <1>3, <2>1, <2>2, <2>3
<1> HIDE DEF S
<1>4. 0..Len(s) \subseteq S
  BY <1>1, <1>2, <1>3, UpTo
<1>5. g[Len(s)] = f[Len(s)]
  BY <1>1, <1>4 DEF S
<1> QED
  BY <1>5 DEF Keeps

LEMMA AnswersType == ASSUME NEW s \in Seq(Replies) PROVE Answers(s) \in Seq(Replies)
<1>1. PICK f : Keeps(f, s)
  BY AnswersIs
<1>2. Len(s) \in 0..Len(s)
  BY LenProperties
<1> QED
  BY <1>1, <1>2 DEF Keeps

LEMMA AnswersNone == Answers(<<>>) = <<>>
<1>1. <<>> \in Seq(Replies) /\ Len(<<>>) = 0
  OBVIOUS
<1>2. PICK f : Keeps(f, <<>>)
  BY <1>1, AnswersIs
<1> QED
  BY <1>1, <1>2 DEF Keeps

LEMMA AnswersAppend ==
  ASSUME NEW s \in Seq(Replies), NEW o \in Replies
  PROVE  Answers(Append(s, o)) = Keep(Answers(s), o)
<1>1. PICK t \in Seq(Replies) : t = Append(s, o)
  BY AppendProperties
<1>2. /\ Len(s) \in Nat /\ Len(t) = Len(s) + 1 /\ t[Len(s) + 1] = o
      /\ \A n \in 1..Len(s) : t[n] = s[n]
  BY <1>1, AppendProperties, LenProperties
<1>3. PICK f : Keeps(f, s)
  BY AnswersIs
<1>4. PICK g : Keeps(g, t)
  BY AnswersIs
<1>5. g[Len(s)] = Answers(s)
  BY <1>2, <1>3, <1>4, KeepsAgree
<1>6. Len(s) + 1 \in 1..Len(t) /\ (Len(s) + 1) - 1 = Len(s)
  BY <1>2
<1>7. g[Len(s) + 1] = Keep(g[Len(s)], t[Len(s) + 1])
  BY <1>4, <1>6 DEF Keeps
<1>8. g[Len(s) + 1] = Answers(t)
  BY <1>2, <1>4 DEF Keeps
<1> QED
  BY <1>1, <1>2, <1>5, <1>7, <1>8

LEMMA Associative ==
  ASSUME NEW p \in Seq(Replies), NEW q \in Seq(Replies), NEW r \in Seq(Replies)
  PROVE  (p \o q) \o r = p \o (q \o r)
  BY ConcatAssociative

\* q begins with p.
Extends(p, q) == \E r \in Seq(Replies) : q = p \o r

LEMMA ExtendsMore ==
  ASSUME NEW p \in Seq(Replies), NEW q \in Seq(Replies), NEW r \in Seq(Replies), Extends(p, q)
  PROVE  Extends(p, q \o r)
<1>1. PICK u \in Seq(Replies) : q = p \o u
  BY DEF Extends
<1>2. u \o r \in Seq(Replies)
  BY ConcatProperties
<1>3. (p \o u) \o r = p \o (u \o r)
  BY Associative
<1>4. PICK w \in Seq(Replies) : w = u \o r
  BY <1>2
<1>5. q \o r = p \o w
  BY <1>1, <1>3, <1>4
<1> QED
  BY <1>5 DEF Extends

LEMMA ExtendsSelf == ASSUME NEW p \in Seq(Replies) PROVE Extends(p, p)
<1>1. p = p \o <<>> /\ <<>> \in Seq(Replies)
  BY ConcatEmptySeq
<1> QED
  BY <1>1 DEF Extends

LEMMA ExtendsKeep ==
  ASSUME NEW p \in Seq(Replies), NEW q \in Seq(Replies), NEW o \in Replies, Extends(p, q)
  PROVE  Extends(p, Keep(q, o))
<1>1. Append(q, o) = q \o <<o>> /\ <<o>> \in Seq(Replies)
  BY AppendIsConcat
<1> QED
  BY <1>1, ExtendsMore DEF Keep

LEMMA ExtendsPrefix ==
  ASSUME NEW p \in Seq(Replies), NEW q, Extends(p, q)
  PROVE  IsPrefix(p, q)
<1>1. PICK r \in Seq(Replies) : q = p \o r
  BY DEF Extends
<1>2. /\ Len(p) \in Nat /\ Len(r) \in Nat /\ Len(q) = Len(p) + Len(r) /\ q \in Seq(Replies)
      /\ \A i \in 1..Len(p) : q[i] = p[i]
  BY <1>1, ConcatProperties, LenProperties
<1>3. SubSeq(q, 1, Len(p)) = SubSeq(p, 1, Len(p))
  BY <1>2
<1> QED
  BY <1>2, <1>3 DEF IsPrefix

\* The answers of a sequence begin with those of a part it begins with.
LEMMA AnswersExtend ==
  ASSUME NEW s \in Seq(Replies), NEW t \in Seq(Replies)
  PROVE  Extends(Answers(s), Answers(s \o t))
<1>1. PICK u \in Seq(Replies) : u = s \o t
  BY ConcatProperties
<1>2. /\ Len(s) \in Nat /\ Len(t) \in Nat /\ Len(u) = Len(s) + Len(t)
      /\ \A n \in 1..Len(s) : u[n] = s[n]
  BY <1>1, ConcatProperties, LenProperties
<1>3. PICK f : Keeps(f, s)
  BY AnswersIs
<1>4. PICK g : Keeps(g, u)
  BY AnswersIs
<1>5. g[Len(s)] = Answers(s) /\ Answers(s) \in Seq(Replies)
  <2>1. Len(s) <= Len(u) /\ \A n \in 1..Len(s) : u[n] = s[n]
    BY <1>2
  <2>2. g[Len(s)] = Answers(s)
    BY <1>3, <1>4, <2>1, KeepsAgree
  <2> QED
    BY <2>2, AnswersType
<1> DEFINE S == {n \in Nat : Extends(Answers(s), g[Len(s) + n])}
<1>6. 0 \in S
  BY <1>2, <1>5, ExtendsSelf
<1>7. ASSUME NEW n \in 0..Len(t), n \in S, n < Len(t) PROVE n + 1 \in S
  <2>1. /\ Len(s) + n \in 0..Len(u) /\ Len(s) + (n + 1) \in 1..Len(u)
        /\ (Len(s) + (n + 1)) - 1 = Len(s) + n
    BY <1>2, <1>7
  <2>2. g[Len(s) + (n + 1)] = Keep(g[Len(s) + n], u[Len(s) + (n + 1)])
    BY <1>4, <2>1 DEF Keeps
  <2>3. g[Len(s) + n] \in Seq(Replies) /\ u[Len(s) + (n + 1)] \in Replies
    BY <1>4, <2>1, ElementOfSeq DEF Keeps
  <2> QED
    BY <1>5, <1>7, <2>2, <2>3, ExtendsKeep
<1> HIDE DEF S
<1>8. 0..Len(t) \subseteq S
  BY <1>2, <1>6, <1>7, UpTo
<1>9. Extends(Answers(s), g[Len(s) + Len(t)])
  <2>1. Len(t) \in S
    BY <1>2, <1>8
  <2> QED
    BY <2>1 DEF S
<1> QED
  BY <1>1, <1>2, <1>4, <1>9 DEF Keeps

-----------------------------------------------------------------------------
(* What messages under way lead to: q takes the store d0 to d1, and what was  *)
(* owed and answered before it, o0, to o1.                                    *)

Stages(q, D, O) ==
  /\ D \in [0..Len(q) -> Stores] /\ O \in [0..Len(q) -> Seq(Replies)]
  /\ \A n \in 1..Len(q) : D[n] = Effect(D[n-1], q[n]) /\ O[n] = O[n-1] \o Due(D[n-1], q[n])

Leads(q, d0, o0, d1, o1) ==
  \E D, O : /\ Stages(q, D, O)
            /\ D[0] = d0 /\ O[0] = o0 /\ D[Len(q)] = d1 /\ O[Len(q)] = o1

LEMMA SentType ==
  ASSUME NEW m \in Sent
  PROVE  /\ m.uri \in Uris /\ m.id \in Nat /\ m.changes[1].text \in Texts
         /\ m.id # 0 <=> m.method \in Requests
<1>1. PICK k \in Messages, n \in Nat : m = Numbered(k, n)
  BY DEF Sent
<1>2. /\ k.uri \in Uris /\ k = Msg(k.method, k.uri, k.changes)
      /\ k.changes[1].text \in Texts
  BY MessageAssumption DEF Texts
<1>3. m.uri = k.uri /\ m.changes = k.changes /\ m.method = k.method /\ m.id = n
  BY <1>1, <1>2 DEF Numbered, Msg
<1> QED
  BY <1>2, <1>3 DEF Sent

LEMMA OutType ==
  ASSUME NEW o \in {"result", "error", "diagnostics"}, NEW n \in Nat, NEW u \in Uris,
         NEW t \in Texts
  PROVE  /\ Out(o, n, u, t) \in Replies
         /\ <<Out(o, n, u, t)>> \in Seq(Replies)
<1>1. Out(o, n, u, t) \in Replies
  BY DEF Out, Replies
<1> QED
  BY <1>1

LEMMA EffectType ==
  ASSUME NEW d \in Stores, NEW m \in Sent
  PROVE  Effect(d, m) \in Stores /\ Due(d, m) \in Seq(Replies)
<1>1. m.uri \in Uris /\ m.id \in Nat /\ m.changes[1].text \in Texts /\ NoText \in Texts
  BY SentType DEF Texts
<1>2. Effect(d, m) \in Stores
  BY <1>1 DEF Effect, Stores
<1>3. d[m.uri] \in Texts
  BY <1>1 DEF Stores
<1>4. Due(d, m) \in Seq(Replies)
  <2>1. /\ <<Out("result", m.id, m.uri, d[m.uri])>> \in Seq(Replies)
        /\ <<Out("result", m.id, m.uri, NoText)>> \in Seq(Replies)
        /\ <<Out("error", m.id, m.uri, NoText)>> \in Seq(Replies)
        /\ <<>> \in Seq(Replies)
    BY <1>1, <1>3, OutType
  <2> QED
    BY <2>1 DEF Due
<1> QED
  BY <1>2, <1>4

LEMMA LeadsNone ==
  ASSUME NEW d0 \in Stores, NEW o0 \in Seq(Replies), NEW d1, NEW o1
  PROVE  Leads(<<>>, d0, o0, d1, o1) <=> d0 = d1 /\ o0 = o1
<1>1. Len(<<>>) = 0 /\ 0 \in 0..0 /\ 1..0 = {}
  OBVIOUS
<1>2. ASSUME Leads(<<>>, d0, o0, d1, o1) PROVE d0 = d1 /\ o0 = o1
  BY <1>1, <1>2 DEF Leads
<1>3. ASSUME d0 = d1, o0 = o1 PROVE Leads(<<>>, d0, o0, d1, o1)
  <2> DEFINE D == [n \in 0..0 |-> d0]
             O == [n \in 0..0 |-> o0]
  <2>1. /\ D \in [0..0 -> Stores] /\ O \in [0..0 -> Seq(Replies)]
        /\ D[0] = d0 /\ O[0] = o0
    OBVIOUS
  <2> HIDE DEF D, O
  <2>2. Stages(<<>>, D, O)
    BY <1>1, <2>1 DEF Stages
  <2> QED
    BY <1>1, <1>3, <2>1, <2>2 DEF Leads
<1> QED
  BY <1>2, <1>3

LEMMA LeadsAppend ==
  ASSUME NEW q \in Seq(Sent), NEW m \in Sent, NEW d0, NEW o0, NEW d1, NEW o1,
         Leads(q, d0, o0, d1, o1)
  PROVE  Leads(Append(q, m), d0, o0, Effect(d1, m), o1 \o Due(d1, m))
<1>1. PICK D, O : Stages(q, D, O) /\ D[0] = d0 /\ O[0] = o0 /\ D[Len(q)] = d1 /\ O[Len(q)] = o1
  BY DEF Leads
<1>2. PICK p \in Seq(Sent) : p = Append(q, m)
  BY AppendProperties
<1>3. PICK N \in Nat : N = Len(q)
  BY LenProperties
<1>4. Len(p) = N + 1 /\ p[N + 1] = m /\ \A n \in 1..N : p[n] = q[n]
  BY <1>2, <1>3, AppendProperties
<1>5. /\ D \in [0..N -> Stores] /\ O \in [0..N -> Seq(Replies)]
      /\ \A n \in 1..N : D[n] = Effect(D[n-1], q[n]) /\ O[n] = O[n-1] \o Due(D[n-1], q[n])
      /\ d1 \in Stores /\ o1 \in Seq(Replies) /\ D[N] = d1 /\ O[N] = o1
  <2>1. /\ D \in [0..N -> Stores] /\ O \in [0..N -> Seq(Replies)]
        /\ \A n \in 1..N : D[n] = Effect(D[n-1], q[n]) /\ O[n] = O[n-1] \o Due(D[n-1], q[n])
    BY <1>1, <1>3 DEF Stages
  <2>2. N \in 0..N /\ D[N] = d1 /\ O[N] = o1
    BY <1>1, <1>3
  <2> QED
    BY <2>1, <2>2
<1> DEFINE e == Effect(d1, m)
           r == o1 \o Due(d1, m)
           E == [n \in 0..(N+1) |-> IF n = N + 1 THEN e ELSE D[n]]
           P == [n \in 0..(N+1) |-> IF n = N + 1 THEN r ELSE O[n]]
<1>6. e \in Stores /\ r \in Seq(Replies)
  BY <1>5, EffectType, ConcatProperties
<1> HIDE DEF e, r
<1>7. E \in [0..(N+1) -> Stores] /\ P \in [0..(N+1) -> Seq(Replies)]
  BY <1>5, <1>6
<1>8. /\ \A n \in 0..N : E[n] = D[n] /\ P[n] = O[n]
      /\ E[N+1] = e /\ P[N+1] = r
  OBVIOUS
<1> HIDE DEF E, P
<1>9. ASSUME NEW n \in 1..(N+1)
      PROVE  E[n] = Effect(E[n-1], p[n]) /\ P[n] = P[n-1] \o Due(E[n-1], p[n])
  <2>1. CASE n = N + 1
    <3>1. n - 1 = N /\ N \in 0..N
      BY <2>1
    <3> QED
      BY <1>4, <1>5, <1>8, <2>1, <3>1 DEF e, r
  <2>2. CASE n # N + 1
    <3>1. n \in 1..N /\ n \in 0..N /\ n - 1 \in 0..N
      BY <2>2
    <3> QED
      BY <1>4, <1>5, <1>8, <3>1
  <2> QED
    BY <2>1, <2>2
<1>10. Stages(p, E, P)
  BY <1>4, <1>7, <1>9 DEF Stages
<1>11. E[0] = d0 /\ P[0] = o0 /\ E[Len(p)] = e /\ P[Len(p)] = r
  BY <1>1, <1>4, <1>8
<1> QED
  BY <1>2, <1>10, <1>11 DEF Leads, e, r

LEMMA LeadsTail ==
  ASSUME NEW q \in Seq(Sent), q # <<>>, NEW d0, NEW o0, NEW d1, NEW o1,
         Leads(q, d0, o0, d1, o1)
  PROVE  Leads(Tail(q), Effect(d0, Head(q)), o0 \o Due(d0, Head(q)), d1, o1)
<1>1. PICK D, O : Stages(q, D, O) /\ D[0] = d0 /\ O[0] = o0 /\ D[Len(q)] = d1 /\ O[Len(q)] = o1
  BY DEF Leads
<1>2. PICK p \in Seq(Sent) : p = Tail(q)
  BY HeadTailProperties
<1>3. PICK N \in Nat : N = Len(p)
  BY LenProperties
<1>4. Len(q) = N + 1 /\ Head(q) = q[1] /\ \A n \in 1..N : p[n] = q[n+1]
  BY <1>2, <1>3, HeadTailProperties, LenProperties, EmptySeq
<1>5. /\ D \in [0..(N+1) -> Stores] /\ O \in [0..(N+1) -> Seq(Replies)]
      /\ \A n \in 1..(N+1) : D[n] = Effect(D[n-1], q[n]) /\ O[n] = O[n-1] \o Due(D[n-1], q[n])
      /\ D[N+1] = d1 /\ O[N+1] = o1
  BY <1>1, <1>4 DEF Stages
<1> DEFINE E == [n \in 0..N |-> D[n+1]]
           P == [n \in 0..N |-> O[n+1]]
<1>6. E \in [0..N -> Stores] /\ P \in [0..N -> Seq(Replies)]
  BY <1>5
<1>7. \A n \in 0..N : E[n] = D[n+1] /\ P[n] = O[n+1]
  OBVIOUS
<1> HIDE DEF E, P
<1>8. ASSUME NEW n \in 1..N
      PROVE  E[n] = Effect(E[n-1], p[n]) /\ P[n] = P[n-1] \o Due(E[n-1], p[n])
  <2>1. n \in 0..N /\ n - 1 \in 0..N /\ n + 1 \in 1..(N+1) /\ (n + 1) - 1 = n /\ (n - 1) + 1 = n
    OBVIOUS
  <2>2. E[n] = D[n+1] /\ P[n] = O[n+1] /\ E[n-1] = D[n] /\ P[n-1] = O[n] /\ p[n] = q[n+1]
    BY <1>4, <1>7, <2>1
  <2>3. D[n+1] = Effect(D[n], q[n+1]) /\ O[n+1] = O[n] \o Due(D[n], q[n+1])
    <3>1. PICK k \in 1..(N+1) : k = n + 1 /\ k - 1 = n
      BY <2>1
    <3>2. D[k] = Effect(D[k-1], q[k]) /\ O[k] = O[k-1] \o Due(D[k-1], q[k])
      BY <1>5
    <3> QED
      BY <3>1, <3>2
  <2> QED
    BY <2>2, <2>3
<1>9. Stages(p, E, P)
  BY <1>3, <1>6, <1>8 DEF Stages
<1>10. E[0] = Effect(d0, Head(q)) /\ P[0] = o0 \o Due(d0, Head(q))
  <2>1. 1 \in 1..(N+1) /\ 0 \in 0..N /\ 0 + 1 = 1 /\ 1 - 1 = 0
    OBVIOUS
  <2> QED
    BY <1>1, <1>4, <1>5, <1>7, <2>1
<1>11. E[Len(p)] = d1 /\ P[Len(p)] = o1
  BY <1>3, <1>5, <1>7
<1> QED
  BY <1>2, <1>9, <1>10, <1>11 DEF Leads

LEMMA ExtendsTrans ==
  ASSUME NEW p \in Seq(Replies), NEW q \in Seq(Replies), NEW r, Extends(p, q), Extends(q, r)
  PROVE  Extends(p, r)
<1>1. PICK u \in Seq(Replies) : r = q \o u
  BY DEF Extends
<1> QED
  BY <1>1, ExtendsMore

LEMMA LeadsExtends ==
  ASSUME NEW q \in Seq(Sent), NEW d0, NEW o0, NEW d1, NEW o1, Leads(q, d0, o0, d1, o1)
  PROVE  /\ Extends(o0, o1)
         /\ d0 \in Stores /\ d1 \in Stores /\ o0 \in Seq(Replies) /\ o1 \in Seq(Replies)
<1>1. PICK D, O : Stages(q, D, O) /\ D[0] = d0 /\ O[0] = o0 /\ D[Len(q)] = d1 /\ O[Len(q)] = o1
  BY DEF Leads
<1>2. PICK N \in Nat : N = Len(q)
  BY LenProperties
<1>3. /\ D \in [0..N -> Stores] /\ O \in [0..N -> Seq(Replies)]
      /\ \A n \in 1..N : O[n] = O[n-1] \o Due(D[n-1], q[n])
  BY <1>1, <1>2 DEF Stages
<1>4. 0 \in 0..N /\ N \in 0..N
  OBVIOUS
<1>5. d0 \in Stores /\ d1 \in Stores /\ o0 \in Seq(Replies) /\ o1 \in Seq(Replies)
  BY <1>1, <1>2, <1>3, <1>4
<1> DEFINE S == {n \in Nat : Extends(o0, O[n])}
<1>6. 0 \in S
  BY <1>1, <1>5, ExtendsSelf
<1>7. ASSUME NEW n \in 0..N, n \in S, n < N PROVE n + 1 \in S
  <2>1. PICK k \in 1..N : k = n + 1 /\ k - 1 = n
    BY <1>7
  <2>2. O[k] = O[k-1] \o Due(D[k-1], q[k])
    BY <1>3
  <2>3. O[n] \in Seq(Replies) /\ D[n] \in Stores /\ q[k] \in Sent
    BY <1>2, <1>3, ElementOfSeq
  <2>4. Due(D[n], q[k]) \in Seq(Replies)
    BY <2>3, EffectType
  <2>5. Extends(o0, O[n] \o Due(D[n], q[k]))
    BY <1>5, <1>7, <2>3, <2>4, ExtendsMore
  <2> QED
    <3>1. O[k] = O[n] \o Due(D[n], q[k])
      BY <2>1, <2>2
    <3>2. Extends(o0, O[k])
      BY <2>5, <3>1
    <3> QED
      BY <2>1, <3>2
<1> HIDE DEF S
<1>8. 0..N \subseteq S
  BY <1>6, <1>7, UpTo
<1> QED
  BY <1>1, <1>2, <1>4, <1>5, <1>8 DEF S

LEMMA EditsOne ==
  ASSUME NEW old, NEW t
  PROVE  LET c == <<Change(NoRange, t)>>
         IN  Edits(old, c)[1] = t /\ Edits(old, c)[Len(c)] = t
<1> DEFINE c == <<Change(NoRange, t)>>
           Defines(g) == g = [n \in 0..Len(c) |-> IF n = 0 THEN old ELSE Edited(g[n-1], c[n])]
           f == [n \in 0..1 |-> IF n = 0 THEN old ELSE t]
           after == CHOOSE g : Defines(g)
<1>1. Len(c) = 1 /\ c[1] = Change(NoRange, t)
  OBVIOUS
<1>2. \A x : Edited(x, Change(NoRange, t)) = t
  BY DEF Edited, Change
<1>3. Edits(old, c) = after
  BY DEF Edits
<1> HIDE DEF c
<1>4. Defines(f)
  <2>1. \A n \in 0..1 : f[n] = IF n = 0 THEN old ELSE Edited(f[n-1], c[n])
    BY <1>1, <1>2
  <2> QED
    BY <1>1, <2>1
<1> HIDE DEF Defines, f
<1>5. Defines(after)
  BY <1>4
<1> HIDE DEF after
<1>6. after[1] = Edited(after[0], c[1])
  BY <1>1, <1>5 DEF Defines
<1> QED
  BY <1>1, <1>2, <1>3, <1>6 DEF c

LEMMA PublishedAppend ==
  ASSUME NEW s \in Seq(Replies), NEW r \in Replies, NEW u, NEW t,
         (About(r, u) /\ r.text = t) \/ (~About(r, u) /\ Published(s, u, t))
  PROVE  Published(Append(s, r), u, t)
<1>1. PICK p \in Seq(Replies) : p = Append(s, r)
  BY AppendProperties
<1>2. PICK N \in Nat : N = Len(s)
  BY LenProperties
<1>3. /\ Len(p) = N + 1 /\ p[N + 1] = r /\ \A n \in 1..N : p[n] = s[n]
      /\ DOMAIN p = 1..(N + 1) /\ DOMAIN s = 1..N
  BY <1>1, <1>2, AppendProperties, LenProperties
<1>4. CASE About(r, u) /\ r.text = t
  <2>1. N + 1 \in DOMAIN p /\ \A j \in ((N + 1) + 1)..Len(p) : FALSE
    BY <1>3
  <2> QED
    BY <1>1, <1>3, <1>4, <2>1 DEF Published
<1>5. CASE ~About(r, u) /\ Published(s, u, t)
  <2>1. PICK i \in 1..N : About(s[i], u) /\ s[i].text = t /\ \A j \in (i+1)..N : ~About(s[j], u)
    BY <1>2, <1>3, <1>5 DEF Published
  <2>2. i \in DOMAIN p /\ p[i] = s[i]
    BY <1>3
  <2>3. ASSUME NEW j \in (i+1)..Len(p) PROVE ~About(p[j], u)
    <3>1. j = N + 1 \/ j \in (i+1)..N
      BY <1>3
    <3>2. j \in (i+1)..N => p[j] = s[j]
      BY <1>3
    <3> QED
      BY <1>3, <1>5, <2>1, <3>1, <3>2
  <2> QED
    BY <1>1, <2>1, <2>2, <2>3 DEF Published
<1> QED
  BY <1>4, <1>5

-----------------------------------------------------------------------------
(* The inductive invariant.                                                  *)

TypeInv ==
  /\ heard \in Stores /\ documents \in Stores
  /\ due \in Seq(Replies) /\ sent \in Nat
  /\ stdin \in Seq(Sent) /\ incoming \in Seq(Sent)
  /\ stdout \in Seq(Replies) /\ outgoing \in Seq(Replies)

\* What the editor has been written, or will be unless something ends first.
Shown == stdout \o outgoing

\* While the server serves, the messages in the channel and the pipe lead from its
\* documents to the texts heard, and from the answers given to those due.
OwedInv ==
  /\ Extends(Answers(stdout), due)
  /\ writer = "on" => Extends(Answers(Shown), due)
  /\ main = "serving" =>
       \E o0, o, d : /\ writer = "on" => o0 = Answers(Shown)
                     /\ Leads(incoming, documents, o0, d, o)
                     /\ Leads(stdin, d, o, heard, due)

DiagInv ==
  /\ stdout_open => writer = "on"
  /\ main = "serving" /\ writer = "on" =>
       \A u \in Uris : documents[u] # NoText => Published(Shown, u, documents[u])

ServerInv == TypeInv /\ OwedInv /\ DiagInv

LEMMA ServerInit == Init => ServerInv
<1> SUFFICES ASSUME Init PROVE ServerInv
  OBVIOUS
<1>1. /\ heard = documents /\ heard \in Stores /\ \A u \in Uris : documents[u] = NoText
      /\ due = <<>> /\ sent = 0 /\ stdin = <<>> /\ stdout = <<>> /\ incoming = <<>>
      /\ outgoing = <<>> /\ writer = "on"
  BY DEF Init, Stores, Texts
<1>2. Shown = <<>> /\ Answers(<<>>) = <<>> /\ <<>> \in Seq(Replies) /\ <<>> \in Seq(Sent)
  BY <1>1, AnswersNone DEF Shown
<1>3. Extends(<<>>, <<>>)
  BY <1>2, ExtendsSelf
<1>4. Leads(<<>>, heard, <<>>, heard, <<>>)
  BY <1>1, <1>2, LeadsNone
<1>5. TypeInv
  BY <1>1, <1>2 DEF TypeInv
<1>6. OwedInv
  BY <1>1, <1>2, <1>3, <1>4 DEF OwedInv
<1>7. DiagInv
  BY <1>1 DEF DiagInv
<1> QED
  BY <1>5, <1>6, <1>7 DEF ServerInv

\* What the server replies with is the answer that is due, if it is one, and the
\* diagnostics of a document that has changed.
Fits(m, out) ==
  /\ documents' = Effect(documents, m)
  /\ \/ out = <<>> /\ Due(documents, m) = <<>>
     \/ \E r \in Replies : out = <<r>> /\ Due(documents, m) = Keep(<<>>, r)
  /\ \A u \in Uris : documents'[u] # NoText =>
       \/ \E r \in Replies : out = <<r>> /\ About(r, u) /\ r.text = documents'[u]
       \/ documents'[u] = documents[u] /\ \A r \in Replies : out = <<r>> => ~About(r, u)

LEMMA ReplyShown ==
  ASSUME NEW s \in Seq(Replies), NEW m, NEW out, Fits(m, out)
  PROVE  /\ out \in Seq(Replies)
         /\ Answers(s \o out) = Answers(s) \o Due(documents, m)
         /\ \A u \in Uris : documents'[u] # NoText /\ (documents[u] # NoText => Published(s, u, documents[u]))
              => Published(s \o out, u, documents'[u])
<1>1. Answers(s) \in Seq(Replies)
  BY AnswersType
<1>2. CASE out = <<>> /\ Due(documents, m) = <<>>
  <2>1. s \o out = s /\ Answers(s) \o <<>> = Answers(s)
    BY <1>1, <1>2, ConcatEmptySeq
  <2>2. \A r : out # <<r>>
    BY <1>2
  <2> QED
    BY <1>2, <2>1, <2>2 DEF Fits
<1>3. CASE \E r \in Replies : out = <<r>> /\ Due(documents, m) = Keep(<<>>, r)
  <2>1. PICK r \in Replies : out = <<r>> /\ Due(documents, m) = Keep(<<>>, r)
    BY <1>3
  <2>2. s \o out = Append(s, r) /\ out \in Seq(Replies)
    BY <2>1, AppendIsConcat
  <2>3. Answers(s \o out) = Keep(Answers(s), r)
    BY <2>2, AnswersAppend
  <2>4. Keep(Answers(s), r) = Answers(s) \o Keep(<<>>, r)
    <3>1. Append(<<>>, r) = <<r>> /\ Append(Answers(s), r) = Answers(s) \o <<r>>
          /\ Answers(s) \o <<>> = Answers(s)
      BY <1>1, AppendIsConcat, ConcatEmptySeq
    <3> QED
      BY <3>1 DEF Keep
  <2>5. ASSUME NEW u \in Uris, documents'[u] # NoText,
               documents[u] # NoText => Published(s, u, documents[u])
        PROVE  Published(s \o out, u, documents'[u])
    <3>1. \A q : out = <<q>> <=> q = r
      BY <2>1
    <3>2. \/ About(r, u) /\ r.text = documents'[u]
          \/ documents'[u] = documents[u] /\ ~About(r, u)
      BY <2>5, <3>1 DEF Fits
    <3>3. Published(Append(s, r), u, documents'[u])
      BY <2>5, <3>2, PublishedAppend
    <3> QED
      BY <2>2, <3>3
  <2> QED
    BY <2>1, <2>2, <2>3, <2>4, <2>5
<1> QED
  BY <1>2, <1>3 DEF Fits

\* A turn of the main thread.
LEMMA Turn ==
  ASSUME ServerInv, main = "serving", incoming # <<>>, NEW out, Reply(out),
         incoming' = Tail(incoming), Fits(Head(incoming), out)
  PROVE  ServerInv'
<1>1. PICK m \in Sent : m = Head(incoming)
  BY HeadTailProperties DEF ServerInv, TypeInv
<1>2. /\ TypeInv /\ Shown \in Seq(Replies) /\ Tail(incoming) \in Seq(Sent)
      /\ documents \in Stores
  BY HeadTailProperties, ConcatProperties DEF ServerInv, TypeInv, Shown
<1>3. /\ documents' = Effect(documents, m) /\ documents' \in Stores
      /\ Due(documents, m) \in Seq(Replies)
  BY <1>1, <1>2, EffectType DEF Fits
<1>4. /\ UNCHANGED <<heard, due, sent, stdin, stdout_open, stdout, writer>>
      /\ outgoing' = IF writer = "on" THEN outgoing \o out ELSE outgoing
  BY DEF Reply, client
<1>5. /\ out \in Seq(Replies)
      /\ Answers(Shown \o out) = Answers(Shown) \o Due(documents, m)
      /\ \A u \in Uris :
           documents'[u] # NoText /\ (documents[u] # NoText => Published(Shown, u, documents[u]))
             => Published(Shown \o out, u, documents'[u])
  BY <1>1, <1>2, ReplyShown
<1>6. TypeInv'
  <2>1. outgoing \o out \in Seq(Replies)
    BY <1>2, <1>5, ConcatProperties DEF TypeInv
  <2> QED
    BY <1>2, <1>3, <1>4, <2>1 DEF TypeInv
<1>7. writer = "on" => Shown' = Shown \o out
  <2>1. stdout \in Seq(Replies) /\ outgoing \in Seq(Replies) /\ out \in Seq(Replies)
    BY <1>2, <1>5 DEF TypeInv
  <2>2. (stdout \o outgoing) \o out = stdout \o (outgoing \o out)
    BY <2>1, Associative
  <2> QED
    BY <1>4, <2>2 DEF Shown
<1>8. PICK o0, o, d : /\ writer = "on" => o0 = Answers(Shown)
                      /\ Leads(incoming, documents, o0, d, o)
                      /\ Leads(stdin, d, o, heard, due)
  BY DEF ServerInv, OwedInv
<1> DEFINE o1 == o0 \o Due(documents, m)
<1>9. Leads(Tail(incoming), Effect(documents, m), o1, d, o)
  BY <1>1, <1>2, <1>8, LeadsTail DEF TypeInv
<1>10. Extends(o1, due)
  <2>1. Extends(o1, o) /\ o1 \in Seq(Replies) /\ o \in Seq(Replies)
    BY <1>2, <1>9, LeadsExtends
  <2>2. Extends(o, due)
    BY <1>2, <1>8, LeadsExtends DEF TypeInv
  <2> HIDE DEF o1
  <2> QED
    BY <2>1, <2>2, ExtendsTrans
<1>11. writer = "on" => o1 = Answers(Shown')
  BY <1>5, <1>7, <1>8
<1> HIDE DEF o1
<1>12. OwedInv'
  <2>1. Leads(incoming', documents', o1, d, o)
    BY <1>1, <1>3, <1>9
  <2>2. Leads(stdin', d, o, heard', due')
    BY <1>4, <1>8
  <2>3. Extends(Answers(stdout'), due')
    BY <1>4 DEF ServerInv, OwedInv
  <2>4. writer' = "on" => o1 = Answers(Shown')
    BY <1>4, <1>11
  <2>5. writer' = "on" => Extends(Answers(Shown'), due')
    BY <1>4, <1>10, <2>4
  <2> QED
    BY <2>1, <2>2, <2>3, <2>4, <2>5 DEF OwedInv
<1>13. DiagInv'
  BY <1>4, <1>5, <1>7 DEF ServerInv, DiagInv
<1> QED
  BY <1>6, <1>12, <1>13 DEF ServerInv

-----------------------------------------------------------------------------
(* The steps.                                                                *)

\* What a handler knows of the message it handles.
LEMMA HeadIs ==
  ASSUME TypeInv, NEW methods, Receive(methods)
  PROVE  /\ Head(incoming) \in Sent /\ Head(incoming).method \in methods
         /\ main = "serving" /\ incoming # <<>> /\ incoming' = Tail(incoming)
  BY HeadTailProperties DEF TypeInv, Receive

\* A handler that changes no document answers what is due.
LEMMA AnswerFits ==
  ASSUME NEW m, NEW out, UNCHANGED documents, Effect(documents, m) = documents,
         \/ out = <<>> /\ Due(documents, m) = <<>>
         \/ \E r \in Replies : /\ r.op # "diagnostics"
                               /\ out = <<r>> /\ Due(documents, m) = <<r>>
  PROVE  Fits(m, out)
<1>1. CASE out = <<>> /\ Due(documents, m) = <<>>
  <2>1. \A r : out # <<r>>
    BY <1>1
  <2> QED
    BY <1>1, <2>1 DEF Fits
<1>2. CASE \E r \in Replies : /\ r.op # "diagnostics"
                              /\ out = <<r>> /\ Due(documents, m) = <<r>>
  <2>1. PICK r \in Replies : r.op # "diagnostics" /\ out = <<r>> /\ Due(documents, m) = <<r>>
    BY <1>2
  <2>2. Keep(<<>>, r) = <<r>>
    BY <2>1 DEF Keep
  <2>3. \A q : out = <<q>> => q = r
    BY <2>1
  <2>4. \A u, q : out = <<q>> => ~About(q, u)
    BY <2>1, <2>3 DEF About
  <2> QED
    BY <2>1, <2>2, <2>4 DEF Fits
<1> QED
  BY <1>1, <1>2

\* A handler that publishes the text a document has after it.
LEMMA DiagnosticsFit ==
  ASSUME documents \in Stores, NEW m \in Sent, NEW t \in Texts, NEW out,
         documents' = Effect(documents, m), Due(documents, m) = <<>>,
         out = <<Out("diagnostics", 0, m.uri, t)>>, documents'[m.uri] = t,
         \A u \in Uris \ {m.uri} : documents'[u] = documents[u]
  PROVE  Fits(m, out)
<1>1. PICK r \in Replies : r = Out("diagnostics", 0, m.uri, t)
  BY OutType, SentType
<1>2. r.op = "diagnostics" /\ r.uri = m.uri /\ r.text = t
  BY <1>1 DEF Out
<1>3. out = <<r>> /\ Due(documents, m) = Keep(<<>>, r)
  BY <1>1, <1>2 DEF Keep
<1>4. \A q : out = <<q>> => q = r
  BY <1>3
<1>5. ASSUME NEW u \in Uris
      PROVE  \/ \E q \in Replies : out = <<q>> /\ About(q, u) /\ q.text = documents'[u]
             \/ documents'[u] = documents[u] /\ \A q \in Replies : out = <<q>> => ~About(q, u)
  <2>1. CASE u = m.uri
    BY <1>2, <1>3, <2>1 DEF About
  <2>2. CASE u # m.uri
    BY <1>2, <1>4, <2>2 DEF About
  <2> QED
    BY <2>1, <2>2
<1> QED
  BY <1>3, <1>5 DEF Fits

LEMMA LifecycleKeeps == ServerInv /\ Lifecycle => ServerInv'
<1> SUFFICES ASSUME ServerInv, Lifecycle PROVE ServerInv'
  OBVIOUS
<1>1. PICK m : m = Head(incoming)
  OBVIOUS
<1> DEFINE out == IF m.id = 0 THEN <<>> ELSE <<Out("result", m.id, m.uri, NoText)>>
<1>2. /\ Receive({"initialize", "initialized", "shutdown", "exit"})
      /\ Reply(out) /\ UNCHANGED documents
  BY <1>1 DEF Lifecycle
<1>3. /\ m \in Sent /\ m.method \in {"initialize", "initialized", "shutdown", "exit"}
      /\ main = "serving" /\ incoming # <<>> /\ incoming' = Tail(incoming)
  BY <1>1, <1>2, HeadIs DEF ServerInv
<1>4. m.uri \in Uris /\ m.id \in Nat /\ (m.id # 0 <=> m.method \in Requests) /\ NoText \in Texts
  BY <1>3, SentType DEF Texts
<1>5. Effect(documents, m) = documents
  BY <1>3 DEF Effect
<1>6. \/ out = <<>> /\ Due(documents, m) = <<>>
      \/ \E r \in Replies : r.op # "diagnostics" /\ out = <<r>> /\ Due(documents, m) = <<r>>
  <2>1. CASE m.method \in {"initialize", "shutdown"}
    <3>1. PICK r \in Replies : r = Out("result", m.id, m.uri, NoText)
      BY <1>4, OutType
    <3>2. m.id # 0 /\ r.op = "result"
      BY <1>4, <2>1, <3>1 DEF Requests, Out
    <3>3. Due(documents, m) = <<r>>
      BY <2>1, <3>1 DEF Due
    <3> QED
      BY <3>1, <3>2, <3>3
  <2>2. CASE m.method \in {"initialized", "exit"}
    BY <1>4, <2>2 DEF Requests, Due
  <2> QED
    BY <1>3, <2>1, <2>2
<1> HIDE DEF out
<1>7. Fits(m, out)
  BY <1>2, <1>5, <1>6, AnswerFits
<1> QED
  BY <1>1, <1>2, <1>3, <1>7, Turn

LEMMA RefuseKeeps == ServerInv /\ Refuse => ServerInv'
<1> SUFFICES ASSUME ServerInv, Refuse PROVE ServerInv'
  OBVIOUS
<1>1. PICK m : m = Head(incoming)
  OBVIOUS
<1> DEFINE out == IF m.id = 0 THEN <<>> ELSE <<Out("error", m.id, m.uri, NoText)>>
<1>2. /\ Receive({"badJson", "badParams", "unknown", "badNotification"})
      /\ Reply(out) /\ UNCHANGED documents
  BY <1>1 DEF Refuse
<1>3. /\ m \in Sent /\ m.method \in {"badJson", "badParams", "unknown", "badNotification"}
      /\ main = "serving" /\ incoming # <<>> /\ incoming' = Tail(incoming)
  BY <1>1, <1>2, HeadIs DEF ServerInv
<1>4. m.uri \in Uris /\ m.id \in Nat /\ (m.id # 0 <=> m.method \in Requests) /\ NoText \in Texts
  BY <1>3, SentType DEF Texts
<1>5. Effect(documents, m) = documents
  BY <1>3 DEF Effect
<1>6. \/ out = <<>> /\ Due(documents, m) = <<>>
      \/ \E r \in Replies : r.op # "diagnostics" /\ out = <<r>> /\ Due(documents, m) = <<r>>
  <2>1. CASE m.method \in {"badJson", "badParams", "unknown"}
    <3>1. PICK r \in Replies : r = Out("error", m.id, m.uri, NoText)
      BY <1>4, OutType
    <3>2. m.id # 0 /\ r.op = "error"
      BY <1>4, <2>1, <3>1 DEF Requests, Out
    <3>3. Due(documents, m) = <<r>>
      BY <2>1, <3>1 DEF Due
    <3> QED
      BY <3>1, <3>2, <3>3
  <2>2. CASE m.method = "badNotification"
    BY <1>4, <2>2 DEF Requests, Due
  <2> QED
    BY <1>3, <2>1, <2>2
<1> HIDE DEF out
<1>7. Fits(m, out)
  BY <1>2, <1>5, <1>6, AnswerFits
<1> QED
  BY <1>1, <1>2, <1>3, <1>7, Turn

LEMMA FeatureKeeps == ServerInv /\ Feature => ServerInv'
<1> SUFFICES ASSUME ServerInv, Feature PROVE ServerInv'
  OBVIOUS
<1>1. PICK m : m = Head(incoming)
  OBVIOUS
<1> DEFINE r == Out("result", m.id, m.uri, documents[m.uri])
<1>2. Receive({"query"}) /\ Reply(<<r>>) /\ UNCHANGED documents
  BY <1>1 DEF Feature
<1>3. /\ m \in Sent /\ m.method = "query"
      /\ main = "serving" /\ incoming # <<>> /\ incoming' = Tail(incoming)
  BY <1>1, <1>2, HeadIs DEF ServerInv
<1>4. m.uri \in Uris /\ m.id \in Nat /\ documents[m.uri] \in Texts
  BY <1>3, SentType DEF ServerInv, TypeInv, Stores
<1>5. r \in Replies /\ r.op # "diagnostics"
  <2>1. r \in Replies
    BY <1>4, OutType
  <2> QED
    BY <2>1 DEF Out
<1>6. Effect(documents, m) = documents /\ Due(documents, m) = <<r>>
  BY <1>3 DEF Effect, Due
<1> HIDE DEF r
<1>7. Fits(m, <<r>>)
  BY <1>2, <1>5, <1>6, AnswerFits
<1> QED
  BY <1>1, <1>2, <1>3, <1>7, Turn

LEMMA OpenKeeps == ServerInv /\ did_open => ServerInv'
<1> SUFFICES ASSUME ServerInv, did_open PROVE ServerInv'
  OBVIOUS
<1>1. PICK m : m = Head(incoming)
  OBVIOUS
<1>2. PICK t : t = m.changes[1].text
  OBVIOUS
<1> DEFINE out == <<Out("diagnostics", 0, m.uri, t)>>
<1>3. Receive({"didOpen"}) /\ Reply(out) /\ documents' = [documents EXCEPT ![m.uri] = t]
  BY <1>1, <1>2 DEF did_open
<1>4. /\ m \in Sent /\ m.method = "didOpen"
      /\ main = "serving" /\ incoming # <<>> /\ incoming' = Tail(incoming)
  BY <1>1, <1>3, HeadIs DEF ServerInv
<1>5. m.uri \in Uris /\ t \in Texts /\ documents \in Stores
  BY <1>2, <1>4, SentType DEF ServerInv, TypeInv
<1>6. documents' = Effect(documents, m) /\ Due(documents, m) = <<>>
  BY <1>2, <1>3, <1>4 DEF Effect, Due
<1>7. documents'[m.uri] = t /\ \A u \in Uris \ {m.uri} : documents'[u] = documents[u]
  BY <1>3, <1>5 DEF Stores
<1>8. Fits(m, out)
  BY <1>4, <1>5, <1>6, <1>7, DiagnosticsFit
<1> HIDE DEF out
<1> QED
  BY <1>1, <1>3, <1>4, <1>8, Turn

LEMMA ChangeKeeps == ServerInv /\ did_change => ServerInv'
<1> SUFFICES ASSUME ServerInv, did_change PROVE ServerInv'
  OBVIOUS
<1>1. PICK m : m = Head(incoming)
  OBVIOUS
<1>2. PICK t : t = m.changes[1].text
  OBVIOUS
<1>3. Edits(documents[m.uri], decode_did_change(m))[1] = t
  BY <1>2, EditsOne DEF decode_did_change
<1> DEFINE out == IF documents[m.uri] # NoText THEN <<Out("diagnostics", 0, m.uri, t)>> ELSE <<>>
<1>4. /\ Receive({"didChange"}) /\ Reply(out)
      /\ documents' = IF documents[m.uri] # NoText
                      THEN [documents EXCEPT ![m.uri] = t] ELSE documents
  BY <1>1, <1>3 DEF did_change
<1>5. /\ m \in Sent /\ m.method = "didChange"
      /\ main = "serving" /\ incoming # <<>> /\ incoming' = Tail(incoming)
  BY <1>1, <1>4, HeadIs DEF ServerInv
<1>6. m.uri \in Uris /\ t \in Texts /\ documents \in Stores
  BY <1>2, <1>5, SentType DEF ServerInv, TypeInv
<1>7. documents' = Effect(documents, m) /\ Due(documents, m) = <<>>
  BY <1>2, <1>4, <1>5 DEF Effect, Due
<1>8. Fits(m, out)
  <2>1. CASE documents[m.uri] # NoText
    <3>1. documents'[m.uri] = t /\ \A u \in Uris \ {m.uri} : documents'[u] = documents[u]
      BY <1>4, <1>6, <2>1 DEF Stores
    <3> QED
      BY <1>5, <1>6, <1>7, <2>1, <3>1, DiagnosticsFit
  <2>2. CASE documents[m.uri] = NoText
    <3>1. UNCHANGED documents /\ out = <<>>
      BY <1>4, <2>2
    <3> QED
      BY <1>7, <3>1, AnswerFits
  <2> QED
    BY <2>1, <2>2
<1> HIDE DEF out
<1> QED
  BY <1>1, <1>4, <1>5, <1>8, Turn

LEMMA SaveKeeps == ServerInv /\ did_save => ServerInv'
<1> SUFFICES ASSUME ServerInv, did_save PROVE ServerInv'
  OBVIOUS
<1>1. PICK m : m = Head(incoming)
  OBVIOUS
<1>2. PICK t : t = documents[m.uri]
  OBVIOUS
<1> DEFINE out == IF t = NoText THEN <<>> ELSE <<Out("diagnostics", 0, m.uri, t)>>
<1>3. Receive({"didSave"}) /\ Reply(out) /\ UNCHANGED documents
  BY <1>1, <1>2 DEF did_save
<1>4. /\ m \in Sent /\ m.method = "didSave"
      /\ main = "serving" /\ incoming # <<>> /\ incoming' = Tail(incoming)
  BY <1>1, <1>3, HeadIs DEF ServerInv
<1>5. m.uri \in Uris /\ t \in Texts /\ documents \in Stores
  BY <1>2, <1>4, SentType DEF ServerInv, TypeInv, Stores
<1>6. Effect(documents, m) = documents /\ Due(documents, m) = <<>>
  BY <1>4 DEF Effect, Due
<1>7. Fits(m, out)
  <2>1. CASE t # NoText
    BY <1>2, <1>3, <1>4, <1>5, <1>6, <2>1, DiagnosticsFit
  <2>2. CASE t = NoText
    BY <1>3, <1>6, <2>2, AnswerFits
  <2> QED
    BY <2>1, <2>2
<1> HIDE DEF out
<1> QED
  BY <1>1, <1>3, <1>4, <1>7, Turn

LEMMA CloseKeeps == ServerInv /\ did_close => ServerInv'
<1> SUFFICES ASSUME ServerInv, did_close PROVE ServerInv'
  OBVIOUS
<1>1. PICK m : m = Head(incoming)
  OBVIOUS
<1>2. Receive({"didClose"}) /\ Reply(<<>>) /\ documents' = [documents EXCEPT ![m.uri] = NoText]
  BY <1>1 DEF did_close
<1>3. /\ m \in Sent /\ m.method = "didClose"
      /\ main = "serving" /\ incoming # <<>> /\ incoming' = Tail(incoming)
  BY <1>1, <1>2, HeadIs DEF ServerInv
<1>4. documents \in Stores
  BY DEF ServerInv, TypeInv
<1>5. documents' = Effect(documents, m) /\ Due(documents, m) = <<>>
  BY <1>2, <1>3 DEF Effect, Due
<1>6. \A u \in Uris : documents'[u] # NoText => documents'[u] = documents[u]
  BY <1>2, <1>4 DEF Stores
<1>7. \A r : <<>> # <<r>>
  OBVIOUS
<1>8. Fits(m, <<>>)
  BY <1>5, <1>6, <1>7 DEF Fits
<1> QED
  BY <1>1, <1>2, <1>3, <1>8, Turn

\* The main thread ends its loop: what was promised of a server that serves is void.
LEMMA StopKeeps == ServerInv /\ (Disconnected \/ Exit) => ServerInv'
<1> SUFFICES ASSUME ServerInv, Disconnected \/ Exit PROVE ServerInv'
  OBVIOUS
<1>1. /\ UNCHANGED <<heard, due, sent, stdout_open, stdin, stdout, writer, incoming, outgoing,
                     documents>>
      /\ main' # "serving"
  BY DEF Disconnected, Exit, client
<1>2. TypeInv'
  BY <1>1 DEF ServerInv, TypeInv
<1>3. Shown' = Shown
  BY <1>1 DEF Shown
<1>4. /\ Extends(Answers(stdout'), due')
      /\ writer' = "on" => Extends(Answers(Shown'), due')
  BY <1>1, <1>3 DEF ServerInv, OwedInv
<1>5. OwedInv'
  BY <1>1, <1>4 DEF OwedInv
<1>6. DiagInv'
  BY <1>1 DEF ServerInv, DiagInv
<1> QED
  BY <1>2, <1>5, <1>6 DEF ServerInv

\* Steps that touch neither the messages under way nor what they are about.
LEMMA QuietKeeps ==
  ASSUME ServerInv, stdout_open' => stdout_open,
         UNCHANGED <<heard, due, sent, stdin, stdout, writer, incoming, outgoing, documents, main>>
  PROVE  ServerInv'
<1>1. /\ UNCHANGED <<heard, due, sent, stdin, stdout, writer, incoming, outgoing, documents, main>>
      /\ stdout_open' => stdout_open
  OBVIOUS
<1>2. TypeInv'
  BY <1>1 DEF ServerInv, TypeInv
<1>3. Shown' = Shown
  BY <1>1 DEF Shown
<1>4. OwedInv'
  <2>1. /\ Extends(Answers(stdout'), due')
        /\ writer' = "on" => Extends(Answers(Shown'), due')
    BY <1>1, <1>3 DEF ServerInv, OwedInv
  <2>2. ASSUME main' = "serving"
        PROVE  \E o0, o, d : /\ writer' = "on" => o0 = Answers(Shown')
                             /\ Leads(incoming', documents', o0, d, o)
                             /\ Leads(stdin', d, o, heard', due')
    BY <1>1, <1>3, <2>2 DEF ServerInv, OwedInv
  <2> QED
    BY <2>1, <2>2 DEF OwedInv
<1>5. DiagInv'
  <2>1. \A u \in Uris : Published(Shown, u, documents[u]) => Published(Shown', u, documents'[u])
    BY <1>1, <1>3
  <2> QED
    BY <1>1, <2>1 DEF ServerInv, DiagInv
<1> QED
  BY <1>2, <1>4, <1>5 DEF ServerInv

LEMMA ReadKeeps == ServerInv /\ read_message => ServerInv'
<1> SUFFICES ASSUME ServerInv, read_message PROVE ServerInv'
  OBVIOUS
<1>1. CASE stdin = <<>> /\ UNCHANGED <<stdin, incoming>>
  <2>1. /\ stdout_open' => stdout_open
        /\ UNCHANGED <<heard, due, sent, stdin, stdout, writer, incoming, outgoing, documents, main>>
    BY <1>1 DEF read_message, client
  <2> QED
    BY <2>1, QuietKeeps
<1>2. CASE stdin # <<>>
  <2>1. PICK m \in Sent : m = Head(stdin)
    BY <1>2, HeadTailProperties DEF ServerInv, TypeInv
  <2>2. /\ stdin' = Tail(stdin) /\ stdin' \in Seq(Sent) /\ stdin \in Seq(Sent)
        /\ incoming \in Seq(Sent)
        /\ incoming' = IF m.method = "badUtf8" THEN incoming ELSE Append(incoming, m)
        /\ UNCHANGED <<heard, due, sent, stdout_open, stdout, writer, outgoing, documents, main>>
    BY <1>2, <2>1, HeadTailProperties DEF ServerInv, TypeInv, read_message, client
  <2>3. incoming' \in Seq(Sent)
    BY <2>2, AppendProperties
  <2>4. TypeInv'
    BY <2>2, <2>3 DEF ServerInv, TypeInv
  <2>5. Shown' = Shown
    BY <2>2 DEF Shown
  <2>6. /\ Extends(Answers(stdout'), due')
        /\ writer' = "on" => Extends(Answers(Shown'), due')
    BY <2>2, <2>5 DEF ServerInv, OwedInv
  <2>7. ASSUME main' = "serving"
        PROVE  \E o0, o, d : /\ writer' = "on" => o0 = Answers(Shown')
                             /\ Leads(incoming', documents', o0, d, o)
                             /\ Leads(stdin', d, o, heard', due')
    <3>1. PICK o0, o, d : /\ writer = "on" => o0 = Answers(Shown)
                          /\ Leads(incoming, documents, o0, d, o)
                          /\ Leads(stdin, d, o, heard, due)
      BY <2>2, <2>7 DEF ServerInv, OwedInv
    <3>2. Leads(stdin', Effect(d, m), o \o Due(d, m), heard', due')
      BY <1>2, <2>1, <2>2, <3>1, LeadsTail
    <3>3. Leads(incoming', documents', o0, Effect(d, m), o \o Due(d, m))
      <4>1. CASE m.method = "badUtf8"
        <5>1. Effect(d, m) = d /\ Due(d, m) = <<>>
          BY <4>1 DEF Effect, Due
        <5>2. o \in Seq(Replies)
          BY <2>2, <3>1, LeadsExtends
        <5>3. o \o Due(d, m) = o
          BY <5>1, <5>2, ConcatEmptySeq
        <5> QED
          BY <2>2, <3>1, <4>1, <5>1, <5>3
      <4>2. CASE m.method # "badUtf8"
        <5>1. Leads(Append(incoming, m), documents, o0, Effect(d, m), o \o Due(d, m))
          BY <2>2, <3>1, LeadsAppend
        <5> QED
          BY <2>2, <4>2, <5>1
      <4> QED
        BY <4>1, <4>2
    <3> QED
      BY <2>2, <2>5, <3>1, <3>2, <3>3
  <2>8. OwedInv'
    BY <2>6, <2>7 DEF OwedInv
  <2>9. DiagInv'
    <3>1. \A u \in Uris : Published(Shown, u, documents[u]) => Published(Shown', u, documents'[u])
      BY <2>2, <2>5
    <3> QED
      BY <2>2, <3>1 DEF ServerInv, DiagInv
  <2> QED
    BY <2>4, <2>8, <2>9 DEF ServerInv
<1> QED
  BY <1>1, <1>2 DEF read_message

LEMMA WriteKeeps == ServerInv /\ Write => ServerInv'
<1> SUFFICES ASSUME ServerInv, Write PROVE ServerInv'
  OBVIOUS
<1>1. /\ outgoing # <<>> /\ writer = "on" /\ outgoing' = Tail(outgoing)
      /\ UNCHANGED <<heard, due, sent, stdout_open, stdin, incoming, documents, main>>
  BY DEF Write, client
<1>2. /\ stdout \in Seq(Replies) /\ outgoing \in Seq(Replies)
      /\ due \in Seq(Replies)
  BY DEF ServerInv, TypeInv
<1>3. PICK r \in Replies : r = Head(outgoing)
  BY <1>1, <1>2, HeadTailProperties
<1>4. PICK rest \in Seq(Replies) : rest = Tail(outgoing)
  BY <1>1, <1>2, HeadTailProperties
<1>5. CASE stdout_open /\ stdout' = Append(stdout, Head(outgoing)) /\ UNCHANGED writer
  <2>1. stdout' = stdout \o <<r>> /\ stdout' \in Seq(Replies) /\ <<r>> \in Seq(Replies)
    BY <1>2, <1>3, <1>5, AppendIsConcat, AppendProperties
  <2>2. outgoing = <<r>> \o rest
    BY <1>1, <1>2, <1>3, <1>4, HeadTailProperties
  <2>3. Shown' = Shown
    <3>1. (stdout \o <<r>>) \o rest = stdout \o (<<r>> \o rest)
      BY <1>2, <2>1, Associative
    <3> QED
      BY <1>1, <1>4, <2>1, <2>2, <3>1 DEF Shown
  <2>4. TypeInv'
    BY <1>1, <1>4, <2>1 DEF ServerInv, TypeInv
  <2>5. Extends(Answers(stdout'), due')
    <3>1. PICK s \in Seq(Replies) : s = stdout'
      BY <2>1
    <3>2. PICK t \in Seq(Replies) : t = s \o rest
      BY <3>1, ConcatProperties
    <3>3. Extends(Answers(s), Answers(t)) /\ Answers(s) \in Seq(Replies) /\ Answers(t) \in Seq(Replies)
      BY <3>2, AnswersExtend, AnswersType
    <3>4. t = Shown
      BY <1>1, <1>4, <2>3, <3>1, <3>2 DEF Shown
    <3>5. Extends(Answers(t), due)
      BY <1>1, <3>4 DEF ServerInv, OwedInv
    <3>6. Extends(Answers(s), due)
      BY <3>3, <3>5, ExtendsTrans
    <3> QED
      BY <1>1, <3>1, <3>6
  <2>6. OwedInv'
    <3>1. writer' = "on" => Extends(Answers(Shown'), due')
      BY <1>1, <2>3 DEF ServerInv, OwedInv
    <3>2. ASSUME main' = "serving"
          PROVE  \E o0, o, d : /\ writer' = "on" => o0 = Answers(Shown')
                               /\ Leads(incoming', documents', o0, d, o)
                               /\ Leads(stdin', d, o, heard', due')
      BY <1>1, <1>5, <2>3, <3>2 DEF ServerInv, OwedInv
    <3> QED
      BY <2>5, <3>1, <3>2 DEF OwedInv
  <2>7. DiagInv'
    <3>1. \A u \in Uris : Published(Shown, u, documents[u]) => Published(Shown', u, documents'[u])
      BY <1>1, <2>3
    <3> QED
      BY <1>1, <1>5, <3>1 DEF ServerInv, DiagInv
  <2> QED
    BY <2>4, <2>6, <2>7 DEF ServerInv
<1>6. CASE ~stdout_open /\ writer' = "off" /\ UNCHANGED stdout
  <2>1. TypeInv'
    BY <1>1, <1>4, <1>6 DEF ServerInv, TypeInv
  <2>2. OwedInv'
    <3>1. ASSUME main' = "serving"
          PROVE  \E o0, o, d : /\ writer' = "on" => o0 = Answers(Shown')
                               /\ Leads(incoming', documents', o0, d, o)
                               /\ Leads(stdin', d, o, heard', due')
      BY <1>1, <1>6, <3>1 DEF ServerInv, OwedInv
    <3>2. Extends(Answers(stdout'), due') /\ writer' # "on"
      BY <1>1, <1>6 DEF ServerInv, OwedInv
    <3> QED
      BY <3>1, <3>2 DEF OwedInv
  <2>3. DiagInv'
    BY <1>1, <1>6 DEF DiagInv
  <2> QED
    BY <2>1, <2>2, <2>3 DEF ServerInv
<1> QED
  BY <1>5, <1>6 DEF Write

\* What the editor says is the next message of the pipe, and tells on the texts heard
\* and the answers due.
LEMMA SayIs ==
  ASSUME TypeInv, NEW k \in Messages, Say(k)
  PROVE  \E m \in Sent : /\ m.method = k.method /\ m.uri = k.uri /\ m.changes = k.changes
                         /\ stdin' = Append(stdin, m)
                         /\ heard' = Effect(heard, m) /\ due' = due \o Due(heard, m)
                         /\ owed' = owed \o Due(text, m)
<1>1. sent' = sent + 1 /\ sent \in Nat /\ sent' \in Nat /\ sent' # 0
  BY DEF TypeInv, Say
<1> DEFINE id == IF k.method \in Requests THEN sent' ELSE 0
<1>2. id \in Nat /\ (id # 0 <=> k.method \in Requests)
  BY <1>1
<1>3. PICK m : m = [k EXCEPT !.id = id]
  OBVIOUS
<1>4. /\ stdin' = Append(stdin, m)
      /\ heard' = Effect(heard, m) /\ due' = due \o Due(heard, m)
      /\ owed' = owed \o Due(text, m)
  BY <1>3 DEF Say
<1> HIDE DEF id
<1>5. k = Msg(k.method, k.uri, k.changes)
  BY MessageAssumption
<1>6. m.method = k.method /\ m.uri = k.uri /\ m.changes = k.changes /\ m.id = id
  BY <1>3, <1>5 DEF Msg
<1>7. m \in Sent
  <2>1. m = Numbered(k, id)
    BY <1>3 DEF Numbered
  <2>2. m.id # 0 <=> m.method \in Requests
    BY <1>2, <1>6
  <2> QED
    BY <1>2, <2>1, <2>2 DEF Sent
<1> QED
  BY <1>4, <1>6, <1>7

LEMMA SayKeeps ==
  ASSUME ServerInv, NEW k \in Messages, Say(k)
  PROVE  ServerInv'
<1>1. PICK m \in Sent : /\ stdin' = Append(stdin, m) /\ heard' = Effect(heard, m)
                        /\ due' = due \o Due(heard, m)
  BY SayIs DEF ServerInv
<1>2. /\ UNCHANGED <<stdout_open, stdout, writer, incoming, outgoing, documents, main>>
      /\ sent' = sent + 1
  BY DEF Say
<1>3. /\ heard \in Stores /\ due \in Seq(Replies) /\ stdin \in Seq(Sent)
      /\ stdout \in Seq(Replies) /\ Shown \in Seq(Replies)
  BY ConcatProperties DEF ServerInv, TypeInv, Shown
<1>4. heard' \in Stores /\ Due(heard, m) \in Seq(Replies)
  BY <1>1, <1>3, EffectType
<1>5. stdin' \in Seq(Sent) /\ due' \in Seq(Replies)
  BY <1>1, <1>3, <1>4, AppendProperties, ConcatProperties
<1>6. TypeInv'
  BY <1>2, <1>4, <1>5 DEF ServerInv, TypeInv
<1>7. Shown' = Shown
  BY <1>2 DEF Shown
<1>8. \A s \in Seq(Replies) : Extends(Answers(s), due) => Extends(Answers(s), due')
  BY <1>1, <1>3, <1>4, AnswersType, ExtendsMore
<1>9. OwedInv'
  <2>1. /\ Extends(Answers(stdout'), due')
        /\ writer' = "on" => Extends(Answers(Shown'), due')
    BY <1>2, <1>3, <1>7, <1>8 DEF ServerInv, OwedInv
  <2>2. ASSUME main' = "serving"
        PROVE  \E o0, o, d : /\ writer' = "on" => o0 = Answers(Shown')
                             /\ Leads(incoming', documents', o0, d, o)
                             /\ Leads(stdin', d, o, heard', due')
    <3>1. PICK o0, o, d : /\ writer = "on" => o0 = Answers(Shown)
                          /\ Leads(incoming, documents, o0, d, o)
                          /\ Leads(stdin, d, o, heard, due)
      BY <1>2, <2>2 DEF ServerInv, OwedInv
    <3>2. Leads(stdin', d, o, heard', due')
      BY <1>1, <1>3, <3>1, LeadsAppend
    <3> QED
      BY <1>2, <1>7, <3>1, <3>2
  <2> QED
    BY <2>1, <2>2 DEF OwedInv
<1>10. DiagInv'
  <2>1. \A u \in Uris : Published(Shown, u, documents[u]) => Published(Shown', u, documents'[u])
    BY <1>2, <1>7
  <2> QED
    BY <1>2, <2>1 DEF ServerInv, DiagInv
<1> QED
  BY <1>6, <1>9, <1>10 DEF ServerInv

LEMMA ServerStep == ServerInv /\ [Next]_vars => ServerInv'
<1> SUFFICES ASSUME ServerInv, [Next]_vars PROVE ServerInv'
  OBVIOUS
<1>1. ASSUME NEW k \in Messages, Say(k) PROVE ServerInv'
  BY <1>1, SayKeeps
<1>2. CASE HangUp
  <2>1. /\ stdout_open' => stdout_open
        /\ UNCHANGED <<heard, due, sent, stdin, stdout, writer, incoming, outgoing, documents, main>>
    BY <1>2 DEF HangUp
  <2> QED
    BY <2>1, QuietKeeps
<1>3. CASE read_message
  BY <1>3, ReadKeeps
<1>4. CASE Write
  BY <1>4, WriteKeeps
<1>5. CASE run_server
  BY <1>5, LifecycleKeeps, OpenKeeps, ChangeKeeps, SaveKeeps, CloseKeeps, FeatureKeeps,
     RefuseKeeps, StopKeeps DEF run_server
<1>6. CASE UNCHANGED vars
  <2>1. /\ stdout_open' => stdout_open
        /\ UNCHANGED <<heard, due, sent, stdin, stdout, writer, incoming, outgoing, documents, main>>
    BY <1>6 DEF vars, client
  <2> QED
    BY <2>1, QuietKeeps
<1> QED
  BY <1>1, <1>2, <1>3, <1>4, <1>5, <1>6 DEF Next

LEMMA ServerInvAlways == Spec => []ServerInv
<1>1. Init => ServerInv
  BY ServerInit
<1>2. ServerInv /\ [Next]_vars => ServerInv'
  BY ServerStep
<1> QED
  BY <1>1, <1>2, PTL DEF Spec

LEMMA InvServes == ASSUME ServerInv PROVE ServesWhatItHeard
<1>1. IsPrefix(Answers(stdout), due)
  <2>1. Answers(stdout) \in Seq(Replies) /\ Extends(Answers(stdout), due)
    BY AnswersType DEF ServerInv, TypeInv, OwedInv
  <2> QED
    BY <2>1, ExtendsPrefix
<1>2. ASSUME stdin = <<>>, incoming = <<>>, main = "serving" PROVE documents = heard
  <2>1. PICK o0, o, d : /\ Leads(incoming, documents, o0, d, o)
                        /\ Leads(stdin, d, o, heard, due)
    BY <1>2 DEF ServerInv, OwedInv
  <2>2. /\ documents \in Stores /\ o0 \in Seq(Replies)
        /\ d \in Stores /\ o \in Seq(Replies)
    BY <2>1, LeadsExtends DEF ServerInv, TypeInv
  <2>3. documents = d
    BY <1>2, <2>1, <2>2, LeadsNone
  <2>4. d = heard
    BY <1>2, <2>1, <2>2, LeadsNone
  <2> QED
    BY <2>3, <2>4
<1> QED
  BY <1>1, <1>2 DEF ServesWhatItHeard

\* Whatever the editor sends, whole texts or ranges, and whichever pipe breaks: no
\* message is lost, reordered or handled twice between the editor and the store, and
\* what is written are the answers due by the server's own reading, in order. What the
\* store lacks of the editor's texts is decode_did_change's doing (lsp/raw_params.rs).
THEOREM AlwaysServesWhatItHeard == Spec => []ServesWhatItHeard
<1>1. ServerInv => ServesWhatItHeard
  BY InvServes
<1> QED
  BY <1>1, ServerInvAlways, PTL

-----------------------------------------------------------------------------
(* An editor that sends whole texts: what the server hears is what it said.   *)

HeardRight == text = heard /\ owed = due

LEMMA SayHeard ==
  ASSUME TypeInv, HeardRight, SendsWholeTexts, NEW k \in Messages, Say(k)
  PROVE  HeardRight'
<1>1. PICK m \in Sent : /\ m.method = k.method /\ m.uri = k.uri /\ m.changes = k.changes
                        /\ heard' = Effect(heard, m) /\ due' = due \o Due(heard, m)
                        /\ owed' = owed \o Due(text, m)
  BY SayIs
<1>2. PICK t : t = k.changes[1].text
  OBVIOUS
<1>3. k.method \in {"didOpen", "didChange"}
        => \A old : Edits(old, k.changes)[Len(k.changes)] = t
  <2>1. k.method \in {"didOpen", "didChange"} => k.changes = <<Change(NoRange, t)>>
    BY <1>2, MessageAssumption DEF SendsWholeTexts
  <2> QED
    BY <2>1, EditsOne
<1>4. /\ k.method = "didChange" => text[k.uri] # NoText
      /\ k.method \in {"didOpen", "didChange"} =>
           text' = [text EXCEPT ![k.uri] = Edits(text[k.uri], k.changes)[Len(k.changes)]]
      /\ k.method = "didClose" => text' = [text EXCEPT ![k.uri] = NoText]
      /\ k.method \notin {"didOpen", "didChange", "didClose"} => text' = text
  BY DEF Say
<1>5. text' = Effect(text, m)
  BY <1>1, <1>2, <1>3, <1>4 DEF Effect
<1> QED
  BY <1>1, <1>5 DEF HeardRight

LEMMA HeardRightAlways == ASSUME SendsWholeTexts PROVE Spec => []HeardRight
<1>1. Init => HeardRight
  BY DEF Init, HeardRight
<1>2. TypeInv /\ HeardRight /\ [Next]_vars => HeardRight'
  <2> SUFFICES ASSUME TypeInv, HeardRight, [Next]_vars PROVE HeardRight'
    OBVIOUS
  <2>1. ASSUME NEW k \in Messages, Say(k) PROVE HeardRight'
    BY <2>1, SayHeard
  <2>2. CASE HangUp \/ read_message \/ Write \/ run_server
    <3>1. UNCHANGED <<text, owed, heard, due>>
      BY <2>2 DEF HangUp, read_message, Write, run_server, Lifecycle, did_open, did_change,
         did_save, did_close, Feature, Refuse, Disconnected, Exit, Reply, client
    <3> QED
      BY <3>1 DEF HeardRight
  <2>3. CASE UNCHANGED vars
    BY <2>3 DEF vars, client, HeardRight
  <2> QED
    BY <2>1, <2>2, <2>3 DEF Next
<1>3. ServerInv => TypeInv
  BY DEF ServerInv
<1> QED
  BY <1>1, <1>2, <1>3, ServerInvAlways, PTL DEF Spec

LEMMA InvImplies ==
  ASSUME ServerInv, HeardRight
  PROVE  AnswersAsOwed /\ DiagnosticsCurrent
<1>1. AnswersAsOwed
  BY InvServes DEF ServesWhatItHeard, HeardRight, AnswersAsOwed
<1>2. ASSUME NEW u \in Uris, stdin = <<>>, incoming = <<>>, outgoing = <<>>,
             main = "serving", stdout_open, text[u] # NoText
      PROVE  Published(stdout, u, text[u])
  <2>1. documents = text
    BY <1>2, InvServes DEF ServesWhatItHeard, HeardRight
  <2>2. Published(Shown, u, documents[u])
    BY <1>2, <2>1 DEF ServerInv, DiagInv
  <2>3. Shown = stdout
    BY <1>2, ConcatEmptySeq DEF Shown, ServerInv, TypeInv
  <2> QED
    BY <2>1, <2>2, <2>3
<1> QED
  BY <1>1, <1>2 DEF DiagnosticsCurrent

\* The editor gets the answers it is owed in the order of its requests, each about the
\* text it had when it asked, however many messages are under way, and whichever pipe
\* breaks (Reply and Write of LanguageServer; run_server, lsp/transport.rs).
THEOREM AnswersAlwaysInOrder ==
  ASSUME SendsWholeTexts PROVE Spec => []AnswersAsOwed
<1>1. ServerInv /\ HeardRight => AnswersAsOwed
  BY InvImplies
<1> QED
  BY <1>1, ServerInvAlways, HeardRightAlways, PTL

\* Once nothing is under way, the diagnostics an editor shows for a document are those
\* of the text it has (did_open, did_change and did_save, lsp/server.rs).
THEOREM DiagnosticsStayCurrent ==
  ASSUME SendsWholeTexts PROVE Spec => []DiagnosticsCurrent
<1>1. ServerInv /\ HeardRight => DiagnosticsCurrent
  BY InvImplies
<1> QED
  BY <1>1, ServerInvAlways, HeardRightAlways, PTL

==============================================================================
