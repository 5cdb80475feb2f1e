---------------------------- MODULE StructuredCfg ----------------------------
(* analysis/structured_cfg.rs: the merge and continue blocks of every branch, *)
(* recovered from the flat graph for the SPIR-V backend.                      *)
EXTENDS MirCfg

\* The fixpoint below D of the equations for the post-dominator sets.
PostDomFix(succs, D) ==
  Fixpoint([E \in [DOMAIN D -> SUBSET DOMAIN D] |->
              [i \in DOMAIN D |->
                 IF succs[i] = {}
                 THEN E[i]
                 ELSE {i} \cup {x \in DOMAIN D : \A s \in succs[i] : x \in E[s]}]])[D]

\* An exit starts with itself, every other reachable block with all of them.
compute_post_dominators(B) ==
  LET R == reachable_blocks(B)
  IN PostDomFix([i \in DOMAIN B |-> IF i \in R THEN Succs(B, i) ELSE {}],
                [i \in DOMAIN B |-> IF i \in R /\ Succs(B, i) = {} THEN {i} ELSE DOMAIN B])

NoBlock == 0

\* The reachable post-dominator of h that all its others post-dominate; when
\* there is none, one with the smallest set.
immediate_post_dominator(h, pd, R) ==
  LET C == pd[h] \ {h}
      near == {c \in C \cap R : C \ {c} \subseteq pd[c]}
      small == {c \in C \cap R : \A d \in C \cap R : Cardinality(pd[c]) <= Cardinality(pd[d])}
  IN CASE near # {} -> CHOOSE c \in near : TRUE
       [] small # {} -> CHOOSE c \in small : TRUE
       [] OTHER -> NoBlock

\* The reachable sources of back edges into h; the code takes the first.
Latches(B, preds, dom, h) == {p \in preds[h] : h \in dom[p]}

\* The blocks that reach the latch without passing through h.
loop_body_blocks(preds, h, latch) ==
  {h} \cup Closure([i \in DOMAIN preds |-> IF i = h THEN {} ELSE preds[i]], {latch})

Selection(merge) == [kind |-> "selection", merge |-> merge, continue_target |-> NoBlock]
Loop(merge, continue) == [kind |-> "loop", merge |-> merge, continue_target |-> continue]

\* Bug: the arm that continues the loop is taken to be the first one, always.
LoopHeaderFirst(B, body, h) == Loop(B[h].term.to[2], B[h].term.to[1])

\* The arm outside the body is where the loop ends. When both arms, or
\* neither, are in the body: the second.
LoopHeader(B, body, h) ==
  LET then == B[h].term.to[1]
      else == B[h].term.to[2]
  IN IF else \in body /\ then \notin body THEN Loop(then, else) ELSE Loop(else, then)

IfHeaders(B) == {h \in reachable_blocks(B) : B[h].term.op = "if"}

\* The headers of loops, with the blocks of their bodies.
LoopBodies(B) ==
  LET preds == Preds(B)
      dom == compute_dominators(B)
  IN [h \in {i \in IfHeaders(B) : Latches(B, preds, dom, i) # {}} |->
        loop_body_blocks(preds, h, Min(Latches(B, preds, dom, h)))]

analyze(B) ==
  LET pd == compute_post_dominators(B)
      R == reachable_blocks(B)
      bodies == LoopBodies(B)
  IN [h \in IfHeaders(B) |->
        IF h \in DOMAIN bodies
        THEN LoopHeader(B, bodies[h], h)
        ELSE Selection(immediate_post_dominator(h, pd, R))]
=============================================================================
