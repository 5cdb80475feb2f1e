------------------------------- MODULE MirCfg -------------------------------
(* The control-flow graph of a MIR function and the analyses the code         *)
(* generator asks of it: analysis/cfg.rs and analysis/liveness.rs.            *)
(*                                                                            *)
(* A function body B is a sequence of blocks, the first one its entry. A      *)
(* block is a record [stmts, term]; a statement is [op, dest, src], where op  *)
(* says what the rvalue does with the one local it mentions: "move" is Use,   *)
(* "field" FieldAccess, "ref" a shared Ref, "deref" Deref. A terminator is    *)
(* [op, to, fn, args, dest]: the blocks it may go to, and for a call the      *)
(* callee, the locals passed and the local that takes the result (NoLocal:    *)
(* none). A returned local is the return's one argument. Constants, integer   *)
(* and boolean locals are left out.                                           *)
EXTENDS Naturals, FiniteSets, SequencesExt

NoLocal == 0
Entry == 1

Succs(B, i) == Range(B[i].term.to)

\* What a loop that goes on while something changed ends with: settled[s], when
\* one round turns the state s into next[s].
Fixpoint(next) ==
  LET settled[s \in DOMAIN next] ==
        LET t == next[s] IN IF t = s THEN s ELSE settled[t]
  IN settled

\* The least set that contains S and is closed under step, a function from
\* blocks to sets of blocks: a worklist run to its end.
Closure(step, S) ==
  Fixpoint([T \in SUBSET DOMAIN step |-> T \cup UNION {step[i] : i \in T}])[S]

SuccFn(B) == [i \in DOMAIN B |-> Succs(B, i)]

reachable_blocks(B) == Closure(SuccFn(B), {Entry})

\* Predecessors over reachable blocks only.
Preds(B) ==
  LET R == reachable_blocks(B)
  IN [i \in DOMAIN B |-> {p \in R : i \in Succs(B, p)}]

\* The fixpoint below D of the equations for the dominator sets.
DomFix(preds, D) ==
  Fixpoint([E \in [DOMAIN D -> SUBSET DOMAIN D] |->
              [i \in DOMAIN D |->
                 IF i = Entry \/ preds[i] = {}
                 THEN E[i]
                 ELSE {i} \cup {x \in DOMAIN D : \A p \in preds[i] : x \in E[p]}]])[D]

\* Bug: an unreachable predecessor takes part, as it did before it was fixed.
compute_dominatorsAllPreds(B) ==
  DomFix([i \in DOMAIN B |-> {p \in DOMAIN B : i \in Succs(B, p)}],
         [i \in DOMAIN B |-> IF i \in reachable_blocks(B) /\ i # Entry
                             THEN DOMAIN B ELSE {i}])

\* dom[i]: the blocks that dominate i. An unreachable block keeps every block.
compute_dominators(B) ==
  DomFix(Preds(B), [i \in DOMAIN B |-> IF i = Entry THEN {Entry} ELSE DOMAIN B])

-----------------------------------------------------------------------------
(* Uses, definitions and liveness.                                            *)

StmtUses(s) == {s.src} \ {NoLocal}
TermUses(t) == Range(t.args) \ {NoLocal}

Stmts(B) == UNION {Range(B[i].stmts) : i \in DOMAIN B}

MovesInto(b, x) == {s \in Range(b.stmts) : s.op = "move" /\ s.dest = x}

\* Bug: a definition does not end what was live after it.
LiveBeforeKept(b, out) ==
  out \cup TermUses(b.term) \cup UNION {StmtUses(s) : s \in Range(b.stmts)}

\* The locals that are live before block b, when those in out are after it: the
\* terminator, then the statements from the last to the first.
LiveBefore(b, out) ==
  LET n == Len(b.stmts)
      live[k \in 0..n] ==
        IF k = 0
        THEN (out \ {b.term.dest}) \cup TermUses(b.term)
        ELSE (live[k - 1] \ {b.stmts[n + 1 - k].dest}) \cup StmtUses(b.stmts[n + 1 - k])
  IN live[n]

LiveOut(B, livein, i) == UNION {livein[s] : s \in Succs(B, i)}

\* What some statement or terminator uses.
Used(B) ==
  (UNION {TermUses(B[i].term) : i \in DOMAIN B}) \cup (UNION {StmtUses(s) : s \in Stmts(B)})

\* live_in of every block.
compute(B) ==
  Fixpoint([livein \in [DOMAIN B -> SUBSET Used(B)] |->
              [i \in DOMAIN B |-> LiveBefore(B[i], LiveOut(B, livein, i))]])[
    [i \in DOMAIN B |-> {}]]

\* What x was moved from: of several moves into it the last one in the order of the
\* blocks counts.
MoveSource(B, x) ==
  LET into == {i \in DOMAIN B : MovesInto(B[i], x) # {}}
  IN IF into = {} THEN NoLocal
     ELSE (CHOOSE s \in MovesInto(B[Max(into)], x) : TRUE).src

\* The locals whose buffer x acquired through a chain of moves. The state of the walk
\* is the local it has come to, and those it has met.
move_source_chain(B, x) ==
  LET met == {x, NoLocal}
      L == met \cup Used(B)
      walk == Fixpoint([c \in L \X SUBSET L |->
                          LET src == MoveSource(B, c[1])
                          IN IF src \in c[2] THEN c ELSE <<src, c[2] \cup {src}>>])
  IN walk[<<x, met>>][2] \ met

\* The owner, its move sources, and the temporaries borrowed off any of them.
buffer_aliases(B, x) ==
  LET A == {x} \cup move_source_chain(B, x)
  IN A \cup {s.dest : s \in {t \in Stmts(B) : t.op = "field" /\ t.src \in A}}

\* The blocks at whose entry, and at whose exit, x's buffer is live.
buffer_live_in(B, livein, x) ==
  LET A == buffer_aliases(B, x) IN {i \in DOMAIN B : livein[i] \cap A # {}}
buffer_live_out(B, livein, x) ==
  LET A == buffer_aliases(B, x) IN {i \in DOMAIN B : LiveOut(B, livein, i) \cap A # {}}

\* What the passes below ask for together, computed once.
Facts(B) == [preds |-> Preds(B), dom |-> compute_dominators(B), live |-> compute(B)]
=============================================================================
