----------------------------- MODULE MirPrograms -----------------------------
(* A function from its source statements to its end: it is lowered            *)
(* (MirLowering), checked (LinearMoves), given its frees (DropInsertion) and  *)
(* its merge blocks (StructuredCfg), and what the C backend prints for it is  *)
(* run, a block at a time. A condition may go either way each time.           *)
EXTENDS MirLowering, LinearMoves, DropInsertion, StructuredCfg

CONSTANTS
  Tables,    \* what the helpers may do: the values of bodies
  MaxValues  \* how many strings and linear values an execution creates

\* A helper returns a new value, what its reference points to, what a function value
\* makes of it, or what a helper it passes the reference on to returns.
ASSUME TablesAssumption ==
  Tables \subseteq [Helpers -> {"fresh", "deref", "indirect"} \cup Helpers]

VARIABLES
  bodies,   \* what each helper does
  stage,    \* "lower", then "run", and "done" after the return
  plan,     \* what generate_function decided
  pc,       \* the block that runs next
  vals,     \* each local's buffer, linear value or referent; Nothing at first
  heap,     \* each buffer: how often it was freed, whether it was used after
  live,     \* the owners whose drop flag is 1
  spent,    \* each linear value: how often it was passed by value
  gone,     \* the linear locals that were moved out of
  stale,    \* one of those was used
  wild      \* a local that held no buffer was freed

execution == <<pc, vals, heap, live, spent, gone, stale, wild>>
vars == <<lowering, bodies, stage, plan, execution>>

Nothing == 0
LocalsOf(type) == {x \in DOMAIN locals : locals[x].type = type}

NoPlan ==
  [freeable |-> {}, block_scoped_set |-> {}, block_frees |-> <<>>,
   flag_owners |-> {}, flag_block_frees |-> <<>>]

Init ==
  /\ InitLowering
  /\ bodies \in Tables
  /\ "helper" \notin grammar.uses => Range(bodies) = {"fresh"}
  /\ stage = "lower"
  /\ plan = NoPlan
  /\ pc = Entry
  /\ vals = <<>>
  /\ heap = <<>>
  /\ live = {}
  /\ spent = <<>>
  /\ gone = {}
  /\ stale = FALSE
  /\ wild = FALSE

\* A program with an error of the linear check is not compiled.
Generate ==
  /\ stage = "lower"
  /\ Finished
  /\ check_with_context(blocks', LocalsOf("linear"), bodies) = {}
  /\ stage' = "run"
  /\ plan' = generate_function(blocks', LocalsOf("string"))
  /\ vals' = [x \in DOMAIN locals |-> Nothing]
  /\ UNCHANGED <<bodies, pc, heap, live, spent, gone, stale, wild>>

-----------------------------------------------------------------------------
(* Execution. M is the state of it: [vals, heap, live, gone, stale, wild].    *)

Machine ==
  [vals |-> vals, heap |-> heap, live |-> live, gone |-> gone, stale |-> stale, wild |-> wild]

\* build_string_free of each local in X. The order of the frees makes no difference.
Free(X, M) ==
  LET Times(b) == Cardinality({x \in X : M.vals[x] = b})
  IN [M EXCEPT !.heap = [b \in DOMAIN M.heap |-> [M.heap[b] EXCEPT !.frees = @ + Times(b)]],
               !.wild = @ \/ Times(Nothing) > 0]

\* Bug: the flags stay set after the frees.
emit_flag_guarded_freeKeep(X, M) == Free(X \cap M.live, M)

\* For each local in X: when its flag is set, a free, and the flag is cleared.
emit_flag_guarded_free(X, M) == [Free(X \cap M.live, M) EXCEPT !.live = @ \ X]

FreeAll(unguarded, guarded, M) == emit_flag_guarded_free(guarded, Free(unguarded, M))

\* The buffers of the locals in X are read.
Deref(X, M) ==
  LET through == {x \in X : locals[x].type \in {"string", "pointer"}}
      Read(b) == \E x \in through : M.vals[x] = b
  IN [M EXCEPT !.heap = [b \in DOMAIN M.heap |->
        [M.heap[b] EXCEPT !.late = @ \/ (Read(b) /\ M.heap[b].frees > 0)]]]

\* A linear local is read, or gives up its value for good. C leaves the value
\* where it is.
Look(x, M) == [M EXCEPT !.stale = @ \/ x \in M.gone]
Take(x, M) ==
  IF locals[x].type = "linear" THEN [Look(x, M) EXCEPT !.gone = @ \cup {x}] ELSE M

\* A local is defined; the flag of an owner is set.
generate_define(x, v, M) ==
  [M EXCEPT !.vals[x] = v, !.live = @ \cup ({x} \cap plan.flag_owners), !.gone = @ \ {x}]

generate_statement(M, s) ==
  CASE s.op = "ref" -> generate_define(s.dest, s.src, Look(s.src, M))
    [] s.op = "deref" -> generate_define(s.dest, M.vals[M.vals[s.src]], M)
    [] OTHER -> generate_define(s.dest, M.vals[s.src], IF s.op = "move" THEN Take(s.src, M) ELSE M)

\* The frees at the start of block i, and its statements.
RunStatements(i) ==
  LET after[k \in 0..Len(blocks[i].stmts)] ==
        IF k = 0 THEN FreeAll(plan.block_frees[i], plan.flag_block_frees[i], Machine)
        ELSE generate_statement(after[k - 1], blocks[i].stmts[k])
  IN after[Len(blocks[i].stmts)]

Becomes(M) ==
  /\ vals' = M.vals /\ heap' = M.heap /\ live' = M.live
  /\ gone' = M.gone /\ stale' = M.stale /\ wild' = M.wild

Running(op) ==
  /\ stage = "run"
  /\ blocks[pc].term.op = op
  /\ UNCHANGED <<lowering, bodies, plan>>

Term == blocks[pc].term

RunGoto ==
  /\ Running("goto") \/ Running("if")
  /\ \E b \in Range(Term.to) : pc' = b
  /\ Becomes(RunStatements(pc))
  /\ UNCHANGED <<stage, spent>>

\* A call that only reads what it is given: printf.
RunPrintf ==
  /\ Running("call") /\ Term.fn = "printf"
  /\ Becomes(Deref(Range(Term.args), RunStatements(pc)))
  /\ pc' = Term.to[1]
  /\ UNCHANGED <<stage, spent>>

\* build_string_concat reads its operands into a fresh buffer.
RunConcat ==
  /\ Running("call") /\ Term.fn = "concat"
  /\ Len(heap) < MaxValues
  /\ LET M == Deref(Range(Term.args), RunStatements(pc))
     IN Becomes(generate_define(Term.dest, Len(heap) + 1,
                                [M EXCEPT !.heap = Append(@, [frees |-> 0, late |-> FALSE])]))
  /\ pc' = Term.to[1]
  /\ UNCHANGED <<stage, spent>>

\* A call that takes its argument by value; a linear value is used up.
RunSpend ==
  /\ Running("call") /\ Term.fn = "spend"
  /\ LET x == Term.args[1]
         M == RunStatements(pc)
     IN /\ Becomes(Take(x, Deref({x}, M)))
        /\ spent' = IF locals[x].type = "linear" THEN [spent EXCEPT ![M.vals[x]] = @ + 1] ELSE spent
  /\ pc' = Term.to[1]
  /\ UNCHANGED stage

\* A new linear value.
Mint(M) ==
  /\ Len(spent) < MaxValues
  /\ Becomes(generate_define(Term.dest, Len(spent) + 1, M))
  /\ spent' = Append(spent, 0)

RunMint ==
  /\ Running("call") /\ Term.fn = "mint"
  /\ Mint(RunStatements(pc))
  /\ pc' = Term.to[1]
  /\ UNCHANGED stage

\* What a helper comes down to: the last of those it passes the reference to.
\* One that only passes it to itself never returns.
Ends(h) ==
  Range(bodies) \cap {"fresh", "deref", "indirect"}
    \cap {bodies[g] : g \in Closure([i \in Helpers |-> {bodies[i]} \cap Helpers], {h})}

RunHelper ==
  /\ Running("call") /\ Term.fn \in Helpers
  /\ LET M == RunStatements(pc)
         there == M.vals[M.vals[Term.args[1]]]
     IN \/ Ends(Term.fn) \cap {"fresh", "indirect"} # {} /\ Mint(M)
        \/ /\ Ends(Term.fn) \cap {"deref", "indirect"} # {}
           /\ Becomes(generate_define(Term.dest, there, M))
           /\ UNCHANGED spent
  /\ pc' = Term.to[1]
  /\ UNCHANGED stage

RunReturn ==
  /\ Running("return")
  /\ Becomes(FreeAll(plan.freeable, plan.flag_owners, RunStatements(pc)))
  /\ stage' = "done"
  /\ UNCHANGED <<pc, spent>>

Run ==
  \/ RunGoto \/ RunPrintf \/ RunConcat \/ RunSpend \/ RunMint \/ RunHelper \/ RunReturn

Next ==
  \/ stage = "lower" /\ Lower /\ UNCHANGED <<bodies, stage, plan, execution>>
  \/ Generate
  \/ Run

Spec == Init /\ [][Next]_vars

-----------------------------------------------------------------------------
(* Properties.                                                                *)

\* However the branches go, no buffer is freed twice and no local is freed
\* before it holds a buffer, whichever of the four placements freed it.
FreedAtMostOnce ==
  /\ \A b \in DOMAIN heap : heap[b].frees <= 1
  /\ ~wild

\* No buffer is read after a free, neither through its owner nor through a
\* pointer that was borrowed off it or off a local it was moved from.
NoUseAfterFree == \A b \in DOMAIN heap : ~heap[b].late

\* The invariant flags.rs states: a drop flag that is set means that its owner
\* holds a buffer that no free has released.
FlagMeansHeld == \A x \in live : vals[x] # Nothing /\ heap[vals[x]].frees = 0

\* A loop that allocates for a block-scoped owner holds one buffer of it at a
\* time: before the owner takes its next one, the last one was freed.
ScopedFreedBeforeNext ==
  [][\A x \in plan.block_scoped_set :
       vals'[x] # vals[x] /\ vals[x] # Nothing => heap[vals[x]].frees = 1]_vars

AtStart == stage = "run" /\ pc = Entry

ReachableAvoiding(B, from, x) ==
  IF from = x THEN {}
  ELSE Closure([i \in DOMAIN B |-> Succs(B, i) \ {x}], {from})

\* The dominator sets mean what the doc of compute_dominators says: x is in the
\* set of y exactly when every path from the entry to y goes through x.
DominatorsCutPaths ==
  AtStart =>
    LET dom == compute_dominators(blocks)
    IN \A x, y \in reachable_blocks(blocks) :
         x \in dom[y] <=> y \notin ReachableAvoiding(blocks, Entry, x)

Exposed(b, x) ==
  \/ \E k \in DOMAIN b.stmts :
       x \in StmtUses(b.stmts[k]) /\ \A j \in 1..(k - 1) : b.stmts[j].dest # x
  \/ x \in TermUses(b.term) /\ \A j \in DOMAIN b.stmts : b.stmts[j].dest # x

Defines(b, x) == b.term.dest = x \/ \E s \in Range(b.stmts) : s.dest = x

\* A local is live at the start of a block exactly when some path from there
\* uses it before anything defines it again.
LiveMeansUsedLater ==
  AtStart =>
    LET livein == compute(blocks)
    IN \A x \in DOMAIN locals, i \in DOMAIN blocks :
         x \in livein[i] <=>
           \E j \in Closure([b \in DOMAIN blocks |->
                               IF Defines(blocks[b], x) THEN {} ELSE Succs(blocks, b)], {i}) :
             Exposed(blocks[j], x)

\* No exit and no loop is left early: the constructs nest as they are written.
Structured == grammar.uses \cap {"jump", "return", "loop"} = {}

\* The first test of each while a && b: both its outcomes lead to the loop's branch.
FirstTests ==
  {t \in DOMAIN intent :
     /\ intent[t].kind = "selection" /\ intent[t].merge \in DOMAIN intent
     /\ intent[intent[t].merge].kind = "loop"}

\* In such a function the merge block of every branch, and the body of every loop, are
\* those of the if or the loop it was lowered from, but for while a && b: its first test
\* is taken for a loop over b that ends when a is false (the case that, the source says,
\* should not fire), and the branch of the loop itself for a selection.
MergesAsWritten ==
  AtStart /\ Structured =>
    LET taken == analyze(blocks)
    IN \A t \in IfHeaders(blocks) :
         taken[t] =
           IF t \in FirstTests THEN Loop(blocks[t].term.to[2], blocks[t].term.to[1])
           ELSE IF \E f \in FirstTests : intent[f].merge = t THEN Selection(intent[t].merge)
           ELSE intent[t]

\* What the linear check accepts never passes a linear value by value twice and
\* never uses a local after its value was moved, also when a helper takes the
\* value out of a reference to it.
LinearValuesSpentOnce ==
  /\ \A v \in DOMAIN spent : spent[v] <= 1
  /\ ~stale
=============================================================================
