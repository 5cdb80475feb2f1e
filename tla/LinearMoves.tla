----------------------------- MODULE LinearMoves -----------------------------
(* analysis/linear.rs: the check of #[linear] values on MIR. Lin is the set   *)
(* of linear locals of B; bodies says what each helper does with the          *)
(* reference it is passed: "fresh" returns a new value, "deref" returns what  *)
(* the reference points to, "indirect" passes it to a function value, and the *)
(* name of a helper stands for passing it on to that helper.                  *)
EXTENDS MirCfg

\* Shared references to a linear local, and their copies.
shared_linear_ref_set(B, Lin) ==
  LET copies == [x \in {s.dest : s \in Stmts(B)} |->
                   {s.dest : s \in {m \in Stmts(B) : m.op = "move" /\ m.src = x}}]
  IN Closure(copies, {s.dest : s \in {m \in Stmts(B) : m.op = "ref" /\ m.src \in Lin}})

\* Bug: only a helper that returns the value itself lets it out.
escaping_params_fixpointDirect(bodies) == {h \in DOMAIN bodies : bodies[h] = "deref"}

\* The helpers through which what the reference points to gets out.
escaping_params_fixpoint(bodies) ==
  LET callers == [g \in DOMAIN bodies |-> {h \in DOMAIN bodies : bodies[h] = g}]
  IN Closure(callers, {h \in DOMAIN bodies : bodies[h] \in {"deref", "indirect"}})

-----------------------------------------------------------------------------
(* A state is the set of linear locals that may have been moved. The transfer *)
(* of a block also says whether it reports an error: [moved, error].          *)

\* A move or a read of a moved value is an error, as is a move out of a shared
\* reference; then a move is recorded, and the defined local is fresh.
apply_stmt(s, shared, Lin, st) ==
  [moved |-> (st.moved \cup (IF s.op = "move" THEN {s.src} \cap Lin ELSE {})) \ {s.dest},
   error |-> st.error \/ s.src \in st.moved \/ (s.op = "deref" /\ s.src \in shared)]

apply_terminator(t, shared, escaping, Lin, st) ==
  [moved |-> (st.moved \cup (TermUses(t) \cap Lin)) \ {t.dest},
   error |-> st.error \/ TermUses(t) \cap st.moved # {}
               \/ (t.op = "call" /\ t.fn \in escaping /\ TermUses(t) \cap shared # {})]

transfer_block(b, shared, escaping, Lin, moved) ==
  LET after[k \in 0..Len(b.stmts)] ==
        IF k = 0 THEN [moved |-> moved, error |-> FALSE]
        ELSE apply_stmt(b.stmts[k], shared, Lin, after[k - 1])
  IN apply_terminator(b.term, shared, escaping, Lin, after[Len(b.stmts)])

\* What may have been moved when block i starts, given what may have at the ends.
Incoming(preds, exit, i) == UNION {exit[p] : p \in preds[i]}

\* The least fixpoint of the moved sets at the ends of the blocks.
MovedFix(B, preds, shared, escaping, Lin) ==
  Fixpoint([exit \in [DOMAIN B -> SUBSET Lin] |->
              [i \in DOMAIN B |->
                 transfer_block(B[i], shared, escaping, Lin, Incoming(preds, exit, i)).moved]])[
    [i \in DOMAIN B |-> {}]]

\* The blocks check_module reports an error in; none: the program is accepted.
check_with_context(B, Lin, bodies) ==
  LET preds == Preds(B)
      shared == shared_linear_ref_set(B, Lin)
      escaping == escaping_params_fixpoint(bodies)
      exit == MovedFix(B, preds, shared, escaping, Lin)
  IN {i \in reachable_blocks(B) :
        transfer_block(B[i], shared, escaping, Lin, Incoming(preds, exit, i)).error}
=============================================================================
