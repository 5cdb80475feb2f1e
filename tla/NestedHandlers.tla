--------------------------- MODULE NestedHandlers ---------------------------
(* What `handle { body } with { E.op(x) => clause }` promises a program       *)
(* (docs/EFFECTS_GUIDE.md, SPECIFICATION.md section 6): handlers nest, a      *)
(* perform runs the clause of the nearest enclosing handler of its effect,    *)
(* everything in between is discarded, the clause's end is the end of the     *)
(* whole handle expression, and a perform no handler encloses aborts.         *)
(* A clause is still inside its own handler, which is removed at its end.     *)
(* Nothing here says how a handler is found: EffectHandlers implements it     *)
(* with a linked stack, setjmp and longjmp.                                   *)
EXTENDS Naturals, Sequences

CONSTANTS
  Handlers,      \* handle expressions
  Effects,       \* the effects of the program
  EffectOf,      \* [Handlers -> Effects]: the effect a handle expression handles
  OpsOf,         \* [Effects -> sets of operations]
  ClauseOps      \* [Handlers -> Seq(operations)]: the operation of each clause

VARIABLES
  scopes,        \* the handle expressions being evaluated, innermost last;
                 \* at = 0 in the body, at = i in clause i
  outcome,       \* "running", "exited" or "aborted"
  asked          \* <<effect, operation>> of the perform being answered, or <<>>

nvars == <<scopes, outcome, asked>>

Init == scopes = <<>> /\ outcome = "running" /\ asked = <<>>

\* The program's own code is executing.
Executing == outcome = "running" /\ asked = <<>>

\* A handle expression starts evaluating its body.
Install(h) ==
  /\ Executing
  /\ scopes' = Append(scopes, [h |-> h, at |-> 0])
  /\ UNCHANGED <<outcome, asked>>

\* The body, or the clause that answered a perform, comes to its end.
Complete ==
  /\ Executing
  /\ scopes # <<>>
  /\ scopes' = SubSeq(scopes, 1, Len(scopes) - 1)
  /\ UNCHANGED <<outcome, asked>>

\* perform e.op
Perform(e, op) ==
  /\ Executing
  /\ asked' = <<e, op>>
  /\ UNCHANGED <<scopes, outcome>>

\* i is the innermost scope whose handler handles effect e.
Nearest(i, e) ==
  /\ i \in 1..Len(scopes)
  /\ EffectOf[scopes[i].h] = e
  /\ \A j \in (i+1)..Len(scopes) : EffectOf[scopes[j].h] # e

\* Control continues in the nearest handler's clause for the performed operation.
Answer(e, op) ==
  /\ outcome = "running" /\ asked = <<e, op>>
  /\ \E i \in 1..Len(scopes) :
       /\ Nearest(i, e)
       /\ \E c \in 1..Len(ClauseOps[scopes[i].h]) :
            /\ ClauseOps[scopes[i].h][c] = op
            /\ scopes' = Append(SubSeq(scopes, 1, i - 1),
                                [h |-> scopes[i].h, at |-> c])
  /\ asked' = <<>>
  /\ UNCHANGED outcome

\* Nothing handles the performed operation's effect.
Abort(e, op) ==
  /\ outcome = "running" /\ asked = <<e, op>>
  /\ \A i \in 1..Len(scopes) : EffectOf[scopes[i].h] # e
  /\ outcome' = "aborted"
  /\ UNCHANGED <<scopes, asked>>

Exit ==
  /\ Executing
  /\ scopes = <<>>
  /\ outcome' = "exited"
  /\ UNCHANGED <<scopes, asked>>

Next ==
  \/ \E h \in Handlers : Install(h)
  \/ Complete
  \/ \E e \in Effects : \E op \in OpsOf[e] : Perform(e, op) \/ Answer(e, op) \/ Abort(e, op)
  \/ Exit

Spec == Init /\ [][Next]_nvars
=============================================================================
