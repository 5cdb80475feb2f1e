--------------------------- MODULE EffectHandlers ---------------------------
(* Effect handlers as the C backend runs them: the handler stack of the C     *)
(* runtime (codegen/runtime.rs: build_push_handler, build_pop_handler,        *)
(* build_perform), driven by the code lower_handle, lower_perform,            *)
(* lower_return and lower_break (codegen/lower) emit for a compiled program.  *)
(* The program is any program: a step may enter or finish a handle            *)
(* expression, call, return, break or perform wherever the program's text and *)
(* the effect rows the type checker computes let it.                          *)
EXTENDS Naturals, Sequences, FiniteSets

CONSTANTS
  Handlers,      \* the BuildHandler locals, one per handle expression
  Frames,        \* functions; each has at most one activation at a time
  Main,          \* the program's main function
  Owner,         \* [Handlers -> Frames]: the function a BuildHandler is a local of
  Effects,
  EffectOf,      \* [Handlers -> Effects]: the effect_id given to build_push_handler
  OpsOf,         \* [Effects -> sets of operations]
  ClauseOps,     \* [Handlers -> Seq(operations)]: the operation each clause names
  OpId,          \* operation -> the hash of its name that lower_perform emits
  MainEffects,   \* SUBSET Effects: the user effects main's signature declares
  NULL,          \* the C null pointer
  \* what the explored programs may do
  EarlyExits,    \* leave a handle expression by return, ? or break
  OuterPerforms, \* perform an effect while a handler of another one is nearer
  Reenter        \* evaluate the same handle expression more than once

\* A region of code: the body (at = 0) or clause number at of a handle expression.
Region == {r \in [h : Handlers, at : Nat] : r.at <= Len(ClauseOps[r.h])}

\* What setjmp saves: where control is.
Context == [calls : Seq(Frames), active : Seq(Region)]

\* The type checker rejects a handle expression without a clause for each of its
\* effect's operations (infer_handle, MissingHandlerClause).
ASSUME ProgramAssumption ==
  /\ IsFiniteSet(Handlers)
  /\ Main \in Frames
  /\ Owner \in [Handlers -> Frames]
  /\ EffectOf \in [Handlers -> Effects]
  /\ MainEffects \subseteq Effects
  /\ DOMAIN OpsOf = Effects
  /\ \A h \in Handlers :
       /\ Len(ClauseOps[h]) \in Nat
       /\ {ClauseOps[h][c] : c \in 1..Len(ClauseOps[h])} = OpsOf[EffectOf[h]]
  /\ \A e \in Effects : \A op \in OpsOf[e] : OpId[op] \in Nat
  /\ NULL \notin Handlers /\ NULL \notin Frames /\ NULL \notin Context
  /\ {EarlyExits, OuterPerforms, Reenter} \subseteq BOOLEAN

VARIABLES
  text,          \* the program's text: the region each handle expression is in
  calls,         \* the functions being executed, innermost last
  active,        \* the regions being evaluated, innermost last
  top,           \* __build_handler_stack
  parent,        \* BuildHandler.parent
  env,           \* BuildHandler.env: what setjmp saved, NULL for a struct whose
                 \* function activation has ended
  data,          \* BuildHandler.handler_data: the activation that holds the argv
  pc,            \* "run", "walk" (inside build_perform), or how the program ended
  walk,          \* build_perform's cursor h and arguments
  entered        \* the handle expressions evaluated so far

vars == <<text, calls, active, top, parent, env, data, pc, walk, entered>>

-----------------------------------------------------------------------------
Nowhere == [h |-> NULL, at |-> 0]
NoWalk == [h |-> NULL, eff |-> NULL, op |-> NULL, from |-> NULL]

\* The texts of well-nested programs: a handle expression lies in no other, or in
\* the body or a clause of one of the same function.
Texts ==
  LET Sites(h) == {Nowhere} \cup UNION {[h : {g}, at : 0..Len(ClauseOps[g])] :
                                 g \in {g \in Handlers \ {h} : Owner[g] = Owner[h]}}
  IN {t \in [Handlers -> UNION {Sites(h) : h \in Handlers}] :
        /\ \A h \in Handlers : t[h] \in Sites(h)
        /\ \E depth \in [Handlers -> 1..Cardinality(Handlers)] :
             \A h \in Handlers : t[h] # Nowhere => depth[t[h].h] < depth[h]}

Running(f, c) == \E i \in 1..Len(c) : c[i] = f

\* A BuildHandler local lives as long as the activation of its function.
Alive(c) == [h \in Handlers |-> IF Running(Owner[h], c) THEN env[h] ELSE NULL]

\* The region of the executing function that control is in.
Here == IF active # <<>> /\ Owner[active[Len(active)].h] = calls[Len(calls)]
        THEN active[Len(active)] ELSE Nowhere

\* active without regions of the executing function from position n+1 on.
Leaving(n) ==
  /\ n \in 0..Len(active)
  /\ \A i \in (n+1)..Len(active) : Owner[active[i].h] = calls[Len(calls)]
  /\ active' = SubSeq(active, 1, n)

Init ==
  /\ text \in Texts
  /\ calls = <<Main>>
  /\ active = <<>>
  /\ top = NULL
  /\ parent = [h \in Handlers |-> NULL]
  /\ env = [h \in Handlers |-> NULL]
  /\ data = [h \in Handlers |-> NULL]
  /\ pc = "run"
  /\ walk = NoWalk
  /\ entered = {}

-----------------------------------------------------------------------------
(* Compiled code.                                                            *)

Call(f) ==
  /\ pc = "run"
  /\ ~Running(f, calls)
  /\ calls' = Append(calls, f)
  /\ UNCHANGED <<text, active, top, parent, env, data, pc, walk, entered>>

\* A function returns, at its end or early: only the ret is emitted, so the
\* handle expressions it is inside of leave their handlers on the stack.
Return ==
  /\ pc = "run"
  /\ \E n \in 0..Len(active) :
       /\ Leaving(n)
       /\ n > 0 => Owner[active[n].h] # calls[Len(calls)]
       /\ n < Len(active) => EarlyExits
  /\ calls' = SubSeq(calls, 1, Len(calls) - 1)
  /\ env' = Alive(calls')
  /\ pc' = IF calls' = <<>> THEN "exited" ELSE "run"
  /\ UNCHANGED <<text, top, parent, data, walk, entered>>

\* break or continue out of one or more handle expressions: a goto.
Break ==
  /\ pc = "run" /\ EarlyExits
  /\ \E n \in 0..Len(active) : n < Len(active) /\ Leaving(n)
  /\ UNCHANGED <<text, calls, top, parent, env, data, pc, walk, entered>>

\* Bug: the struct becomes the top of the stack before its parent is read.
PushHandlerLinkedLate(h) ==
  /\ top' = h
  /\ parent' = [parent EXCEPT ![h] = h]

\* build_push_handler(&h, effect)
PushHandler(h) ==
  /\ parent' = [parent EXCEPT ![h] = top]
  /\ top' = h

\* build_push_handler, then setjmp(h.env) = 0 and the body.
EnterHandle(h) ==
  /\ pc = "run"
  /\ Owner[h] = calls[Len(calls)]
  /\ text[h] = Here
  /\ Reenter \/ h \notin entered
  /\ data' = [data EXCEPT ![h] = NULL]
  /\ PushHandler(h)
  /\ env' = [env EXCEPT ![h] = [calls |-> calls, active |-> active]]
  /\ active' = Append(active, [h |-> h, at |-> 0])
  /\ entered' = entered \cup {h}
  /\ UNCHANGED <<text, calls, pc, walk>>

\* Bug: nothing is popped.
PopNothing == UNCHANGED <<top, pc>>

\* Bug: the merge block pops too.
PopTwice ==
  /\ top' = (IF top = NULL \/ parent[top] = NULL THEN NULL ELSE parent[parent[top]])
  /\ UNCHANGED pc

\* build_pop_handler(), which takes whatever handler is on top. Reading the parent
\* of a struct whose activation has ended is undefined behaviour.
PopHandler ==
  IF top # NULL /\ env[top] = NULL
  THEN pc' = "undefined" /\ UNCHANGED top
  ELSE top' = (IF top = NULL THEN NULL ELSE parent[top]) /\ UNCHANGED pc

\* The body or a clause ends: the pop, then the merge block.
LeaveHandle ==
  /\ pc = "run"
  /\ Here # Nowhere
  /\ active' = SubSeq(active, 1, Len(active) - 1)
  /\ PopHandler
  /\ UNCHANGED <<text, calls, parent, env, data, walk, entered>>

\* The effect rows let a perform of e happen here: an enclosing handle body
\* handles e, main declares it, or the perform is in a clause, whose effects
\* infer_handle leaves out of the row.
Checked(e) ==
  \/ e \in MainEffects
  \/ \E i \in 1..Len(active) : active[i].at # 0 \/ EffectOf[active[i].h] = e

NearestFirst(e) ==
  (\E i \in 1..Len(active) : EffectOf[active[i].h] = e)
    => EffectOf[active[Len(active)].h] = e

Perform(e, op) ==
  /\ pc = "run"
  /\ Checked(e)
  /\ OuterPerforms \/ NearestFirst(e)
  /\ pc' = "walk"
  /\ walk' = [h |-> top, eff |-> e, op |-> op, from |-> calls[Len(calls)]]
  /\ UNCHANGED <<text, calls, active, top, parent, env, data, entered>>

-----------------------------------------------------------------------------
(* build_perform: one step per iteration of its loop.                        *)

\* Where setjmp's return value OpId[op] + 1 sends control: with one clause, to
\* it; with more, to the clause of that number, or to the merge block (0).
Dispatch(h, op) ==
  LET n == Len(ClauseOps[h])
      result == OpId[op] + 1
  IN IF n = 1 THEN 1 ELSE IF result \in 1..n THEN result ELSE 0

\* Bug: every handler answers.
MatchesAny == TRUE

\* Bug: only the top of the stack is compared.
MatchesTop == walk.h = top /\ EffectOf[walk.h] = walk.eff

\* h->effect_id == effect_id
Matches == EffectOf[walk.h] = walk.eff

WalkOn ==
  /\ pc = "walk" /\ walk.h # NULL
  /\ env[walk.h] # NULL
  /\ ~Matches
  /\ walk' = [walk EXCEPT !.h = parent[walk.h]]
  /\ UNCHANGED <<text, calls, active, top, parent, env, data, pc, entered>>

\* h->handler_data = arg; longjmp(h->env, op_id + 1). The handler stack is left
\* as it is; the activations called since setjmp end.
Jump ==
  /\ pc = "walk" /\ walk.h # NULL
  /\ env[walk.h] # NULL
  /\ Matches
  /\ data' = [data EXCEPT ![walk.h] = walk.from]
  /\ calls' = env[walk.h].calls
  /\ LET at == Dispatch(walk.h, walk.op)
         saved == env[walk.h].active
     IN active' = IF at = 0 THEN saved ELSE Append(saved, [h |-> walk.h, at |-> at])
  /\ env' = Alive(calls')
  /\ pc' = "run"
  /\ walk' = NoWalk
  /\ UNCHANGED <<text, top, parent, entered>>

\* The loop reaches a struct whose activation has ended.
WalkDead ==
  /\ pc = "walk" /\ walk.h # NULL
  /\ env[walk.h] = NULL
  /\ pc' = "undefined"
  /\ UNCHANGED <<text, calls, active, top, parent, env, data, walk, entered>>

\* "Unhandled effect", abort().
WalkEnd ==
  /\ pc = "walk" /\ walk.h = NULL
  /\ pc' = "aborted"
  /\ UNCHANGED <<text, calls, active, top, parent, env, data, walk, entered>>

-----------------------------------------------------------------------------
Next ==
  \/ \E f \in Frames : Call(f)
  \/ Return
  \/ Break
  \/ \E h \in Handlers : EnterHandle(h)
  \/ LeaveHandle
  \/ \E e \in Effects : \E op \in OpsOf[e] : Perform(e, op)
  \/ WalkOn \/ Jump \/ WalkDead \/ WalkEnd

Spec == Init /\ [][Next]_vars

\* The process keeps executing build_perform's loop once it is in it.
FairSpec == Spec /\ WF_vars(WalkOn \/ Jump \/ WalkDead \/ WalkEnd)

-----------------------------------------------------------------------------
(* Properties.                                                               *)

\* Every variable keeps its shape. Behaviour: the types of the globals and
\* locals of the runtime's handler stack (runtime.rs, BuildHandler).
TypeOK ==
  /\ text \in Texts
  /\ calls \in Seq(Frames)
  /\ active \in Seq(Region)
  /\ top \in Handlers \cup {NULL}
  /\ parent \in [Handlers -> Handlers \cup {NULL}]
  /\ env \in [Handlers -> Context \cup {NULL}]
  /\ data \in [Handlers -> Frames \cup {NULL}]
  /\ pc \in {"run", "walk", "exited", "aborted", "undefined"}
  /\ walk \in [h : Handlers \cup {NULL}, eff : Effects, op : UNION {OpsOf[e] : e \in Effects},
               from : Frames] \cup {NoWalk}
  /\ entered \subseteq Handlers

\* The programs the runtime serves as documented: handle expressions end at
\* their end, an effect is performed under its own handler first, and each
\* effect has one operation.
Disciplined ==
  /\ ~EarlyExits
  /\ ~OuterPerforms
  /\ \A h \in Handlers : Len(ClauseOps[h]) = 1

HandlerAt(i) == IF i = 0 THEN NULL ELSE active[i].h

\* The linked handler stack is exactly the chain of handle expressions being
\* evaluated: for disciplined programs push, pop and the longjmp that leaves the
\* stack alone (build_perform) keep __build_handler_stack and the parent
\* pointers in step with control.
StackMirrorsActive ==
  pc \in {"run", "walk"} =>
    /\ top = HandlerAt(Len(active))
    /\ \A i \in 1..Len(active) : parent[active[i].h] = HandlerAt(i - 1)

\* build_perform and build_pop_handler never follow a pointer to a BuildHandler
\* whose function has returned or was jumped over.
NoDanglingHandler == pc # "undefined"

\* The stack read from the top: element number n, NULL past the bottom.
StackAt[n \in 0..Cardinality(Handlers)] ==
  IF n = 0 THEN top
  ELSE IF StackAt[n-1] = NULL THEN NULL ELSE parent[StackAt[n-1]]

\* Whatever early exits and performs past nearer handlers leave behind, no
\* handler a program is still inside of is ever popped or skipped: the regions
\* being evaluated lie on the stack in their order (no expression runs twice).
ActiveStaysOnStack ==
  pc \in {"run", "walk"} =>
    \E pos \in [1..Len(active) -> DOMAIN StackAt] :
      /\ \A i \in 1..Len(active) : StackAt[pos[i]] = active[i].h
      /\ \A i, j \in 1..Len(active) : i < j => pos[i] > pos[j]

\* "Unhandled effect" is reported only when nothing being evaluated handles the
\* effect: build_perform never walks past the end of a stack that should hold one.
HandledNeverAborts ==
  pc = "aborted" => \A i \in 1..Len(active) : EffectOf[active[i].h] # walk.eff

\* build_perform's loop ends, in a jump or in the abort.
PerformEnds == (pc = "walk") ~> (pc # "walk")

-----------------------------------------------------------------------------
(* Disciplined programs see the handlers of NestedHandlers.                  *)

Outcome == IF pc \in {"run", "walk"} THEN "running" ELSE pc
Asked == IF pc \in {"walk", "aborted"} THEN <<walk.eff, walk.op>> ELSE <<>>
Nested == INSTANCE NestedHandlers WITH scopes <- active, outcome <- Outcome, asked <- Asked

\* The linked stack, setjmp and longjmp give disciplined programs the nested
\* handlers the guide describes.
ImplementsNestedHandlers == Nested!Spec
=============================================================================
