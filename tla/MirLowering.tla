----------------------------- MODULE MirLowering -----------------------------
(* codegen/lower/expr.rs with codegen/builder.rs: the body of a function is   *)
(* lowered to MIR one source statement at a time. Each action is a statement  *)
(* the parser could hand over next; a block of statements that is still open  *)
(* is a frame. Conditions are opaque, names are the locals they stand for.    *)
EXTENDS MirCfg

CONSTANTS
  Grammars,       \* sets of [uses, size]: the statements of a program, how many
  Helpers,        \* functions that take a &Coin and return a Coin
  MaxDepth,       \* how deep statements may nest
  UsesAfterMove   \* whether a program may use a string it moved out of

\* A program has finitely many helpers, and no two functions have the same name.
ASSUME HelpersAssumption ==
  /\ IsFiniteSet(Helpers)
  /\ Helpers \cap {"concat", "mint", "printf", "spend"} = {}

VARIABLES
  grammar,  \* what the program being lowered may consist of
  left,     \* how many more statements it has
  blocks,   \* MirFunction.blocks
  current,  \* MirBuilder.current_block
  locals,   \* MirFunction.locals: the type, and the loops around the definition
  scope,    \* var_map: the named locals a statement can mention
  frames,   \* the open constructs, the innermost last
  moved,    \* strings some statement so far has moved out of
  intent    \* for each branch lowered from an if or a loop: what it is

lowering == <<grammar, left, blocks, current, locals, scope, frames, moved, intent>>

NoTerm == [op |-> "none", to |-> <<>>, fn |-> "", args |-> <<>>, dest |-> NoLocal]
EmptyBlock == [stmts |-> <<>>, term |-> NoTerm]
Goto(b) == [NoTerm EXCEPT !.op = "goto", !.to = <<b>>]
If(t, e) == [NoTerm EXCEPT !.op = "if", !.to = <<t, e>>]
Call(fn, args, dest, b) == [op |-> "call", to |-> <<b>>, fn |-> fn, args |-> args, dest |-> dest]
Return == [NoTerm EXCEPT !.op = "return"]
Stmt(op, dest, src) == [op |-> op, dest |-> dest, src |-> src]

InitLowering ==
  /\ grammar \in Grammars
  /\ left = grammar.size
  /\ blocks = <<EmptyBlock>>
  /\ current = Entry
  /\ locals = <<>>
  /\ scope = {}
  /\ frames = <<>>
  /\ moved = {}
  /\ intent = <<>>

\* create_block, push_stmt and set_terminator. A terminator replaces an earlier one.
create_block(B, n) == B \o [i \in 1..n |-> EmptyBlock]
push_stmt(B, i, s) == [B EXCEPT ![i].stmts = Append(@, s)]
set_terminator(B, i, t) == [B EXCEPT ![i].term = t]

\* A block is open: the program has room for one more statement in it.
Statement(kind) ==
  /\ kind \in grammar.uses
  /\ left > 0
  /\ left' = left - 1
  /\ UNCHANGED grammar

LoopFrames == {i \in DOMAIN frames : frames[i].kind \in {"loop", "for"}}
Loops == Cardinality(LoopFrames)

NewLocal(type) == <<[type |-> type, loops |-> Loops]>>

\* The named locals of a type that a statement may use by value or by reference.
Named(type) == {x \in scope : locals[x].type = type}
Usable(type) == {x \in Named(type) : UsesAfterMove \/ type # "string" \/ x \notin moved}

\* What a move makes unusable: a move in a loop happens again, so what was
\* declared outside of it is not moved there.
MayMove(x) == UsesAfterMove \/ locals[x].type # "string" \/ locals[x].loops = Loops

\* A call that leaves its result in a temporary, which a new name then takes.
LetCall(fn, args, type) ==
  LET cont == Len(blocks) + 1
      result == Len(locals) + 1
      name == Len(locals) + 2
  IN /\ blocks' = push_stmt(set_terminator(create_block(blocks, 1), current,
                                           Call(fn, args, result, cont)),
                            cont, Stmt("move", name, result))
     /\ current' = cont
     /\ locals' = locals \o NewLocal(type) \o NewLocal(type)
     /\ scope' = scope \cup {name}

\* let v = "..." + "..."; and let v = x + "...";
LetConcat ==
  /\ Statement("concat")
  /\ \/ LetCall("concat", <<>>, "string")
     \/ \E x \in Usable("string") : LetCall("concat", <<x>>, "string")
  /\ UNCHANGED <<frames, moved, intent>>

\* let c = mint();
LetMint ==
  /\ Statement("mint")
  /\ LetCall("mint", <<>>, "linear")
  /\ UNCHANGED <<frames, moved, intent>>

\* let c = h(p); for a reference p to a linear value.
LetHelper ==
  /\ Statement("helper")
  /\ \E h \in Helpers, p \in Named("ref") : LetCall(h, <<p>>, "linear")
  /\ UNCHANGED <<frames, moved, intent>>

\* x = x + "..."; and c = mint(); for a local that exists.
Assign ==
  /\ Statement("assign")
  /\ \E type \in {"string", "linear"}, x \in Named("string") \cup Named("linear") :
       /\ locals[x].type = type
       /\ x \in Usable(type)
       /\ LET cont == Len(blocks) + 1
              result == Len(locals) + 1
              call == IF type = "string"
                      THEN Call("concat", <<x>>, result, cont)
                      ELSE Call("mint", <<>>, result, cont)
          IN /\ blocks' = push_stmt(set_terminator(create_block(blocks, 1), current, call),
                                    cont, Stmt("move", x, result))
             /\ current' = cont
             /\ locals' = locals \o NewLocal(type)
  /\ UNCHANGED <<scope, frames, moved, intent>>

\* let q = p; moves a string or a linear value and copies a reference.
LetMove ==
  /\ Statement("move")
  /\ \E type \in {"string", "linear", "ref"} : \E x \in Usable(type) :
       /\ MayMove(x)
       /\ blocks' = push_stmt(blocks, current, Stmt("move", Len(locals) + 1, x))
       /\ locals' = locals \o NewLocal(type)
       /\ scope' = scope \cup {Len(locals) + 1}
       /\ moved' = moved \cup {x}
  /\ UNCHANGED <<current, frames, intent>>

\* let p = &c; and let d = *p; go through a temporary.
LetTemp(kind, op, from, type) ==
  /\ Statement(kind)
  /\ \E x \in Named(from) :
       LET temp == Len(locals) + 1
           name == Len(locals) + 2
       IN /\ blocks' = push_stmt(push_stmt(blocks, current, Stmt(op, temp, x)),
                                 current, Stmt("move", name, temp))
          /\ locals' = locals \o NewLocal(type) \o NewLocal(type)
          /\ scope' = scope \cup {name}
  /\ UNCHANGED <<current, frames, moved, intent>>

LetRef == LetTemp("ref", "ref", "linear", "ref")
LetDeref == LetTemp("deref", "deref", "ref", "linear")

\* println!("{}", x): the pointer of x goes to printf.
PrintLine ==
  /\ Statement("print")
  /\ \E x \in Usable("string") :
       LET cont == Len(blocks) + 1
           temp == Len(locals) + 1
       IN /\ blocks' = set_terminator(create_block(push_stmt(blocks, current,
                                                             Stmt("field", temp, x)), 1),
                                      current, Call("printf", <<temp>>, NoLocal, cont))
          /\ current' = cont
          /\ locals' = locals \o NewLocal("pointer")
  /\ UNCHANGED <<scope, frames, moved, intent>>

\* f(x); takes x by value. For a linear value it is the end of it.
Give ==
  /\ Statement("give")
  /\ \E x \in Usable("string") \cup Named("linear") :
       /\ MayMove(x)
       /\ blocks' = set_terminator(create_block(blocks, 1), current,
                                   Call("spend", <<x>>, NoLocal, Len(blocks) + 1))
       /\ current' = Len(blocks) + 1
       /\ moved' = moved \cup {x}
  /\ UNCHANGED <<locals, scope, frames, intent>>

-----------------------------------------------------------------------------
(* Control flow.                                                              *)

Plain(merge) == [kind |-> "selection", merge |-> merge, continue_target |-> 0]
Looping(merge, continue) == [kind |-> "loop", merge |-> merge, continue_target |-> continue]

\* A condition: [blocks, at, intent] after it was lowered from block i. An
\* opaque one needs no block, a && b evaluates b in a block of its own.
Conditions(kind, B, i, n) ==
  {[blocks |-> B, at |-> i, intent |-> n]} \cup
  (IF kind \notin grammar.uses THEN {} ELSE
   LET eval_right == Len(B) + 1
       short_circuit == Len(B) + 2
       merge == Len(B) + 3
       C == set_terminator(create_block(B, 3), i, If(eval_right, short_circuit))
       D == set_terminator(C, short_circuit, Goto(merge))
   IN {[blocks |-> set_terminator(D, eval_right, Goto(merge)), at |-> merge,
        intent |-> (i :> Plain(merge)) @@ n]})

Nest(frame) ==
  /\ Len(frames) < MaxDepth
  /\ frames' = Append(frames, frame)
  /\ UNCHANGED <<locals, scope, moved>>

OpenIf ==
  /\ Statement("if")
  /\ \E c \in Conditions("if_and", blocks, current, intent) :
       LET then == Len(c.blocks) + 1
           else == Len(c.blocks) + 2
           merge == Len(c.blocks) + 3
       IN /\ blocks' = set_terminator(create_block(c.blocks, 3), c.at, If(then, else))
          /\ current' = then
          /\ intent' = (c.at :> Plain(merge)) @@ c.intent
          /\ Nest([kind |-> "then", other |-> else, after |-> merge, head |-> 0, scope |-> scope])

\* The header of a while is where its condition starts; the branch is where it ends.
OpenWhile ==
  /\ Statement("while")
  /\ LET cond == Len(blocks) + 1
         body == Len(blocks) + 2
         exit == Len(blocks) + 3
     IN \E c \in Conditions("while_and",
                            set_terminator(create_block(blocks, 3), current, Goto(cond)),
                            cond, intent) :
          /\ blocks' = set_terminator(c.blocks, c.at, If(body, exit))
          /\ current' = body
          /\ intent' = (c.at :> Looping(exit, body)) @@ c.intent
          /\ Nest([kind |-> "loop", other |-> cond, after |-> exit, head |-> cond, scope |-> scope])

OpenLoop ==
  /\ Statement("loop")
  /\ LET loop == Len(blocks) + 1
         exit == Len(blocks) + 2
     IN /\ blocks' = set_terminator(create_block(blocks, 2), current, Goto(loop))
        /\ current' = loop
        /\ Nest([kind |-> "loop", other |-> loop, after |-> exit, head |-> loop, scope |-> scope])
  /\ UNCHANGED intent

OpenFor ==
  /\ Statement("for")
  /\ LET cond == Len(blocks) + 1
         body == Len(blocks) + 2
         incr == Len(blocks) + 3
         exit == Len(blocks) + 4
         B == set_terminator(create_block(blocks, 4), current, Goto(cond))
     IN /\ blocks' = set_terminator(B, cond, If(exit, body))
        /\ current' = body
        /\ intent' = (cond :> Looping(exit, body)) @@ intent
        /\ Nest([kind |-> "for", other |-> incr, after |-> exit, head |-> cond, scope |-> scope])

\* The innermost block of statements ends. A then may be followed by an else;
\* an if without one has an else block that goes straight on.
Close ==
  /\ frames # <<>>
  /\ LET f == Last(frames)
         B == set_terminator(blocks, current, Goto(IF f.kind \in {"then", "else"}
                                                   THEN f.after ELSE f.other))
     IN /\ scope' = f.scope
        /\ \/ /\ f.kind = "then" /\ left > 0
              /\ blocks' = B
              /\ current' = f.other
              /\ frames' = Append(Front(frames), [f EXCEPT !.kind = "else"])
           \/ /\ blocks' = CASE f.kind = "then" -> set_terminator(B, f.other, Goto(f.after))
                             [] f.kind = "for" -> set_terminator(B, f.other, Goto(f.head))
                             [] OTHER -> B
              /\ current' = f.after
              /\ frames' = Front(frames)
  /\ UNCHANGED <<grammar, left, locals, moved, intent>>

\* What follows a jump goes into a block that nothing reaches.
Jump(term) ==
  /\ blocks' = create_block(set_terminator(blocks, current, term), 1)
  /\ current' = Len(blocks) + 1
  /\ UNCHANGED <<locals, scope, frames, moved, intent>>

\* break and continue name the loop they mean, or mean the innermost one.
Break ==
  /\ Statement("jump")
  /\ \E i \in LoopFrames : Jump(Goto(frames[i].after))

Continue ==
  /\ Statement("jump")
  /\ \E i \in LoopFrames : Jump(Goto(frames[i].other))

ReturnEarly ==
  /\ Statement("return")
  /\ Jump(Return)

\* The body ends and returns.
Finished ==
  /\ frames = <<>>
  /\ blocks' = set_terminator(blocks, current, Return)
  /\ left' = 0 /\ current' = Entry /\ scope' = {} /\ moved' = {}
  /\ UNCHANGED <<grammar, locals, frames, intent>>

Lower ==
  \/ LetConcat \/ LetMint \/ LetHelper \/ Assign \/ LetMove \/ LetRef \/ LetDeref
  \/ PrintLine \/ Give
  \/ OpenIf \/ OpenWhile \/ OpenLoop \/ OpenFor \/ Close
  \/ Break \/ Continue \/ ReturnEarly
=============================================================================
