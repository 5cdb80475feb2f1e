-------------------------- MODULE CallbackPrograms --------------------------
(* A function with callback variables, written and inferred (CallSources) and *)
(* then run down every path: at each statement, what a call through a         *)
(* variable would reach is compared with the sources recorded for it.         *)
(*                                                                            *)
(* The analysis goes through a loop's body once. A value therefore remembers  *)
(* of each loop that is open whether it was stored in this pass of the loop   *)
(* (now) or in an earlier one (before), and whether it came a way the         *)
(* analysis does not follow (lost).                                           *)
EXTENDS CallSources

VARIABLES
  pc,     \* the statement that runs next; 0 while the function is written
  env,    \* the values of the paths declared in each open construct
  loops   \* the open loops, by level

running == <<pc, env, loops>>
vars == <<writing, running>>

Statement == prog[pc]

\* The end of the construct that the statement at i opens or is an arm of.
EndOf(i) ==
  CHOOSE j \in i..Len(prog) :
    /\ prog[j].op = "close" /\ prog[j].level = prog[i].level
    /\ \A k \in i..j - 1 : ~(prog[k].op = "close" /\ prog[k].level = prog[i].level)
OpenerOf(i) == CHOOSE j \in 1..i : prog[j].op = "open" /\ EndOf(j) = EndOf(i)
ArmsOf(i) == {j \in i + 1..EndOf(i) : prog[j].op = "next" /\ prog[j].level = prog[i].level}

-----------------------------------------------------------------------------
(* Values                                                                     *)

In(scopes, path) == Innermost({k \in 1..Len(scopes) : path \in DOMAIN scopes[k]})
Defined(path) == \E k \in 1..Len(env) : path \in DOMAIN env[k]
ValueIn(scopes, path) ==
  IF Len(path) = 1 /\ Head(path) \in Functions \cup Unnamed
  THEN [fn |-> Head(path), now |-> {}, before |-> {}, lost |-> FALSE]
  ELSE scopes[In(scopes, path)][path]
ValueOf(path) == ValueIn(env, path)

\* A value stored: of one from an earlier pass the analysis knows nothing here.
Stored(scopes, path, lost) ==
  LET v == ValueIn(scopes, path)
  IN  [fn |-> v.fn, now |-> loops, before |-> {}, lost |-> lost \/ v.lost \/ v.before # {}]

Whole(target) == Head(target) \in Aggregates /\ Len(target) = 1

\* What target and its members get from one of the tails of a value. Of a struct that
\* was cleared before the value is looked at, its own members are lost.
Assigned(target, tail, cleared, lost) ==
  LET source(p) == IF Last(p) \in DOMAIN tail.fields THEN tail.fields[Last(p)].path
                   ELSE Member(tail.path, Last(p))
  IN  IF Whole(target)
      THEN [p \in {Member(target, m) : m \in Members} |->
              Stored(env, source(p), lost \/ (cleared /\ Head(source(p)) = Head(target)))]
      ELSE target :> Stored(env, tail.path, lost)

Matched(scopes, pattern) ==
  IF pattern = NoPattern THEN <<>>
  ELSE pattern[1] :> Stored(scopes, Member(pattern[2], pattern[3]), FALSE)

Each(F(_), scopes) == [k \in DOMAIN scopes |-> [p \in DOMAIN scopes[k] |-> F(scopes[k][p])]]

\* A loop starts over, or is over.
Older(v, loop) ==
  IF loop \in v.now THEN [v EXCEPT !.now = @ \ {loop}, !.before = @ \cup {loop}] ELSE v
Past(v, loop) == [v EXCEPT !.now = @ \ {loop}, !.before = @ \ {loop}]
Losing(v, lost) == [v EXCEPT !.lost = @ \/ lost]

Declare(values) == env' = [env EXCEPT ![Len(env)] = values @@ @]
Enter(outer, pattern) == env' = Append(outer, Matched(outer, pattern))
Outside(level) == SubSeq(env, 1, level)

-----------------------------------------------------------------------------
(* Steps. The opener of level k has k scopes around it.                       *)

Init ==
  /\ InitWriting
  /\ pc = 0
  /\ env = <<>>
  /\ loops = {}

WriteNext ==
  /\ pc = 0
  /\ WriteStatement
  /\ UNCHANGED running

Start ==
  /\ pc = 0 /\ Written
  /\ pc' = 1
  /\ env' = <<(<<>>)>>
  /\ UNCHANGED <<writing, loops>>

At(op) == pc \in 1..Len(prog) /\ Statement.op = op /\ UNCHANGED writing

RunLet ==
  /\ At("let")
  /\ LET target == Statement.target
         redeclared == \E p \in DOMAIN env[Len(env)] : Head(p) = Head(target)
     IN  \E k \in DOMAIN Statement.value :
           Declare(Assigned(target, Statement.value[k], redeclared, FALSE))
  /\ pc' = pc + 1
  /\ UNCHANGED loops

RunLetPattern ==
  /\ At("let pattern")
  /\ Declare(Matched(env, Statement.pattern))
  /\ pc' = pc + 1
  /\ UNCHANGED loops

\* Lost are a value whose assignment goes astray, and with it what is recorded for
\* another variable of the name; and of two structs an assignment selects from, all
\* but the last.
RunAssign ==
  /\ At("assign")
  /\ LET target == Statement.target
         value == Statement.value
         scopes == [k \in DOMAIN env |-> [p \in DOMAIN env[k] |->
                      Losing(env[k][p], Statement.astray /\ Head(p) = Head(target))]]
     IN  \E k \in DOMAIN value :
           LET lost == Statement.astray \/ (Whole(target) /\ k < Len(value))
               values == Assigned(target, value[k], TRUE, lost)
           IN  env' = [scopes EXCEPT ![In(env, CHOOSE p \in DOMAIN values : TRUE)] = values @@ @]
  /\ pc' = pc + 1
  /\ UNCHANGED loops

\* The first arm, or the loop's body.
RunOpen ==
  /\ At("open")
  /\ Enter(env, Statement.pattern)
  /\ pc' = pc + 1
  /\ loops' = IF Statement.kind \in Loops THEN loops \cup {Statement.level} ELSE loops

\* Another arm; or none, when an if has no else or a loop runs no pass.
RunSkip ==
  /\ At("open")
  /\ \/ /\ Statement.kind \in Branches
        /\ \E j \in ArmsOf(pc) :
             /\ Enter(env, prog[j].pattern)
             /\ pc' = j + 1
     \/ /\ \/ Statement.kind \in {"while", "while let"}
           \/ Statement.kind \in {"if", "if let"} /\ ArmsOf(pc) = {}
        /\ pc' = EndOf(pc) + 1
        /\ UNCHANGED env
  /\ UNCHANGED loops

\* The end of an arm or of a block, or the last pass of a while loop.
RunEnd ==
  /\ At("next") \/ (At("close") /\ Statement.kind # "loop")
  /\ env' = Each(LAMBDA v : Past(v, Statement.level), Outside(Statement.level))
  /\ pc' = EndOf(pc) + 1
  /\ loops' = loops \ {Statement.level}

\* The scopes around a loop whose next pass starts.
NextPass(scopes, loop) == Each(LAMBDA v : Older(v, loop), scopes)

RunAgain ==
  /\ At("close") /\ Statement.kind \in Loops
  /\ Enter(NextPass(Outside(Statement.level), Statement.level), prog[OpenerOf(pc)].pattern)
  /\ pc' = OpenerOf(pc) + 1
  /\ UNCHANGED loops

LoopLeft == CHOOSE j \in 1..pc : prog[j].op = "open" /\ prog[j].level = Statement.leaves /\ EndOf(j) > pc

\* At a break of `loop` there is a snapshot of the one pass. At one of another loop
\* there is none: what this pass has stored may be overwritten before its end.
RunBreak ==
  /\ At("break")
  /\ LET k == Statement.leaves
         unseen(v) == IF prog[LoopLeft].kind = "loop" THEN k \in v.before ELSE k \in v.now
     IN  /\ env' = Each(LAMBDA v : Past(Losing(v, unseen(v)), k), Outside(k))
         /\ loops' = loops \ {k}
  /\ pc' = EndOf(LoopLeft) + 1

\* On to the loop's test: the body again, or, of a while loop, the end. No snapshot.
RunContinue ==
  /\ At("continue")
  /\ LET k == Statement.leaves
         left == Each(LAMBDA v : Losing(v, k \in v.now), Outside(k))
     IN  \/ /\ Enter(NextPass(left, k), prog[LoopLeft].pattern)
            /\ pc' = LoopLeft + 1
            /\ UNCHANGED loops
         \/ /\ prog[LoopLeft].kind # "loop"
            /\ env' = Each(LAMBDA v : Past(v, k), left)
            /\ pc' = EndOf(LoopLeft) + 1
            /\ loops' = loops \ {k}

Next ==
  \/ WriteNext \/ Start
  \/ RunLet \/ RunLetPattern \/ RunAssign
  \/ RunOpen \/ RunSkip \/ RunEnd \/ RunAgain \/ RunBreak \/ RunContinue

Spec == Init /\ [][Next]_vars

-----------------------------------------------------------------------------
(* Properties                                                                 *)

Here == IF pc > Len(prog) THEN source_bindings ELSE seen[pc].bindings

\* The sources a call through path is recorded with at the statement to run.
Recorded(path) == ToSet(call_sources(Here, <<Place(path)>>))

Callees == {p \in UNION {Paths(v) : v \in Variables} : Defined(p)}

\* What docs/EFFECTS_GUIDE.md promises of a call that stands after a loop: whatever
\* path the program took, and by whatever exit it left the loop, the function that the
\* call reaches is recorded, as receipts merge the possible exits.
EveryOriginRecorded ==
  pc > 0 /\ loops = {} =>
    \A p \in Callees : ValueOf(p).fn \in Functions => <<ValueOf(p).fn>> \in Recorded(p)

\* What holds of it. In any pass of a loop and after any exit, the function a call
\* reaches is recorded unless the value came by way of one of these: it is read in a
\* later pass than it was stored in, or at a break of `loop`; it was stored in the pass
\* that a break of another loop or a continue cuts short; its assignment was booked in
\* the scope of another variable; it is of a struct that is read where it is assigned;
\* or of the first of two structs an assignment selects from.
OriginsRecorded ==
  pc > 0 =>
    \A p \in Callees :
      LET v == ValueOf(p)
      IN  v.fn \in Functions /\ ~v.lost /\ v.before = {} => <<v.fn>> \in Recorded(p)

Straight(statement) ==
  /\ statement.op = "open" => statement.kind = "block"
  /\ statement.op \in {"let", "assign"} => Len(statement.value) = 1

\* Without branches and loops the record of a variable names no function that is no
\* longer there: assignment and shadowing forget the old origins. It ends where a
\* variable without a record is about to show what is recorded for an outer one of its
\* name, and leaves out a record that an assignment gone astray has changed.
NothingStale ==
  /\ pc > 0
  /\ \A i \in DOMAIN prog : Straight(prog[i]) /\ (i <= pc => seen[i].own)
  => \A p \in Callees : ~ValueOf(p).lost =>
       {x \in Recorded(p) : Head(x) \in Functions} \subseteq {<<ValueOf(p).fn>>}
=============================================================================
