----------------------------- MODULE CallSources -----------------------------
(* Where a call's effect comes from: the type checker's record of the         *)
(* functions a callback variable or a struct's callback member may hold       *)
(* (types/infer.rs, source_bindings). A check receipt lists, for a call       *)
(* through a variable, these functions next to the variable.                  *)
(*                                                                            *)
(* A function's body is written statement by statement, and each statement    *)
(* is inferred as it is written.                                              *)
EXTENDS SequencesExt, TLC

CONSTANTS
  Functions,   \* effectful functions of the program
  Unnamed,     \* callees that are no source: capability helpers, closures
  Callbacks,   \* variables of a function type
  Aggregates,  \* variables of one struct type
  Members,     \* its members, callbacks
  Languages    \* the small languages that programs are written in

ASSUME NamesDiffer ==
  /\ \A S, T \in {Functions, Unnamed, Callbacks, Aggregates} : S # T => S \cap T = {}

VARIABLES
  language,         \* [uses, names, size, opening]
  prog,             \* the statements written so far
  source_bindings,  \* innermost scope last; each maps access paths to sources
  declared,         \* the variables declared in each scope
  frames,           \* the open constructs
  seen              \* before each statement: the bindings, and whether they are each variable's own

writing == <<language, prog, source_bindings, declared, frames, seen>>

(* An access path, such as ops.loader, is a sequence of a name and a member.  *)
(* A source is a path too: a function is the path of its name.                *)
Variables == Callbacks \cup Aggregates
Member(base, member) == Append(base, member)
call_source_root(path) == <<Head(path)>>

(* A value is the tails it selects from: one, or two for `if c {x} else {y}`. *)
Place(path) == [is |-> "place", path |-> path, fields |-> <<>>]
Struct(fields, rest) == [is |-> "struct", path |-> rest, fields |-> fields]
IsPlace(tail) == tail.is = "place"

-----------------------------------------------------------------------------
(* Scopes of bindings                                                         *)

dedupe_call_sources(sources) ==
  FoldLeft(LAMBDA kept, x : IF Contains(kept, x) THEN kept ELSE Append(kept, x), <<>>, sources)

Holders(scopes, Test(_)) == {i \in 1..Len(scopes) : \E path \in DOMAIN scopes[i] : Test(path)}
Innermost(S) == CHOOSE i \in S : \A j \in S : j <= i

lookup_call_source_binding(scopes, path) ==
  LET holders == Holders(scopes, LAMBDA p : p = path)
  IN  IF holders = {} THEN <<>> ELSE scopes[Innermost(holders)][path]

\* A binding of the root hides what outer scopes say of its members.
bound_call_sources_for_access(scopes, path) ==
  LET holders == Holders(scopes, LAMBDA p : p \in {path, call_source_root(path)})
  IN  IF holders = {} \/ path \notin DOMAIN scopes[Innermost(holders)] THEN <<>>
      ELSE scopes[Innermost(holders)][path]

has_bound_call_source_descendants(scopes, path) ==
  LET holders == Holders(scopes, LAMBDA p : IsPrefix(path, p) \/ p = call_source_root(path))
  IN  /\ holders # {}
      /\ \E p \in DOMAIN scopes[Innermost(holders)] : IsStrictPrefix(path, p)

\* What is bound at and below path, the innermost binding of each.
bound_call_source_tree_for_access(scopes, path) ==
  LET barriers == Holders(scopes, LAMBDA p : p \in {path, call_source_root(path)})
      open == {i \in 1..Len(scopes) : \A b \in barriers : b <= i}
      tree == {p \in UNION {DOMAIN scopes[i] : i \in open} : IsPrefix(path, p)}
  IN  [p \in tree |-> scopes[Innermost({i \in open : p \in DOMAIN scopes[i]})][p]]

bind_call_sources_in_scope(scopes, i, path, sources) ==
  LET kept == SelectSeq(dedupe_call_sources(sources),
                        LAMBDA x : x # path /\ (Len(x) = 1 => Head(x) \notin Unnamed))
      others == [p \in DOMAIN scopes[i] \ {path} |-> scopes[i][p]]
  IN  [scopes EXCEPT ![i] = IF kept = <<>> THEN others ELSE (path :> kept) @@ others]

bind_member_call_sources_in_scope(scopes, i, path, sources, merge) ==
  bind_call_sources_in_scope(scopes, i, path,
    IF merge /\ path \in DOMAIN scopes[i] THEN scopes[i][path] \o sources ELSE sources)

clear_call_source_tree_in_scope(scopes, i, path) ==
  [scopes EXCEPT ![i] = [p \in {q \in DOMAIN @ : ~IsPrefix(path, q)} |-> @[p]]]

bind_bound_call_source_tree_in_scope(scopes, i, path, target, merge) ==
  LET copied == bound_call_source_tree_for_access(scopes, path)
      suffix(p) == SubSeq(p, Len(path) + 1, Len(p))
  IN  FoldSet(LAMBDA p, s : bind_member_call_sources_in_scope(s, i, target \o suffix(p), copied[p], merge),
              scopes, DOMAIN copied)

\* Bug: an assignment is booked in the block it stands in.
source_binding_scope_index_for_mutationHere(scopes, path) == Len(scopes)

\* The scope an assignment to path is booked in; the current one if none holds it.
source_binding_scope_index_for_mutation(scopes, path) ==
  LET holders == Holders(scopes, LAMBDA p : IsPrefix(path, p) \/ p = call_source_root(path))
  IN  IF holders = {} THEN Len(scopes) ELSE Innermost(holders)

merge_source_binding_snapshots(snapshots) ==
  LET bound(i) == UNION {DOMAIN s[i] : s \in ToSet(snapshots)}
      of(s, i, p) == IF p \in DOMAIN s[i] THEN s[i][p] ELSE <<>>
  IN  [i \in 1..Len(Head(snapshots)) |->
        [p \in bound(i) |->
          dedupe_call_sources(FoldLeft(LAMBDA all, s : all \o of(s, i, p), <<>>, snapshots))]]

-----------------------------------------------------------------------------
(* Sources of values, and what let and assignment bind                        *)

call_sources_for_name(scopes, path) == <<path>> \o lookup_call_source_binding(scopes, path)

\* Each source of the base that could have the member, and what is bound there.
MemberSources(scopes, path) ==
  LET bases == call_sources_for_name(scopes, call_source_root(path))
      accesses == [k \in 1..Len(bases) |-> Member(bases[k], Last(path))]
  IN  FoldLeft(LAMBDA all, a : all \o bound_call_sources_for_access(scopes, a), accesses, accesses)

TailSources(scopes, tail) ==
  CASE ~IsPlace(tail) -> <<>>
    [] IsPlace(tail) /\ Len(tail.path) = 1 -> call_sources_for_name(scopes, tail.path)
    [] OTHER -> MemberSources(scopes, tail.path)

call_sources(scopes, value) ==
  dedupe_call_sources(FoldLeft(LAMBDA all, t : all \o TailSources(scopes, t), <<>>, value))

\* Of a member of any of the values' sources.
inherited_member_sources(scopes, sources, member) ==
  FoldLeft(LAMBDA all, s : all \o bound_call_sources_for_access(scopes, Member(s, member)), <<>>, sources)

\* target.member takes over what the sources have there, one after the other.
CopyMember(scopes, i, target, sources, member, merge) ==
  FoldLeft(LAMBDA s, source : bind_bound_call_source_tree_in_scope(
                                s, i, Member(source, member), Member(target, member), merge),
           bind_member_call_sources_in_scope(scopes, i, Member(target, member),
             inherited_member_sources(scopes, sources, member), merge),
           sources)

\* The members of a struct expression, those of `..rest` first.
BindStruct(scopes, i, target, tail, merge) ==
  LET rest_sources == IF tail.path = <<>> THEN <<>> ELSE call_sources(scopes, <<Place(tail.path)>>)
      inherited == FoldSet(LAMBDA m, s : CopyMember(s, i, target, rest_sources, m, merge), scopes,
                           IF tail.path = <<>> THEN {} ELSE Members \ DOMAIN tail.fields)
  IN  FoldSet(LAMBDA m, s : bind_member_call_sources_in_scope(
                              s, i, Member(target, m), TailSources(s, tail.fields[m]), merge),
              inherited, DOMAIN tail.fields)

bind_aggregate_call_sources(scopes, i, target, value) ==
  FoldLeft(LAMBDA s, t : IF IsPlace(t) THEN s ELSE BindStruct(s, i, target, t, Len(value) > 1),
           scopes, value)

\* let target = value
bind_pattern_call_sources(scopes, target, value) ==
  LET here == Len(scopes)
      sources == call_sources(scopes, value)
      cleared == clear_call_source_tree_in_scope(scopes, here, target)
      bound == IF \E s \in ToSet(sources) : has_bound_call_source_descendants(cleared, s)
               THEN FoldLeft(LAMBDA b, s : bind_bound_call_source_tree_in_scope(b, here, s, target, TRUE),
                             bind_call_sources_in_scope(cleared, here, target, <<>>), sources)
               ELSE bind_call_sources_in_scope(cleared, here, target, sources)
  IN  bind_aggregate_call_sources(bound, here, target, value)

\* A pattern Ops { member: target } takes the base's member apart.
bind_pattern_to_member(scopes, target, base, member) ==
  LET here == Len(scopes)
      sources == call_sources(scopes, <<Place(base)>>)
      cleared == clear_call_source_tree_in_scope(scopes, here, target)
      bound == bind_call_sources_in_scope(cleared, here, target,
                 inherited_member_sources(scopes, sources, member))
  IN  FoldLeft(LAMBDA b, s : bind_bound_call_source_tree_in_scope(b, here, Member(s, member), target, FALSE),
               bound, call_sources(bound, <<Place(base)>>))

\* target = value
bind_assigned_call_sources(scopes, target, value) ==
  LET i == source_binding_scope_index_for_mutation(scopes, target)
      cleared == clear_call_source_tree_in_scope(scopes, i, target)
      sources == call_sources(cleared, value)
      members == IF Head(target) \in Aggregates /\ Len(target) = 1 THEN Members ELSE {}
      copied == FoldSet(LAMBDA m, s : CopyMember(s, i, target, sources, m, FALSE), cleared, members)
      copies == \E m \in members, s \in ToSet(sources) :
                  DOMAIN bound_call_source_tree_for_access(cleared, Member(s, m)) # {}
      bound == bind_aggregate_call_sources(copied, i, target, value)
  IN  IF copies \/ \E k \in DOMAIN value : ~IsPlace(value[k]) THEN bound
      ELSE bind_call_sources_in_scope(bound, i, target, call_sources(scopes, value))

-----------------------------------------------------------------------------
(* Statements                                                                 *)

NoPattern == <<>>
Pattern(target, base, member) == <<target, base, member>>

Loops == {"while", "while let", "loop"}
Branches == {"if", "if let", "match"}
WithPattern == {"if let", "match", "while let"}

Depth == Len(frames)
Frame == frames[Depth]
LoopsAround == {k \in 1..Depth : frames[k].kind \in Loops}
BreakFrames == {k \in 1..Depth : frames[k].kind = "loop"}

\* A block is a scope; a loop and an arm with a pattern are one more around it.
EnterBody(scopes, kind, pattern) ==
  LET outer == Append(scopes, <<>>)
      bound == IF pattern = NoPattern THEN outer
               ELSE bind_pattern_to_member(outer, pattern[1], pattern[2], pattern[3])
  IN  IF kind \in {"block", "if"} THEN outer ELSE Append(bound, <<>>)

Leave(scopes, frame) == SubSeq(scopes, 1, Len(frame.pre))

\* A while loop's body may not run at all.
LoopExits(frame, body_exit) == <<frame.pre, body_exit>>

\* Bug: an if without else always takes its branch.
BranchExitsTaken(frame, arm_exit) == Append(frame.exits, arm_exit)

BranchExits(frame, arm_exit) ==
  LET arms == Append(frame.exits, arm_exit)
  IN  CASE frame.kind = "match" -> IF frame.guarded THEN Append(arms, frame.pre) ELSE arms
        [] OTHER -> IF Len(arms) = 1 THEN <<frame.pre>> \o arms ELSE arms

\* Where a construct may be left, in the order the snapshots are merged.
Exits(frame, last) ==
  CASE frame.kind = "block" -> <<last>>
    [] frame.kind \in Branches -> BranchExits(frame, last)
    [] frame.kind = "loop" -> IF frame.breaks = <<>> THEN <<last>> ELSE frame.breaks
    [] OTHER -> LoopExits(frame, last)

-----------------------------------------------------------------------------
(* Programs: what may be written next                                         *)

Visible(S) == UNION {declared[k] : k \in 1..Len(declared)} \cap S
DeclaredIn(v) == Innermost({k \in 1..Len(declared) : v \in declared[k]})
BoundIn(k, v) == \E p \in DOMAIN source_bindings[k] : Head(p) = v
HasBinding(v) == BoundIn(DeclaredIn(v), v)

\* An assignment to v is booked in another scope than the one v is declared in.
GoesAstray(v) ==
  /\ ~HasBinding(v)
  /\ DeclaredIn(v) < Len(declared) \/ \E k \in 1..DeclaredIn(v) - 1 : BoundIn(k, v)

\* No variable without a binding hides one of the same name that has one.
NoneShowsThrough ==
  \A v \in Visible(Variables) :
    HasBinding(v) \/ \A k \in 1..DeclaredIn(v) - 1 : v \notin declared[k]

Jumped == prog # <<>> /\ Last(prog).op \in {"break", "continue"}

Paths(v) == IF v \in Aggregates THEN {Member(<<v>>, m) : m \in Members} ELSE {<<v>>}
CalleePaths == UNION {Paths(v) : v \in Visible(Variables)}
CallbackPlaces == {Place(<<n>>) : n \in language.names \ Variables} \cup {Place(p) : p \in CalleePaths}
AggregatePlaces == {Place(<<v>>) : v \in Visible(Aggregates)}

Plain(tails) == {<<t>> : t \in tails}
Selected(tails) == IF "select" \in language.uses THEN {<<t, u>> : t, u \in tails} \ {<<t, t>> : t \in tails} ELSE {}

CallbackValues == Plain(CallbackPlaces) \cup Selected(CallbackPlaces)
AggregateValues ==
  LET all == {Struct(f, <<>>) : f \in [Members -> CallbackPlaces]}
      updates == {Struct((m :> c), a.path) : m \in Members, c \in CallbackPlaces, a \in AggregatePlaces}
  IN  Plain(all \cup updates \cup AggregatePlaces) \cup Selected(AggregatePlaces)

ValuesFor(v) == IF v \in Aggregates THEN AggregateValues ELSE CallbackValues

Patterns(kind) ==
  {NoPattern} \cup
  (IF kind \in WithPattern /\ "pattern" \in language.uses
   THEN {Pattern(<<b>>, <<o>>, m) : b \in language.names \cap Callbacks, o \in Visible(Aggregates), m \in Members}
   ELSE {})

Uses(word) == word \in language.uses /\ ~Jumped /\ Len(prog) + Depth < language.size
Opening == Len(prog) < Len(language.opening)

\* One more statement. The size leaves room to close what is open.
Write(op, attributes) ==
  LET statement == [op |-> op, level |-> IF op = "open" THEN Depth + 1 ELSE Depth] @@ attributes
      next == Len(prog) + 1
  IN  /\ next + Len(frames') <= language.size
      /\ Opening => statement = language.opening[next]
      /\ prog' = Append(prog, statement)
      /\ seen' = Append(seen, [bindings |-> source_bindings, own |-> NoneShowsThrough])
      /\ UNCHANGED language

InitWriting ==
  /\ language \in Languages
  /\ prog = <<>>
  /\ source_bindings = <<(<<>>)>>
  /\ declared = <<{}>>
  /\ frames = <<>>
  /\ seen = <<>>

\* infer_local
Let(v, value) ==
  /\ Opening \/ Uses("let")
  /\ source_bindings' = bind_pattern_call_sources(source_bindings, <<v>>, value)
  /\ declared' = [declared EXCEPT ![Len(declared)] = @ \cup {v}]
  /\ UNCHANGED frames
  /\ Write("let", [target |-> <<v>>, value |-> value])

LetPattern(pattern) ==
  /\ Uses("pattern")
  /\ source_bindings' = bind_pattern_to_member(source_bindings, pattern[1], pattern[2], pattern[3])
  /\ declared' = [declared EXCEPT ![Len(declared)] = @ \cup {Head(pattern[1])}]
  /\ UNCHANGED frames
  /\ Write("let pattern", [pattern |-> pattern])

\* infer_assign
Assign(path, value) ==
  /\ Uses("assign")
  /\ source_bindings' = bind_assigned_call_sources(source_bindings, path, value)
  /\ UNCHANGED <<declared, frames>>
  /\ Write("assign", [target |-> path, value |-> value, astray |-> GoesAstray(Head(path))])

Open(kind, pattern, guarded) ==
  /\ Uses(kind)
  /\ frames' = Append(frames, [kind |-> kind, pre |-> source_bindings, exits |-> <<>>,
                               breaks |-> <<>>, guarded |-> guarded])
  /\ source_bindings' = EnterBody(source_bindings, kind, pattern)
  /\ declared' = LET new == IF pattern = NoPattern THEN {} ELSE {Head(pattern[1])}
                 IN  declared \o IF kind \in {"block", "if"} THEN <<{}>> ELSE <<new, {}>>
  /\ Write("open", [kind |-> kind, pattern |-> pattern])

\* The else branch of an if, or the next arm of a match: from the state before.
NextArm(pattern) ==
  /\ Depth > 0 /\ Frame.kind \in Branches
  /\ Frame.kind # "match" => Frame.exits = <<>> /\ pattern = NoPattern
  /\ LET kind == IF Frame.kind = "match" THEN "match" ELSE "block"
         new == IF pattern = NoPattern THEN {} ELSE {Head(pattern[1])}
     IN  /\ frames' = [frames EXCEPT ![Depth].exits = Append(@, Leave(source_bindings, Frame))]
         /\ source_bindings' = EnterBody(Frame.pre, kind, pattern)
         /\ declared' = Leave(declared, Frame) \o IF kind = "block" THEN <<{}>> ELSE <<new, {}>>
  /\ Write("next", [pattern |-> pattern])

\* A break keeps a snapshot for the innermost `loop`, whatever loop it leaves.
Break ==
  /\ Uses("break") /\ LoopsAround # {}
  /\ frames' = IF BreakFrames = {} THEN frames
               ELSE LET k == Innermost(BreakFrames)
                    IN  [frames EXCEPT ![k].breaks = Append(@, Leave(source_bindings, frames[k]))]
  /\ UNCHANGED <<source_bindings, declared>>
  /\ Write("break", [leaves |-> Innermost(LoopsAround)])

Continue ==
  /\ Uses("continue") /\ LoopsAround # {}
  /\ UNCHANGED <<source_bindings, declared, frames>>
  /\ Write("continue", [leaves |-> Innermost(LoopsAround)])

Close ==
  /\ Depth > 0
  /\ source_bindings' = merge_source_binding_snapshots(Exits(Frame, Leave(source_bindings, Frame)))
  /\ declared' = Leave(declared, Frame)
  /\ frames' = SubSeq(frames, 1, Depth - 1)
  /\ Write("close", [kind |-> Frame.kind])

WriteOne ==
  \/ \E v \in language.names \cap Variables : \E value \in ValuesFor(v) : Let(v, value)
  \/ \E pattern \in Patterns("match") \ {NoPattern} : LetPattern(pattern)
  \/ \E v \in Visible(Variables) : \E path \in {<<v>>} \cup Paths(v) :
       \E value \in IF path = <<v>> THEN ValuesFor(v) ELSE CallbackValues : Assign(path, value)
  \/ \E kind \in {"block"} \cup Branches \cup Loops :
       \E pattern \in Patterns(kind), guarded \in IF kind = "match" THEN BOOLEAN ELSE {FALSE} :
         Open(kind, pattern, guarded)
  \/ \E pattern \in Patterns("match") : NextArm(pattern)
  \/ Break
  \/ Continue
  \/ Close

WriteStatement == Len(prog) < language.size /\ WriteOne

Written == frames = <<>> /\ Len(prog) = language.size
=============================================================================
