------------------------- MODULE MCCallbackPrograms -------------------------
(* Instances of CallbackPrograms for TLC: several small languages, each of    *)
(* them explored to its end.                                                  *)
EXTENDS CallbackPrograms

CONSTANTS f, g, read_file, a, b, ops, defaults, spare, loader

MCFunctions == {f, g}
MCUnnamed == {read_file}
MCCallbacks == {a, b}
MCAggregates == {ops, defaults, spare}
MCMembers == {loader}

Declaration(v, value) == [op |-> "let", level |-> 0, target |-> <<v>>, value |-> <<value>>]
Name(n) == Place(<<n>>)
OpsOf(n) == Struct((loader :> Name(n)), <<>>)

Language(uses, names, opening, statements) ==
  [uses |-> uses, names |-> names, opening |-> opening, size |-> Len(opening) + statements]

OneCallback == <<Declaration(a, Name(f))>>
TwoCallbacks == Append(OneCallback, Declaration(b, Name(g)))
OneAggregate == <<Declaration(ops, OpsOf(f))>>
TwoAggregates == Append(OneAggregate, Declaration(defaults, OpsOf(g)))
ThreeAggregates == Append(TwoAggregates, Declaration(spare, OpsOf(g)))

MCLanguages ==
  {Language({"let", "assign", "block"}, {a, f, read_file}, OneCallback, 5),
   Language({"let", "assign", "block"}, {a, b, f, g}, TwoCallbacks, 3),
   Language({"assign", "if", "match"}, {a, b, f, g}, TwoCallbacks, 4),
   Language({"assign", "if", "while", "select"}, {a, b, f, g}, TwoCallbacks, 3),
   Language({"let", "assign", "block", "if", "while"}, {a, f, g}, OneCallback, 5),
   Language({"assign", "if", "while", "loop", "break", "continue"}, {a, f, g}, OneCallback, 6),
   Language({"assign", "if", "while", "break"}, {a, f, g}, OneCallback, 7),
   Language({"let", "assign", "block", "select"}, {ops, defaults, f, g}, TwoAggregates, 2),
   Language({"assign", "select"}, {ops, defaults, spare, f, g}, ThreeAggregates, 2),
   Language({"let", "assign"}, {ops, defaults, f}, OneAggregate, 3),
   Language({"let", "assign", "if", "while"}, {ops, f, g}, OneAggregate, 4),
   Language({"pattern", "match", "if let", "while let", "assign"}, {a, ops, defaults, f, g}, TwoAggregates, 3)}

\* Loops that are left by a break.
MCBreaks == {Language({"assign", "if", "while", "break"}, {a, f, g}, OneCallback, 7)}

=============================================================================
