---------------------------- MODULE MCMirPrograms ----------------------------
(* Instances of MirPrograms for TLC: several small languages, each of them    *)
(* explored to its end.                                                       *)
EXTENDS MirPrograms

CONSTANTS g, h

Language(uses, size) == [uses |-> uses, size |-> size]

MCGrammars ==
  {Language({"concat", "move", "print", "while"}, 5),
   Language({"concat", "move", "print", "if"}, 4),
   Language({"concat", "print", "jump", "loop", "if"}, 4),
   Language({"concat", "move", "assign", "give", "return", "if", "for"}, 4),
   Language({"if", "if_and", "while", "while_and", "for"}, 3),
   Language({"if", "while"}, 4),
   Language({"mint", "move", "give", "assign", "while", "if"}, 4),
   Language({"mint", "ref", "helper", "give"}, 5),
   Language({"mint", "ref", "move", "deref", "give"}, 4)}

\* Programs that may use a string after they moved out of it.
MCCareless == {Language({"concat", "move", "print", "while"}, 5)}

MCHelpers == {g, h}
MCTables == [MCHelpers -> {"fresh", "deref", "indirect", g, h}]
=============================================================================
