----------------------------- MODULE MCUnifier -----------------------------
(* Instances of Unifier for TLC: two type variables, an integer and a float   *)
(* literal, and types made of them.                                           *)
EXTENDS Unifier, TLC

Var(v) == Ty("var", v, <<>>)
Ref(t) == Ty("ref", "shared", <<t>>)
Tuple(t, u) == Ty("tuple", "", <<t, u>>)
Fn(effects, t, u) == Ty("fn", effects, <<t, u>>)

Str == Ty("str", "", <<>>)
Never == Ty("never", "", <<>>)
I32 == Ty("int", "i32", <<>>)
I64 == Ty("int", "i64", <<>>)
IntLit == Ty("intlit", "i", <<>>)
FloatLit == Ty("floatlit", "f", <<>>)

\* Plain types, literals, and types that meet in every coercion.
MCTypes ==
  {Var("a"), Var("b"), IntLit, FloatLit, Never, I32, Ref(Var("a")), Ref(I64),
   Tuple(Var("b"), Var("a")), Tuple(Var("b"), Ref(Var("a"))),
   Ty("array", 2, <<Var("a")>>), Ty("slice", "", <<I32>>),
   Fn("io", Var("b"), Str), Fn("pure", Var("a"), Var("b"))}

MCGround ==
  {Str, Tuple(Str, Str), Fn("pure", Str, Str), Fn("io", Str, Str),
   Tuple(Tuple(Str, Str), Str), Tuple(Str, Tuple(Str, Str))}
=============================================================================
