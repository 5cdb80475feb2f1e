------------------------------ MODULE Unifier ------------------------------
(* The unifier of type inference (types/unify.rs, ty.rs): one substitution,   *)
(* extended by call after call of unify. A call that fails keeps the bindings *)
(* it has made, and inference goes on after it to find more errors.           *)
(*                                                                            *)
(* A type is a constructor with a label and arguments. "var" and the numeric  *)
(* literals "intlit" and "floatlit" (TyKind::Infer) have a variable as their  *)
(* label; "int" and "float" a width; "ref" and "ptr" their mutability;        *)
(* "array" its length; "adt" its definition; "fn" its effects, its arguments  *)
(* being the parameters and the result. Annotations, unit dimensions,         *)
(* lifetimes, ABIs, type parameters and projections are left out.             *)
EXTENDS Naturals, FiniteSets, SequencesExt

CONSTANTS
  Types,         \* the types inference may ask about
  Ground,        \* types without variables, to compare solutions by
  MaxCalls       \* bound: calls of unify

VARIABLES
  subst,         \* the bindings: a function of the bound variables
  accepted,      \* the pairs unify has succeeded on
  asked,         \* the last call: its pair, whether it succeeded, the bindings before it
  calls

vars == <<subst, accepted, asked, calls>>

Ty(con, label, args) == [con |-> con, label |-> label, args |-> args]

Variable(t) == t.con \in {"var", "intlit", "floatlit"}

-----------------------------------------------------------------------------
\* Ty::substitute: bindings are followed until none is left.
RECURSIVE substitute(_, _)
substitute(t, s) ==
  IF Variable(t)
  THEN IF t.label \in DOMAIN s THEN substitute(s[t.label], s) ELSE t
  ELSE [t EXCEPT !.args = [i \in DOMAIN t.args |-> substitute(t.args[i], s)]]

\* Bug: only the type itself is looked at, not what it is made of.
occurs_inTop(v, t, s) == Variable(t) /\ t.label = v

RECURSIVE occurs_in(_, _, _)
occurs_in(v, t, s) ==
  IF Variable(t)
  THEN t.label = v \/ (t.label \in DOMAIN s /\ occurs_in(v, s[t.label], s))
  ELSE \E i \in DOMAIN t.args : occurs_in(v, t.args[i], s)

Ok(s) == [ok |-> TRUE, subst |-> s]
Err(s) == [ok |-> FALSE, subst |-> s]

\* Unifier::bind of a variable that has no binding: unify_mode has applied the
\* substitution, so no other gets here.
bind(s, v, t) ==
  LET resolved == substitute(t, s)
  IN IF occurs_in(v, resolved, s) THEN Err(s)
     ELSE Ok([x \in DOMAIN s \cup {v} |-> IF x = v THEN resolved ELSE s[x]])

NonNumeric == {"str", "bool", "adt", "tuple", "array", "slice", "fn", "ptr"}

\* Bug: any literal is taken for any type, as before the rule was added.
literal_cannot_beNever(t, u) == FALSE

literal_cannot_be(t, u) ==
  \/ t.con \in {"intlit", "floatlit"} /\ u.con \in NonNumeric
  \/ t.con = "floatlit" /\ u.con = "int"

\* &T where a T is expected: only in value position, and not against a reference.
DerefsTo(t, u, invariant) ==
  t.con = "ref" /\ ~invariant /\ u.con \notin {"ref", "never"}

StrCoercion(t, u) ==
  t.con = "str" /\ u.con = "ref" /\ u.args[1].con = "str"

\* Types of the same constructor whose labels agree, and an array with a slice.
SameShape(t, u) ==
  /\ Len(t.args) = Len(u.args)
  /\ \/ t.con = u.con /\ (t.label = u.label \/ t.con = "fn")
     \/ {t.con, u.con} = {"array", "slice"}

\* Bug: the pointee is unified as a value is.
ArgsInvariantValue(t, invariant) == invariant

\* What is behind a reference or a pointer has a fixed width.
ArgsInvariant(t, invariant) == invariant \/ t.con \in {"ref", "ptr"}

RECURSIVE unify_mode(_, _, _, _), unify_impl(_, _, _, _)

\* Bug: the bindings made so far are not applied first.
unify_modeRaw(s, t1, t2, invariant) == unify_impl(s, t1, t2, invariant)

unify_mode(s, t1, t2, invariant) ==
  unify_impl(s, substitute(t1, s), substitute(t2, s), invariant)

\* The arms of the match in their order. The arguments are unified one after the
\* other, each under the bindings of those before it, up to the first that fails;
\* the effects of two functions are compared after their arguments.
unify_impl(s, t1, t2, invariant) ==
  IF t1 = t2 THEN Ok(s)
  ELSE IF t1.con = "var" THEN bind(s, t1.label, t2)
  ELSE IF t2.con = "var" THEN bind(s, t2.label, t1)
  ELSE IF literal_cannot_be(t1, t2) \/ literal_cannot_be(t2, t1) THEN Err(s)
  ELSE IF Variable(t1) THEN bind(s, t1.label, t2)
  ELSE IF Variable(t2) THEN bind(s, t2.label, t1)
  ELSE IF "never" \in {t1.con, t2.con} THEN Ok(s)
  ELSE IF t1.con = t2.con /\ t1.con \in {"int", "float"}
  THEN IF invariant THEN Err(s) ELSE Ok(s)
  ELSE IF StrCoercion(t1, t2) \/ StrCoercion(t2, t1) THEN Ok(s)
  ELSE IF DerefsTo(t1, t2, invariant) THEN unify_impl(s, t1.args[1], t2, invariant)
  ELSE IF DerefsTo(t2, t1, invariant) THEN unify_impl(s, t1, t2.args[1], invariant)
  ELSE IF ~SameShape(t1, t2) THEN Err(s)
  ELSE LET each == FoldLeft(
             LAMBDA r, i : IF r.ok THEN unify_mode(r.subst, t1.args[i], t2.args[i],
                                                   ArgsInvariant(t1, invariant))
                                   ELSE r,
             Ok(s), [i \in DOMAIN t1.args |-> i])
       IN IF each.ok /\ t1.con = "fn" /\ t1.label # t2.label THEN Err(each.subst) ELSE each

-----------------------------------------------------------------------------
NoCall == [pair |-> <<>>, ok |-> TRUE, before |-> <<>>]

Init ==
  /\ subst = <<>> /\ accepted = {} /\ asked = NoCall /\ calls = 0

\* Unifier::unify, called by inference on any two types.
unify(t1, t2) ==
  LET r == unify_mode(subst, t1, t2, FALSE)
  IN /\ calls < MaxCalls
     /\ calls' = calls + 1
     /\ subst' = r.subst
     /\ asked' = [pair |-> <<t1, t2>>, ok |-> r.ok, before |-> subst]
     /\ accepted' = IF r.ok THEN accepted \cup {<<t1, t2>>} ELSE accepted

Next == \E t1, t2 \in Types : unify(t1, t2)

Spec == Init /\ [][Next]_vars

-----------------------------------------------------------------------------
RECURSIVE VarsOf(_)
VarsOf(t) ==
  IF Variable(t) THEN {t.label} ELSE UNION {VarsOf(t.args[i]) : i \in DOMAIN t.args}

\* The variables reached from v through bindings, in n steps or less.
RECURSIVE Reach(_, _)
Reach(S, n) ==
  IF n = 0 THEN S
  ELSE Reach(S \cup UNION {VarsOf(subst[x]) : x \in S \cap DOMAIN subst}, n - 1)

\* No variable is reached from its own binding, however many calls have succeeded or
\* failed half-way: Ty::substitute, which every later call starts with, ends.
SubstitutionEnds ==
  \A v \in DOMAIN subst : v \notin Reach(VarsOf(subst[v]), Cardinality(DOMAIN subst))

\* When two types without variables may stand for one another: equal, up to the
\* coercions of a value (widths, auto-deref, str, never) and of arrays to slices.
RECURSIVE Compatible(_, _, _)
Compatible(t, u, invariant) ==
  \/ t = u
  \/ "never" \in {t.con, u.con}
  \/ ~invariant /\ t.con = u.con /\ t.con \in {"int", "float"}
  \/ StrCoercion(t, u) \/ StrCoercion(u, t)
  \/ DerefsTo(t, u, invariant) /\ Compatible(t.args[1], u, invariant)
  \/ DerefsTo(u, t, invariant) /\ Compatible(t, u.args[1], invariant)
  \/ /\ SameShape(t, u) /\ ~Variable(t) /\ t.con \notin {"int", "float"}
     /\ t.con = "fn" => t.label = u.label
     /\ \A i \in DOMAIN t.args :
          Compatible(t.args[i], u.args[i], invariant \/ t.con \in {"ref", "ptr"})

\* A pair once accepted stays compatible under all the bindings made since, those of
\* failed calls included: in particular, two integers behind references keep equal
\* widths ("an 8-byte store through a 4-byte place corrupts adjacent memory").
AcceptedHold ==
  \A p \in accepted : Compatible(substitute(p[1], subst), substitute(p[2], subst), FALSE)

\* What a numeric literal comes to, however its variable was bound, by failed calls
\* too, is a number, a literal, never or a reference: no string, tuple or function.
\* Behind the reference there may be one, as literal_cannot_be leaves references alone,
\* and a float literal may become an integer by way of an integer literal.
LiteralsStayNumbers ==
  \A t \in Types :
    t.con \in {"intlit", "floatlit"} =>
      substitute(t, subst).con \in {"intlit", "floatlit", "int", "float", "never", "ref"}

\* Plain types know no coercion: on them unification is first-order unification.
RECURSIVE Plain(_)
Plain(t) ==
  t.con \in {"var", "str", "tuple", "fn", "adt"} /\ \A i \in DOMAIN t.args : Plain(t.args[i])

PlainPair(p) == Plain(p[1]) /\ Plain(p[2])

\* The ways to give ground types to the variables that make every pair equal.
Solutions(pairs) ==
  LET V == UNION {VarsOf(p[1]) \cup VarsOf(p[2]) : p \in pairs}
  IN {g \in [V -> Ground] : \A p \in pairs : substitute(p[1], g) = substitute(p[2], g)}

Equations(s) == {<<Ty("var", v, <<>>), s[v]>> : v \in DOMAIN s}

\* On plain types a call leaves the most general solution of its pair together with the
\* bindings in force before it: they make the pair equal and every solution agrees with
\* them; and it fails only when there is no solution. The bindings in force include
\* those of calls that failed half-way: after one of these a call may refuse a pair
\* that could be solved along with all the pairs accepted.
MostGeneral ==
  /\ asked # NoCall /\ PlainPair(asked.pair)
  /\ \A v \in DOMAIN asked.before : Plain(asked.before[v])
  => LET both == Solutions(Equations(asked.before) \cup {asked.pair})
     IN IF asked.ok
        THEN /\ substitute(asked.pair[1], subst) = substitute(asked.pair[2], subst)
             /\ \A g \in both : \A v \in DOMAIN subst : g[v] = substitute(subst[v], g)
        ELSE both = {}
=============================================================================
