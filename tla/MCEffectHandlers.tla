-------------------------- MODULE MCEffectHandlers --------------------------
(* Instances of EffectHandlers for TLC: two handle expressions in main and    *)
(* one in a function it calls, for two effects.                               *)
EXTENDS EffectHandlers, TLC

CONSTANTS m1, m2, f1, main, fn, Log, Draw, log, draw, clear

MCHandlers == {m1, m2, f1}
MCFrames == {main, fn}
MCOwner == m1 :> main @@ m2 :> main @@ f1 :> fn
MCEffects == {Log, Draw}
MCEffectOf == m1 :> Log @@ m2 :> Draw @@ f1 :> Log

\* One operation for each effect.
MCOpsOf == Log :> {log} @@ Draw :> {draw}
MCClauseOps == m1 :> <<log>> @@ m2 :> <<draw>> @@ f1 :> <<log>>
MCNoEffects == {}

\* Draw declares two operations, as examples/graphics/triangle.bld's Render does.
MCTwoOpsOf == Log :> {log} @@ Draw :> {draw, clear}
MCTwoClauseOps == m1 :> <<log>> @@ m2 :> <<draw, clear>> @@ f1 :> <<log>>

\* Name hashes are far above the number of clauses (a one-letter name gives 97).
MCOpId == log :> 107332 @@ draw :> 3091780 @@ clear :> 94746189
=============================================================================
