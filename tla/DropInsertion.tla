---------------------------- MODULE DropInsertion ----------------------------
(* Where the C backend frees strings when BUILDLANG_EXPERIMENTAL_FREE asks it *)
(* to: backend/c.rs (owners, function-exit and block-scoped frees),           *)
(* analysis/drops.rs (multi-block frees) and analysis/flags.rs (drop flags).  *)
EXTENDS MirCfg

\* The closed lists of runtime functions, a representative of each kind.
allocates_owned_string(fn) == fn = "concat"
borrows_string_arg(fn) == fn \in {"concat", "printf"}

Calls(B) == {i \in DOMAIN B : B[i].term.op = "call"}

Moves(B) == {s \in Stmts(B) : s.op = "move"}

\* Those of O that a source is moved into.
Acquirers(B, O, x) == {s.dest : s \in {m \in Moves(B) : m.src = x /\ m.dest \in O}}

\* owner_def's keys: what an allocating call defines, closed under moves into
\* string locals. Strs is the set of locals of the type BuildString.
Owners(B, Strs) ==
  Closure([x \in Strs |-> Acquirers(B, Strs, x)],
    {B[i].term.dest : i \in {c \in Calls(B) : allocates_owned_string(B[c].term.fn)}} \cap Strs)

DefBlocks(B, x) ==
  {i \in DOMAIN B : B[i].term.dest = x \/ \E s \in Range(B[i].stmts) : s.dest = x}

\* How many statements, of those a test accepts, the blocks hold: the places of them.
CountStmts(B, Test(_)) ==
  Cardinality(UNION {{<<i, k>> : k \in {j \in DOMAIN B[i].stmts : Test(B[i].stmts[j])}}
                       : i \in DOMAIN B})

def_count(B, x) ==
  CountStmts(B, LAMBDA s : s.dest = x) + Cardinality({i \in Calls(B) : B[i].term.dest = x})

\* Every owner that may share its buffer with another, because it was acquired,
\* directly or not, from a source that is moved more than once.
Tainted(B, O) ==
  LET Twice(x) == CountStmts(B, LAMBDA s : s.op = "move" /\ s.src = x /\ s.dest \in O) > 1
  IN Closure([x \in O |-> Acquirers(B, O, x)],
             UNION {Acquirers(B, O, x) : x \in {y \in O : Twice(y)}})

terminator_lets_local_escape(t, x) ==
  /\ x \in TermUses(t)
  /\ t.op = "call" => ~borrows_string_arg(t.fn)

Terms(B) == {B[i].term : i \in DOMAIN B}

\* A borrowed pointer escapes unless calls that only borrow are its only uses.
ptr_temp_escapes(B, p) ==
  \/ \E s \in Stmts(B) : s.src = p
  \/ \E t \in Terms(B) : terminator_lets_local_escape(t, p)

owned_string_escapes(B, x) ==
  \/ \E s \in Stmts(B) : s.src = x /\ (s.op = "field" => ptr_temp_escapes(B, s.dest))
  \/ \E t \in Terms(B) : terminator_lets_local_escape(t, x)

\* The owners every placement rule starts from.
sound_owned_candidates(B, Strs) ==
  LET O == Owners(B, Strs)
      moved_from == {s.src : s \in {m \in Moves(B) : m.src \in O}}
  IN {x \in O \ (moved_from \cup Tainted(B, O)) :
        def_count(B, x) = 1 /\ ~owned_string_escapes(B, x)}

DefBlock(B, x) == CHOOSE i \in DefBlocks(B, x) : TRUE

-----------------------------------------------------------------------------
(* The four placements, each for the candidates the earlier ones left. F are  *)
(* the facts about B.                                                         *)

Returns(B) == {i \in reachable_blocks(B) : B[i].term.op = "return"}

\* Freed at every return: the definition dominates all of them.
freeable_owned_string_locals(B, F, C) ==
  {x \in C : \A r \in Returns(B) : DefBlock(B, x) \in F.dom[r]}

\* Bug: only what is borrowed off the local has to stay.
live_range_confined_to_blockBorrows(B, x, b) ==
  LET A == {x} \cup move_source_chain(B, x)
  IN \A i \in DOMAIN B \ {b} : \A s \in Range(B[i].stmts) : s.op = "field" => s.src \notin A

\* The local and what is borrowed off it or its move sources stay in block b.
live_range_confined_to_block(B, x, b) ==
  LET A == {x} \cup move_source_chain(B, x)
      FieldsIn(i) == {s \in Range(B[i].stmts) : s.op = "field" /\ s.src \in A}
      borrows == {s.dest : s \in UNION {FieldsIn(i) : i \in DOMAIN B}}
  IN \A i \in DOMAIN B \ {b} :
       /\ FieldsIn(i) = {}
       /\ ({x} \cup borrows)
            \cap (TermUses(B[i].term) \cup UNION {StmtUses(s) : s \in Range(B[i].stmts)}) = {}

\* Freed at the start of the one successor, reached from nowhere else, of the
\* block that defines and uses the local. Unreachable predecessors count.
block_scoped_freeable(B, C) ==
  [s \in DOMAIN B |->
     {x \in C : /\ live_range_confined_to_block(B, x, DefBlock(B, x))
                /\ Succs(B, DefBlock(B, x)) = {s}
                /\ s \notin {DefBlock(B, x), Entry}
                /\ {i \in DOMAIN B : s \in Succs(B, i)} = {DefBlock(B, x)}}]

\* A buffer's life in the blocks, as both later placements look at it.
Life(B, F, x) ==
  LET bin == buffer_live_in(B, F.live, x)
      bout == buffer_live_out(B, F.live, x)
  IN [live_in |-> bin, terminal |-> bin \ bout, clean |-> DOMAIN B \ (bin \cup bout)]

\* Bug: a block that a loop enters again may hold the free.
DeathSitesReentrant(B, F, life) ==
  {s \in DOMAIN B \ ({Entry} \cup life.live_in) : F.preds[s] \cap life.terminal # {}}

\* Blocks the dead buffer enters right after a block that used it last.
DeathSites(B, F, life) ==
  {s \in DOMAIN B \ ({Entry} \cup life.live_in) :
     /\ F.preds[s] \cap life.terminal # {}
     /\ \A p \in F.preds[s] : s \notin F.dom[p]}

\* The blocks the walk back from b enters: through clean predecessors only.
CleanChain(B, F, b, life) ==
  Closure([i \in DOMAIN B |-> F.preds[i] \cap life.clean], {b})

\* The walk back from the clean block b meets a use on every path, and never
\* the definition or a block that is neither terminal nor clean.
clean_chain_ok(B, F, b, life, def) ==
  \A i \in CleanChain(B, F, b, life) :
    /\ i # def
    /\ F.preds[i] # {}
    /\ F.preds[i] \subseteq life.terminal \cup life.clean
    /\ F.preds[i] \cap life.clean # {} => def \in F.dom[i]

\* Every path into s used the buffer, which was allocated by then.
Frontier(B, F, s, life, def) ==
  /\ def \in F.dom[s]
  /\ \A p \in F.preds[s] :
       p \in life.terminal \/ (p \in life.clean /\ clean_chain_ok(B, F, p, life, def))

\* Freed at the start of the one block where the buffer dies on all edges.
multi_block_freeable(B, F, C) ==
  LET sites == [x \in C |-> LET life == Life(B, F, x) IN
                  {s \in DeathSites(B, F, life) : Frontier(B, F, s, life, DefBlock(B, x))}]
  IN [s \in DOMAIN B |-> {x \in C : sites[x] = {s}}]

\* Guarded frees of everything left, wherever a buffer may have died.
split_frontier_flag_frees(B, F, C) ==
  LET sites == [x \in C |-> DeathSites(B, F, Life(B, F, x))]
  IN [s \in DOMAIN B |-> {x \in C : s \in sites[x]}]

\* Bug: the frees of the multi-block rule replace the block-scoped ones.
generate_functionAssigns(B, Strs) ==
  LET F == Facts(B)
      C == sound_owned_candidates(B, Strs)
      exit == freeable_owned_string_locals(B, F, C)
      scoped == block_scoped_freeable(B, C \ exit)
      multi == multi_block_freeable(B, F, (C \ exit) \ UNION Range(scoped))
      flagged == ((C \ exit) \ UNION Range(scoped)) \ UNION Range(multi)
  IN [freeable |-> exit,
      block_scoped_set |-> UNION Range(scoped),
      block_frees |-> multi,
      flag_owners |-> flagged,
      flag_block_frees |-> split_frontier_flag_frees(B, F, flagged)]

\* What generate_function decides before it prints the function.
generate_function(B, Strs) ==
  LET F == Facts(B)
      C == sound_owned_candidates(B, Strs)
      exit == freeable_owned_string_locals(B, F, C)
      scoped == block_scoped_freeable(B, C \ exit)
      multi == multi_block_freeable(B, F, (C \ exit) \ UNION Range(scoped))
      flagged == ((C \ exit) \ UNION Range(scoped)) \ UNION Range(multi)
  IN [freeable |-> exit,
      block_scoped_set |-> UNION Range(scoped),
      block_frees |-> [s \in DOMAIN B |-> scoped[s] \cup multi[s]],
      flag_owners |-> flagged,
      flag_block_frees |-> split_frontier_flag_frees(B, F, flagged)]
=============================================================================
