----------------------------- MODULE MCVarStore -----------------------------
(***************************************************************************)
(* Values for VarStore's constants: three words, one of them no path, with *)
(* up to two dollar signs.  The table has room for two variables of the    *)
(* four that a set is typed for, and MAX_ARGS_SIZE admits values of two    *)
(* tokens.                                                                 *)
(***************************************************************************)
EXTENDS VarStore

CONSTANTS x, y, odd

token(dollars, word) == [dollars |-> dollars, word |-> word]

MCWord == {x, y, odd}
MCPathWord == {x, y}
MCToken == [dollars : 0 .. 2, word : MCWord]

(* set x and set $x differ; a value that looks like a variable is not one. *)
Assignments ==
  { <<var, val>> : var \in {token(0, x), token(0, y), token(1, x), token(0, odd)},
                   val \in {token(0, x), token(1, x), token(0, odd)} }
    \cup { <<token(0, y), token(0, x), token(1, y)>>, <<token(0, x), token(0, y), token(0, y)>> }

MCArguments ==
  Assignments \cup { <<t>> : t \in MCToken } \cup { <<>>, [i \in 1 .. 4 |-> token(0, x)] }

MCValue ==
  { <<>> } \cup { <<t>> : t \in MCToken } \cup { Tail(args) : args \in Assignments }
=============================================================================
