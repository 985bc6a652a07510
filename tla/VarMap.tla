------------------------------- MODULE VarMap -------------------------------
(***************************************************************************)
(* What the shell's variables promise the commands: a map with room for    *)
(* Capacity of them.  A variable keeps its value until it is assigned      *)
(* again, whatever is assigned to others; when there is no room a new one  *)
(* is not kept, and nothing else is lost.                                  *)
(***************************************************************************)
EXTENDS FiniteSets, Naturals

CONSTANTS
  Var, Value, Capacity,
  Path,          \* the values that can be a path
  NONE, UNFIT    \* the answers for a variable without a value, for no path

VARIABLES
  map,    \* the value of each variable, or NONE
  last    \* the last command: the variable, and the value given or answered

vars == <<map, last>>

Assigned == {v \in Var : map[v] # NONE}

Command(op, var, value) == [op |-> op, var |-> var, value |-> value]
Other == Command("other", NONE, NONE)

Init == map = [v \in Var |-> NONE] /\ last = Other

Assign(var, value) ==
  /\ last' = Command("assign", var, value)
  /\ map' = IF map[var] # NONE \/ Cardinality(Assigned) < Capacity
            THEN [map EXCEPT ![var] = value] ELSE map

Show(var) == last' = Command("ask", var, map[var]) /\ UNCHANGED map

ShowPath(var) ==
  /\ map[var] \notin Path \cup {NONE}
  /\ last' = Command("ask", var, UNFIT)
  /\ UNCHANGED map

Next ==
  \/ last' = Other /\ UNCHANGED map
  \/ \E var \in Var : Show(var) \/ ShowPath(var)
  \/ \E var \in Var, value \in Value : Assign(var, value)

Spec == Init /\ [][Next]_vars
=============================================================================
