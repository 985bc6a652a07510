------------------------------ MODULE JobRunner -----------------------------
(***************************************************************************)
(* What exec promises of the scripts it is given, whatever the policy and  *)
(* however execs nest: a job runs the lines of its script one at a time,   *)
(* each of them once, from the first to the last, and is gone only when it *)
(* has run the last.  A line may start lines of other jobs, which then end *)
(* before it does, but never another line of its own job.  A script        *)
(* without lines is promised nothing.                                      *)
(***************************************************************************)
EXTENDS Integers, Sequences

CONSTANTS
  Job,
  Length     \* the number of lines of each script

VARIABLES
  job,       \* of each job there is, its script and the number of lines run
  running    \* the jobs in the middle of a line, the innermost last

vars == <<job, running>>

Lines(a) == Length[job[a].script]
Busy == {running[i] : i \in DOMAIN running}

(* The jobs when a is one of them, and when it is not. *)
With(a, new) == [b \in DOMAIN job \cup {a} |-> IF b = a THEN new ELSE job[b]]
Without(a) == [b \in DOMAIN job \ {a} |-> job[b]]

Init == job = <<>> /\ running = <<>>

Submit(a, script) ==
  /\ a \notin DOMAIN job
  /\ job' = With(a, [script |-> script, pos |-> 0])
  /\ UNCHANGED running

StartLine(a) ==
  /\ a \in DOMAIN job \ Busy
  /\ Lines(a) > 0 => job[a].pos < Lines(a)
  /\ running' = Append(running, a)
  /\ UNCHANGED job

(* The last line may end the job at once. *)
EndLine(a) ==
  /\ running # <<>> /\ a = running[Len(running)]
  /\ \/ job' = With(a, [job[a] EXCEPT !.pos = @ + 1])
     \/ job[a].pos + 1 = Lines(a) /\ job' = Without(a)
  /\ running' = SubSeq(running, 1, Len(running) - 1)

Finish(a) ==
  /\ a \in DOMAIN job \ Busy /\ job[a].pos >= Lines(a)
  /\ job' = Without(a)
  /\ UNCHANGED running

Next ==
  \E a \in Job :
    \/ \E script \in DOMAIN Length : Submit(a, script)
    \/ StartLine(a) \/ EndLine(a) \/ Finish(a)

Spec == Init /\ [][Next]_vars
=============================================================================
