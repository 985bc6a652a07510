---------------------------- MODULE MCScheduler -----------------------------
(***************************************************************************)
(* Values for Scheduler's constants.  Frames hold two lines; MAX_FILE_SIZE *)
(* is 3 to 5, so that the last page of A is shorter than a frame.          *)
(***************************************************************************)
EXTENDS Scheduler, TLC

CONSTANTS A, B, C, E, N, X, a1, a2, a3, a4

plain == [op |-> "plain", programs |-> <<>>, policy |-> "none"]
quit  == [op |-> "quit", programs |-> <<>>, policy |-> "none"]
run(name) == [op |-> "run", programs |-> <<name>>, policy |-> "FCFS"]
exec(names, policy) == [op |-> "exec", programs |-> names, policy |-> policy]

MCNames == {A, B, C, E, N, X}
MCFiles == {A, B, C, E, N}
MCAddr  == {a1, a2, a3, a4}
ThreeAddr == {a1, a2, a3}

(* A line of A carries its number, so that lines can be told apart. *)
line(n) == [i \in 1 .. n |-> plain]

(* A is longer than MAX_FILE_SIZE, E is empty, N is a script that runs     *)
(* another one and goes on.                                                *)
MCSource ==
  A :> [n \in 1 .. 6 |-> line(n)] @@
  B :> <<line(7)>> @@
  C :> <<line(8), line(9)>> @@
  E :> <<>> @@
  N :> << <<plain, exec(<<B>>, "RR")>>, line(10) >>

(* One and two processes of every policy, the same script twice, a script  *)
(* that is missing and leaves another one queued, a policy that does not   *)
(* exist, an empty line and an empty script.                               *)
SafetyInputs ==
  { <<>>,
    <<plain, exec(<<A, B>>, "FCFS")>>,
    <<exec(<<A, A>>, "RR")>>,
    <<exec(<<A, N>>, "AGING")>>,
    <<exec(<<B, A, N>>, "SJF")>>,
    <<exec(<<B, X>>, "RR30"), exec(<<A>>, "invalid")>>,
    <<exec(<<E>>, "AGING")>>,
    <<exec(<<N, A, B>>, "RR"), quit>>,
    <<run(B)>> }

(* Three processes of different lengths under every policy, then again in  *)
(* another order over the frames the first ones left behind, and a process *)
(* that runs another one in the middle of its script.                      *)
ProgressInputs ==
  {<<exec(<<A, B, C>>, policy), exec(<<C, A, B>>, policy)>> : policy \in Policy}
    \cup { <<exec(<<C, N>>, "RR")>> }

(* One line of input each, for the runs that end in a counterexample.      *)
ThrashInputs    == { <<exec(<<A, C>>, "RR")>> }
DuplicateInputs == { <<exec(<<A, A>>, "FCFS")>> }
RunInputs       == { <<run(B)>> }

AddrSymmetry == Permutations(MCAddr)

=============================================================================
