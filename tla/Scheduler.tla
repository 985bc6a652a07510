------------------------------ MODULE Scheduler -----------------------------
(***************************************************************************)
(* The shell's main loop, parseInput, exec, run and the four schedulers    *)
(* (src/core/shell.c, src/commands/exec.c, src/scheduling/scheduler.c)     *)
(* over the ready queue and the paged memory.                              *)
(*                                                                         *)
(* The program is one thread.  What makes it hard is that a script line is *)
(* itself given to parseInput, so that exec can be called while a          *)
(* scheduler has a process in its hands; the inner scheduler works on the  *)
(* same ready queue and the same frames.  stack holds the activations: a   *)
(* parseInput at every odd place, above it the exec it called, first       *)
(* building the ready queue, then in a scheduler's loop.  A loop that is   *)
(* not on top waits in parseInput for a line of its process to finish.     *)
(***************************************************************************)
EXTENDS Paging, ReadyQueue

CONSTANTS
  RR_TIMESLICE, RR30_TIMESLICE,   \* exec.h
  Inputs,      \* lines that may be typed, as parsed
  MaxInputs,   \* bound: lines typed
  WILD         \* a pointer nobody wrote that is not a script name

Policy == {"FCFS", "SJF", "RR", "RR30", "AGING"}

(* The interpreter's commands, as far as they touch processes.  plain is   *)
(* every other one: it sets errorCode to something other than -1.          *)
Command ==
  [op : {"plain", "quit"}, programs : {<<>>}, policy : {"none"}]
    \cup [op : {"exec"}, programs : Seq(Names), policy : Policy \cup {"invalid"}]
    \cup [op : {"run"}, programs : {<<name>> : name \in Names}, policy : {"FCFS"}]

ASSUME SchedulerAssumption ==
  /\ Source \in [Files -> Seq(Seq(Command))]
  /\ Inputs \subseteq Seq(Command)
  /\ RR_TIMESLICE \in Nat \ {0} /\ RR30_TIMESLICE \in Nat \ {0}
  /\ MaxInputs \in Nat
  /\ WILD \notin Names /\ WILD # NULL

VARIABLES
  mem,      \* the paged memory and the PCBs
  ready,    \* the ready queue
  stack,    \* activations, the innermost last
  status,   \* "running", or how the shell ended
  typed     \* lines typed so far

vars == <<mem, ready, stack, status, typed>>

(* errorCode and errCode are not initialised: "unset" until something is   *)
(* assigned to them.                                                       *)
Err == {"set", "unset"}

Parsing(cmds, err) == [at |-> "parse", cmds |-> cmds, err |-> err]
Building(programs, policy) ==
  [at |-> "build", programs |-> programs, policy |-> policy]
(* k counts the lines run in the process's turn. *)
Looping(policy, cur, k, err) ==
  [at |-> "loop", policy |-> policy, cur |-> cur, k |-> k, err |-> err]

Depth == Len(stack)
Top   == stack[Depth]
Call(activation)    == stack' = Append(stack, activation)
Become(activation)  == stack' = [stack EXCEPT ![Depth] = activation]
(* exec returns err to the parseInput that called it. *)
ReturnToParse(err) ==
  stack' = [SubSeq(stack, 1, Depth - 1) EXCEPT ![Depth - 1].err = err]

Running(at) == status = "running" /\ stack # <<>> /\ Top.at = at

Filename == [a \in Addr |-> mem.pcbs[a].filename]
Score(m) == [a \in Addr |-> m.pcbs[a].job_score]

Init ==
  /\ mem = PagingInit
  /\ ready = <<>>
  /\ stack = <<>>
  /\ status = "running"
  /\ typed = 0

-----------------------------------------------------------------------------
(* main: the prompt reads a line, or the end of the input. *)
ReadLine(line) ==
  /\ status = "running" /\ stack = <<>> /\ typed < MaxInputs
  /\ stack' = <<Parsing(line, "unset")>>
  /\ typed' = typed + 1
  /\ UNCHANGED <<mem, ready, status>>

EndOfInput ==
  /\ status = "running" /\ stack = <<>>
  /\ status' = "exited"
  /\ UNCHANGED <<mem, ready, stack, typed>>

(* parseInput interprets the next command of the line. *)
HasCommand(op) ==
  Running("parse") /\ Top.cmds # <<>> /\ Head(Top.cmds).op = op

Plain ==
  /\ HasCommand("plain")
  /\ Become(Parsing(Tail(Top.cmds), "set"))
  /\ UNCHANGED <<mem, ready, status, typed>>

(* quit leaves the process, however deep in scripts it is called. *)
Quit ==
  /\ HasCommand("quit")
  /\ status' = "exited"
  /\ UNCHANGED <<mem, ready, stack, typed>>

CallBuild(programs, policy) ==
  stack' = Append([stack EXCEPT ![Depth].cmds = Tail(@)],
                  Building(programs, policy))

Exec ==
  /\ HasCommand("exec")
  /\ CallBuild(Head(Top.cmds).programs, Head(Top.cmds).policy)
  /\ UNCHANGED <<mem, ready, status, typed>>

(* run writes one element of its array of three and passes all of them. *)
Run(second, third) ==
  /\ HasCommand("run")
  /\ CallBuild(<<Head(Top.cmds).programs[1], second, third>>,
               Head(Top.cmds).policy)
  /\ UNCHANGED <<mem, ready, status, typed>>

-----------------------------------------------------------------------------
(* build_ready_queue, one program of the array at a time. *)
NextProgram == Head(Top.programs)
BuildsNext  == Running("build") /\ Top.programs # <<>>
BuildRest   == Become(Building(Tail(Top.programs), Top.policy))

DuplicatesOf(name) == Duplicates(ready, Filename, name)

SkipNull ==
  /\ BuildsNext /\ NextProgram = NULL
  /\ BuildRest
  /\ UNCHANGED <<mem, ready, status, typed>>

(* A process of the same script is queued. *)
BuildDuplicate(a) ==
  /\ BuildsNext /\ DuplicatesOf(NextProgram) # {} /\ a \notin mem.live
  /\ mem' = PcbDupInit(mem, a, ready[FirstOf(DuplicatesOf(NextProgram))])
  /\ ready' = AppendProcess(ready, a)
  /\ BuildRest
  /\ UNCHANGED <<status, typed>>

(* fopen fails: the programs queued so far stay queued. *)
BuildMissing ==
  /\ BuildsNext /\ NextProgram \in Names \ Files
  /\ DuplicatesOf(NextProgram) = {}
  /\ ReturnToParse("set")
  /\ UNCHANGED <<mem, ready, status, typed>>

BuildNew(a) ==
  /\ BuildsNext /\ NextProgram \in Files /\ DuplicatesOf(NextProgram) = {}
  /\ a \notin mem.live
  /\ mem' = PcbInit(mem, a, NextProgram)
  /\ ready' = AppendProcess(ready, a)
  /\ BuildRest
  /\ UNCHANGED <<status, typed>>

(* malloc returns NULL, which append_process dereferences. *)
BuildOutOfMemory ==
  /\ BuildsNext
  /\ NextProgram \in Files
  /\ mem.live = Addr
  /\ status' = "crashed"
  /\ UNCHANGED <<mem, ready, stack, typed>>

(* strcmp and fopen are given bytes that are no string, or a string that   *)
(* names no file.                                                          *)
BuildWild ==
  /\ BuildsNext /\ NextProgram = WILD
  /\ \/ status' = "crashed" /\ UNCHANGED stack
     \/ ReturnToParse("set") /\ UNCHANGED status
  /\ UNCHANGED <<mem, ready, typed>>

(* exec dispatches on the policy; SJF and AGING sort the queue first. *)
StartPolicy ==
  /\ Running("build") /\ Top.programs = <<>> /\ Top.policy \in Policy
  /\ ready' = IF Top.policy \in {"SJF", "AGING"}
              THEN SortReadyQueue(ready, Score(mem)) ELSE ready
  /\ Become(Looping(Top.policy, NULL, 0, "unset"))
  /\ UNCHANGED <<mem, status, typed>>

InvalidPolicy ==
  /\ Running("build") /\ Top.programs = <<>> /\ Top.policy \notin Policy
  /\ ReturnToParse("set")
  /\ UNCHANGED <<mem, ready, status, typed>>

-----------------------------------------------------------------------------
(* The schedulers.  A loop with a process in its hands is in that          *)
(* process's turn.                                                         *)
InTurn == Running("loop") /\ Top.cur # NULL
RoundRobin == Top.policy \in {"RR", "RR30"}
Slice == IF Top.policy = "RR" THEN RR_TIMESLICE ELSE RR30_TIMESLICE

Current  == mem.pcbs[Top.cur]
CurPage  == Current.program_counter \div FRAME_SIZE
CurOffset == Current.program_counter % FRAME_SIZE
CurFrame == Current.page_table[CurPage]

(* FCFS compares with <, RR with ==, AGING not at all. *)
Exhausted ==
  CASE Top.policy \in {"FCFS", "SJF"} ->
         Current.program_counter >= Current.file_length
    [] RoundRobin -> Current.program_counter = Current.file_length
    [] OTHER -> FALSE

(* The turn goes on with a line. *)
WantsLine == InTurn /\ ~ Exhausted /\ (RoundRobin => Top.k < Slice)

NoTurn(err) == Looping(Top.policy, NULL, 0, err)

(* A fault: the process is looked at but not taken off the queue. *)
BrokenPeek ==
  /\ Running("loop") /\ Top.cur = NULL /\ ready # <<>>
  /\ Become(Looping(Top.policy, Head(ready), 0, Top.err))
  /\ UNCHANGED <<mem, ready, status, typed>>

PickNext ==
  /\ Running("loop") /\ Top.cur = NULL /\ ready # <<>>
  /\ Become(Looping(Top.policy, Head(ready), 0, Top.err))
  /\ ready' = Tail(ready)
  /\ UNCHANGED <<mem, status, typed>>

(* A fault: the scheduler returns after one process. *)
BrokenReturn ==
  /\ Running("loop") /\ Top.cur = NULL
  /\ ReturnToParse(Top.err)
  /\ UNCHANGED <<mem, ready, status, typed>>

SchedulerReturns ==
  /\ Running("loop") /\ Top.cur = NULL /\ ready = <<>>
  /\ ReturnToParse(Top.err)
  /\ UNCHANGED <<mem, ready, status, typed>>

Retire ==
  /\ InTurn /\ Exhausted
  /\ mem' = PcbDeinit(mem, Top.cur)
  /\ Become(NoTurn(Top.err))
  /\ UNCHANGED <<ready, status, typed>>

(* A fault: the slice is compared before the end of the file. *)
BrokenRequeue ==
  /\ InTurn /\ RoundRobin /\ Top.k = Slice
  /\ ready' = AppendProcess(ready, Top.cur)
  /\ Become(NoTurn(Top.err))
  /\ UNCHANGED <<mem, status, typed>>

(* The time slice is used up and lines are left. *)
Requeue ==
  /\ InTurn /\ ~ Exhausted /\ RoundRobin /\ Top.k = Slice
  /\ ready' = AppendProcess(ready, Top.cur)
  /\ Become(NoTurn(Top.err))
  /\ UNCHANGED <<mem, status, typed>>

(* The page is resident: its line is fetched and interpreted. *)
Execute ==
  /\ WantsLine /\ CurPage \in Page /\ CurFrame # -1
  /\ mem' = Touch(mem, CurFrame)
  /\ Call(Parsing(Fetch(mem, CurFrame, CurOffset), "unset"))
  /\ UNCHANGED <<ready, status, typed>>

Faults ==
  /\ WantsLine /\ CurPage \in Page /\ CurFrame = -1
  /\ ~ LoadReadsGarbage(mem, Top.cur, CurPage)

FaultedMem == PageFault(mem, Top.cur, CurPage)

(* FCFS and SJF load the page and try again. *)
FaultAndRetry ==
  /\ Faults /\ Top.policy \in {"FCFS", "SJF"}
  /\ mem' = FaultedMem
  /\ UNCHANGED <<ready, stack, status, typed>>

(* RR loads the page and ends the turn. *)
FaultAndYield ==
  /\ Faults /\ RoundRobin
  /\ mem' = FaultedMem
  /\ ready' = AppendProcess(ready, Top.cur)
  /\ Become(NoTurn(Top.err))
  /\ UNCHANGED <<status, typed>>

(* AGING runs what the frame holds then, whether or not the page went in.  *)
FaultAndExecute ==
  /\ Faults /\ Top.policy = "AGING"
  /\ mem' = Touch(FaultedMem, FaultFrame(mem))
  /\ Call(Parsing(Fetch(FaultedMem, FaultFrame(mem), CurOffset), "unset"))
  /\ UNCHANGED <<ready, status, typed>>

(* strdup of bytes nobody wrote. *)
FaultCrashes ==
  /\ WantsLine /\ CurPage \in Page /\ CurFrame = -1
  /\ LoadReadsGarbage(mem, Top.cur, CurPage)
  /\ status' = "crashed"
  /\ UNCHANGED <<mem, ready, stack, typed>>

(* page_table is read behind its end. *)
PageTableOverrun ==
  /\ WantsLine /\ CurPage \notin Page
  /\ status' = "crashed"
  /\ UNCHANGED <<mem, ready, stack, typed>>

-----------------------------------------------------------------------------
(* parseInput has no command left. *)
LineFinished == Running("parse") /\ Top.cmds = <<>>

(* At the prompt -1 ends the shell; errorCode may be anything if no        *)
(* command assigned it.                                                    *)
BackToPrompt ==
  /\ LineFinished /\ Depth = 1
  /\ stack' = <<>>
  /\ \/ UNCHANGED status
     \/ Top.err = "unset" /\ status' = "failed"
  /\ UNCHANGED <<mem, ready, typed>>

(* The loop that waited for the line. *)
Waiting == stack[Depth - 1]
Resume(cur, k) ==
  stack' = [SubSeq(stack, 1, Depth - 1) EXCEPT
              ![Depth - 1] = Looping(Waiting.policy, cur, k, Top.err)]

(* A fault: a line without commands is not counted. *)
BrokenAdvanced ==
  IF Top.err = "unset" THEN mem
  ELSE [mem EXCEPT !.pcbs[Waiting.cur].program_counter = @ + 1]

Advanced ==
  [mem EXCEPT !.pcbs[Waiting.cur].program_counter = @ + 1]

(* FCFS, SJF and RR count the line and go on with the turn. *)
LineDone ==
  /\ LineFinished /\ Depth > 1 /\ Waiting.policy # "AGING"
  /\ mem' = Advanced
  /\ Resume(Waiting.cur, Waiting.k + 1)
  /\ UNCHANGED <<ready, status, typed>>

LastLine == Advanced.pcbs[Waiting.cur].program_counter
              = Advanced.pcbs[Waiting.cur].file_length

AgingRetires ==
  /\ LineFinished /\ Depth > 1 /\ Waiting.policy = "AGING" /\ LastLine
  /\ mem' = PcbDeinit(Advanced, Waiting.cur)
  /\ Resume(NULL, 0)
  /\ UNCHANGED <<ready, status, typed>>

(* age_ready_queue *)
AgeReadyQueue(pcbs) ==
  [a \in Addr |-> IF a \in Queued(ready)
                  THEN [pcbs[a] EXCEPT !.job_score = Aged(@)] ELSE pcbs[a]]

AgedMem == [Advanced EXCEPT !.pcbs = AgeReadyQueue(@)]

(* Age the others, put the process back in front, sort. *)
AgingRequeues ==
  /\ LineFinished /\ Depth > 1 /\ Waiting.policy = "AGING" /\ ~ LastLine
  /\ mem' = AgedMem
  /\ ready' = SortReadyQueue(AppendLeftProcess(ready, Waiting.cur),
                             Score(AgedMem))
  /\ Resume(NULL, 0)
  /\ UNCHANGED <<status, typed>>

-----------------------------------------------------------------------------
Type == EndOfInput \/ \E line \in Inputs : ReadLine(line)

Parse ==
  \/ Plain \/ Quit \/ Exec
  \/ \E second, third \in Names \cup {NULL, WILD} : Run(second, third)
  \/ BackToPrompt

BuildReadyQueue ==
  \/ SkipNull \/ BuildMissing \/ BuildWild \/ BuildOutOfMemory
  \/ \E a \in Addr : BuildDuplicate(a) \/ BuildNew(a)
  \/ StartPolicy \/ InvalidPolicy

Schedule ==
  \/ PickNext \/ SchedulerReturns \/ Retire \/ Requeue
  \/ Execute \/ FaultAndRetry \/ FaultAndYield \/ FaultAndExecute
  \/ FaultCrashes \/ PageTableOverrun
  \/ LineDone \/ AgingRetires \/ AgingRequeues

Work == Parse \/ BuildReadyQueue \/ Schedule

(* The shell has ended. *)
Ended == status # "running" /\ UNCHANGED vars

Next == Type \/ Work \/ Ended

Spec == Init /\ [][Next]_vars

(* One thread with nothing to wait for between two prompts. *)
FairSpec == Spec /\ WF_vars(Work)

-----------------------------------------------------------------------------
Activation ==
  [at : {"parse"}, cmds : Seq(Command), err : Err]
    \cup [at : {"build"}, programs : Seq(Names \cup {NULL, WILD}),
          policy : Policy \cup {"invalid"}]
    \cup [at : {"loop"}, policy : Policy, cur : Addr \cup {NULL}, k : Nat,
          err : Err]

(* A scheduler's loop with a process in its hands. *)
Holds(activation) == activation.at = "loop" /\ activation.cur # NULL

(* parseInput and exec alternate, and only the innermost activation can be *)
(* building the queue or be between two turns.                             *)
WellNested ==
  \A i \in DOMAIN stack :
    /\ (i % 2 = 1) <=> (stack[i].at = "parse")
    /\ i < Depth /\ stack[i].at # "parse" => Holds(stack[i])

(* Types, the order of the frames, and the nesting of parseInput and exec. *)
TypeOK ==
  /\ PagingTypeOK(mem)
  /\ ready \in Seq(Addr)
  /\ stack \in Seq(Activation)
  /\ status \in {"running", "exited", "failed", "crashed"}
  /\ typed \in 0 .. MaxInputs
  /\ WellNested

(* The places of the stack at which a scheduler holds a process. *)
Holding == {i \in DOMAIN stack : Holds(stack[i])}

(* No PCB is lost, freed while in use or scheduled twice, however execs    *)
(* nest and fail: every block malloc has handed out is in exactly one      *)
(* place, of the ready queue or in the hands of one scheduler, and nothing *)
(* that was freed is in either.                                            *)
EachProcessHeldOnce ==
  /\ \A i, j \in DOMAIN ready : ready[i] = ready[j] => i = j
  /\ \A i, j \in Holding : stack[i].cur = stack[j].cur => i = j
  /\ \A i \in Holding : stack[i].cur \notin Queued(ready)
  /\ mem.live = Queued(ready) \cup {stack[i].cur : i \in Holding}

(* What the frame store says of itself, at every step. *)
FramesAccounted == FrameAccounting(mem)

(* What a process's page table calls resident is its own, at every step. *)
PagesAreOwn == OwnPagesSound(mem)

(* A queued process has a line left to run, and no process of a file with  *)
(* lines is ever driven past its end, whichever scheduler, nested or not,  *)
(* picks up a process that another one queued.                             *)
QueuedHaveLinesLeft ==
  \A a \in mem.live :
    LET pcb == mem.pcbs[a]
    IN  pcb.file_length > 0 =>
          /\ pcb.program_counter <= pcb.file_length
          /\ a \in Queued(ready) => pcb.program_counter < pcb.file_length

(* When no scheduler is active, the queue holds only processes that have   *)
(* not begun: what a failed exec leaves behind.  No process is abandoned   *)
(* in the middle of its script.                                            *)
NothingHalfRun ==
  (\A i \in DOMAIN stack : stack[i].at # "loop") =>
    \A a \in Queued(ready) : mem.pcbs[a].program_counter = 0

(* A scheduler gives parseInput a line: the one it runs for the process in *)
(* its hands.                                                              *)
StartsLine == Depth > 0 /\ Top.at = "loop" /\ Len(stack') = Depth + 1

(* The line that is run is the process's own next line, whatever has been  *)
(* evicted, reloaded or run in between (processes that pcb_init filled).   *)
RunsOwnLine ==
  [][StartsLine /\ Current.loaded
       /\ Current.program_counter < Current.file_length =>
       stack'[Depth + 1].cmds
         = Source[Current.filename][Current.program_counter + 1]]_vars

(* The same of every process, a duplicate's included: pcb_dup_init passes  *)
(* "the addresses directly to enable memory sharing".                      *)
SharesOwnLine ==
  [][StartsLine /\ Current.program_counter < Current.file_length =>
       stack'[Depth + 1].cmds
         = Source[Current.filename][Current.program_counter + 1]]_vars

(* SJF and AGING pick a process of the smallest job score. *)
PicksShortest ==
  [][Running("loop") /\ Top.policy \in {"SJF", "AGING"} /\ Top.cur = NULL
       /\ ready # <<>> =>
       \A a \in Queued(ready) :
         mem.pcbs[stack'[Depth].cur].job_score <= mem.pcbs[a].job_score]_vars

(* A process is a job, and the lines being run are those of the processes  *)
(* that a loop below the top of the stack holds.                           *)
JobOf == [a \in mem.live |-> [script |-> mem.pcbs[a].filename,
                              pos |-> mem.pcbs[a].program_counter]]
LinesRun == [i \in 1 .. ((Depth + 1) \div 2 - 1) |-> stack[2 * i].cur]

Jobs == INSTANCE JobRunner WITH
  Job <- Addr, Length <- [name \in Files |-> FileLength(name)],
  job <- JobOf, running <- LinesRun

(* Every process runs each line of its script once and in order and is     *)
(* freed only behind the last, whichever schedulers take turns with it,    *)
(* and whatever its lines start, fail to start or evict.                   *)
ImplementsJobRunner == Jobs!Spec

(* The shell goes on until quit or the end of the input. *)
NeverCrashes == status \notin {"crashed", "failed"}

(* Every line that is typed is finished, or ends the shell. *)
LinesFinish == (stack # <<>>) ~> (stack = <<>> \/ status # "running")

=============================================================================
