--------------------------- MODULE ProgressProofs ---------------------------
(***************************************************************************)
(* What the schedulers run: a process's own next line, never one past its  *)
(* end, and never half of a script.  The proofs build on the invariant of  *)
(* SchedulerProofs and add to it what is known of the program counters.    *)
(***************************************************************************)
EXTENDS SchedulerProofs

-----------------------------------------------------------------------------
(* The stack after a step, place by place *)

LEMMA CallShape ==
  ASSUME Sound(stack), NEW x \in Activation, Call(x)
  PROVE  /\ Depth \in Nat /\ Len(stack') = Depth + 1 /\ DOMAIN stack' = 1 .. Depth + 1
         /\ stack'[Depth + 1] = x
         /\ \A i \in 1 .. Depth : stack'[i] = stack[i]
<1>1. stack \in Seq(Activation) /\ stack' = Append(stack, x)
  BY DEF Sound, Call
<1>2. Append(stack, x) \in Seq(Activation)
  BY <1>1, AppendProperties
<1> QED BY <1>1, <1>2, AppendProperties, LenProperties DEF Depth

LEMMA BecomeShape ==
  ASSUME Sound(stack), stack # <<>>, NEW x, Become(x)
  PROVE  /\ Depth \in Nat /\ Len(stack') = Depth /\ DOMAIN stack' = 1 .. Depth
         /\ stack'[Depth] = x
         /\ \A i \in 1 .. Depth - 1 : stack'[i] = stack[i]
<1>1. Depth \in Nat \ {0} /\ DOMAIN stack = 1 .. Depth
  BY TopFacts
<1>2. stack \in Seq(Activation) /\ stack' = [stack EXCEPT ![Depth] = x]
  BY DEF Sound, Become
<1>3. Len(stack') = Depth /\ DOMAIN stack' = 1 .. Depth
  BY <1>1, <1>2 DEF Depth
<1> QED BY <1>1, <1>2, <1>3

LEMMA PopShape ==
  ASSUME Sound(stack), Depth > 1, NEW x,
         stack' = [SubSeq(stack, 1, Depth - 1) EXCEPT ![Depth - 1] = x]
  PROVE  /\ Depth \in Nat /\ Len(stack') = Depth - 1
         /\ DOMAIN stack' = 1 .. Depth - 1
         /\ stack'[Depth - 1] = x
         /\ \A i \in 1 .. Depth - 2 : stack'[i] = stack[i]
<1> DEFINE pop == SubSeq(stack, 1, Depth - 1)
<1>1. stack \in Seq(Activation) /\ Depth \in Nat /\ Depth > 1
  BY LenProperties DEF Sound, Depth
<1>2. /\ pop \in Seq(Activation) /\ Len(pop) = Depth - 1
      /\ \A i \in 1 .. Depth - 1 : pop[i] = stack[i]
  <2>1. Depth - 1 \in Int /\ 1 \in Int /\ \A i \in 1 .. Depth - 1 : stack[i] \in Activation
    BY <1>1, ElementOfSeq DEF Depth
  <2>2. /\ pop \in Seq(Activation)
        /\ Len(pop) = IF 1 <= Depth - 1 THEN (Depth - 1) - 1 + 1 ELSE 0
        /\ \A i \in 1 .. (Depth - 1) - 1 + 1 : pop[i] = stack[1 + i - 1]
    BY <2>1, SubSeqProperties
  <2> HIDE DEF pop
  <2> QED BY <2>2, <1>1
<1>3. DOMAIN pop = 1 .. Depth - 1
  BY <1>2, LenProperties
<1>4. stack' = [pop EXCEPT ![Depth - 1] = x]
  OBVIOUS
<1> HIDE DEF pop
<1>5. DOMAIN stack' = 1 .. Depth - 1 /\ Len(stack') = Depth - 1
  BY <1>1, <1>2, <1>3, <1>4
<1> QED BY <1>1, <1>2, <1>3, <1>4, <1>5

LEMMA ReturnShape ==
  ASSUME Sound(stack), stack # <<>>, Top.at # "parse", NEW err \in Err,
         ReturnToParse(err)
  PROVE  /\ Depth \in Nat /\ Depth > 1 /\ Len(stack') = Depth - 1
         /\ DOMAIN stack' = 1 .. Depth - 1
         /\ stack'[Depth - 1].at = "parse" /\ stack[Depth - 1].at = "parse"
         /\ \A i \in 1 .. Depth - 2 : stack'[i] = stack[i]
<1> DEFINE x == [SubSeq(stack, 1, Depth - 1)[Depth - 1] EXCEPT !.err = err]
<1>1. /\ Depth \in Nat /\ Depth > 1 /\ stack[Depth - 1].at = "parse"
      /\ stack[Depth - 1] \in Activation
  BY TopFacts
<1>2. SubSeq(stack, 1, Depth - 1)[Depth - 1] = stack[Depth - 1]
  BY <1>1 DEF Sound, Depth
<1>3. x.at = "parse"
  BY <1>1, <1>2, ParseExcept, ActivationFields DEF Parsing
<1>4. stack' = [SubSeq(stack, 1, Depth - 1) EXCEPT ![Depth - 1] = x]
  BY DEF ReturnToParse
<1> HIDE DEF x
<1> QED BY <1>1, <1>3, <1>4, PopShape

LEMMA ResumeShape ==
  ASSUME Sound(stack), Depth > 1, NEW cur, NEW k, Resume(cur, k)
  PROVE  /\ Depth \in Nat /\ Len(stack') = Depth - 1
         /\ DOMAIN stack' = 1 .. Depth - 1
         /\ stack'[Depth - 1] = Looping(Waiting.policy, cur, k, Top.err)
         /\ \A i \in 1 .. Depth - 2 : stack'[i] = stack[i]
BY PopShape DEF Resume

-----------------------------------------------------------------------------
(* The line that is run *)

(* Only Execute and FaultAndExecute give a process's line to parseInput. *)
LEMMA WhoStartsLines ==
  ASSUME Inv, Next, StartsLine
  PROVE  Execute \/ FaultAndExecute
<1>1. /\ Sound(stack) /\ stack # <<>> /\ Top.at = "loop" /\ Depth \in Nat
      /\ Len(stack') = Depth + 1 /\ Depth > 0
  <2>1. Sound(stack) /\ Top.at = "loop" /\ Depth > 0 /\ Len(stack') = Depth + 1
    BY DEF Inv, StartsLine
  <2>2. Depth \in Nat /\ stack # <<>>
    BY <2>1, LenProperties, EmptySeq DEF Depth, Sound
  <2> QED BY <2>1, <2>2
<1>2. stack' # stack
  BY <1>1 DEF Depth
<1>3. ~ Type
  BY <1>1, <1>2 DEF Type, ReadLine, EndOfInput
<1>4. ~ Parse
  BY <1>1 DEF Parse, Plain, Quit, Exec, Run, BackToPrompt, HasCommand,
              LineFinished, Running
<1>5. ~ BuildReadyQueue
  BY <1>1 DEF BuildReadyQueue, SkipNull, BuildMissing, BuildWild, BuildOutOfMemory,
              BuildDuplicate, BuildNew, StartPolicy, InvalidPolicy, BuildsNext, Running
<1>6. \A x : ~ Become(x)
  <2> SUFFICES ASSUME NEW x, Become(x) PROVE FALSE
    OBVIOUS
  <2> QED BY <1>1, BecomeShape
<1>7. ~ SchedulerReturns
  <2> SUFFICES ASSUME SchedulerReturns PROVE FALSE
    OBVIOUS
  <2>1. Top.err \in Err
    BY <1>1, TopFacts, ActivationFields
  <2> QED BY <1>1, <2>1, ReturnShape DEF SchedulerReturns
<1>8. ~ LineDone /\ ~ AgingRetires /\ ~ AgingRequeues
  BY <1>1 DEF LineDone, AgingRetires, AgingRequeues, LineFinished, Running
<1>9. ~ PickNext /\ ~ Retire /\ ~ Requeue /\ ~ FaultAndYield
  BY <1>6 DEF PickNext, Retire, Requeue, FaultAndYield
<1>10. ~ FaultAndRetry /\ ~ FaultCrashes /\ ~ PageTableOverrun /\ ~ Ended
  BY <1>2 DEF FaultAndRetry, FaultCrashes, PageTableOverrun, Ended, vars
<1> QED BY <1>3, <1>4, <1>5, <1>7, <1>8, <1>9, <1>10 DEF Next, Work, Schedule

LEMMA OwnLine ==
  ASSUME Inv, Next, StartsLine, Current.loaded,
         Current.program_counter < Current.file_length
  PROVE  stack'[Depth + 1].cmds = Source[Current.filename][Current.program_counter + 1]
<1> DEFINE cur == Top.cur
           n   == Current.program_counter
<1>1. InTurn
  BY WhoStartsLines DEF Execute, FaultAndExecute, Faults, WantsLine
<1>2. /\ cur \in Addr /\ PagingInv(mem) /\ Current \in Pcb /\ Sound(stack)
      /\ n \in Nat
  BY <1>1, TurnFacts DEF Pcb
<1>3. CurPage \in Nat /\ CurOffset \in Offset /\ LineAt(CurPage, CurOffset) = n
  BY <1>1, CurrentPlace
<1>4. CASE Execute
  <2>1. CurFrame \in Frame /\ CurPage \in Page /\ CurFrame # -1
    BY <1>1, <1>4, CurrentPlace DEF Execute
  <2> DEFINE cmds == Fetch(mem, CurFrame, CurOffset)
  <2>2. cmds \in Seq(Command)
    BY <1>2, <1>3, <2>1, FetchType
  <2>3. cmds = Source[Current.filename][n + 1]
    BY <1>2, <1>3, <2>1, FetchOwnLine DEF Current, CurFrame
  <2>4. Call(Parsing(cmds, "unset"))
    BY <1>4 DEF Execute
  <2> HIDE DEF cmds
  <2>5. stack'[Depth + 1] = Parsing(cmds, "unset")
    BY <1>2, <2>2, <2>4, CallShape, ParsingType DEF Err
  <2> QED BY <2>3, <2>5 DEF Parsing
<1>5. CASE FaultAndExecute
  <2> DEFINE frame == FaultFrame(mem)
             new   == FaultedMem
             cmds  == Fetch(new, frame, CurOffset)
  <2>1. /\ PagingInv(new) /\ SameProcesses(mem.pcbs, new.pcbs)
        /\ frame \in Frame /\ CurPage \in Page
        /\ ~ LoadReadsGarbage(mem, cur, CurPage)
    BY <1>5, FaultedFacts DEF FaultAndExecute, Faults
  <2>2. cmds \in Seq(Command)
    BY <1>3, <2>1, FetchType
  <2>3. PageInRange(mem.pcbs[cur], CurPage)
    <3>1. LineAt(CurPage, CurOffset) >= CurPage * FRAME_SIZE /\ CurPage * FRAME_SIZE \in Nat
      BY <1>3, LineAtNat
    <3>2. Current.file_length \in Nat /\ n < Current.file_length
      BY <1>2, Constants DEF Pcb
    <3>3. CurPage * FRAME_SIZE < Current.file_length
      BY <1>2, <1>3, <3>1, <3>2
    <3> QED BY <1>3, <3>3 DEF PageInRange, Current
  <2>4. new.pcbs[cur].page_table[CurPage] = frame
    BY <1>2, <1>3, <2>1, <2>3, PageFaultKeepsInv DEF FaultedMem
  <2>5. /\ new.pcbs[cur].loaded /\ new.pcbs[cur].filename = Current.filename
        /\ new.pcbs[cur].file_length = Current.file_length
    BY <1>2, <2>1 DEF SameProcesses, Current
  <2>6. frame # -1
    BY <2>1, Constants
  <2>7. Call(Parsing(cmds, "unset"))
    BY <1>5 DEF FaultAndExecute
  <2> HIDE DEF new, frame
  <2>8. cmds = Source[Current.filename][n + 1]
    <3>1. LineAt(CurPage, CurOffset) < new.pcbs[cur].file_length
      BY <1>3, <2>5
    <3>2. Fetch(new, new.pcbs[cur].page_table[CurPage], CurOffset)
            = Source[new.pcbs[cur].filename][LineAt(CurPage, CurOffset) + 1]
      BY <1>2, <1>3, <2>1, <2>4, <2>5, <2>6, <3>1, FetchOwnLine
    <3> QED BY <3>2, <2>4, <2>5, <1>3
  <2> HIDE DEF cmds
  <2>9. stack'[Depth + 1] = Parsing(cmds, "unset")
    BY <1>2, <2>2, <2>7, CallShape, ParsingType DEF Err
  <2> QED BY <2>8, <2>9 DEF Parsing
<1> QED BY <1>4, <1>5, WhoStartsLines

(* Demand paging does what it is for: a scheduler that runs a line of a    *)
(* process pcb_init made runs the line its program counter points at.      *)
THEOREM OwnLinesRun == Spec => RunsOwnLine
<1>1. ASSUME Inv, [Next]_vars
      PROVE  [StartsLine /\ Current.loaded
                /\ Current.program_counter < Current.file_length =>
                stack'[Depth + 1].cmds
                  = Source[Current.filename][Current.program_counter + 1]]_vars
  BY <1>1, OwnLine
<1> QED BY <1>1, Invariance, PTL DEF Spec, RunsOwnLine

-----------------------------------------------------------------------------
(* Program counters *)

Unfinished(pcb) == pcb.file_length > 0 => pcb.program_counter < pcb.file_length
InBounds(pcb)   == pcb.file_length > 0 => pcb.program_counter <= pcb.file_length

(* A process whose line is being run by an activation above has that line  *)
(* still to count; AGING holds a process only while a line is left.        *)
HeldSound(m, s, i) ==
  LET pcb == m.pcbs[s[i].cur]
  IN  /\ InBounds(pcb)
      /\ i < Len(s) \/ s[i].policy = "AGING" => Unfinished(pcb)

CountersInv ==
  /\ \A i \in HoldingIn(stack) : HeldSound(mem, stack, i)
  /\ \A a \in Queued(ready) : Unfinished(mem.pcbs[a])

LEMMA CountersLinesLeft ==
  ASSUME Inv, CountersInv
  PROVE  QueuedHaveLinesLeft
<1> SUFFICES ASSUME NEW a \in mem.live, mem.pcbs[a].file_length > 0
             PROVE  /\ mem.pcbs[a].program_counter <= mem.pcbs[a].file_length
                    /\ a \in Queued(ready) =>
                         mem.pcbs[a].program_counter < mem.pcbs[a].file_length
  BY DEF QueuedHaveLinesLeft
<1>1. a \in Queued(ready) \/ a \in HeldBy(stack)
  BY DEF Inv, HeldApart
<1>2. a \in Addr /\ mem.pcbs[a].program_counter \in Nat /\ mem.pcbs[a].file_length \in Nat
  <2>1. mem.live \subseteq Addr /\ mem.pcbs \in [Addr -> Pcb]
    BY MemFields DEF Inv, PagingInv, PagingTypeOK
  <2> QED BY <2>1, Constants DEF Pcb
<1>3. CASE a \in Queued(ready)
  BY <1>2, <1>3 DEF CountersInv, Unfinished
<1>4. CASE a \notin Queued(ready) /\ a \in HeldBy(stack)
  <2>1. PICK i \in HoldingIn(stack) : stack[i].cur = a
    BY <1>4 DEF HeldBy
  <2> QED BY <1>4, <2>1 DEF CountersInv, HeldSound, InBounds
<1> QED BY <1>1, <1>3, <1>4

(* Every process held after the step was held in the same way before it,   *)
(* or is accounted for.                                                    *)
SameCounters(m, new, a) ==
  /\ new.pcbs[a].file_length = m.pcbs[a].file_length
  /\ new.pcbs[a].program_counter = m.pcbs[a].program_counter

LEMMA CountersStep ==
  ASSUME CountersInv,
         \A i \in HoldingIn(stack') :
           \/ /\ i \in HoldingIn(stack) /\ stack'[i] = stack[i]
              /\ i < Len(stack') => i < Len(stack)
              /\ SameCounters(mem, mem', stack[i].cur)
           \/ HeldSound(mem', stack', i),
         \A a \in Queued(ready') :
           \/ a \in Queued(ready) /\ SameCounters(mem, mem', a)
           \/ Unfinished(mem'.pcbs[a])
  PROVE  CountersInv'
<1>1. ASSUME NEW i \in HoldingIn(stack') PROVE HeldSound(mem', stack', i)
  BY DEF CountersInv, HeldSound, SameCounters, InBounds, Unfinished
<1>2. ASSUME NEW a \in Queued(ready') PROVE Unfinished(mem'.pcbs[a])
  BY DEF CountersInv, SameCounters, Unfinished
<1> QED BY <1>1, <1>2 DEF CountersInv

LEMMA SameEverywhere ==
  ASSUME UNCHANGED mem
  PROVE  \A a : SameCounters(mem, mem', a)
BY DEF SameCounters

(* A step that leaves every process alone and no longer or no more held. *)
LEMMA CountersQuiet ==
  ASSUME Inv, CountersInv, UNCHANGED mem, Queued(ready') \subseteq Queued(ready),
         \A i \in HoldingIn(stack') :
           i \in HoldingIn(stack) /\ stack'[i] = stack[i]
             /\ (i < Len(stack') => i < Len(stack))
  PROVE  CountersInv'
BY CountersStep, SameEverywhere

(* The places that hold a process after each kind of step. *)
LEMMA PushHolding ==
  ASSUME Sound(stack), NEW x \in Activation, ~ Holds(x), Call(x)
  PROVE  HoldingIn(stack') = HoldingIn(stack)
         /\ \A i \in HoldingIn(stack) : i \in 1 .. Depth /\ stack'[i] = stack[i]
<1>1. DOMAIN stack = 1 .. Depth /\ Depth \in Nat
  BY LenProperties DEF Sound, Depth
<1> QED BY <1>1, CallShape DEF HoldingIn

LEMMA BecomeHolding ==
  ASSUME Sound(stack), stack # <<>>, NEW x, Become(x)
  PROVE  \A i \in HoldingIn(stack') :
           \/ i \in HoldingIn(stack) /\ stack'[i] = stack[i] /\ i < Len(stack)
           \/ i = Depth /\ Holds(x) /\ stack'[i] = x /\ ~ (i < Len(stack'))
<1>1. DOMAIN stack = 1 .. Depth /\ Depth \in Nat \ {0}
  BY TopFacts
<1> QED BY <1>1, BecomeShape DEF HoldingIn, Depth

LEMMA PopHolding ==
  ASSUME Sound(stack), Depth > 1, NEW x,
         stack' = [SubSeq(stack, 1, Depth - 1) EXCEPT ![Depth - 1] = x]
  PROVE  \A i \in HoldingIn(stack') :
           \/ i \in HoldingIn(stack) /\ stack'[i] = stack[i] /\ i < Len(stack)
              /\ i \in 1 .. Depth - 2
           \/ i = Depth - 1 /\ Holds(x) /\ stack'[i] = x /\ ~ (i < Len(stack'))
<1>1. DOMAIN stack = 1 .. Depth /\ Depth \in Nat
  BY LenProperties DEF Sound, Depth
<1>2. /\ Len(stack') = Depth - 1 /\ DOMAIN stack' = 1 .. Depth - 1
      /\ stack'[Depth - 1] = x
      /\ \A i \in 1 .. Depth - 2 : stack'[i] = stack[i]
  BY PopShape
<1>3. ASSUME NEW i \in 1 .. Depth - 1
      PROVE  i = Depth - 1 \/ (i \in 1 .. Depth - 2 /\ i \in 1 .. Depth /\ i < Depth)
  BY <1>1
<1>4. Len(stack) = Depth
  BY DEF Depth
<1> QED BY <1>1, <1>2, <1>3, <1>4 DEF HoldingIn

LEMMA ReturnHolding ==
  ASSUME Sound(stack), stack # <<>>, Top.at # "parse", NEW err \in Err,
         ReturnToParse(err)
  PROVE  \A i \in HoldingIn(stack') :
           i \in HoldingIn(stack) /\ stack'[i] = stack[i] /\ i < Len(stack)
<1>1. DOMAIN stack = 1 .. Depth /\ Depth \in Nat
  BY LenProperties DEF Sound, Depth
<1>2. /\ Depth > 1 /\ DOMAIN stack' = 1 .. Depth - 1
      /\ ~ Holds(stack'[Depth - 1])
      /\ \A i \in 1 .. Depth - 2 : stack'[i] = stack[i]
  BY ReturnShape DEF Holds
<1>3. ASSUME NEW i \in 1 .. Depth - 1
      PROVE  i = Depth - 1 \/ (i \in 1 .. Depth - 2 /\ i \in 1 .. Depth /\ i < Depth)
  BY <1>1
<1>4. Len(stack) = Depth
  BY DEF Depth
<1> QED BY <1>1, <1>2, <1>3, <1>4 DEF HoldingIn

-----------------------------------------------------------------------------
(* Every step keeps the program counters in bounds. *)

LEMMA ProcessFields ==
  ASSUME Inv, NEW a \in Addr
  PROVE  /\ mem.pcbs[a] \in Pcb
         /\ mem.pcbs[a].program_counter \in Nat /\ mem.pcbs[a].file_length \in Nat
<1>1. mem.pcbs \in [Addr -> Pcb]
  BY MemFields DEF Inv, PagingInv, PagingTypeOK
<1> QED BY <1>1, Constants DEF Pcb

(* The live processes, and a program counter that is not the block's own.  *)
LEMMA LiveAddr ==
  ASSUME Inv
  PROVE  /\ Queued(ready) \subseteq Addr /\ HeldBy(stack) \subseteq Addr
         /\ Queued(ready) \subseteq mem.live /\ HeldBy(stack) \subseteq mem.live
         /\ HeldBy(stack) \cap Queued(ready) = {}
         /\ \A i \in HoldingIn(stack) : stack[i].cur \in HeldBy(stack)
BY HeldProcesses, QueuedOfRange DEF Inv, HeldApart, Sound, HeldBy

LEMMA CountersInit == Init => CountersInv
BY DEF Init, CountersInv, HoldingIn, Queued

LEMMA CountersType ==
  ASSUME Inv, CountersInv, Type
  PROVE  CountersInv'
<1>1. CASE EndOfInput
  BY <1>1 DEF EndOfInput, CountersInv
<1>2. ASSUME NEW line \in Inputs, ReadLine(line) PROVE CountersInv'
  <2> DEFINE x == Parsing(line, "unset")
  <2>1. x \in Activation /\ ~ Holds(x)
    BY ParsingType, SchedulerAssumption DEF Err
  <2>2. stack = <<>> /\ stack' = <<x>> /\ UNCHANGED <<mem, ready>>
    BY <1>2 DEF ReadLine
  <2> HIDE DEF x
  <2>3. HoldingIn(stack') = {}
    BY <2>1, <2>2 DEF HoldingIn
  <2> QED BY <2>2, <2>3, CountersQuiet
<1> QED BY <1>1, <1>2 DEF Type

LEMMA CountersCallBuild ==
  ASSUME Inv, stack # <<>>, Top.at = "parse", Tail(Top.cmds) \in Seq(Command),
         NEW programs, NEW policy, CallBuild(programs, policy)
  PROVE  \A i \in HoldingIn(stack') :
           i \in HoldingIn(stack) /\ stack'[i] = stack[i] /\ i < Len(stack)
<1> DEFINE rest == [Top EXCEPT !.cmds = Tail(Top.cmds)]
           x    == Building(programs, policy)
           left == [stack EXCEPT ![Depth] = rest]
<1>1. Depth \in Nat \ {0} /\ DOMAIN stack = 1 .. Depth /\ Top \in Activation
  BY TopFacts DEF Inv
<1>2. rest \in Activation /\ ~ Holds(rest) /\ ~ Holds(x)
  <2>1. rest = Parsing(Tail(Top.cmds), Top.err) /\ Top.err \in Err
    BY <1>1, ParseExcept, ActivationFields
  <2> QED BY <2>1, ParsingType DEF Holds, Building
<1>3. stack' = Append(left, x)
  BY DEF CallBuild, Top
<1> HIDE DEF rest, x
<1>4. /\ left \in Seq(Activation) /\ Len(left) = Depth /\ left[Depth] = rest
      /\ \A i \in 1 .. Depth - 1 : left[i] = stack[i]
  <2>1. stack \in Seq(Activation) /\ Depth \in 1 .. Len(stack) /\ Len(stack) = Depth
    BY <1>1 DEF Inv, Sound, Depth
  <2>2. /\ left \in Seq(Activation) /\ Len(left) = Len(stack)
        /\ \A i \in 1 .. Len(stack) : left[i] = IF i = Depth THEN rest ELSE stack[i]
    BY <1>2, <2>1, ExceptSeq
  <2> HIDE DEF left
  <2> QED BY <1>1, <2>1, <2>2
<1> HIDE DEF left
<1>6. /\ DOMAIN stack' = 1 .. Depth + 1 /\ stack'[Depth + 1] = x
      /\ \A i \in 1 .. Depth : stack'[i] = left[i]
  BY <1>1, <1>3, <1>4
<1>7. Len(stack) = Depth
  BY DEF Depth
<1> SUFFICES ASSUME NEW i \in HoldingIn(stack')
             PROVE  i \in HoldingIn(stack) /\ stack'[i] = stack[i] /\ i < Depth
  BY <1>7
<1>8. i \in 1 .. Depth + 1 /\ Holds(stack'[i])
  BY <1>6 DEF HoldingIn
<1>9. i # Depth + 1 /\ i # Depth
  BY <1>1, <1>2, <1>4, <1>6, <1>8
<1>10. i \in 1 .. Depth - 1 /\ i \in 1 .. Depth /\ i < Depth
  BY <1>1, <1>8, <1>9
<1> QED BY <1>1, <1>4, <1>6, <1>8, <1>10 DEF HoldingIn

LEMMA CountersParse ==
  ASSUME Inv, CountersInv, Parse
  PROVE  CountersInv'
<1>1. CASE Quit
  BY <1>1 DEF Quit, CountersInv
<1>2. CASE Plain
  <2> DEFINE x == Parsing(Tail(Top.cmds), "set")
  <2>1. Sound(stack) /\ stack # <<>> /\ ~ Holds(x) /\ Become(x)
    BY <1>2, NextCommand DEF Plain, Parsing, Holds
  <2> HIDE DEF x
  <2>2. \A i \in HoldingIn(stack') :
          i \in HoldingIn(stack) /\ stack'[i] = stack[i] /\ i < Len(stack)
    BY <2>1, BecomeHolding
  <2> QED BY <1>2, <2>2, CountersQuiet DEF Plain
<1>3. CASE Exec
  <2>1. \A i \in HoldingIn(stack') :
          i \in HoldingIn(stack) /\ stack'[i] = stack[i] /\ i < Len(stack)
    BY <1>3, CountersCallBuild, NextCommand DEF Exec
  <2> QED BY <1>3, <2>1, CountersQuiet DEF Exec
<1>4. ASSUME NEW second, NEW third, Run(second, third) PROVE CountersInv'
  <2>1. \A i \in HoldingIn(stack') :
          i \in HoldingIn(stack) /\ stack'[i] = stack[i] /\ i < Len(stack)
    BY <1>4, CountersCallBuild, NextCommand DEF Run
  <2> QED BY <1>4, <2>1, CountersQuiet DEF Run
<1>5. CASE BackToPrompt
  <2>1. HoldingIn(stack') = {}
    BY <1>5 DEF BackToPrompt, HoldingIn
  <2> QED BY <1>5, <2>1, CountersQuiet DEF BackToPrompt
<1> QED BY <1>1, <1>2, <1>3, <1>4, <1>5 DEF Parse

(* The ready queue grows by a process that has not begun. *)
LEMMA CountersNewProcess ==
  ASSUME Inv, CountersInv, NEW a \in Addr, a \notin mem.live,
         BuildsNext, BuildRest, ready' = AppendProcess(ready, a),
         \A b \in Addr : b # a => SameCounters(mem, mem', b),
         mem'.pcbs[a].program_counter = 0, mem'.pcbs[a].file_length \in Nat
  PROVE  CountersInv'
<1> DEFINE x == Building(Tail(Top.programs), Top.policy)
<1>1. Sound(stack) /\ stack # <<>> /\ ~ Holds(x) /\ Become(x)
  BY NextToBuild DEF BuildRest
<1> HIDE DEF x
<1>2. \A i \in HoldingIn(stack') :
        i \in HoldingIn(stack) /\ stack'[i] = stack[i] /\ i < Len(stack)
  BY <1>1, BecomeHolding
<1>3. \A b \in mem.live : b \in Addr /\ SameCounters(mem, mem', b)
  BY LiveAddr DEF Inv, HeldApart
<1>4. Queued(ready') = Queued(ready) \cup {a}
  BY AppendQueued DEF Inv, HeldApart
<1>5. Unfinished(mem'.pcbs[a])
  BY DEF Unfinished
<1>6. \A i \in HoldingIn(stack') :
        /\ i \in HoldingIn(stack) /\ stack'[i] = stack[i]
        /\ i < Len(stack') => i < Len(stack)
        /\ SameCounters(mem, mem', stack[i].cur)
  BY <1>2, <1>3, LiveAddr
<1>7. \A b \in Queued(ready') :
        \/ b \in Queued(ready) /\ SameCounters(mem, mem', b)
        \/ Unfinished(mem'.pcbs[b])
  BY <1>3, <1>4, <1>5, LiveAddr
<1> QED BY <1>6, <1>7, CountersStep

LEMMA DuplicateCounters ==
  ASSUME Inv, NEW a \in Addr, BuildDuplicate(a)
  PROVE  /\ mem'.pcbs[a].program_counter = 0 /\ mem'.pcbs[a].file_length \in Nat
         /\ \A b \in Addr : b # a => SameCounters(mem, mem', b)
<1> DEFINE places == DuplicatesOf(NextProgram)
           dup    == ready[FirstOf(places)]
<1>1. PagingInv(mem) /\ ready \in Seq(Addr)
  BY DEF Inv, HeldApart
<1>2. places # {} /\ places \subseteq 1 .. Len(ready) /\ Len(ready) \in Nat
  BY <1>1, LenProperties DEF BuildDuplicate, DuplicatesOf, Duplicates
<1>3. FirstOf(places) \in 1 .. Len(ready)
  <2> HIDE DEF places
  <2>1. places \in SUBSET Nat
    BY <1>2
  <2> QED BY <1>2, <2>1, FirstOfPlaces
<1>4. dup \in Addr /\ dup \in Queued(ready)
  BY <1>1, <1>3, LenProperties, ElementOfSeq DEF Queued
<1>5. mem' = PcbDupInit(mem, a, dup) /\ a \notin mem.live
  BY DEF BuildDuplicate
<1> HIDE DEF dup, places
<1>6. a # dup
  BY <1>4, <1>5, LiveAddr
<1>7. /\ mem'.pcbs[a].program_counter = 0
      /\ mem'.pcbs[a].file_length = mem.pcbs[dup].file_length
      /\ \A b \in Addr : b # a => mem'.pcbs[b] = mem.pcbs[b]
  BY <1>1, <1>4, <1>5, <1>6, PcbDupInitKeepsInv
<1>8. mem'.pcbs[a].file_length \in Nat
  BY <1>4, <1>7, ProcessFields
<1> QED BY <1>7, <1>8 DEF SameCounters

LEMMA NewCounters ==
  ASSUME Inv, NEW a \in Addr, BuildNew(a)
  PROVE  /\ mem'.pcbs[a].program_counter = 0 /\ mem'.pcbs[a].file_length \in Nat
         /\ \A b \in Addr : b # a => SameCounters(mem, mem', b)
<1>1. PagingInv(mem) /\ NextProgram \in Files /\ a \notin mem.live
      /\ mem' = PcbInit(mem, a, NextProgram)
  BY DEF Inv, BuildNew
<1>2. Len(Source[NextProgram]) \in Nat
  BY <1>1, SchedulerAssumption
<1>3. /\ mem'.pcbs[a].program_counter = 0
      /\ mem'.pcbs[a].file_length = FileLength(NextProgram)
      /\ \A b \in Addr : b # a => SameCounters(mem, mem', b)
  BY <1>1, <1>2, PcbInitKeepsInv DEF SameCounters
<1>4. mem'.pcbs[a].file_length \in Nat
  BY <1>1, <1>2, <1>3, FileLengthFits, Constants
<1> QED BY <1>3, <1>4

LEMMA CountersBuild ==
  ASSUME Inv, CountersInv, BuildReadyQueue
  PROVE  CountersInv'
<1>1. CASE SkipNull
  <2> DEFINE x == Building(Tail(Top.programs), Top.policy)
  <2>1. Sound(stack) /\ stack # <<>> /\ ~ Holds(x) /\ Become(x)
    BY <1>1, NextToBuild DEF SkipNull, BuildRest
  <2> HIDE DEF x
  <2>2. \A i \in HoldingIn(stack') :
          i \in HoldingIn(stack) /\ stack'[i] = stack[i] /\ i < Len(stack)
    BY <2>1, BecomeHolding
  <2> QED BY <1>1, <2>2, CountersQuiet DEF SkipNull
<1>2. ASSUME BuildMissing \/ InvalidPolicy \/ BuildWild PROVE CountersInv'
  <2>1. UNCHANGED <<mem, ready>>
    BY <1>2 DEF BuildMissing, InvalidPolicy, BuildWild
  <2>2. Sound(stack) /\ stack # <<>> /\ Top.at = "build"
    BY <1>2 DEF Inv, BuildMissing, InvalidPolicy, BuildWild, BuildsNext, Running
  <2>3. CASE ReturnToParse("set")
    <3>1. \A i \in HoldingIn(stack') :
            i \in HoldingIn(stack) /\ stack'[i] = stack[i] /\ i < Len(stack)
      BY <2>2, <2>3, ReturnHolding DEF Err
    <3> QED BY <2>1, <3>1, CountersQuiet
  <2>4. CASE UNCHANGED stack
    BY <2>1, <2>4 DEF CountersInv
  <2> QED BY <1>2, <2>3, <2>4 DEF BuildMissing, InvalidPolicy, BuildWild
<1>3. CASE BuildOutOfMemory
  BY <1>3 DEF BuildOutOfMemory, CountersInv
<1>4. CASE StartPolicy
  <2> DEFINE x == Looping(Top.policy, NULL, 0, "unset")
  <2>1. Sound(stack) /\ stack # <<>> /\ ~ Holds(x) /\ Become(x)
    BY <1>4 DEF StartPolicy, Running, Inv, Looping, Holds
  <2> HIDE DEF x
  <2>2. \A i \in HoldingIn(stack') :
          i \in HoldingIn(stack) /\ stack'[i] = stack[i] /\ i < Len(stack)
    BY <2>1, BecomeHolding
  <2>3. Queued(ready') = Queued(ready)
    BY <1>4, SortPermutes DEF StartPolicy, Inv, HeldApart
  <2> QED BY <1>4, <2>2, <2>3, CountersQuiet DEF StartPolicy
<1>5. ASSUME NEW a \in Addr, BuildDuplicate(a) PROVE CountersInv'
  BY <1>5, DuplicateCounters, CountersNewProcess DEF BuildDuplicate
<1>6. ASSUME NEW a \in Addr, BuildNew(a) PROVE CountersInv'
  BY <1>6, NewCounters, CountersNewProcess DEF BuildNew
<1> QED BY <1>1, <1>2, <1>3, <1>4, <1>5, <1>6 DEF BuildReadyQueue

-----------------------------------------------------------------------------
LEMMA CountersPickNext ==
  ASSUME Inv, CountersInv, PickNext
  PROVE  CountersInv'
<1> DEFINE x == Looping(Top.policy, Head(ready), 0, Top.err)
<1>1. Sound(stack) /\ stack # <<>> /\ Become(x) /\ UNCHANGED mem
  BY DEF PickNext, Running, Inv
<1>2. x.cur = Head(ready)
  BY DEF Looping
<1> HIDE DEF x
<1>3. Head(ready) \in Queued(ready) /\ Queued(ready') \subseteq Queued(ready)
  BY TailQueued DEF PickNext, Inv, HeldApart
<1>4. Head(ready) \in Addr /\ Unfinished(mem'.pcbs[Head(ready)])
  BY <1>1, <1>3, LiveAddr DEF CountersInv
<1>5. InBounds(mem'.pcbs[Head(ready)])
  BY <1>1, <1>4, ProcessFields DEF Unfinished, InBounds
<1>6. \A i \in HoldingIn(stack') :
        \/ /\ i \in HoldingIn(stack) /\ stack'[i] = stack[i] /\ i < Len(stack)
        \/ HeldSound(mem', stack', i)
  BY <1>1, <1>2, <1>4, <1>5, BecomeHolding DEF HeldSound
<1> QED BY <1>1, <1>3, <1>6, CountersStep, SameEverywhere

LEMMA CountersSchedulerReturns ==
  ASSUME Inv, CountersInv, SchedulerReturns
  PROVE  CountersInv'
<1>1. Sound(stack) /\ stack # <<>> /\ Top.at = "loop" /\ Top.err \in Err
  BY TopFacts, ActivationFields DEF SchedulerReturns, Running, Inv
<1>2. \A i \in HoldingIn(stack') :
        i \in HoldingIn(stack) /\ stack'[i] = stack[i] /\ i < Len(stack)
  BY <1>1, ReturnHolding DEF SchedulerReturns
<1> QED BY <1>2, CountersQuiet DEF SchedulerReturns

(* The process in the scheduler's hands, at the start of a turn's step. *)
LEMMA TurnCounters ==
  ASSUME Inv, CountersInv, InTurn
  PROVE  InBounds(Current) /\ (Top.policy = "AGING" => Unfinished(Current))
<1>1. Holds(Top) /\ Depth \in DOMAIN stack
  BY TurnFacts, TopFacts
<1>2. Depth \in HoldingIn(stack)
  BY <1>1 DEF HoldingIn, Top
<1> QED BY <1>2 DEF CountersInv, HeldSound, Current, Top

LEMMA TurnUnfinished ==
  ASSUME Inv, CountersInv, InTurn, ~ Exhausted
  PROVE  Unfinished(Current)
<1>1. InBounds(Current) /\ (Top.policy = "AGING" => Unfinished(Current))
  BY TurnCounters
<1>2. /\ Current.program_counter \in Nat /\ Current.file_length \in Nat
      /\ Top.policy \in Policy
  BY TurnFacts, ProcessFields DEF Current
<1>3. CASE Top.policy \in {"FCFS", "SJF"}
  BY <1>2, <1>3 DEF Exhausted, Unfinished, RoundRobin
<1>4. CASE RoundRobin
  BY <1>1, <1>2, <1>4 DEF Exhausted, Unfinished, InBounds, RoundRobin
<1>5. CASE Top.policy = "AGING"
  BY <1>1, <1>5
<1> QED BY <1>2, <1>3, <1>4, <1>5 DEF Policy, RoundRobin

(* The turn ends. *)
LEMMA CountersLetGo ==
  ASSUME Inv, CountersInv, InTurn, Become(NoTurn(Top.err)),
         \A a \in Addr : SameCounters(mem, mem', a),
         \/ Queued(ready') \subseteq Queued(ready)
         \/ ~ Exhausted /\ Queued(ready') = Queued(ready) \cup {Top.cur}
  PROVE  CountersInv'
<1>1. Sound(stack) /\ stack # <<>> /\ ~ Holds(NoTurn(Top.err)) /\ Top.cur \in Addr
  BY TurnFacts DEF NoTurn, Looping, Holds
<1>2. \A i \in HoldingIn(stack') :
        i \in HoldingIn(stack) /\ stack'[i] = stack[i] /\ i < Len(stack)
  BY <1>1, BecomeHolding
<1>3. \A i \in HoldingIn(stack') :
        /\ i \in HoldingIn(stack) /\ stack'[i] = stack[i]
        /\ i < Len(stack') => i < Len(stack)
        /\ SameCounters(mem, mem', stack[i].cur)
  BY <1>2, LiveAddr
<1>4. ~ Exhausted => Unfinished(mem'.pcbs[Top.cur])
  BY <1>1, TurnUnfinished DEF SameCounters, Unfinished, Current
<1>5. \A a \in Queued(ready') :
        \/ a \in Queued(ready) /\ SameCounters(mem, mem', a)
        \/ Unfinished(mem'.pcbs[a])
  BY <1>4, LiveAddr
<1> QED BY <1>3, <1>5, CountersStep

(* A line starts: it is still to be counted while it runs. *)
LEMMA CountersLineStarts ==
  ASSUME Inv, CountersInv, InTurn, ~ Exhausted, NEW cmds \in Seq(Command),
         Call(Parsing(cmds, "unset")), UNCHANGED ready,
         \A a \in Addr : SameCounters(mem, mem', a)
  PROVE  CountersInv'
<1> DEFINE x == Parsing(cmds, "unset")
<1>1. x \in Activation /\ ~ Holds(x)
  BY ParsingType DEF Err
<1>2. Sound(stack) /\ Top.cur \in Addr /\ Call(x)
  BY TurnFacts
<1> HIDE DEF x
<1>3. /\ HoldingIn(stack') = HoldingIn(stack)
      /\ \A i \in HoldingIn(stack) : i \in 1 .. Depth /\ stack'[i] = stack[i]
  BY <1>1, <1>2, PushHolding
<1>4. Unfinished(mem'.pcbs[Top.cur]) /\ InBounds(mem'.pcbs[Top.cur])
  BY <1>2, TurnUnfinished, TurnCounters DEF SameCounters, Unfinished, InBounds, Current
<1>5. ASSUME NEW i \in HoldingIn(stack')
      PROVE  \/ /\ i \in HoldingIn(stack) /\ stack'[i] = stack[i]
                /\ i < Len(stack') => i < Len(stack)
                /\ SameCounters(mem, mem', stack[i].cur)
             \/ HeldSound(mem', stack', i)
  <2>1. CASE i = Depth
    BY <2>1, <1>3, <1>4 DEF HeldSound, Top
  <2>2. CASE i # Depth
    <3>1. Depth \in Nat /\ i \in 1 .. Depth
      BY <1>2, <1>3, LenProperties DEF Sound, Depth
    <3>2. i < Len(stack)
      BY <3>1, <2>2 DEF Depth
    <3> QED BY <3>2, <1>3, LiveAddr
  <2> QED BY <2>1, <2>2
<1>6. \A a \in Queued(ready') : a \in Queued(ready) /\ SameCounters(mem, mem', a)
  BY LiveAddr
<1> QED BY <1>5, <1>6, CountersStep

LEMMA FaultCounters ==
  ASSUME Inv, Faults
  PROVE  /\ InTurn /\ ~ Exhausted
         /\ \A a \in Addr : SameCounters(mem, FaultedMem, a)
BY FaultedFacts DEF SameProcesses, SameCounters, Faults, WantsLine

LEMMA CountersTurn ==
  ASSUME Inv, CountersInv,
         \/ Retire \/ Requeue \/ Execute \/ FaultAndRetry \/ FaultAndYield
         \/ FaultAndExecute
  PROVE  CountersInv'
<1>1. CASE Retire
  <2>1. mem'.pcbs = mem.pcbs
    BY <1>1, TurnFacts, PcbDeinitKeepsInv DEF Retire
  <2>2. \A a \in Addr : SameCounters(mem, mem', a)
    BY <2>1 DEF SameCounters
  <2> QED BY <1>1, <2>2, CountersLetGo DEF Retire
<1>2. CASE Requeue
  <2>1. Queued(ready') = Queued(ready) \cup {Top.cur}
    BY <1>2, TurnFacts, AppendQueued DEF Requeue, Inv, HeldApart
  <2> QED BY <1>2, <2>1, CountersLetGo, SameEverywhere DEF Requeue
<1>3. CASE Execute
  <2>1. CurFrame \in Frame /\ CurOffset \in Offset
    BY <1>3, CurrentPlace DEF Execute, WantsLine
  <2>2. Fetch(mem, CurFrame, CurOffset) \in Seq(Command)
    BY <2>1, FetchType DEF Inv
  <2>3. mem'.pcbs = mem.pcbs
    BY <1>3, <2>1, TouchKeepsInv DEF Execute, Inv
  <2>4. \A a \in Addr : SameCounters(mem, mem', a)
    BY <2>3 DEF SameCounters
  <2> QED BY <1>3, <2>2, <2>4, CountersLineStarts DEF Execute, WantsLine
<1>4. CASE FaultAndRetry
  <2>1. \A a \in Addr : SameCounters(mem, mem', a)
    BY <1>4, FaultCounters DEF FaultAndRetry
  <2>2. UNCHANGED <<stack, ready>>
    BY <1>4 DEF FaultAndRetry
  <2> QED BY <2>1, <2>2, CountersStep, LiveAddr
<1>5. CASE FaultAndYield
  <2>1. Queued(ready') = Queued(ready) \cup {Top.cur}
    BY <1>5, FaultCounters, TurnFacts, AppendQueued DEF FaultAndYield, Inv, HeldApart
  <2> QED BY <1>5, <2>1, FaultCounters, CountersLetGo DEF FaultAndYield
<1>6. CASE FaultAndExecute
  <2>1. PagingInv(FaultedMem) /\ FaultFrame(mem) \in Frame /\ InTurn
    BY <1>6, FaultedFacts DEF FaultAndExecute
  <2>2. Fetch(FaultedMem, FaultFrame(mem), CurOffset) \in Seq(Command)
    BY <2>1, CurrentPlace, FetchType
  <2>3. mem'.pcbs = FaultedMem.pcbs
    BY <1>6, <2>1, TouchKeepsInv DEF FaultAndExecute
  <2>4. \A a \in Addr : SameCounters(mem, mem', a)
    BY <1>6, <2>3, FaultCounters DEF SameCounters, FaultAndExecute
  <2> QED BY <1>6, <2>2, <2>4, FaultCounters, CountersLineStarts DEF FaultAndExecute
<1> QED BY <1>1, <1>2, <1>3, <1>4, <1>5, <1>6

-----------------------------------------------------------------------------
(* The end of a line: the scheduler that waited for it is on top again. *)

LEMMA WaitingCounters ==
  ASSUME Inv, CountersInv, LineFinished, Depth > 1
  PROVE  /\ Unfinished(mem.pcbs[Waiting.cur])
         /\ InBounds(Advanced.pcbs[Waiting.cur])
         /\ Advanced.pcbs[Waiting.cur].program_counter \in Nat
         /\ Advanced.pcbs[Waiting.cur].file_length \in Nat
         /\ \A a \in Addr : a # Waiting.cur => SameCounters(mem, Advanced, a)
         /\ \A i \in HoldingIn(stack) : i \in 1 .. Depth - 2 =>
                                          stack[i].cur # Waiting.cur
<1>1. /\ Holds(Waiting) /\ Waiting.cur \in Addr /\ DOMAIN stack = 1 .. Depth
      /\ Depth \in Nat
  BY WaitingFacts, TopFacts
<1>2. Depth - 1 \in HoldingIn(stack) /\ Depth - 1 < Len(stack)
  BY <1>1 DEF HoldingIn, Waiting, Depth
<1>3. Unfinished(mem.pcbs[Waiting.cur])
  BY <1>2 DEF CountersInv, HeldSound, Waiting
<1>4. /\ mem.pcbs \in [Addr -> Pcb]
      /\ mem.pcbs[Waiting.cur].program_counter \in Nat
      /\ mem.pcbs[Waiting.cur].file_length \in Nat
  BY <1>1, ProcessFields, MemFields DEF Inv, PagingInv, PagingTypeOK
<1>5. Advanced.pcbs = [mem.pcbs EXCEPT ![Waiting.cur].program_counter = @ + 1]
  BY AdvancedFacts
<1>6. /\ Advanced.pcbs[Waiting.cur].program_counter
           = mem.pcbs[Waiting.cur].program_counter + 1
      /\ Advanced.pcbs[Waiting.cur].file_length = mem.pcbs[Waiting.cur].file_length
  BY <1>1, <1>4, <1>5 DEF Pcb
<1>7. \A a \in Addr : a # Waiting.cur => SameCounters(mem, Advanced, a)
  BY <1>1, <1>4, <1>5 DEF SameCounters
<1>8. InBounds(Advanced.pcbs[Waiting.cur])
  BY <1>3, <1>4, <1>6 DEF Unfinished, InBounds
<1>9. ASSUME NEW i \in HoldingIn(stack), i \in 1 .. Depth - 2
      PROVE  stack[i].cur # Waiting.cur
  <2>1. i # Depth - 1
    BY <1>1, <1>9
  <2> QED BY <1>2, <2>1 DEF Inv, Sound, Once, Waiting
<1> QED BY <1>3, <1>4, <1>6, <1>7, <1>8, <1>9

(* Every place below the scheduler is as it was. *)
LEMMA ResumedHolding ==
  ASSUME Inv, CountersInv, LineFinished, Depth > 1, NEW cur, NEW k, Resume(cur, k),
         \A a \in Addr : a # Waiting.cur => SameCounters(mem, mem', a)
  PROVE  \A i \in HoldingIn(stack') :
           \/ /\ i \in HoldingIn(stack) /\ stack'[i] = stack[i]
              /\ i < Len(stack)
              /\ SameCounters(mem, mem', stack[i].cur)
           \/ /\ i = Depth - 1 /\ ~ (i < Len(stack')) /\ cur # NULL
              /\ stack'[i] = Looping(Waiting.policy, cur, k, Top.err)
<1> DEFINE x == Looping(Waiting.policy, cur, k, Top.err)
<1>1. Holds(x) => cur # NULL
  BY DEF Holds, Looping
<1>2. /\ Sound(stack)
      /\ stack' = [SubSeq(stack, 1, Depth - 1) EXCEPT ![Depth - 1] = x]
  BY WaitingFacts DEF Resume
<1> HIDE DEF x
<1>3. \A i \in HoldingIn(stack') :
        \/ i \in HoldingIn(stack) /\ stack'[i] = stack[i] /\ i < Len(stack)
           /\ i \in 1 .. Depth - 2
        \/ i = Depth - 1 /\ Holds(x) /\ stack'[i] = x /\ ~ (i < Len(stack'))
  BY <1>2, PopHolding
<1>4. ASSUME NEW i \in HoldingIn(stack), i \in 1 .. Depth - 2
      PROVE  SameCounters(mem, mem', stack[i].cur)
  BY <1>4, WaitingCounters, LiveAddr
<1> QED BY <1>1, <1>3, <1>4 DEF x

LEMMA CountersLineDone ==
  ASSUME Inv, CountersInv, LineDone
  PROVE  CountersInv'
<1>1. /\ mem' = Advanced /\ LineFinished /\ Depth > 1 /\ Waiting.policy # "AGING"
      /\ Resume(Waiting.cur, Waiting.k + 1) /\ UNCHANGED ready
  BY DEF LineDone
<1>2. InBounds(mem'.pcbs[Waiting.cur])
      /\ \A a \in Addr : a # Waiting.cur => SameCounters(mem, mem', a)
  BY <1>1, WaitingCounters
<1>3. \A i \in HoldingIn(stack') :
        \/ /\ i \in HoldingIn(stack) /\ stack'[i] = stack[i]
           /\ i < Len(stack') => i < Len(stack)
           /\ SameCounters(mem, mem', stack[i].cur)
        \/ HeldSound(mem', stack', i)
  <2> DEFINE x == Looping(Waiting.policy, Waiting.cur, Waiting.k + 1, Top.err)
  <2>1. x.cur = Waiting.cur /\ x.policy # "AGING"
    BY <1>1 DEF Looping
  <2> HIDE DEF x
  <2>2. \A i \in HoldingIn(stack') :
          \/ /\ i \in HoldingIn(stack) /\ stack'[i] = stack[i] /\ i < Len(stack)
             /\ SameCounters(mem, mem', stack[i].cur)
          \/ ~ (i < Len(stack')) /\ stack'[i] = x
    BY <1>1, <1>2, ResumedHolding DEF x
  <2>3. ASSUME NEW i, ~ (i < Len(stack')), stack'[i] = x PROVE HeldSound(mem', stack', i)
    BY <1>2, <2>1, <2>3 DEF HeldSound
  <2> QED BY <2>2, <2>3
<1>4. \A a \in Queued(ready') : a \in Queued(ready) /\ SameCounters(mem, mem', a)
  BY <1>1, <1>2, LiveAddr, WaitingFacts
<1> QED BY <1>3, <1>4, CountersStep

LEMMA CountersAgingRetires ==
  ASSUME Inv, CountersInv, AgingRetires
  PROVE  CountersInv'
<1>1. /\ mem' = PcbDeinit(Advanced, Waiting.cur) /\ LineFinished /\ Depth > 1
      /\ Resume(NULL, 0) /\ UNCHANGED ready
  BY DEF AgingRetires
<1>2. mem'.pcbs = Advanced.pcbs
  BY <1>1, AdvancedFacts, WaitingFacts, PcbDeinitKeepsInv
<1>3. \A a \in Addr : a # Waiting.cur => SameCounters(mem, mem', a)
  BY <1>1, <1>2, WaitingCounters DEF SameCounters
<1>4. \A i \in HoldingIn(stack') :
        /\ i \in HoldingIn(stack) /\ stack'[i] = stack[i]
        /\ i < Len(stack') => i < Len(stack)
        /\ SameCounters(mem, mem', stack[i].cur)
  BY <1>1, <1>3, ResumedHolding
<1>5. \A a \in Queued(ready') : a \in Queued(ready) /\ SameCounters(mem, mem', a)
  BY <1>1, <1>3, LiveAddr, WaitingFacts
<1> QED BY <1>4, <1>5, CountersStep

LEMMA CountersAgingRequeues ==
  ASSUME Inv, CountersInv, AgingRequeues
  PROVE  CountersInv'
<1>1. /\ mem' = AgedMem /\ LineFinished /\ Depth > 1 /\ ~ LastLine
      /\ Resume(NULL, 0)
      /\ ready' = SortReadyQueue(AppendLeftProcess(ready, Waiting.cur), Score(AgedMem))
  BY DEF AgingRequeues
<1>2. \A a \in Addr : SameCounters(Advanced, mem', a)
  BY <1>1, AgedFacts DEF SameCounters
<1>3. \A a \in Addr : a # Waiting.cur => SameCounters(mem, mem', a)
  BY <1>1, <1>2, WaitingCounters DEF SameCounters
<1>4. \A i \in HoldingIn(stack') :
        /\ i \in HoldingIn(stack) /\ stack'[i] = stack[i]
        /\ i < Len(stack') => i < Len(stack)
        /\ SameCounters(mem, mem', stack[i].cur)
  BY <1>1, <1>3, ResumedHolding
<1>5. Queued(ready') = Queued(ready) \cup {Waiting.cur}
  <2> DEFINE queue == AppendLeftProcess(ready, Waiting.cur)
  <2>1. queue \in Seq(Addr) /\ Queued(queue) = Queued(ready) \cup {Waiting.cur}
    BY <1>1, WaitingFacts, AppendLeftQueued DEF Inv, HeldApart
  <2> HIDE DEF queue
  <2>2. Queued(SortReadyQueue(queue, Score(AgedMem))) = Queued(queue)
    BY <2>1, SortPermutes
  <2> QED BY <1>1, <2>1, <2>2 DEF queue
<1>6. Unfinished(mem'.pcbs[Waiting.cur])
  <2>1. Unfinished(Advanced.pcbs[Waiting.cur])
    BY <1>1, WaitingCounters DEF LastLine, Unfinished, InBounds
  <2> QED BY <2>1, <1>1, <1>2, WaitingFacts DEF SameCounters, Unfinished
<1>7. \A a \in Queued(ready') :
        \/ a \in Queued(ready) /\ SameCounters(mem, mem', a)
        \/ Unfinished(mem'.pcbs[a])
  BY <1>1, <1>3, <1>5, <1>6, LiveAddr, WaitingFacts
<1> QED BY <1>4, <1>7, CountersStep

LEMMA CountersNext ==
  ASSUME Inv, CountersInv, [Next]_vars
  PROVE  CountersInv'
<1>1. CASE Schedule
  BY <1>1, CountersPickNext, CountersSchedulerReturns, CountersTurn,
     CountersLineDone, CountersAgingRetires, CountersAgingRequeues
     DEF Schedule, FaultCrashes, PageTableOverrun, CountersInv
<1>2. CASE Ended \/ UNCHANGED vars
  BY <1>2 DEF Ended, vars, CountersInv
<1> QED BY <1>1, <1>2, CountersType, CountersParse, CountersBuild DEF Next, Work

(* No scheduler runs a process past the end of its script, and none finds  *)
(* a finished process in the queue, whichever of them queued it.           *)
THEOREM LinesAreLeft == Spec => []QueuedHaveLinesLeft
<1>1. Spec => [](Inv /\ CountersInv)
  BY InvInit, InvNext, CountersInit, CountersNext, PTL DEF Spec
<1> QED BY <1>1, CountersLinesLeft, PTL

-----------------------------------------------------------------------------
(* What is queued while no scheduler is active has not begun. *)

Scheduling(s) == \E i \in DOMAIN s : s[i].at = "loop"

IdleInv == Scheduling(stack) \/ \A a \in Queued(ready) : mem.pcbs[a].program_counter = 0

LEMMA IdleHalfRun ==
  ASSUME IdleInv
  PROVE  NothingHalfRun
BY DEF IdleInv, Scheduling, NothingHalfRun

(* A step that leaves a scheduler active, or changes neither the queue nor *)
(* the processes in it and takes no scheduler off the stack.               *)
LEMMA IdleSchedulerActive ==
  ASSUME Scheduling(stack')
  PROVE  IdleInv'
BY DEF IdleInv

LEMMA IdleQuiet ==
  ASSUME IdleInv, UNCHANGED <<mem, ready>>, Scheduling(stack) => Scheduling(stack')
  PROVE  IdleInv'
BY DEF IdleInv

LEMMA BecomeScheduling ==
  ASSUME Sound(stack), stack # <<>>, NEW x, Become(x)
  PROVE  /\ x.at = "loop" => Scheduling(stack')
         /\ Top.at # "loop" /\ Scheduling(stack) => Scheduling(stack')
         /\ Top.at # "loop" /\ x.at # "loop" /\ Scheduling(stack') => Scheduling(stack)
<1>1. DOMAIN stack = 1 .. Depth /\ Depth \in Nat \ {0} /\ Top = stack[Depth]
  BY TopFacts DEF Top
<1>2. /\ DOMAIN stack' = 1 .. Depth /\ stack'[Depth] = x
      /\ \A i \in 1 .. Depth - 1 : stack'[i] = stack[i]
  BY BecomeShape
<1>3. \A i \in 1 .. Depth : i = Depth \/ i \in 1 .. Depth - 1
  BY <1>1
<1>4. Depth \in 1 .. Depth /\ \A i \in 1 .. Depth - 1 : i \in 1 .. Depth
  BY <1>1
<1> QED BY <1>1, <1>2, <1>3, <1>4 DEF Scheduling

LEMMA ReturnScheduling ==
  ASSUME Sound(stack), stack # <<>>, Top.at = "build", NEW err \in Err,
         ReturnToParse(err), Scheduling(stack)
  PROVE  Scheduling(stack')
<1>1. DOMAIN stack = 1 .. Depth /\ Depth \in Nat \ {0} /\ Top = stack[Depth]
  BY TopFacts DEF Top
<1>2. /\ DOMAIN stack' = 1 .. Depth - 1 /\ stack[Depth - 1].at = "parse"
      /\ \A i \in 1 .. Depth - 2 : stack'[i] = stack[i]
  BY ReturnShape
<1>3. PICK i \in 1 .. Depth : stack[i].at = "loop"
  BY <1>1 DEF Scheduling
<1>4. i \in 1 .. Depth - 2 /\ i \in 1 .. Depth - 1
  BY <1>1, <1>2, <1>3
<1> QED BY <1>2, <1>3, <1>4 DEF Scheduling

LEMMA IdleParse ==
  ASSUME Inv, IdleInv, Type \/ Parse
  PROVE  IdleInv'
<1>1. UNCHANGED <<mem, ready>>
  BY DEF Type, EndOfInput, ReadLine, Parse, Plain, Quit, Exec, Run, BackToPrompt
<1>2. CASE Type
  <2>1. stack = <<>> \/ UNCHANGED stack
    BY <1>2 DEF Type, EndOfInput, ReadLine
  <2> QED BY <1>1, <2>1, IdleQuiet DEF Scheduling
<1>3. CASE Quit
  BY <1>1, <1>3, IdleQuiet DEF Quit
<1>4. CASE Plain
  <2> DEFINE x == Parsing(Tail(Top.cmds), "set")
  <2>1. Sound(stack) /\ stack # <<>> /\ Top.at = "parse" /\ Become(x)
    BY <1>4, NextCommand DEF Plain
  <2> HIDE DEF x
  <2> QED BY <1>1, <2>1, BecomeScheduling, IdleQuiet
<1>5. ASSUME NEW programs, NEW policy, CallBuild(programs, policy),
             stack # <<>>, Top.at = "parse"
      PROVE  IdleInv'
  <2> DEFINE left == [stack EXCEPT ![Depth].cmds = Tail(@)]
             x    == Building(programs, policy)
  <2>1. Depth \in Nat \ {0} /\ DOMAIN stack = 1 .. Depth /\ Top = stack[Depth]
    BY <1>5, TopFacts DEF Inv, Top
  <2>2. stack' = Append(left, x)
    BY <1>5 DEF CallBuild
  <2>3. DOMAIN left = 1 .. Depth /\ \A i \in 1 .. Depth : i # Depth => left[i] = stack[i]
    BY <2>1
  <2> HIDE DEF left, x
  <2>4. Len(left) = Depth
    BY <2>1, <2>3
  <2>5. DOMAIN stack' = 1 .. Depth + 1 /\ \A i \in 1 .. Depth : stack'[i] = left[i]
    BY <2>1, <2>2, <2>4
  <2>6. ASSUME NEW i \in 1 .. Depth, stack[i].at = "loop" PROVE Scheduling(stack')
    <3>1. i # Depth /\ i \in 1 .. Depth + 1
      BY <1>5, <2>1, <2>6
    <3> QED BY <2>3, <2>5, <2>6, <3>1 DEF Scheduling
  <2>7. Scheduling(stack) => Scheduling(stack')
    BY <2>1, <2>6 DEF Scheduling
  <2> QED BY <1>1, <2>7, IdleQuiet
<1>6. CASE Exec
  BY <1>5, <1>6, NextCommand DEF Exec
<1>7. ASSUME NEW second, NEW third, Run(second, third) PROVE IdleInv'
  BY <1>5, <1>7, NextCommand DEF Run
<1>8. CASE BackToPrompt
  <2>1. Depth = 1 /\ Top.at = "parse" /\ Sound(stack) /\ stack # <<>>
    BY <1>8 DEF BackToPrompt, LineFinished, Running, Inv
  <2>2. ~ Scheduling(stack)
    <3>1. DOMAIN stack = 1 .. 1 /\ stack[1].at = "parse"
      BY <2>1, TopFacts DEF Top
    <3> QED BY <3>1 DEF Scheduling
  <2> QED BY <1>1, <2>2, IdleQuiet
<1> QED BY <1>2, <1>3, <1>4, <1>6, <1>7, <1>8 DEF Parse

LEMMA IdleBuild ==
  ASSUME Inv, IdleInv, BuildReadyQueue
  PROVE  IdleInv'
<1>1. Sound(stack) /\ stack # <<>> /\ Top.at = "build"
  BY DEF BuildReadyQueue, SkipNull, BuildMissing, BuildWild, BuildOutOfMemory,
         BuildDuplicate, BuildNew, StartPolicy, InvalidPolicy, BuildsNext, Running, Inv
<1>2. CASE StartPolicy
  <2> DEFINE x == Looping(Top.policy, NULL, 0, "unset")
  <2>1. Become(x) /\ x.at = "loop"
    BY <1>2 DEF StartPolicy, Looping
  <2> HIDE DEF x
  <2> QED BY <1>1, <2>1, BecomeScheduling, IdleSchedulerActive
<1>3. ASSUME BuildMissing \/ InvalidPolicy \/ BuildWild PROVE IdleInv'
  <2>1. UNCHANGED <<mem, ready>> /\ (ReturnToParse("set") \/ UNCHANGED stack)
    BY <1>3 DEF BuildMissing, InvalidPolicy, BuildWild
  <2> QED BY <1>1, <2>1, ReturnScheduling, IdleQuiet DEF Err
<1>4. CASE BuildOutOfMemory
  BY <1>4, IdleQuiet DEF BuildOutOfMemory
<1>5. BuildRest => (Scheduling(stack) => Scheduling(stack'))
  BY <1>1, BecomeScheduling DEF BuildRest
<1>6. CASE SkipNull
  BY <1>5, <1>6, IdleQuiet DEF SkipNull
<1>7. ASSUME NEW a \in Addr, a \notin mem.live, ready' = AppendProcess(ready, a),
             mem'.pcbs[a].program_counter = 0, BuildRest,
             \A b \in Addr : b # a => SameCounters(mem, mem', b)
      PROVE  IdleInv'
  <2>1. Queued(ready') = Queued(ready) \cup {a}
    BY <1>7, AppendQueued DEF Inv, HeldApart
  <2>2. \A b \in Queued(ready) : SameCounters(mem, mem', b)
    BY <1>7, LiveAddr
  <2> QED BY <1>5, <1>7, <2>1, <2>2 DEF IdleInv, SameCounters
<1>8. ASSUME NEW a \in Addr, BuildDuplicate(a) PROVE IdleInv'
  BY <1>7, <1>8, DuplicateCounters DEF BuildDuplicate, SameCounters
<1>9. ASSUME NEW a \in Addr, BuildNew(a) PROVE IdleInv'
  BY <1>7, <1>9, NewCounters DEF BuildNew
<1> QED BY <1>2, <1>3, <1>4, <1>6, <1>8, <1>9 DEF BuildReadyQueue

LEMMA IdleSchedule ==
  ASSUME Inv, IdleInv, Schedule
  PROVE  IdleInv'
<1>1. Sound(stack)
  BY DEF Inv
<1>2. CASE SchedulerReturns
  <2>1. Queued(ready') = {}
    BY <1>2 DEF SchedulerReturns, Queued
  <2> QED BY <2>1 DEF IdleInv
<1>3. ASSUME stack # <<>>, Become(NoTurn(Top.err)) PROVE IdleInv'
  <2>1. NoTurn(Top.err).at = "loop"
    BY DEF NoTurn, Looping
  <2> QED BY <1>1, <1>3, <2>1, BecomeScheduling, IdleSchedulerActive
<1>4. CASE PickNext
  <2> DEFINE x == Looping(Top.policy, Head(ready), 0, Top.err)
  <2>1. stack # <<>> /\ Become(x) /\ x.at = "loop"
    BY <1>4 DEF PickNext, Running, Looping
  <2> HIDE DEF x
  <2> QED BY <1>1, <2>1, BecomeScheduling, IdleSchedulerActive
<1>5. CASE Retire \/ Requeue \/ FaultAndYield
  BY <1>3, <1>5 DEF Retire, Requeue, FaultAndYield, Faults, WantsLine, InTurn, Running
<1>6. ASSUME Running("loop"), UNCHANGED stack PROVE IdleInv'
  <2>1. Depth \in DOMAIN stack /\ Top.at = "loop"
    BY <1>1, <1>6, TopFacts DEF Running
  <2> QED BY <1>6, <2>1, IdleSchedulerActive DEF Scheduling, Top
<1>7. CASE FaultAndRetry \/ FaultCrashes \/ PageTableOverrun
  BY <1>6, <1>7 DEF FaultAndRetry, FaultCrashes, PageTableOverrun, Faults, WantsLine, InTurn
<1>8. CASE Execute \/ FaultAndExecute
  <2>1. PICK cmds : Call(Parsing(cmds, "unset"))
    BY <1>8 DEF Execute, FaultAndExecute
  <2> DEFINE x == Parsing(cmds, "unset")
  <2>2. Depth \in DOMAIN stack /\ Top.at = "loop" /\ Len(stack) = Depth /\ Depth \in Nat
    BY <1>1, <1>8, TopFacts DEF Execute, FaultAndExecute, Faults, WantsLine, InTurn,
                                Running, Depth
  <2> HIDE DEF x
  <2>3. Depth \in DOMAIN stack' /\ stack'[Depth] = stack[Depth]
    BY <1>1, <2>1, <2>2 DEF Call, Sound, x
  <2> QED BY <2>2, <2>3, IdleSchedulerActive DEF Scheduling, Top
<1>9. CASE LineDone \/ AgingRetires \/ AgingRequeues
  <2>1. PICK cur, k : Resume(cur, k)
    BY <1>9 DEF LineDone, AgingRetires, AgingRequeues
  <2>2. Depth > 1
    BY <1>9 DEF LineDone, AgingRetires, AgingRequeues
  <2>3. /\ Depth - 1 \in DOMAIN stack'
        /\ stack'[Depth - 1] = Looping(Waiting.policy, cur, k, Top.err)
    BY <1>1, <2>1, <2>2, ResumeShape
  <2> QED BY <2>3, IdleSchedulerActive DEF Scheduling, Looping
<1> QED BY <1>2, <1>4, <1>5, <1>7, <1>8, <1>9 DEF Schedule

(* The shell never goes back to the prompt with a process half run: what   *)
(* build_ready_queue leaves behind when it fails has not begun.            *)
THEOREM NoneHalfRun == Spec => []NothingHalfRun
<1>1. Init => IdleInv
  BY DEF Init, IdleInv, Queued
<1>2. ASSUME Inv, IdleInv, [Next]_vars PROVE IdleInv'
  <2>1. CASE Ended \/ UNCHANGED vars
    BY <1>2, <2>1 DEF Ended, vars, IdleInv
  <2> QED BY <1>2, <2>1, IdleParse, IdleBuild, IdleSchedule DEF Next, Work
<1>3. Spec => [](Inv /\ IdleInv)
  BY <1>1, <1>2, InvInit, InvNext, PTL DEF Spec
<1> QED BY <1>3, IdleHalfRun, PTL

-----------------------------------------------------------------------------
(* The shortest process in front *)

Rising(queue, score) ==
  \A i, j \in DOMAIN queue : i < j => score[queue[i]] <= score[queue[j]]

(* new is queue after a comparison of the places i and j. *)
Compared(S, queue, new, i, j, score) ==
  /\ new \in Seq(S) /\ Len(new) = Len(queue)
  /\ j > Len(queue) => new = queue
  /\ \A k \in 1 .. Len(queue) : k # i /\ k # j => new[k] = queue[k]
  /\ j <= Len(queue) =>
       \/ /\ new[i] = queue[i] /\ new[j] = queue[j]
          /\ score[queue[i]] <= score[queue[j]]
       \/ /\ new[i] = queue[j] /\ new[j] = queue[i]
          /\ score[queue[j]] <= score[queue[i]]

LEMMA ExchangeOrders ==
  ASSUME NEW S, NEW queue \in Seq(S), NEW score \in [S -> Int],
         NEW i \in Nat \ {0}, NEW j \in Nat, i < j
  PROVE  Compared(S, queue, Exchange(queue, i, j, score), i, j, score)
<1> DEFINE new == Exchange(queue, i, j, score)
<1>1. Len(queue) \in Nat /\ \A k \in 1 .. Len(queue) : queue[k] \in S
  BY LenProperties, ElementOfSeq
<1>2. CASE j > Len(queue)
  <2>1. new = queue
    BY <1>1, <1>2 DEF Exchange
  <2> HIDE DEF new
  <2>2. Compared(S, queue, new, i, j, score)
    BY <1>1, <1>2, <2>1 DEF Compared
  <2> QED BY <2>2 DEF new
<1>3. CASE j <= Len(queue)
  <2>1. i \in 1 .. Len(queue) /\ j \in 1 .. Len(queue)
    BY <1>1, <1>3
  <2>2. score[queue[i]] \in Int /\ score[queue[j]] \in Int
    BY <1>1, <2>1
  <2>3. CASE score[queue[i]] > score[queue[j]]
    <3>1. new = [queue EXCEPT ![i] = queue[j], ![j] = queue[i]]
      BY <1>3, <2>3 DEF Exchange
    <3>2. /\ new \in Seq(S) /\ Len(new) = Len(queue)
          /\ new[i] = queue[j] /\ new[j] = queue[i]
          /\ \A k \in 1 .. Len(queue) : k # i /\ k # j => new[k] = queue[k]
      BY <2>1, <3>1
    <3> HIDE DEF new
    <3>3. score[queue[j]] <= score[queue[i]] /\ ~ (j > Len(queue))
      BY <1>1, <1>3, <2>2, <2>3
    <3>4. Compared(S, queue, new, i, j, score)
      BY <3>2, <3>3 DEF Compared
    <3> QED BY <3>4 DEF new
  <2>4. CASE ~ (score[queue[i]] > score[queue[j]])
    <3>1. new = queue
      BY <2>4 DEF Exchange
    <3> HIDE DEF new
    <3>2. score[queue[i]] <= score[queue[j]] /\ ~ (j > Len(queue))
      BY <1>1, <1>3, <2>2, <2>4
    <3>3. Compared(S, queue, new, i, j, score)
      BY <1>1, <3>1, <3>2 DEF Compared
    <3> QED BY <3>3 DEF new
  <2> QED BY <2>3, <2>4
<1> QED BY <1>1, <1>2, <1>3

(* sort_ready_queue sorts as many processes as exec can be given. *)
LEMMA SortRises ==
  ASSUME NEW S, NEW queue \in Seq(S), Len(queue) <= MAX_NUM_PROGRAMS,
         NEW score \in [S -> Int]
  PROVE  Rising(SortReadyQueue(queue, score), score)
<1> DEFINE n      == Len(queue)
           count  == IF Len(queue) < MAX_NUM_PROGRAMS THEN Len(queue)
                                                      ELSE MAX_NUM_PROGRAMS
           popped == SubSeq(queue, 1, count)
           rest   == SubSeq(queue, count + 1, Len(queue))
           round1 == Exchange(queue, 1, 2, score)
           round2 == Exchange(round1, 1, 3, score)
           sorted == Exchange(round2, 2, 3, score)
           Score1(row, k) == score[row[k]]
<1>1. n \in 0 .. 3 /\ count = n
  <2>1. n \in Nat
    BY LenProperties
  <2>2. n <= 3
    BY DEF MAX_NUM_PROGRAMS
  <2>3. \A k \in Nat : k <= 3 =>
          /\ k \in 0 .. 3
          /\ (IF k < MAX_NUM_PROGRAMS THEN k ELSE MAX_NUM_PROGRAMS) = k
    BY DEF MAX_NUM_PROGRAMS
  <2> QED BY <2>1, <2>2, <2>3, Zenon
<1>2. popped = queue
  <2>1. SubSeq(queue, 1, Len(queue)) = queue
    OBVIOUS
  <2> QED BY <1>1, <2>1
<1>3. rest = <<>>
  BY <1>1
<1>4. Compared(S, queue, round1, 1, 2, score)
  BY ExchangeOrders
<1>5. Compared(S, round1, round2, 1, 3, score)
  <2>1. round1 \in Seq(S)
    BY <1>4 DEF Compared
  <2> HIDE DEF round1
  <2> QED BY <2>1, ExchangeOrders
<1>6. Compared(S, round2, sorted, 2, 3, score)
  <2>1. round2 \in Seq(S)
    BY <1>5 DEF Compared
  <2> HIDE DEF round2
  <2> QED BY <2>1, ExchangeOrders
<1>7. SortReadyQueue(queue, score) = <<>> \o sorted
  BY <1>2, <1>3 DEF SortReadyQueue
<1> HIDE DEF round1, round2, sorted
<1>8. sorted \in Seq(S) /\ Len(round1) = n /\ Len(round2) = n /\ DOMAIN sorted = 1 .. n
  BY <1>4, <1>5, <1>6 DEF Compared
<1>9. SortReadyQueue(queue, score) = sorted
  BY <1>7, <1>8
<1>10. CASE n < 2
  BY <1>1, <1>8, <1>9, <1>10 DEF Rising
<1>11. CASE n = 2
  <2>1. round2 = round1 /\ sorted = round1
    BY <1>5, <1>6, <1>8, <1>11 DEF Compared
  <2>2. Score1(round1, 1) <= Score1(round1, 2)
    BY <1>4, <1>11 DEF Compared
  <2>3. ASSUME NEW i \in 1 .. 2, NEW j \in 1 .. 2, i < j
        PROVE  Score1(sorted, i) <= Score1(sorted, j)
    <3>1. i = 1 /\ j = 2
      BY <2>3
    <3> QED BY <2>1, <2>2, <3>1
  <2> QED BY <1>8, <1>9, <1>11, <2>3 DEF Rising
<1>12. CASE n = 3
  <2>1. \A k \in 1 .. 3 : Score1(round1, k) \in Int
    <3>1. round1 \in Seq(S)
      BY <1>4 DEF Compared
    <3>2. \A k \in 1 .. 3 : round1[k] \in S
      BY <1>8, <1>12, <3>1, ElementOfSeq
    <3> QED BY <3>2
  <2>2. Score1(round1, 1) <= Score1(round1, 2)
    BY <1>4, <1>12 DEF Compared
  <2>3. /\ round2[2] = round1[2]
        /\ \/ /\ round2[1] = round1[1] /\ round2[3] = round1[3]
              /\ Score1(round1, 1) <= Score1(round1, 3)
           \/ /\ round2[1] = round1[3] /\ round2[3] = round1[1]
              /\ Score1(round1, 3) <= Score1(round1, 1)
    BY <1>5, <1>8, <1>12 DEF Compared
  <2>4. Score1(round2, 1) <= Score1(round2, 2) /\ Score1(round2, 1) <= Score1(round2, 3)
    BY <2>1, <2>2, <2>3
  <2>5. /\ sorted[1] = round2[1]
        /\ \/ /\ sorted[2] = round2[2] /\ sorted[3] = round2[3]
              /\ Score1(round2, 2) <= Score1(round2, 3)
           \/ /\ sorted[2] = round2[3] /\ sorted[3] = round2[2]
              /\ Score1(round2, 3) <= Score1(round2, 2)
    BY <1>6, <1>8, <1>12 DEF Compared
  <2>6. /\ Score1(sorted, 1) <= Score1(sorted, 2) /\ Score1(sorted, 1) <= Score1(sorted, 3)
        /\ Score1(sorted, 2) <= Score1(sorted, 3)
    BY <2>4, <2>5
  <2>7. ASSUME NEW i \in 1 .. 3, NEW j \in 1 .. 3, i < j
        PROVE  Score1(sorted, i) <= Score1(sorted, j)
    <3>1. (i = 1 /\ j = 2) \/ (i = 1 /\ j = 3) \/ (i = 2 /\ j = 3)
      BY <2>7
    <3> QED BY <2>6, <3>1
  <2> QED BY <1>8, <1>9, <1>12, <2>7 DEF Rising
<1>13. n < 2 \/ n = 2 \/ n = 3
  <2> HIDE DEF n
  <2> QED BY <1>1
<1> QED BY <1>10, <1>11, <1>12, <1>13

(* The innermost scheduler sorts: it is on top of the stack, or waits for  *)
(* the line on top of it to finish.                                        *)
Sorts(policy) == policy \in {"SJF", "AGING"}

Sorting(s) ==
  LET n == Len(s)
  IN  \/ n > 0 /\ s[n].at = "loop" /\ Sorts(s[n].policy)
      \/ n > 1 /\ s[n].at = "parse" /\ Sorts(s[n - 1].policy)

ShortestInv == Sorting(stack) => Rising(ready, Score(mem))

(* exec fails, and leaves what it queued. *)
Fails == BuildMissing \/ BuildWild \/ InvalidPolicy

FewQueued == Len(ready) <= MAX_NUM_PROGRAMS

LEMMA ScoreType ==
  ASSUME NEW m, PagingInv(m)
  PROVE  Score(m) \in [Addr -> Int]
<1>1. m.pcbs \in [Addr -> Pcb]
  BY MemFields DEF PagingInv, PagingTypeOK
<1>2. \A pcb \in Pcb : pcb.job_score \in Int
  BY Constants DEF Pcb
<1> QED BY <1>1, <1>2 DEF Score

SameScores(m, new) == \A a \in Addr : new.pcbs[a].job_score = m.pcbs[a].job_score

LEMMA ScoreSame ==
  ASSUME NEW m, NEW new, SameScores(m, new)
  PROVE  Score(new) = Score(m)
BY DEF SameScores, Score

LEMMA ShortestQuiet ==
  ASSUME ShortestInv, UNCHANGED ready, SameScores(mem, mem'),
         Sorting(stack') => Sorting(stack)
  PROVE  ShortestInv'
<1>1. Score(mem') = Score(mem)
  BY ScoreSame
<1>2. Score(mem)' = Score(mem')
  BY DEF Score
<1> QED BY <1>1, <1>2 DEF ShortestInv

LEMMA NotSorting ==
  ASSUME ~ Sorting(stack')
  PROVE  ShortestInv'
BY DEF ShortestInv

(* A queue that is in order after the step. *)
LEMMA Ordered ==
  ASSUME Rising(ready', Score(mem'))
  PROVE  ShortestInv'
<1>1. Score(mem)' = Score(mem')
  BY DEF Score
<1> QED BY <1>1 DEF ShortestInv

LEMMA TailRises ==
  ASSUME NEW S, NEW queue \in Seq(S), queue # <<>>, NEW score, Rising(queue, score)
  PROVE  Rising(Tail(queue), score)
<1> DEFINE tail == Tail(queue)
<1>1. /\ tail \in Seq(S) /\ Len(tail) = Len(queue) - 1 /\ Len(queue) \in Nat
      /\ \A i \in 1 .. Len(tail) : tail[i] = queue[i + 1]
      /\ DOMAIN queue = 1 .. Len(queue)
  BY HeadTailProperties, LenProperties, EmptySeq
<1>2. DOMAIN tail = 1 .. Len(tail)
  BY <1>1, LenProperties
<1> HIDE DEF tail
<1>3. ASSUME NEW i \in DOMAIN tail, NEW j \in DOMAIN tail, i < j
      PROVE  score[tail[i]] <= score[tail[j]]
  <2>1. i + 1 \in DOMAIN queue /\ j + 1 \in DOMAIN queue /\ i + 1 < j + 1
    BY <1>1, <1>2, <1>3
  <2>2. score[queue[i + 1]] <= score[queue[j + 1]]
    BY <2>1 DEF Rising
  <2> QED BY <1>1, <1>2, <2>2
<1>4. Rising(tail, score)
  BY <1>3 DEF Rising
<1> QED BY <1>4 DEF tail

LEMMA BecomeSorting ==
  ASSUME Sound(stack), stack # <<>>, NEW x, Become(x)
  PROVE  /\ x.at = "build" => ~ Sorting(stack')
         /\ x.at = "loop" => (Sorting(stack') <=> Sorts(x.policy))
         /\ x.at = "parse" /\ Top.at = "parse" => (Sorting(stack') <=> Sorting(stack))
<1>1. /\ Depth \in Nat \ {0} /\ Len(stack') = Depth /\ stack'[Depth] = x
      /\ \A i \in 1 .. Depth - 1 : stack'[i] = stack[i]
  BY TopFacts, BecomeShape
<1>2. Depth > 1 => stack'[Depth - 1] = stack[Depth - 1]
  BY <1>1
<1>3. Len(stack) = Depth /\ Top = stack[Depth] /\ Depth > 0
  BY <1>1 DEF Depth, Top
<1> QED BY <1>1, <1>2, <1>3 DEF Sorting

LEMMA ShortestParse ==
  ASSUME Inv, ShortestInv, Type \/ Parse
  PROVE  ShortestInv'
<1>1. UNCHANGED <<mem, ready>>
  BY DEF Type, EndOfInput, ReadLine, Parse, Plain, Quit, Exec, Run, BackToPrompt
<1>2. SameScores(mem, mem')
  BY <1>1 DEF SameScores
<1>3. CASE EndOfInput \/ Quit
  BY <1>1, <1>2, <1>3, ShortestQuiet DEF EndOfInput, Quit
<1>4. ASSUME NEW line, ReadLine(line) PROVE ShortestInv'
  <2>1. Len(stack') = 1 /\ stack'[1].at = "parse"
    BY <1>4 DEF ReadLine, Parsing
  <2> QED BY <2>1, NotSorting DEF Sorting
<1>5. CASE Plain
  <2> DEFINE x == Parsing(Tail(Top.cmds), "set")
  <2>1. Sound(stack) /\ stack # <<>> /\ Top.at = "parse" /\ Become(x) /\ x.at = "parse"
    BY <1>5, NextCommand DEF Plain, Parsing
  <2> HIDE DEF x
  <2> QED BY <1>1, <1>2, <2>1, BecomeSorting, ShortestQuiet
<1>6. ASSUME NEW programs, NEW policy, CallBuild(programs, policy), stack # <<>>
      PROVE  ShortestInv'
  <2> DEFINE left == [stack EXCEPT ![Depth].cmds = Tail(@)]
             x    == Building(programs, policy)
  <2>1. Depth \in Nat \ {0} /\ DOMAIN stack = 1 .. Depth
    BY <1>6, TopFacts DEF Inv
  <2>2. stack' = Append(left, x) /\ x.at = "build"
    BY <1>6 DEF CallBuild, Building
  <2>3. DOMAIN left = 1 .. Depth
    BY <2>1
  <2> HIDE DEF left, x
  <2>4. Len(left) = Depth
    BY <2>1, <2>3
  <2>5. Len(stack') = Depth + 1 /\ stack'[Depth + 1] = x
    BY <2>1, <2>2, <2>4
  <2> QED BY <2>2, <2>5, NotSorting DEF Sorting
<1>7. CASE Exec
  BY <1>6, <1>7, NextCommand DEF Exec
<1>8. ASSUME NEW second, NEW third, Run(second, third) PROVE ShortestInv'
  BY <1>6, <1>8, NextCommand DEF Run
<1>9. CASE BackToPrompt
  <2>1. Len(stack') = 0
    BY <1>9 DEF BackToPrompt
  <2> QED BY <2>1, NotSorting DEF Sorting
<1> QED BY <1>3, <1>4, <1>5, <1>7, <1>8, <1>9 DEF Type, Parse

LEMMA ShortestBuild ==
  ASSUME Inv, ShortestInv, FewQueued, BuildReadyQueue, ~ Fails
  PROVE  ShortestInv'
<1>1. Sound(stack) /\ stack # <<>> /\ Top.at = "build"
  BY DEF BuildReadyQueue, SkipNull, BuildMissing, BuildWild, BuildOutOfMemory,
         BuildDuplicate, BuildNew, StartPolicy, InvalidPolicy, BuildsNext, Running, Inv
<1>2. CASE BuildRest
  <2> DEFINE x == Building(Tail(Top.programs), Top.policy)
  <2>1. Become(x) /\ x.at = "build"
    BY <1>2 DEF BuildRest, Building
  <2> HIDE DEF x
  <2> QED BY <1>1, <2>1, BecomeSorting, NotSorting
<1>3. CASE BuildOutOfMemory
  BY <1>3, ShortestQuiet DEF BuildOutOfMemory, SameScores
<1>4. CASE StartPolicy
  <2> DEFINE x == Looping(Top.policy, NULL, 0, "unset")
  <2>1. Become(x) /\ x.at = "loop" /\ x.policy = Top.policy /\ UNCHANGED mem
    BY <1>4 DEF StartPolicy, Looping
  <2> HIDE DEF x
  <2>2. CASE ~ Sorts(Top.policy)
    BY <1>1, <2>1, <2>2, BecomeSorting, NotSorting
  <2>3. CASE Sorts(Top.policy)
    <3>1. ready' = SortReadyQueue(ready, Score(mem))
      BY <1>4, <2>3 DEF StartPolicy, Sorts
    <3>2. ready \in Seq(Addr) /\ Score(mem) \in [Addr -> Int]
      BY ScoreType DEF Inv, HeldApart
    <3>3. Rising(ready', Score(mem))
      BY <3>1, <3>2, SortRises DEF FewQueued
    <3> QED BY <2>1, <3>3, Ordered
  <2> QED BY <2>2, <2>3
<1> QED BY <1>2, <1>3, <1>4 DEF BuildReadyQueue, Fails, SkipNull, BuildDuplicate, BuildNew

LEMMA SortLength ==
  ASSUME NEW S, NEW queue \in Seq(S), NEW score
  PROVE  Len(SortReadyQueue(queue, score)) = Len(queue)
<1> DEFINE count  == IF Len(queue) < MAX_NUM_PROGRAMS THEN Len(queue)
                                                      ELSE MAX_NUM_PROGRAMS
           popped == SubSeq(queue, 1, count)
           rest   == SubSeq(queue, count + 1, Len(queue))
           round1 == Exchange(popped, 1, 2, score)
           round2 == Exchange(round1, 1, 3, score)
           sorted == Exchange(round2, 2, 3, score)
<1>1. Len(queue) \in Nat /\ count \in 0 .. Len(queue)
  BY LenProperties DEF MAX_NUM_PROGRAMS
<1> HIDE DEF count
<1>2. /\ popped \in Seq(S) /\ Len(popped) = count
      /\ rest \in Seq(S) /\ Len(rest) = Len(queue) - count
  BY <1>1
<1> HIDE DEF popped, rest
<1>3. round1 \in Seq(S) /\ Len(round1) = count
  BY <1>2, ExchangePermutes
<1> HIDE DEF round1
<1>4. round2 \in Seq(S) /\ Len(round2) = count
  BY <1>3, ExchangePermutes
<1> HIDE DEF round2
<1>5. sorted \in Seq(S) /\ Len(sorted) = count
  BY <1>4, ExchangePermutes
<1>6. SortReadyQueue(queue, score) = rest \o sorted
  BY DEF SortReadyQueue, sorted, round2, round1, popped, rest, count
<1> HIDE DEF sorted
<1>7. Len(rest \o sorted) = Len(rest) + Len(sorted)
  BY <1>2, <1>5, ConcatProperties
<1>8. Len(rest) + Len(sorted) = Len(queue)
  BY <1>1, <1>2, <1>5, SMT
<1> QED BY <1>6, <1>7, <1>8

LEMMA AdvancedScores ==
  ASSUME Inv, LineFinished, Depth > 1
  PROVE  SameScores(mem, Advanced)
<1> SUFFICES ASSUME NEW a \in Addr
             PROVE  Advanced.pcbs[a].job_score = mem.pcbs[a].job_score
  BY DEF SameScores
<1>1. mem.pcbs \in [Addr -> Pcb] /\ Waiting.cur \in Addr
  BY WaitingFacts, MemFields DEF Inv, PagingInv, PagingTypeOK
<1>2. Advanced.pcbs = [mem.pcbs EXCEPT ![Waiting.cur].program_counter = @ + 1]
  BY AdvancedFacts
<1>3. CASE a = Waiting.cur
  <2>1. Advanced.pcbs[a] = [mem.pcbs[a] EXCEPT !.program_counter = @ + 1]
    BY <1>1, <1>2, <1>3
  <2>2. mem.pcbs[a] \in Pcb
    BY <1>1
  <2> QED BY <2>1, <2>2 DEF Pcb
<1>4. CASE a # Waiting.cur
  BY <1>1, <1>2, <1>4
<1> QED BY <1>3, <1>4

LEMMA ResumeSorting ==
  ASSUME Inv, LineFinished, Depth > 1, NEW cur, NEW k, Resume(cur, k)
  PROVE  Sorting(stack') => Sorting(stack)
<1>1. /\ Sound(stack) /\ stack # <<>> /\ Top.at = "parse" /\ Depth \in Nat
      /\ Len(stack') = Depth - 1
      /\ stack'[Depth - 1] = Looping(Waiting.policy, cur, k, Top.err)
  BY WaitingFacts, ResumeShape
<1> DEFINE x == Looping(Waiting.policy, cur, k, Top.err)
<1>2. x.at = "loop" /\ x.policy = Waiting.policy
  BY DEF Looping
<1> HIDE DEF x
<1>3. Sorting(stack') => Sorts(Waiting.policy)
  BY <1>1, <1>2 DEF Sorting, x
<1>4. Sorts(Waiting.policy) => Sorting(stack)
  BY <1>1 DEF Sorting, Waiting, Top, Depth
<1> QED BY <1>3, <1>4

(* A line of the process in hand is begun. *)
LEMMA CallSorting ==
  ASSUME Sound(stack), stack # <<>>, Top.at = "loop", NEW cmds \in Seq(Command),
         Call(Parsing(cmds, "unset"))
  PROVE  Sorting(stack') => Sorting(stack)
<1> DEFINE x == Parsing(cmds, "unset")
<1>1. x \in Activation /\ x.at = "parse"
  BY ParsingType DEF Err
<1> HIDE DEF x
<1>2. /\ Depth \in Nat \ {0} /\ Len(stack') = Depth + 1 /\ stack'[Depth + 1] = x
      /\ \A i \in 1 .. Depth : stack'[i] = stack[i]
  BY <1>1, CallShape, TopFacts DEF x
<1>3. stack'[Depth] = Top /\ (Depth + 1) - 1 = Depth /\ Len(stack) = Depth
  BY <1>2 DEF Top, Depth
<1>4. Sorting(stack') => Sorts(Top.policy)
  BY <1>1, <1>2, <1>3 DEF Sorting
<1>5. Sorts(Top.policy) => Sorting(stack)
  BY <1>2, <1>3 DEF Sorting, Top
<1> QED BY <1>4, <1>5

LEMMA ShortestTurn ==
  ASSUME Inv, ShortestInv,
         \/ PickNext \/ SchedulerReturns \/ Retire \/ Requeue \/ Execute
         \/ FaultAndRetry \/ FaultAndYield \/ FaultAndExecute \/ FaultCrashes
         \/ PageTableOverrun
  PROVE  ShortestInv'
<1>1. Sound(stack) /\ stack # <<>> /\ Top.at = "loop" /\ ready \in Seq(Addr) /\ PagingInv(mem)
  BY DEF PickNext, SchedulerReturns, Retire, Requeue, Execute, FaultAndRetry,
         FaultAndYield, FaultAndExecute, FaultCrashes, PageTableOverrun, Faults,
         WantsLine, InTurn, Running, Inv, HeldApart
<1>2. Sorting(stack) <=> Sorts(Top.policy)
  <2>1. Depth \in Nat \ {0} /\ Len(stack) = Depth /\ Top = stack[Depth]
    BY <1>1, TopFacts DEF Depth, Top
  <2> QED BY <1>1, <2>1 DEF Sorting
<1>3. NoTurn(Top.err).at = "loop" /\ NoTurn(Top.err).policy = Top.policy
  BY DEF NoTurn, Looping
<1>4. CASE PickNext
  <2> DEFINE x == Looping(Top.policy, Head(ready), 0, Top.err)
  <2>1. Become(x) /\ x.at = "loop" /\ x.policy = Top.policy
    BY <1>4 DEF PickNext, Looping
  <2> HIDE DEF x
  <2>2. CASE ~ Sorts(Top.policy)
    BY <1>1, <2>1, <2>2, BecomeSorting, NotSorting
  <2>3. CASE Sorts(Top.policy)
    <3>1. Rising(ready, Score(mem)) /\ ready # <<>> /\ ready' = Tail(ready) /\ mem' = mem
      BY <1>2, <1>4, <2>3 DEF ShortestInv, PickNext
    <3>2. Rising(Tail(ready), Score(mem))
      BY <1>1, <3>1, TailRises
    <3> QED BY <3>1, <3>2, Ordered
  <2> QED BY <2>2, <2>3
<1>5. CASE SchedulerReturns
  <2>1. ready' = <<>>
    BY <1>5 DEF SchedulerReturns
  <2> QED BY <2>1, Ordered DEF Rising
<1>6. CASE Retire
  <2>1. UNCHANGED ready /\ SameScores(mem, mem') /\ Become(NoTurn(Top.err))
    BY <1>6 DEF Retire, PcbDeinit, SameScores
  <2> QED BY <1>1, <1>2, <1>3, <2>1, BecomeSorting, ShortestQuiet
<1>7. CASE Requeue \/ FaultAndYield
  <2>1. RoundRobin /\ Become(NoTurn(Top.err))
    BY <1>7 DEF Requeue, FaultAndYield
  <2>2. ~ Sorts(Top.policy)
    BY <2>1 DEF RoundRobin, Sorts
  <2> QED BY <1>1, <1>3, <2>1, <2>2, BecomeSorting, NotSorting
<1>8. CASE Execute
  <2> DEFINE cmds == Fetch(mem, CurFrame, CurOffset)
  <2>1. CurFrame \in Frame /\ CurOffset \in Offset
    BY <1>8, CurrentPlace DEF Execute, WantsLine
  <2>2. cmds \in Seq(Command)
    BY <1>1, <2>1, FetchType
  <2>3. Call(Parsing(cmds, "unset")) /\ UNCHANGED ready /\ mem' = Touch(mem, CurFrame)
    BY <1>8 DEF Execute
  <2> HIDE DEF cmds
  <2>4. SameScores(mem, mem')
    BY <1>1, <2>1, <2>3, TouchKeepsInv DEF SameScores
  <2> QED BY <1>1, <2>2, <2>3, <2>4, CallSorting, ShortestQuiet
<1>9. CASE FaultAndRetry
  <2>1. UNCHANGED <<ready, stack>> /\ SameScores(mem, mem')
    BY <1>9, FaultedFacts DEF FaultAndRetry, SameProcesses, SameScores
  <2> QED BY <2>1, ShortestQuiet
<1>10. CASE FaultAndExecute
  <2> DEFINE new  == FaultedMem
             cmds == Fetch(new, FaultFrame(mem), CurOffset)
  <2>1. /\ PagingInv(new) /\ FaultFrame(mem) \in Frame /\ CurOffset \in Offset
        /\ SameProcesses(mem.pcbs, new.pcbs)
    BY <1>10, FaultedFacts, CurrentPlace DEF FaultAndExecute
  <2>2. Call(Parsing(cmds, "unset")) /\ UNCHANGED ready /\ mem' = Touch(new, FaultFrame(mem))
    BY <1>10 DEF FaultAndExecute
  <2> HIDE DEF new
  <2>3. cmds \in Seq(Command)
    BY <2>1, FetchType
  <2>4. mem'.pcbs = new.pcbs
    BY <2>1, <2>2, TouchKeepsInv
  <2>5. SameScores(mem, mem')
    BY <2>1, <2>4 DEF SameProcesses, SameScores
  <2> HIDE DEF cmds
  <2> QED BY <1>1, <2>2, <2>3, <2>5, CallSorting, ShortestQuiet
<1>11. CASE FaultCrashes \/ PageTableOverrun
  BY <1>11, ShortestQuiet DEF FaultCrashes, PageTableOverrun, SameScores
<1> QED BY <1>4, <1>5, <1>6, <1>7, <1>8, <1>9, <1>10, <1>11

LEMMA ShortestLine ==
  ASSUME Inv, ShortestInv, FewQueued', LineDone \/ AgingRetires \/ AgingRequeues
  PROVE  ShortestInv'
<1>1. LineFinished /\ Depth > 1
  BY DEF LineDone, AgingRetires, AgingRequeues
<1>2. PICK cur, k : Resume(cur, k)
  BY DEF LineDone, AgingRetires, AgingRequeues
<1>3. Sorting(stack') => Sorting(stack)
  BY <1>1, <1>2, ResumeSorting
<1>4. CASE LineDone \/ AgingRetires
  <2>1. mem'.pcbs = Advanced.pcbs /\ UNCHANGED ready
    <3>1. CASE LineDone
      BY <3>1 DEF LineDone
    <3>2. CASE AgingRetires
      BY <1>1, <3>2, WaitingFacts, AdvancedFacts, PcbDeinitKeepsInv DEF AgingRetires
    <3> QED BY <1>4, <3>1, <3>2
  <2>2. SameScores(mem, mem')
    BY <1>1, <2>1, AdvancedScores DEF SameScores
  <2> QED BY <1>3, <2>1, <2>2, ShortestQuiet
<1>5. CASE AgingRequeues
  <2> DEFINE queue == AppendLeftProcess(ready, Waiting.cur)
             score == Score(AgedMem)
  <2>1. ready' = SortReadyQueue(queue, score) /\ mem' = AgedMem
    BY <1>5 DEF AgingRequeues
  <2>2. queue \in Seq(Addr)
    BY <1>1, WaitingFacts, AppendLeftQueued DEF Inv, HeldApart
  <2>3. score \in [Addr -> Int]
    BY <1>1, AgedFacts, ScoreType
  <2> HIDE DEF queue, score
  <2>4. Len(queue) = Len(ready')
    BY <2>1, <2>2, SortLength
  <2>5. Rising(ready', score)
    BY <2>1, <2>2, <2>3, <2>4, SortRises DEF FewQueued
  <2> QED BY <2>1, <2>5, Ordered DEF score
<1> QED BY <1>4, <1>5

LEMMA ShortestNext ==
  ASSUME Inv, ShortestInv, FewQueued, FewQueued', [Next]_vars, ~ Fails
  PROVE  ShortestInv'
<1>1. CASE Schedule
  BY <1>1, ShortestTurn, ShortestLine DEF Schedule
<1>2. CASE Ended \/ UNCHANGED vars
  <2>1. UNCHANGED <<mem, ready, stack>>
    BY <1>2 DEF Ended, vars
  <2> QED BY <2>1, ShortestQuiet DEF SameScores
<1> QED BY <1>1, <1>2, ShortestParse, ShortestBuild DEF Next, Work

(* Only PickNext takes a process when a loop has none in its hands. *)
LEMMA WhoPicks ==
  ASSUME Inv, Next, Running("loop"), Top.cur = NULL, ready # <<>>
  PROVE  PickNext
<1>1. status = "running" /\ stack # <<>> /\ Top.at = "loop"
  BY DEF Running
<1>2. ~ Type /\ ~ Ended
  BY <1>1 DEF Type, ReadLine, EndOfInput, Ended
<1>3. ~ Parse
  BY <1>1 DEF Parse, Plain, Quit, Exec, Run, BackToPrompt, HasCommand,
              LineFinished, Running
<1>4. ~ BuildReadyQueue
  BY <1>1 DEF BuildReadyQueue, SkipNull, BuildMissing, BuildWild, BuildOutOfMemory,
              BuildDuplicate, BuildNew, StartPolicy, InvalidPolicy, BuildsNext, Running
<1>5. ~ InTurn /\ ~ LineFinished
  BY <1>1 DEF InTurn, LineFinished, Running
<1>6. Schedule => PickNext
  BY <1>5 DEF Schedule, SchedulerReturns, Retire, Requeue, Execute, FaultAndRetry,
              FaultAndYield, FaultAndExecute, FaultCrashes, PageTableOverrun, Faults,
              WantsLine, LineDone, AgingRetires, AgingRequeues
<1> QED BY <1>2, <1>3, <1>4, <1>6 DEF Next, Work

LEMMA Picks ==
  ASSUME Inv, ShortestInv, Next, Running("loop"), Top.policy \in {"SJF", "AGING"},
         Top.cur = NULL, ready # <<>>, NEW a \in Queued(ready)
  PROVE  mem.pcbs[stack'[Depth].cur].job_score <= mem.pcbs[a].job_score
<1>1. PickNext /\ Sound(stack) /\ stack # <<>> /\ ready \in Seq(Addr) /\ PagingInv(mem)
  BY WhoPicks DEF Running, Inv, HeldApart
<1>2. Depth \in Nat \ {0} /\ Len(stack) = Depth /\ Top = stack[Depth] /\ Top.at = "loop"
  BY <1>1, TopFacts DEF Depth, Top, Running
<1>3. Rising(ready, Score(mem))
  BY <1>2 DEF ShortestInv, Sorting, Sorts
<1> DEFINE x == Looping(Top.policy, Head(ready), 0, Top.err)
<1>4. Become(x) /\ x.cur = Head(ready)
  BY <1>1 DEF PickNext, Looping
<1> HIDE DEF x
<1>5. stack'[Depth].cur = Head(ready)
  BY <1>1, <1>4, BecomeShape
<1>6. Len(ready) \in Nat \ {0} /\ DOMAIN ready = 1 .. Len(ready) /\ Head(ready) = ready[1]
  BY <1>1, LenProperties, EmptySeq
<1>7. PICK j \in 1 .. Len(ready) : a = ready[j]
  BY <1>6 DEF Queued
<1>8. \A b \in Addr : Score(mem)[b] = mem.pcbs[b].job_score /\ Score(mem)[b] \in Int
  BY <1>1, ScoreType DEF Score
<1>9. ready[1] \in Addr /\ ready[j] \in Addr
  BY <1>1, <1>6, ElementOfSeq
<1>10. Score(mem)[ready[1]] <= Score(mem)[ready[j]]
  <2>1. CASE j = 1
    BY <1>8, <1>9, <2>1
  <2>2. CASE j # 1
    BY <1>3, <1>6, <2>2 DEF Rising
  <2> QED BY <2>1, <2>2
<1> QED BY <1>5, <1>6, <1>7, <1>8, <1>9, <1>10

(* PicksShortest as long as no more processes are queued than exec can be  *)
(* given and no exec fails: SJF and AGING then always pick a process of    *)
(* the smallest score, in nested execs too.                                *)
THEOREM ShortestIsPicked ==
  Spec /\ []FewQueued /\ [][~ Fails]_vars => PicksShortest
<1>1. Init => ShortestInv
  BY DEF Init, ShortestInv, Rising
<1>2. /\ Inv /\ ShortestInv /\ FewQueued /\ FewQueued' /\ [Next]_vars /\ [~ Fails]_vars
      => ShortestInv'
  <2>1. CASE UNCHANGED vars
    BY <2>1, ShortestQuiet DEF vars, SameScores
  <2> QED BY <2>1, ShortestNext
<1>3. Inv /\ ShortestInv /\ [Next]_vars =>
        [Running("loop") /\ Top.policy \in {"SJF", "AGING"} /\ Top.cur = NULL
           /\ ready # <<>> =>
           \A a \in Queued(ready) :
             mem.pcbs[stack'[Depth].cur].job_score <= mem.pcbs[a].job_score]_vars
  BY Picks
<1> QED BY <1>1, <1>2, <1>3, Invariance, PTL DEF Spec, PicksShortest

=============================================================================
