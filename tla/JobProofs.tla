----------------------------- MODULE JobProofs ------------------------------
(***************************************************************************)
(* The schedulers implement JobRunner: every process runs the lines of its *)
(* script once and in order.  That no process is lost or held twice comes  *)
(* from SchedulerProofs, that none runs past its end from ProgressProofs.  *)
(***************************************************************************)
EXTENDS ProgressProofs

-----------------------------------------------------------------------------
(* The lines being run, from the stack *)

LinesOf(s) == [i \in 1 .. ((Len(s) + 1) \div 2 - 1) |-> s[2 * i].cur]

LEMMA Halves ==
  ASSUME NEW n \in Nat
  PROVE  n % 2 \in {0, 1} /\ n \div 2 \in Nat /\ n = 2 * (n \div 2) + (n % 2)
BY SMT

LEMMA LinesNow == LinesRun = LinesOf(stack) /\ LinesRun' = LinesOf(stack')
BY DEF LinesRun, LinesOf, Depth

(* Two places of the stack are one line. *)
LEMMA LinesShape ==
  ASSUME NEW s, NEW h \in Nat, Len(s) \in {2 * h + 1, 2 * h + 2}
  PROVE  LinesOf(s) = [i \in 1 .. h |-> s[2 * i].cur]
<1>1. (Len(s) + 1) \div 2 - 1 = h
  BY SMT
<1> QED BY <1>1 DEF LinesOf

LEMMA NoLines ==
  ASSUME NEW s, Len(s) \in {0, 1, 2}
  PROVE  LinesOf(s) = <<>>
<1>1. (Len(s) + 1) \div 2 <= 1 /\ (Len(s) + 1) \div 2 \in Nat
  <2>1. CASE Len(s) = 0
    BY <2>1
  <2>2. CASE Len(s) = 1
    BY <2>2
  <2>3. CASE Len(s) = 2
    BY <2>3
  <2> QED BY <2>1, <2>2, <2>3
<1> DEFINE half == (Len(s) + 1) \div 2
<1> HIDE DEF half
<1>2. 1 .. (half - 1) = {}
  <2>1. half \in Nat /\ half <= 1
    BY <1>1 DEF half
  <2> QED BY <2>1
<1> QED BY <1>2 DEF LinesOf, half

(* Half of the stack: h lines are being run. *)
LEMMA HalfDepth ==
  ASSUME Sound(stack), stack # <<>>
  PROVE  \E h \in Nat : Depth = IF Top.at = "parse" THEN 2 * h + 1 ELSE 2 * h + 2
<1>1. /\ Depth \in Nat \ {0}
      /\ (Depth % 2 = 1) <=> (Top.at = "parse")
      /\ Top.at # "parse" => Depth > 1
  BY TopFacts
<1> DEFINE half == Depth \div 2
           odd  == Depth % 2
<1>0. Depth \in Nat
  BY <1>1
<1>4. odd \in {0, 1} /\ half \in Nat /\ Depth = 2 * half + odd
  BY <1>0, Halves, Zenon
<1>5. odd = 1 <=> Top.at = "parse"
  BY <1>1, Zenon
<1> HIDE DEF half, odd
<1>2. CASE Top.at = "parse"
  <2>1. Depth = 2 * half + 1
    BY <1>2, <1>4, <1>5
  <2> QED BY <1>2, <1>4, <2>1
<1>3. CASE Top.at # "parse"
  <2>1. half - 1 \in Nat /\ Depth = 2 * (half - 1) + 2
    BY <1>1, <1>3, <1>4, <1>5
  <2> QED BY <1>3, <2>1
<1> QED BY <1>2, <1>3

(* No line begins or ends while the stack below the top, or below the two  *)
(* places of a parseInput and its exec, is as it was.                      *)
LEMMA SameLines ==
  ASSUME NEW h \in Nat, Len(stack) \in {2 * h + 1, 2 * h + 2},
         Len(stack') \in {2 * h + 1, 2 * h + 2},
         \A i \in 1 .. 2 * h : stack'[i] = stack[i]
  PROVE  LinesRun' = LinesRun
<1>1. LinesRun = [i \in 1 .. h |-> stack[2 * i].cur]
  BY LinesNow, LinesShape
<1>2. LinesRun' = [i \in 1 .. h |-> stack'[2 * i].cur]
  BY LinesNow, LinesShape
<1>3. \A i \in 1 .. h : 2 * i \in 1 .. 2 * h
  OBVIOUS
<1> QED BY <1>1, <1>2, <1>3

LEMMA SameLinesBecome ==
  ASSUME Sound(stack), stack # <<>>, NEW x, Become(x)
  PROVE  LinesRun' = LinesRun
<1>1. PICK h \in Nat : Depth \in {2 * h + 1, 2 * h + 2}
  BY HalfDepth
<1>2. /\ Len(stack') = Depth
      /\ \A i \in 1 .. Depth - 1 : stack'[i] = stack[i]
  BY BecomeShape
<1>3. \A i \in 1 .. 2 * h : i \in 1 .. Depth - 1
  BY <1>1
<1> QED BY <1>1, <1>2, <1>3, SameLines DEF Depth

LEMMA SameLinesReturn ==
  ASSUME Sound(stack), stack # <<>>, Top.at # "parse", NEW err \in Err,
         ReturnToParse(err)
  PROVE  LinesRun' = LinesRun
<1>1. PICK h \in Nat : Depth = 2 * h + 2
  BY HalfDepth
<1>2. /\ Len(stack') = Depth - 1
      /\ \A i \in 1 .. Depth - 2 : stack'[i] = stack[i]
  BY ReturnShape
<1>3. Len(stack') = 2 * h + 1 /\ Depth - 2 = 2 * h
  BY <1>1, <1>2
<1> QED BY <1>1, <1>2, <1>3, SameLines DEF Depth

LEMMA SameLinesCallBuild ==
  ASSUME Sound(stack), stack # <<>>, Top.at = "parse",
         Tail(Top.cmds) \in Seq(Command), NEW programs, NEW policy, CallBuild(programs, policy)
  PROVE  LinesRun' = LinesRun
<1> DEFINE x    == Building(programs, policy)
           rest == [stack[Depth] EXCEPT !.cmds = Tail(stack[Depth].cmds)]
           left == [stack EXCEPT ![Depth] = rest]
<1>1. PICK h \in Nat : Depth = 2 * h + 1
  BY HalfDepth
<1>2. stack' = Append(left, x)
  BY DEF CallBuild
<1> HIDE DEF x
<1>3. DOMAIN stack = 1 .. Depth /\ Depth \in Nat \ {0} /\ Top \in Activation
      /\ stack \in Seq(Activation) /\ Len(stack) = Depth
  BY TopFacts DEF Sound, Depth
<1>4. rest \in Activation
  <2>1. Top.err \in Err
    BY <1>3, ActivationFields
  <2>2. rest = Parsing(Tail(Top.cmds), Top.err)
    BY <1>3, <2>1, ParseExcept DEF Top
  <2> QED BY <2>1, <2>2, ParsingType
<1> HIDE DEF rest
<1>5. /\ left \in Seq(Activation) /\ Len(left) = Depth
      /\ \A i \in 1 .. Depth - 1 : left[i] = stack[i]
  <2>1. /\ left \in Seq(Activation) /\ Len(left) = Len(stack)
        /\ \A i \in 1 .. Len(stack) : left[i] = IF i = Depth THEN rest ELSE stack[i]
    BY <1>3, <1>4, ExceptSeq
  <2> HIDE DEF left
  <2> QED BY <1>3, <2>1
<1> HIDE DEF left
<1>6. Len(stack') = Depth + 1 /\ \A i \in 1 .. Depth - 1 : stack'[i] = stack[i]
  BY <1>2, <1>3, <1>5
<1>7. Len(stack') = 2 * h + 2 /\ Depth - 1 = 2 * h
  BY <1>1, <1>6
<1> QED BY <1>1, <1>6, <1>7, SameLines DEF Depth

-----------------------------------------------------------------------------
(* The lines below the top are run for processes that loops hold. *)

LEMMA LinesHeld ==
  ASSUME Sound(stack), NEW h \in Nat, Len(stack) \in {2 * h + 1, 2 * h + 2}
  PROVE  /\ LinesRun = [i \in 1 .. h |-> stack[2 * i].cur]
         /\ \A i \in 1 .. h : 2 * i \in HoldingIn(stack) /\ 2 * i < Len(stack)
         /\ LinesRun \in Seq(Addr) /\ Len(LinesRun) = h
<1>1. LinesRun = [i \in 1 .. h |-> stack[2 * i].cur]
  BY LinesNow, LinesShape
<1>2. DOMAIN stack = 1 .. Len(stack)
  BY LenProperties DEF Sound
<1>3. ASSUME NEW i \in 1 .. h
      PROVE  2 * i \in HoldingIn(stack) /\ 2 * i < Len(stack)
  <2>1. 2 * i \in 1 .. Len(stack) /\ 2 * i < Len(stack) /\ (2 * i) % 2 # 1
    OBVIOUS
  <2>2. Holds(stack[2 * i])
    BY <1>2, <2>1 DEF Sound, Nested
  <2> QED BY <1>2, <2>1, <2>2 DEF HoldingIn
<1>4. \A i \in 1 .. h : stack[2 * i].cur \in Addr
  <2>1. HeldBy(stack) \subseteq Addr
    BY HeldProcesses DEF Sound
  <2> QED BY <1>3, <2>1 DEF HeldBy
<1>5. LinesRun \in Seq(Addr) /\ Len(LinesRun) = h
  BY <1>1, <1>4
<1> QED BY <1>1, <1>3, <1>5

(* The process in the innermost scheduler's hands is between two lines. *)
LEMMA TopIsIdle ==
  ASSUME Sound(stack), stack # <<>>, Holds(Top)
  PROVE  Top.cur \notin Jobs!Busy
<1>1. Top.at # "parse" /\ Depth \in HoldingIn(stack)
  BY TopFacts DEF Holds, HoldingIn, Top
<1>2. PICK h \in Nat : Depth = 2 * h + 2
  BY <1>1, HalfDepth
<1>3. /\ LinesRun = [i \in 1 .. h |-> stack[2 * i].cur]
      /\ \A i \in 1 .. h : 2 * i \in HoldingIn(stack) /\ 2 * i < Len(stack)
  BY <1>2, LinesHeld DEF Depth
<1>4. ASSUME NEW i \in 1 .. h PROVE stack[2 * i].cur # Top.cur
  <2>1. 2 * i # Depth
    BY <1>2
  <2> QED BY <1>1, <1>3, <2>1 DEF Sound, Once, Top
<1> QED BY <1>3, <1>4 DEF Jobs!Busy

-----------------------------------------------------------------------------
(* The processes as jobs *)

(* A process's file_length is that of its script. *)
OfScript(pcb) == pcb.filename \in Files /\ pcb.file_length = FileLength(pcb.filename)
Scripted == \A a \in mem.live : OfScript(mem.pcbs[a])

SameProcess(m, new, a) ==
  new.pcbs[a].filename = m.pcbs[a].filename /\ SameCounters(m, new, a)

JobStep == Scripted' /\ [Jobs!Next]_(Jobs!vars)

JobFor(pcb) == [script |-> pcb.filename, pos |-> pcb.program_counter]

LEMMA JobsNow ==
  /\ DOMAIN JobOf = mem.live /\ \A a \in mem.live : JobOf[a] = JobFor(mem.pcbs[a])
  /\ JobOf' = [a \in mem'.live |-> JobFor(mem'.pcbs[a])]
BY DEF JobOf, JobFor

LEMMA JobLines ==
  ASSUME Scripted, NEW a \in mem.live
  PROVE  Jobs!Lines(a) = mem.pcbs[a].file_length
<1>0. JobOf[a] = JobFor(mem.pcbs[a])
  BY JobsNow, Zenon
<1>1. JobOf[a].script = mem.pcbs[a].filename
  BY <1>0 DEF JobFor
<1>2. mem.pcbs[a].filename \in Files
      /\ mem.pcbs[a].file_length = FileLength(mem.pcbs[a].filename)
  BY DEF Scripted, OfScript
<1> QED BY <1>1, <1>2 DEF Jobs!Lines

(* Neither the processes nor the lines being run change. *)
LEMMA QuietStep ==
  ASSUME Scripted, mem'.live = mem.live,
         \A a \in mem.live : SameProcess(mem, mem', a), LinesRun' = LinesRun
  PROVE  JobStep
<1>1. Scripted'
  BY DEF Scripted, OfScript, SameProcess, SameCounters
<1>2. JobOf' = JobOf
  BY DEF JobOf, SameProcess, SameCounters
<1> QED BY <1>1, <1>2 DEF JobStep, Jobs!vars

LEMMA MemUnchanged ==
  ASSUME Scripted, UNCHANGED mem, LinesRun' = LinesRun
  PROVE  JobStep
BY QuietStep DEF SameProcess, SameCounters

LEMMA SubmitStep ==
  ASSUME Inv, Scripted, NEW a \in Addr, a \notin mem.live,
         mem'.live = mem.live \cup {a}, OfScript(mem'.pcbs[a]),
         mem'.pcbs[a].program_counter = 0,
         \A b \in Addr : b # a => SameProcess(mem, mem', b), LinesRun' = LinesRun
  PROVE  JobStep
<1>1. mem.live \subseteq Addr
  BY MemFields DEF Inv, PagingInv, PagingTypeOK
<1>2. \A b \in mem.live : b # a /\ SameProcess(mem, mem', b)
  BY <1>1
<1>3. Scripted'
  BY <1>2 DEF Scripted, OfScript, SameProcess, SameCounters
<1> DEFINE script == mem'.pcbs[a].filename
<1>4. JobOf' = Jobs!With(a, [script |-> script, pos |-> 0])
  <2>1. \A b \in mem.live : JobFor(mem'.pcbs[b]) = JobOf[b]
    BY <1>2, JobsNow DEF JobFor, SameProcess, SameCounters
  <2>2. JobFor(mem'.pcbs[a]) = [script |-> script, pos |-> 0]
    BY DEF JobFor
  <2> QED BY <2>1, <2>2, <1>2, JobsNow DEF Jobs!With
<1>5. script \in Files
  BY DEF OfScript
<1> HIDE DEF script
<1>6. Jobs!Submit(a, script)
  BY <1>4, JobsNow DEF Jobs!Submit
<1> QED BY <1>3, <1>5, <1>6 DEF JobStep, Jobs!Next

LEMMA FinishStep ==
  ASSUME Scripted, NEW a \in Addr, a \in mem.live, a \notin Jobs!Busy,
         mem.pcbs[a].program_counter >= mem.pcbs[a].file_length,
         mem'.live = mem.live \ {a}, mem'.pcbs = mem.pcbs, LinesRun' = LinesRun
  PROVE  JobStep
<1>1. Scripted'
  BY DEF Scripted
<1>2. JobOf' = Jobs!Without(a)
  BY JobsNow DEF Jobs!Without
<1>3. JobOf[a].pos >= Jobs!Lines(a) /\ a \in DOMAIN JobOf
  <2>1. JobOf[a] = JobFor(mem.pcbs[a]) /\ a \in DOMAIN JobOf
    BY JobsNow, Zenon
  <2> QED BY <2>1, JobLines DEF JobFor
<1>4. Jobs!Finish(a)
  BY <1>2, <1>3 DEF Jobs!Finish
<1> QED BY <1>1, <1>4 DEF JobStep, Jobs!Next

-----------------------------------------------------------------------------
(* A line begins and ends *)

LEMMA AppendPlaces ==
  ASSUME NEW S, NEW f \in Seq(S), NEW e \in S
  PROVE  Append(f, e) = [i \in 1 .. Len(f) + 1 |-> IF i = Len(f) + 1 THEN e ELSE f[i]]
<1> DEFINE g == Append(f, e)
<1>1. /\ Len(g) = Len(f) + 1 /\ g \in Seq(S)
      /\ g[Len(f) + 1] = e /\ \A i \in 1 .. Len(f) : g[i] = f[i]
  BY AppendProperties
<1>2. Len(f) \in Nat /\ g = [i \in 1 .. Len(f) + 1 |-> g[i]]
  BY <1>1, LenProperties
<1> HIDE DEF g
<1>3. ASSUME NEW i \in 1 .. Len(f) + 1
      PROVE  g[i] = IF i = Len(f) + 1 THEN e ELSE f[i]
  <2>1. i = Len(f) + 1 \/ i \in 1 .. Len(f)
    BY <1>2
  <2> QED BY <1>1, <2>1
<1> QED BY <1>2, <1>3 DEF g

LEMMA StartStep ==
  ASSUME Inv, CountersInv, Scripted, InTurn, ~ Exhausted, NEW cmds \in Seq(Command),
         Call(Parsing(cmds, "unset")), mem'.live = mem.live,
         \A a \in Addr : SameProcess(mem, mem', a)
  PROVE  JobStep
<1> DEFINE a == Top.cur
           x == Parsing(cmds, "unset")
<1>1. /\ Sound(stack) /\ stack # <<>> /\ Holds(Top) /\ Top.at # "parse"
      /\ a \in Addr /\ a \in mem.live /\ mem.live \subseteq Addr
  BY TurnFacts, MemFields DEF Holds, PagingInv, PagingTypeOK
<1>2. PICK h \in Nat : Depth = 2 * h + 2
  BY <1>1, HalfDepth
<1>3. /\ Len(stack') = Depth + 1
      /\ \A i \in 1 .. Depth : stack'[i] = stack[i]
  <2>1. x \in Activation /\ Call(x)
    BY ParsingType DEF Err
  <2> HIDE DEF x
  <2> QED BY <1>1, <2>1, CallShape
<1>4. LinesRun' = [i \in 1 .. h + 1 |-> stack'[2 * i].cur]
  <2>1. Len(stack') = 2 * (h + 1) + 1 /\ h + 1 \in Nat
    BY <1>2, <1>3
  <2> QED BY <2>1, LinesNow, LinesShape
<1>5. /\ LinesRun = [i \in 1 .. h |-> stack[2 * i].cur]
      /\ LinesRun \in Seq(Addr) /\ Len(LinesRun) = h
  BY <1>1, <1>2, LinesHeld DEF Depth
<1>6. \A i \in 1 .. h : LinesRun'[i] = LinesRun[i]
  <2> SUFFICES ASSUME NEW i \in 1 .. h PROVE LinesRun'[i] = LinesRun[i]
    OBVIOUS
  <2>1. i \in 1 .. h + 1 /\ 2 * i \in 1 .. Depth
    BY <1>2
  <2> QED BY <1>3, <1>4, <1>5, <2>1
<1>7. LinesRun'[h + 1] = a
  <2>1. h + 1 \in 1 .. h + 1 /\ 2 * (h + 1) = Depth /\ Depth \in 1 .. Depth
    BY <1>2
  <2> QED BY <1>3, <1>4, <2>1 DEF Top
<1>8. LinesRun' = Append(LinesRun, a)
  <2>1. Append(LinesRun, a) = [i \in 1 .. Len(LinesRun) + 1 |->
                                 IF i = Len(LinesRun) + 1 THEN a ELSE LinesRun[i]]
    BY <1>1, <1>5, AppendPlaces
  <2>2. LinesRun' = [i \in 1 .. h + 1 |-> LinesRun'[i]]
    BY <1>4
  <2>3. ASSUME NEW i \in 1 .. h + 1
        PROVE  LinesRun'[i] = IF i = h + 1 THEN a ELSE LinesRun[i]
    <3>1. i = h + 1 \/ i \in 1 .. h
      OBVIOUS
    <3> QED BY <1>6, <1>7, <3>1
  <2>4. Append(LinesRun, a) = [i \in 1 .. h + 1 |-> IF i = h + 1 THEN a ELSE LinesRun[i]]
    BY <1>5, <2>1
  <2>5. LinesRun' = [i \in 1 .. h + 1 |-> IF i = h + 1 THEN a ELSE LinesRun[i]]
    BY <2>2, <2>3
  <2> QED BY <2>4, <2>5
<1>9. JobOf' = JobOf /\ Scripted'
  BY <1>1 DEF JobOf, SameProcess, SameCounters, Scripted, OfScript
<1>10. Jobs!Lines(a) > 0 => JobOf[a].pos < Jobs!Lines(a)
  <2>1. JobOf[a] = JobFor(mem.pcbs[a])
    BY <1>1, JobsNow, Zenon
  <2>2. Unfinished(mem.pcbs[a])
    BY TurnUnfinished DEF Current
  <2> QED BY <1>1, <2>1, <2>2, JobLines DEF JobFor, Unfinished
<1>11. a \in DOMAIN JobOf \ Jobs!Busy
  BY <1>1, TopIsIdle, JobsNow, Zenon
<1> HIDE DEF a
<1>12. Jobs!StartLine(a)
  BY <1>8, <1>9, <1>10, <1>11 DEF Jobs!StartLine
<1>13. a \in Addr
  BY <1>1
<1> QED BY <1>9, <1>12, <1>13 DEF JobStep, Jobs!Next

LEMMA EndStep ==
  ASSUME Inv, Scripted, LineFinished, Depth > 1, NEW cur, NEW k, Resume(cur, k),
         \/ mem'.live = mem.live
         \/ /\ mem'.live = mem.live \ {Waiting.cur}
            /\ mem.pcbs[Waiting.cur].program_counter + 1
                 = mem.pcbs[Waiting.cur].file_length,
         mem'.pcbs[Waiting.cur].program_counter
           = mem.pcbs[Waiting.cur].program_counter + 1,
         mem'.pcbs[Waiting.cur].filename = mem.pcbs[Waiting.cur].filename,
         mem'.pcbs[Waiting.cur].file_length = mem.pcbs[Waiting.cur].file_length,
         \A b \in Addr : b # Waiting.cur => SameProcess(mem, mem', b)
  PROVE  JobStep
<1> DEFINE a == Waiting.cur
<1>1. /\ Sound(stack) /\ stack # <<>> /\ Top.at = "parse"
      /\ a \in Addr /\ a \in mem.live /\ mem.live \subseteq Addr
  BY WaitingFacts, LiveAddr, MemFields DEF Inv, PagingInv, PagingTypeOK
<1>2. PICK h \in Nat \ {0} : Depth = 2 * h + 1
  <2>1. PICK h \in Nat : Depth = 2 * h + 1
    BY <1>1, HalfDepth
  <2> QED BY <2>1
<1>3. /\ LinesRun = [i \in 1 .. h |-> stack[2 * i].cur]
      /\ LinesRun \in Seq(Addr) /\ Len(LinesRun) = h
  BY <1>1, <1>2, LinesHeld DEF Depth
<1>4. LinesRun' = [i \in 1 .. h - 1 |-> stack[2 * i].cur]
  <2>1. /\ Len(stack') = Depth - 1
        /\ \A i \in 1 .. Depth - 2 : stack'[i] = stack[i]
    BY <1>1, ResumeShape
  <2>2. Len(stack') = 2 * (h - 1) + 2 /\ h - 1 \in Nat
    BY <1>2, <2>1
  <2>3. LinesRun' = [i \in 1 .. h - 1 |-> stack'[2 * i].cur]
    BY <2>2, LinesNow, LinesShape
  <2>4. \A i \in 1 .. h - 1 : 2 * i \in 1 .. Depth - 2
    BY <1>2
  <2> QED BY <2>1, <2>3, <2>4
<1>5. LinesRun' = SubSeq(LinesRun, 1, Len(LinesRun) - 1)
  <2>1. SubSeq(LinesRun, 1, h - 1) = [i \in 1 .. h - 1 |-> LinesRun[i]]
    BY <1>2, <1>3
  <2>2. \A i \in 1 .. h - 1 : LinesRun[i] = stack[2 * i].cur
    BY <1>2, <1>3
  <2> QED BY <1>3, <1>4, <2>1, <2>2
<1>6. LinesRun # <<>> /\ a = LinesRun[Len(LinesRun)]
  <2>1. h \in 1 .. h /\ 2 * h = Depth - 1
    BY <1>2
  <2> QED BY <1>2, <1>3, <2>1 DEF Waiting
<1>7. JobOf[a] = JobFor(mem.pcbs[a]) /\ DOMAIN JobOf = mem.live
  BY <1>1, JobsNow, Zenon
<1>8. \A b \in mem.live : b # a => JobFor(mem'.pcbs[b]) = JobOf[b]
  BY <1>1, JobsNow DEF JobFor, SameProcess, SameCounters
<1>9. Scripted'
  BY <1>1 DEF Scripted, OfScript, SameProcess, SameCounters
<1>10. CASE mem'.live = mem.live
  <2>1. JobFor(mem'.pcbs[a]) = [JobOf[a] EXCEPT !.pos = @ + 1]
    BY <1>7 DEF JobFor
  <2>2. JobOf' = Jobs!With(a, [JobOf[a] EXCEPT !.pos = @ + 1])
    BY <1>1, <1>7, <1>8, <1>10, <2>1, JobsNow DEF Jobs!With
  <2> HIDE DEF a
  <2>3. Jobs!EndLine(a)
    BY <1>5, <1>6, <2>2 DEF Jobs!EndLine
  <2> QED BY <1>1, <1>9, <2>3 DEF JobStep, Jobs!Next
<1>11. CASE mem'.live # mem.live
  <2>1. JobOf[a].pos + 1 = Jobs!Lines(a)
    BY <1>1, <1>7, <1>11, JobLines DEF JobFor
  <2>2. JobOf' = Jobs!Without(a)
    BY <1>7, <1>8, <1>11, JobsNow DEF Jobs!Without
  <2> HIDE DEF a
  <2>3. Jobs!EndLine(a)
    BY <1>5, <1>6, <2>1, <2>2 DEF Jobs!EndLine
  <2> QED BY <1>1, <1>9, <2>3 DEF JobStep, Jobs!Next
<1> QED BY <1>10, <1>11

-----------------------------------------------------------------------------
(* Every step is a step of the jobs, or of none. *)

LEMMA StackUnchanged ==
  ASSUME UNCHANGED stack
  PROVE  LinesRun' = LinesRun
BY DEF LinesRun, Depth

LEMMA JobsPrompt ==
  ASSUME Inv, Scripted, Type \/ BackToPrompt
  PROVE  JobStep
<1>1. UNCHANGED mem
  BY DEF Type, EndOfInput, ReadLine, BackToPrompt
<1>2. CASE EndOfInput
  BY <1>1, <1>2, StackUnchanged, MemUnchanged DEF EndOfInput
<1>3. ASSUME NEW line \in Inputs, ReadLine(line) PROVE JobStep
  <2>1. Len(stack) \in {0, 1, 2} /\ Len(stack') \in {0, 1, 2}
    BY <1>3 DEF ReadLine
  <2> QED BY <1>1, <2>1, LinesNow, NoLines, MemUnchanged
<1>4. CASE BackToPrompt
  <2>1. Len(stack) \in {0, 1, 2} /\ Len(stack') \in {0, 1, 2}
    BY <1>4 DEF BackToPrompt, Depth
  <2> QED BY <1>1, <2>1, LinesNow, NoLines, MemUnchanged
<1> QED BY <1>2, <1>3, <1>4 DEF Type

LEMMA JobsParse ==
  ASSUME Inv, Scripted, Parse
  PROVE  JobStep
<1>1. CASE Plain
  <2>1. LinesRun' = LinesRun
    BY <1>1, NextCommand, SameLinesBecome DEF Plain
  <2> QED BY <1>1, <2>1, MemUnchanged DEF Plain
<1>2. CASE Quit
  BY <1>2, StackUnchanged, MemUnchanged DEF Quit
<1>3. CASE Exec
  <2>1. LinesRun' = LinesRun
    BY <1>3, NextCommand, SameLinesCallBuild DEF Exec
  <2> QED BY <1>3, <2>1, MemUnchanged DEF Exec
<1>4. ASSUME NEW second, NEW third, Run(second, third) PROVE JobStep
  <2>1. LinesRun' = LinesRun
    BY <1>4, NextCommand, SameLinesCallBuild DEF Run
  <2> QED BY <1>4, <2>1, MemUnchanged DEF Run
<1> QED BY <1>1, <1>2, <1>3, <1>4, JobsPrompt DEF Parse

LEMMA JobsBuild ==
  ASSUME Inv, Scripted, BuildReadyQueue
  PROVE  JobStep
<1>1. Sound(stack) /\ stack # <<>> /\ Top.at = "build"
  BY DEF BuildReadyQueue, SkipNull, BuildMissing, BuildWild, BuildOutOfMemory,
         BuildDuplicate, BuildNew, StartPolicy, InvalidPolicy, BuildsNext, Running, Inv
<1>2. BuildRest => LinesRun' = LinesRun
  BY <1>1, SameLinesBecome DEF BuildRest
<1>3. CASE SkipNull
  BY <1>2, <1>3, MemUnchanged DEF SkipNull
<1>4. ASSUME BuildMissing \/ InvalidPolicy \/ BuildWild PROVE JobStep
  <2>1. UNCHANGED mem /\ (ReturnToParse("set") \/ UNCHANGED stack)
    BY <1>4 DEF BuildMissing, InvalidPolicy, BuildWild
  <2>2. LinesRun' = LinesRun
    BY <1>1, <2>1, SameLinesReturn, StackUnchanged DEF Err
  <2> QED BY <2>1, <2>2, MemUnchanged
<1>5. CASE BuildOutOfMemory
  BY <1>5, StackUnchanged, MemUnchanged DEF BuildOutOfMemory
<1>6. CASE StartPolicy
  <2>1. LinesRun' = LinesRun
    BY <1>1, <1>6, SameLinesBecome DEF StartPolicy
  <2> QED BY <1>6, <2>1, MemUnchanged DEF StartPolicy
<1>7. ASSUME NEW a \in Addr, BuildNew(a) PROVE JobStep
  <2>1. /\ PagingInv(mem) /\ NextProgram \in Files /\ a \notin mem.live
        /\ mem' = PcbInit(mem, a, NextProgram) /\ BuildRest
    BY <1>7 DEF Inv, BuildNew
  <2>2. Len(Source[NextProgram]) \in Nat
    BY <2>1, SchedulerAssumption
  <2>3. /\ mem'.live = mem.live \cup {a} /\ OfScript(mem'.pcbs[a])
        /\ mem'.pcbs[a].program_counter = 0
        /\ \A b \in Addr : b # a => SameProcess(mem, mem', b)
    BY <2>1, <2>2, PcbInitKeepsInv DEF OfScript, SameProcess, SameCounters
  <2> QED BY <1>2, <2>1, <2>3, SubmitStep
<1>8. ASSUME NEW a \in Addr, BuildDuplicate(a) PROVE JobStep
  <2> DEFINE places == DuplicatesOf(NextProgram)
             dup    == ready[FirstOf(places)]
  <2>1. /\ PagingInv(mem) /\ ready \in Seq(Addr) /\ a \notin mem.live
        /\ mem' = PcbDupInit(mem, a, dup) /\ BuildRest
    BY <1>8 DEF Inv, HeldApart, BuildDuplicate
  <2>2. places # {} /\ places \subseteq 1 .. Len(ready) /\ Len(ready) \in Nat
    BY <1>8, <2>1, LenProperties DEF BuildDuplicate, DuplicatesOf, Duplicates
  <2>3. FirstOf(places) \in 1 .. Len(ready)
    <3> HIDE DEF places
    <3>1. places \in SUBSET Nat
      BY <2>2
    <3> QED BY <2>2, <3>1, FirstOfPlaces
  <2>4. dup \in Addr /\ dup \in Queued(ready)
    BY <2>1, <2>3, LenProperties, ElementOfSeq DEF Queued
  <2> HIDE DEF dup, places
  <2>5. dup \in mem.live /\ a # dup
    BY <2>1, <2>4, LiveAddr
  <2>6. /\ mem'.live = mem.live \cup {a}
        /\ mem'.pcbs[a].filename = mem.pcbs[dup].filename
        /\ mem'.pcbs[a].file_length = mem.pcbs[dup].file_length
        /\ mem'.pcbs[a].program_counter = 0
        /\ \A b \in Addr : b # a => mem'.pcbs[b] = mem.pcbs[b]
    BY <2>1, <2>4, <2>5, PcbDupInitKeepsInv
  <2>7. OfScript(mem'.pcbs[a]) /\ \A b \in Addr : b # a => SameProcess(mem, mem', b)
    BY <2>5, <2>6 DEF Scripted, OfScript, SameProcess, SameCounters
  <2> QED BY <1>2, <2>1, <2>6, <2>7, SubmitStep
<1>9. CASE InvalidPolicy
  BY <1>4, <1>9
<1> QED BY <1>3, <1>4, <1>5, <1>6, <1>7, <1>8, <1>9 DEF BuildReadyQueue

(* A turn's step that runs no line. *)
LEMMA JobsTurn ==
  ASSUME Inv, Scripted,
         \/ PickNext \/ SchedulerReturns \/ Retire \/ Requeue \/ FaultAndRetry
         \/ FaultAndYield \/ FaultCrashes \/ PageTableOverrun
  PROVE  JobStep
<1>1. Sound(stack) /\ stack # <<>> /\ Top.at = "loop" /\ Top.err \in Err
  BY TopFacts, ActivationFields
     DEF PickNext, SchedulerReturns, Retire, Requeue, FaultAndRetry, FaultAndYield,
         FaultCrashes, PageTableOverrun, Faults, WantsLine, InTurn, Running, Inv
<1>2. CASE PickNext
  <2>1. LinesRun' = LinesRun
    BY <1>1, <1>2, SameLinesBecome DEF PickNext
  <2> QED BY <1>2, <2>1, MemUnchanged DEF PickNext
<1>3. CASE SchedulerReturns
  <2>1. LinesRun' = LinesRun
    BY <1>1, <1>3, SameLinesReturn DEF SchedulerReturns
  <2> QED BY <1>3, <2>1, MemUnchanged DEF SchedulerReturns
<1>4. Become(NoTurn(Top.err)) => LinesRun' = LinesRun
  BY <1>1, SameLinesBecome
<1>5. CASE Retire
  <2>1. /\ Top.cur \in Addr /\ Top.cur \in mem.live /\ Holds(Top)
        /\ Top.policy \in Policy /\ PagingInv(mem)
    BY <1>5, TurnFacts DEF Retire
  <2>2. mem'.live = mem.live \ {Top.cur} /\ mem'.pcbs = mem.pcbs
    BY <1>5, <2>1, PcbDeinitKeepsInv DEF Retire
  <2>3. Current.program_counter >= Current.file_length
    <3>1. Current.program_counter \in Nat /\ Current.file_length \in Nat
      BY <2>1, ProcessFields DEF Current
    <3> QED BY <1>5, <3>1 DEF Retire, Exhausted
  <2>4. Top.cur \notin Jobs!Busy
    BY <1>1, <2>1, TopIsIdle
  <2>5. LinesRun' = LinesRun
    BY <1>4, <1>5 DEF Retire
  <2> QED BY <2>1, <2>2, <2>3, <2>4, <2>5, FinishStep DEF Current
<1>6. CASE Requeue
  BY <1>4, <1>6, MemUnchanged DEF Requeue
<1>7. Faults => /\ FaultedMem.live = mem.live
                /\ \A a \in mem.live : SameProcess(mem, FaultedMem, a)
  <2>1. mem.live \subseteq Addr
    BY MemFields DEF Inv, PagingInv, PagingTypeOK
  <2> QED BY <2>1, FaultedFacts DEF SameProcesses, SameProcess, SameCounters
<1>8. CASE FaultAndRetry
  BY <1>7, <1>8, StackUnchanged, QuietStep DEF FaultAndRetry
<1>9. CASE FaultAndYield
  BY <1>4, <1>7, <1>9, QuietStep DEF FaultAndYield
<1>10. CASE FaultCrashes \/ PageTableOverrun
  BY <1>10, StackUnchanged, MemUnchanged DEF FaultCrashes, PageTableOverrun
<1> QED BY <1>2, <1>3, <1>5, <1>6, <1>8, <1>9, <1>10

LEMMA JobsLineStarts ==
  ASSUME Inv, CountersInv, Scripted, Execute \/ FaultAndExecute
  PROVE  JobStep
<1>1. CASE Execute
  <2>1. CurFrame \in Frame /\ CurOffset \in Offset
    BY <1>1, CurrentPlace DEF Execute, WantsLine
  <2>2. Fetch(mem, CurFrame, CurOffset) \in Seq(Command)
    BY <2>1, FetchType DEF Inv
  <2>3. mem'.pcbs = mem.pcbs /\ mem'.live = mem.live
    BY <1>1, <2>1, TouchKeepsInv DEF Execute, Inv
  <2>4. \A a \in Addr : SameProcess(mem, mem', a)
    BY <2>3 DEF SameProcess, SameCounters
  <2> QED BY <1>1, <2>2, <2>3, <2>4, StartStep DEF Execute, WantsLine
<1>2. CASE FaultAndExecute
  <2>1. /\ PagingInv(FaultedMem) /\ FaultFrame(mem) \in Frame /\ InTurn /\ ~ Exhausted
        /\ FaultedMem.live = mem.live /\ SameProcesses(mem.pcbs, FaultedMem.pcbs)
    BY <1>2, FaultedFacts, FaultCounters DEF FaultAndExecute
  <2>2. Fetch(FaultedMem, FaultFrame(mem), CurOffset) \in Seq(Command)
    BY <2>1, CurrentPlace, FetchType
  <2>3. mem'.pcbs = FaultedMem.pcbs /\ mem'.live = mem.live
    BY <1>2, <2>1, TouchKeepsInv DEF FaultAndExecute
  <2>4. \A a \in Addr : SameProcess(mem, mem', a)
    BY <2>1, <2>3 DEF SameProcesses, SameProcess, SameCounters
  <2> QED BY <1>2, <2>1, <2>2, <2>3, <2>4, StartStep DEF FaultAndExecute
<1> QED BY <1>1, <1>2

(* What a line that ends changes of the processes, before aging. *)
LEMMA AdvancedProcess ==
  ASSUME Inv, LineFinished, Depth > 1
  PROVE  LET a == Waiting.cur IN
         /\ Advanced.live = mem.live /\ PagingInv(Advanced) /\ a \in Addr
         /\ Advanced.pcbs[a].program_counter = mem.pcbs[a].program_counter + 1
         /\ Advanced.pcbs[a].filename = mem.pcbs[a].filename
         /\ Advanced.pcbs[a].file_length = mem.pcbs[a].file_length
         /\ \A b \in Addr : b # a => SameProcess(mem, Advanced, b)
<1> DEFINE a == Waiting.cur
<1>1. /\ a \in Addr /\ mem.pcbs \in [Addr -> Pcb]
      /\ Advanced.pcbs = [mem.pcbs EXCEPT ![a].program_counter = @ + 1]
      /\ Advanced.live = mem.live /\ PagingInv(Advanced)
  BY WaitingFacts, AdvancedFacts, MemFields DEF Inv, PagingInv, PagingTypeOK
<1>2. /\ Advanced.pcbs[a] = [mem.pcbs[a] EXCEPT !.program_counter = @ + 1]
      /\ \A b \in Addr : b # a => Advanced.pcbs[b] = mem.pcbs[b]
  BY <1>1
<1>3. mem.pcbs[a] \in Pcb
  BY <1>1
<1> HIDE DEF a
<1>4. /\ Advanced.pcbs[a].program_counter = mem.pcbs[a].program_counter + 1
      /\ Advanced.pcbs[a].filename = mem.pcbs[a].filename
      /\ Advanced.pcbs[a].file_length = mem.pcbs[a].file_length
  BY <1>2, <1>3 DEF Pcb
<1> QED BY <1>1, <1>2, <1>4 DEF a, SameProcess, SameCounters

LEMMA JobsLineEnds ==
  ASSUME Inv, Scripted, LineDone \/ AgingRetires \/ AgingRequeues
  PROVE  JobStep
<1>1. CASE LineDone
  <2>1. LineFinished /\ Depth > 1 /\ mem' = Advanced /\ Resume(Waiting.cur, Waiting.k + 1)
    BY <1>1 DEF LineDone
  <2> QED BY <2>1, AdvancedProcess, EndStep
<1>2. CASE AgingRetires
  <2>1. /\ LineFinished /\ Depth > 1 /\ mem' = PcbDeinit(Advanced, Waiting.cur)
        /\ Resume(NULL, 0) /\ LastLine
    BY <1>2 DEF AgingRetires
  <2>2. mem'.pcbs = Advanced.pcbs /\ mem'.live = mem.live \ {Waiting.cur}
    BY <2>1, AdvancedProcess, PcbDeinitKeepsInv
  <2>3. mem.pcbs[Waiting.cur].program_counter + 1 = mem.pcbs[Waiting.cur].file_length
    BY <2>1, AdvancedProcess DEF LastLine
  <2>4. \A b \in Addr : b # Waiting.cur => SameProcess(mem, mem', b)
    BY <2>1, <2>2, AdvancedProcess DEF SameProcess, SameCounters
  <2> QED BY <2>1, <2>2, <2>3, <2>4, AdvancedProcess, EndStep
<1>3. CASE AgingRequeues
  <2>1. LineFinished /\ Depth > 1 /\ mem' = AgedMem /\ Resume(NULL, 0)
    BY <1>3 DEF AgingRequeues
  <2>2. /\ mem'.live = mem.live
        /\ \A b \in Addr : SameProcess(Advanced, mem', b)
    BY <2>1, AgedFacts DEF SameProcess, SameCounters
  <2>3. \A b \in Addr : b # Waiting.cur => SameProcess(mem, mem', b)
    BY <2>1, <2>2, AdvancedProcess DEF SameProcess, SameCounters
  <2>4. /\ mem'.pcbs[Waiting.cur].program_counter
             = mem.pcbs[Waiting.cur].program_counter + 1
        /\ mem'.pcbs[Waiting.cur].filename = mem.pcbs[Waiting.cur].filename
        /\ mem'.pcbs[Waiting.cur].file_length = mem.pcbs[Waiting.cur].file_length
    BY <2>1, <2>2, AdvancedProcess DEF SameProcess, SameCounters
  <2> QED BY <2>1, <2>2, <2>3, <2>4, EndStep
<1> QED BY <1>1, <1>2, <1>3

LEMMA JobsNext ==
  ASSUME Inv, CountersInv, Scripted, [Next]_vars
  PROVE  JobStep
<1>1. CASE Ended \/ UNCHANGED vars
  BY <1>1, StackUnchanged, MemUnchanged DEF Ended, vars
<1>2. CASE Schedule
  BY <1>2, JobsTurn, JobsLineStarts, JobsLineEnds DEF Schedule
<1> QED BY <1>1, <1>2, JobsPrompt, JobsParse, JobsBuild DEF Next, Work

(* Under every policy, and however execs nest and fail, each process runs  *)
(* the lines of its script one at a time, each of them once and in order,  *)
(* and is freed by a scheduler only behind the last.                       *)
THEOREM RunsJobs == Spec => ImplementsJobRunner
<1>1. Init => Jobs!Init /\ Scripted
  <2> SUFFICES ASSUME Init PROVE Jobs!Init /\ Scripted
    OBVIOUS
  <2>1. mem.live = {} /\ Len(stack) = 0
    BY DEF Init, PagingInit
  <2>2. LinesRun = <<>>
    BY <2>1, LinesNow, NoLines
  <2>3. JobOf = <<>>
    BY <2>1 DEF JobOf
  <2> QED BY <2>1, <2>2, <2>3 DEF Jobs!Init, Scripted
<1>2. Inv /\ CountersInv /\ Scripted /\ [Next]_vars
        => (Inv /\ CountersInv /\ Scripted)' /\ [Jobs!Next]_(Jobs!vars)
  BY InvNext, CountersNext, JobsNext DEF JobStep
<1> QED BY <1>1, <1>2, InvInit, CountersInit, PTL DEF Spec, ImplementsJobRunner, Jobs!Spec

=============================================================================
