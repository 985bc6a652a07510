--------------------------- MODULE SchedulerProofs --------------------------
(***************************************************************************)
(* Safety of Scheduler for every set of scripts, every heap, every size of *)
(* the frame store and every sequence of commands.                         *)
(*                                                                         *)
(* The induction is over Inv below.  An action changes the memory, the     *)
(* ready queue and the top of the stack; the lemmas of PagingProofs speak  *)
(* of the first, the lemmas here of queues and of the stack, and one lemma *)
(* per action puts them together.                                          *)
(***************************************************************************)
EXTENDS Scheduler, PagingProofs, SequenceTheorems

-----------------------------------------------------------------------------
(* The operators of ReadyQueue, for every queue and scores *)

Distinct(queue) == \A i, j \in DOMAIN queue : queue[i] = queue[j] => i = j

LEMMA QueuedOfRange ==
  ASSUME NEW S, NEW queue \in Seq(S)
  PROVE  /\ Queued(queue) = {queue[i] : i \in 1 .. Len(queue)}
         /\ Queued(queue) \subseteq S
BY DEF Queued

LEMMA AppendQueued ==
  ASSUME NEW S, NEW queue \in Seq(S), NEW pcb \in S
  PROVE  LET new == AppendProcess(queue, pcb)
         IN  /\ new \in Seq(S)
             /\ Queued(new) = Queued(queue) \cup {pcb}
             /\ Distinct(queue) /\ pcb \notin Queued(queue) => Distinct(new)
<1> DEFINE new == AppendProcess(queue, pcb)
<1>1. /\ new \in Seq(S) /\ Len(new) = Len(queue) + 1
      /\ new[Len(queue) + 1] = pcb
      /\ \A i \in 1 .. Len(queue) : new[i] = queue[i]
  BY DEF AppendProcess
<1> HIDE DEF new
<1>2. DOMAIN new = 1 .. Len(new) /\ DOMAIN queue = 1 .. Len(queue) /\ Len(queue) \in Nat
  BY <1>1
<1>3. Queued(new) = Queued(queue) \cup {pcb}
  BY <1>1, <1>2 DEF Queued
<1>4. Distinct(queue) /\ pcb \notin Queued(queue) => Distinct(new)
  BY <1>1, <1>2 DEF Queued, Distinct
<1> QED BY <1>1, <1>3, <1>4 DEF new

(* What two queues joined hold is what either holds, once if neither holds *)
(* anything twice and they share nothing.                                  *)
LEMMA JoinQueued ==
  ASSUME NEW S, NEW first \in Seq(S), NEW second \in Seq(S)
  PROVE  LET new == first \o second
         IN  /\ new \in Seq(S)
             /\ Queued(new) = Queued(first) \cup Queued(second)
             /\ Distinct(new) <=> /\ Distinct(first) /\ Distinct(second)
                                 /\ Queued(first) \cap Queued(second) = {}
<1> DEFINE new == first \o second
           n == Len(first)
           k == Len(second)
<1>1. /\ new \in Seq(S) /\ Len(new) = n + k
      /\ \A i \in 1 .. n + k : new[i] = IF i <= n THEN first[i] ELSE second[i - n]
  BY ConcatProperties
<1>2. /\ n \in Nat /\ k \in Nat /\ DOMAIN first = 1 .. n /\ DOMAIN second = 1 .. k
      /\ DOMAIN new = 1 .. n + k
  BY <1>1, LenProperties
<1> HIDE DEF new, n, k
<1>3. \A i \in 1 .. n : i \in 1 .. n + k /\ new[i] = first[i]
  BY <1>1, <1>2
<1>4. \A i \in 1 .. k : i + n \in 1 .. n + k /\ new[i + n] = second[i]
  <2> SUFFICES ASSUME NEW i \in 1 .. k PROVE i + n \in 1 .. n + k /\ new[i + n] = second[i]
    OBVIOUS
  <2>1. i + n \in 1 .. n + k /\ ~ (i + n <= n) /\ (i + n) - n = i
    BY <1>2
  <2> QED BY <1>1, <2>1
<1>5. ASSUME NEW i \in 1 .. n + k
      PROVE  \/ i \in 1 .. n /\ new[i] = first[i]
             \/ \E j \in 1 .. k : i = j + n /\ new[i] = second[j]
  <2>1. CASE i <= n
    BY <1>1, <1>2, <2>1
  <2>2. CASE ~ (i <= n)
    <3>1. i - n \in 1 .. k /\ i = (i - n) + n /\ new[i] = second[i - n]
      BY <1>1, <1>2, <2>2
    <3> QED BY <3>1
  <2> QED BY <2>1, <2>2
<1>6. Queued(new) = Queued(first) \cup Queued(second)
  <2>1. Queued(new) \subseteq Queued(first) \cup Queued(second)
    BY <1>2, <1>5 DEF Queued
  <2>2. Queued(first) \subseteq Queued(new)
    BY <1>2, <1>3 DEF Queued
  <2>3. Queued(second) \subseteq Queued(new)
    <3>1. ASSUME NEW j \in 1 .. k PROVE second[j] \in Queued(new)
      BY <1>2, <1>4 DEF Queued
    <3> QED BY <1>2, <3>1 DEF Queued
  <2> QED BY <2>1, <2>2, <2>3
<1>7. ASSUME Distinct(new)
      PROVE  Distinct(first) /\ Distinct(second) /\ Queued(first) \cap Queued(second) = {}
  <2>1. Distinct(first)
    BY <1>2, <1>3, <1>7 DEF Distinct
  <2>2. ASSUME NEW i \in 1 .. k, NEW j \in 1 .. k, second[i] = second[j] PROVE i = j
    <3>1. new[i + n] = new[j + n] /\ i + n \in DOMAIN new /\ j + n \in DOMAIN new
      BY <1>2, <1>4, <2>2
    <3>2. i + n = j + n
      BY <3>1, <1>7 DEF Distinct
    <3> QED BY <3>2, <1>2
  <2>3. ASSUME NEW i \in 1 .. n, NEW j \in 1 .. k PROVE first[i] # second[j]
    <3>1. i \in DOMAIN new /\ j + n \in DOMAIN new /\ i # j + n
      BY <1>2, <1>3, <1>4
    <3>2. new[i] # new[j + n]
      BY <3>1, <1>7 DEF Distinct
    <3> QED BY <3>2, <1>3, <1>4
  <2> QED BY <2>1, <2>2, <2>3, <1>2 DEF Distinct, Queued
<1>8. ASSUME Distinct(first), Distinct(second), Queued(first) \cap Queued(second) = {}
      PROVE  Distinct(new)
  <2>1. \A i \in 1 .. n, j \in 1 .. k : first[i] # second[j]
    BY <1>2, <1>8 DEF Queued
  <2>2. ASSUME NEW i \in 1 .. n + k, NEW j \in 1 .. n + k, new[i] = new[j]
        PROVE  i = j
    <3>1. CASE i \in 1 .. n /\ new[i] = first[i] /\ j \in 1 .. n /\ new[j] = first[j]
      BY <3>1, <2>2, <1>2, <1>8 DEF Distinct
    <3>2. CASE \E x, y \in 1 .. k : /\ i = x + n /\ new[i] = second[x]
                                    /\ j = y + n /\ new[j] = second[y]
      BY <3>2, <2>2, <1>2, <1>8 DEF Distinct
    <3> QED BY <1>5, <2>1, <2>2, <3>1, <3>2
  <2> QED BY <2>2, <1>2 DEF Distinct
<1> QED BY <1>1, <1>6, <1>7, <1>8 DEF new

LEMMA AppendLeftQueued ==
  ASSUME NEW S, NEW queue \in Seq(S), NEW pcb \in S
  PROVE  LET new == AppendLeftProcess(queue, pcb)
         IN  /\ new \in Seq(S)
             /\ Queued(new) = Queued(queue) \cup {pcb}
             /\ Distinct(queue) /\ pcb \notin Queued(queue) => Distinct(new)
<1>1. <<pcb>> \in Seq(S) /\ Queued(<<pcb>>) = {pcb} /\ Distinct(<<pcb>>)
  BY DEF Queued, Distinct
<1> DEFINE one == <<pcb>>
           new == one \o queue
<1> HIDE DEF one
<1>2. /\ new \in Seq(S)
      /\ Queued(new) = Queued(one) \cup Queued(queue)
      /\ Distinct(new) <=> /\ Distinct(one) /\ Distinct(queue)
                          /\ Queued(one) \cap Queued(queue) = {}
  BY <1>1, JoinQueued DEF one
<1>3. Queued(one) = {pcb} /\ Distinct(one) /\ new = AppendLeftProcess(queue, pcb)
  BY <1>1 DEF AppendLeftProcess, one
<1> HIDE DEF new
<1> QED BY <1>2, <1>3

LEMMA TailQueued ==
  ASSUME NEW S, NEW queue \in Seq(S), queue # <<>>
  PROVE  /\ Tail(queue) \in Seq(S)
         /\ Head(queue) \in S
         /\ Queued(queue) = Queued(Tail(queue)) \cup {Head(queue)}
         /\ Distinct(queue) => /\ Distinct(Tail(queue))
                               /\ Head(queue) \notin Queued(Tail(queue))
<1>1. /\ Tail(queue) \in Seq(S) /\ Head(queue) \in S
      /\ queue = <<Head(queue)>> \o Tail(queue)
  <2> DEFINE head == <<Head(queue)>>
             tail == Tail(queue)
             join == head \o tail
  <2>1. /\ tail \in Seq(S) /\ Len(tail) = Len(queue) - 1 /\ Len(queue) \in Nat
        /\ \A i \in 1 .. Len(tail) : tail[i] = queue[i + 1]
        /\ Head(queue) \in S /\ Head(queue) = queue[1] /\ Len(queue) > 0
    BY HeadTailProperties, LenProperties, EmptySeq
  <2>2. head \in Seq(S) /\ Len(head) = 1 /\ head[1] = queue[1]
    BY <2>1
  <2> HIDE DEF head, tail
  <2>3. /\ join \in Seq(S) /\ Len(join) = Len(head) + Len(tail)
        /\ \A i \in 1 .. Len(head) + Len(tail) :
             join[i] = IF i <= Len(head) THEN head[i] ELSE tail[i - Len(head)]
    <3>1. head \in Seq(S) /\ tail \in Seq(S)
      BY <2>1, <2>2
    <3> QED BY <3>1, ConcatProperties
  <2> HIDE DEF join
  <2>5. Len(head) = 1 /\ Len(join) = Len(queue) /\ Len(head) + Len(tail) = Len(queue)
    BY <2>1, <2>2, <2>3
  <2>4. ASSUME NEW i \in 1 .. Len(queue) PROVE join[i] = queue[i]
    <3>1. CASE i = 1
      BY <3>1, <2>2, <2>3, <2>5
    <3>2. CASE i # 1
      <4>1. i - 1 \in 1 .. Len(tail) /\ (i - 1) + 1 = i /\ ~ (i <= 1)
        BY <3>2, <2>1
      <4>2. tail[i - 1] = queue[(i - 1) + 1]
        BY <4>1, <2>1
      <4> QED BY <4>1, <4>2, <2>3, <2>5
    <3> QED BY <3>1, <3>2
  <2> QED BY <2>1, <2>3, <2>4, <2>5, SeqEqual DEF join, head, tail
<1>2. /\ <<Head(queue)>> \in Seq(S)
      /\ Queued(<<Head(queue)>>) = {Head(queue)} /\ Distinct(<<Head(queue)>>)
  BY <1>1 DEF Queued, Distinct
<1> DEFINE head == <<Head(queue)>>
           tail == Tail(queue)
           join == head \o tail
<1> HIDE DEF head, tail
<1>3. head \in Seq(S) /\ tail \in Seq(S)
  BY <1>1, <1>2 DEF head, tail
<1>4. /\ Queued(join) = Queued(head) \cup Queued(tail)
      /\ Distinct(join) <=> /\ Distinct(head) /\ Distinct(tail)
                           /\ Queued(head) \cap Queued(tail) = {}
  BY <1>3, JoinQueued
<1>5. join = queue /\ Queued(head) = {Head(queue)} /\ tail = Tail(queue)
  BY <1>1, <1>2 DEF head, tail
<1> HIDE DEF join
<1> QED BY <1>1, <1>4, <1>5

(* One comparison of the sort exchanges two processes or none. *)
LEMMA ExchangePermutes ==
  ASSUME NEW S, NEW queue \in Seq(S), NEW score,
         NEW i \in Nat \ {0}, NEW j \in Nat, i < j
  PROVE  LET new == Exchange(queue, i, j, score)
         IN  /\ new \in Seq(S)
             /\ Len(new) = Len(queue)
             /\ Queued(new) = Queued(queue)
             /\ Distinct(queue) => Distinct(new)
<1> DEFINE new == Exchange(queue, i, j, score)
<1>1. CASE new = queue
  BY <1>1
<1>2. CASE j <= Len(queue) /\ new = [queue EXCEPT ![i] = queue[j], ![j] = queue[i]]
  <2>1. i \in 1 .. Len(queue) /\ j \in 1 .. Len(queue) /\ Len(queue) \in Nat
    BY <1>2
  <2>2. /\ new \in Seq(S) /\ Len(new) = Len(queue)
        /\ new[i] = queue[j] /\ new[j] = queue[i]
        /\ \A k \in 1 .. Len(queue) : k # i /\ k # j => new[k] = queue[k]
    BY <1>2, <2>1
  <2> HIDE DEF new
  <2>3. DOMAIN new = 1 .. Len(queue) /\ DOMAIN queue = 1 .. Len(queue)
    BY <2>2
  <2>4. Queued(new) = Queued(queue)
    BY <2>1, <2>2, <2>3 DEF Queued
  <2>5. Distinct(queue) => Distinct(new)
    BY <2>1, <2>2, <2>3 DEF Distinct
  <2> QED BY <2>2, <2>4, <2>5 DEF new
<1> QED BY <1>1, <1>2 DEF Exchange

(* sort_ready_queue neither loses nor doubles a process, however many are  *)
(* queued.                                                                 *)
LEMMA SortPermutes ==
  ASSUME NEW S, NEW queue \in Seq(S), NEW score
  PROVE  LET new == SortReadyQueue(queue, score)
         IN  /\ new \in Seq(S)
             /\ Queued(new) = Queued(queue)
             /\ Distinct(queue) => Distinct(new)
<1> DEFINE count  == IF Len(queue) < MAX_NUM_PROGRAMS THEN Len(queue)
                                                      ELSE MAX_NUM_PROGRAMS
           popped == SubSeq(queue, 1, count)
           round1 == Exchange(popped, 1, 2, score)
           round2 == Exchange(round1, 1, 3, score)
           sorted == Exchange(round2, 2, 3, score)
           rest   == SubSeq(queue, count + 1, Len(queue))
           new    == rest \o sorted
<1>1. new = SortReadyQueue(queue, score)
  BY DEF SortReadyQueue
<1>2. count \in 0 .. Len(queue) /\ Len(queue) \in Nat
  BY LenProperties DEF MAX_NUM_PROGRAMS
<1> HIDE DEF count
<1>3. /\ popped \in Seq(S) /\ Len(popped) = count
      /\ \A k \in 1 .. count : popped[k] = queue[k]
  BY <1>2, ElementOfSeq, SubSeqProperties
<1>4. /\ rest \in Seq(S) /\ Len(rest) = Len(queue) - count
      /\ \A k \in 1 .. Len(rest) : rest[k] = queue[k + count]
  <2>1. /\ count + 1 \in Int /\ Len(queue) \in Int
        /\ \A i \in count + 1 .. Len(queue) : queue[i] \in S
    BY <1>2, ElementOfSeq
  <2>2. /\ rest \in Seq(S)
        /\ Len(rest) = IF count + 1 <= Len(queue) THEN Len(queue) - (count + 1) + 1 ELSE 0
        /\ \A i \in 1 .. Len(queue) - (count + 1) + 1 : rest[i] = queue[(count + 1) + i - 1]
    BY <2>1, SubSeqProperties
  <2> HIDE DEF rest
  <2>3. Len(rest) = Len(queue) - count
    BY <1>2, <2>2
  <2>4. ASSUME NEW k \in 1 .. Len(rest) PROVE rest[k] = queue[k + count]
    <3>1. k \in 1 .. Len(queue) - (count + 1) + 1 /\ (count + 1) + k - 1 = k + count
      BY <1>2, <2>3
    <3> QED BY <3>1, <2>2
  <2> QED BY <2>2, <2>3, <2>4
<1> HIDE DEF popped, rest
<1>5. /\ round1 \in Seq(S) /\ Queued(round1) = Queued(popped)
      /\ Distinct(popped) => Distinct(round1)
  BY <1>3, ExchangePermutes
<1> HIDE DEF round1
<1>6. /\ round2 \in Seq(S) /\ Queued(round2) = Queued(popped)
      /\ Distinct(popped) => Distinct(round2)
  BY <1>5, ExchangePermutes
<1> HIDE DEF round2
<1>7. /\ sorted \in Seq(S) /\ Queued(sorted) = Queued(popped)
      /\ Distinct(popped) => Distinct(sorted)
  BY <1>6, ExchangePermutes
<1> HIDE DEF sorted
<1>8. queue = popped \o rest
  <2> DEFINE join == popped \o rest
  <2>5. /\ join \in Seq(S) /\ Len(join) = Len(popped) + Len(rest)
        /\ \A i \in 1 .. Len(popped) + Len(rest) :
             join[i] = IF i <= Len(popped) THEN popped[i] ELSE rest[i - Len(popped)]
    <3>1. popped \in Seq(S) /\ rest \in Seq(S)
      BY <1>3, <1>4
    <3> QED BY <3>1, ConcatProperties
  <2> HIDE DEF join
  <2>1. /\ join \in Seq(S) /\ Len(join) = count + Len(rest)
        /\ \A i \in 1 .. count + Len(rest) :
             join[i] = IF i <= count THEN popped[i] ELSE rest[i - count]
    BY <2>5, <1>3
  <2>2. Len(join) = Len(queue)
    BY <1>2, <1>4, <2>1
  <2>3. ASSUME NEW i \in 1 .. Len(join) PROVE join[i] = queue[i]
    <3>1. CASE i <= count
      BY <3>1, <1>2, <1>3, <1>4, <2>1, <2>2
    <3>2. CASE ~ (i <= count)
      <4>1. i - count \in 1 .. Len(rest) /\ (i - count) + count = i
        BY <3>2, <1>2, <1>4, <2>2
      <4>2. rest[i - count] = queue[(i - count) + count]
        BY <4>1, <1>4
      <4>3. join[i] = rest[i - count]
        BY <2>1, <3>2
      <4> QED BY <4>1, <4>2, <4>3
    <3> QED BY <3>1, <3>2
  <2> QED BY <2>1, <2>2, <2>3, SeqEqual DEF join
<1>9. Queued(queue) = Queued(popped) \cup Queued(rest)
  BY <1>3, <1>4, <1>8, JoinQueued
<1>10. Distinct(queue) => /\ Distinct(popped) /\ Distinct(rest)
                         /\ Queued(popped) \cap Queued(rest) = {}
  BY <1>3, <1>4, <1>8, JoinQueued
<1>11. /\ new \in Seq(S) /\ Queued(new) = Queued(rest) \cup Queued(sorted)
       /\ Distinct(rest) /\ Distinct(sorted) /\ Queued(rest) \cap Queued(sorted) = {}
             => Distinct(new)
  BY <1>4, <1>7, JoinQueued
<1> QED BY <1>1, <1>7, <1>9, <1>10, <1>11

-----------------------------------------------------------------------------
(* Activations *)

LEMMA ParsingType ==
  ASSUME NEW cmds \in Seq(Command), NEW err \in Err
  PROVE  /\ Parsing(cmds, err) \in Activation
         /\ Parsing(cmds, err).at = "parse" /\ ~ Holds(Parsing(cmds, err))
BY DEF Parsing, Activation, Holds

LEMMA BuildingType ==
  ASSUME NEW programs \in Seq(Names \cup {NULL, WILD}),
         NEW policy \in Policy \cup {"invalid"}
  PROVE  /\ Building(programs, policy) \in Activation
         /\ Building(programs, policy).at = "build"
         /\ ~ Holds(Building(programs, policy))
BY DEF Building, Activation, Holds

LEMMA LoopingType ==
  ASSUME NEW policy \in Policy, NEW cur \in Addr \cup {NULL}, NEW k \in Nat,
         NEW err \in Err
  PROVE  /\ Looping(policy, cur, k, err) \in Activation
         /\ Looping(policy, cur, k, err).at = "loop"
         /\ Looping(policy, cur, k, err).cur = cur
         /\ Looping(policy, cur, k, err).policy = policy
         /\ Holds(Looping(policy, cur, k, err)) <=> cur # NULL
BY DEF Looping, Activation, Holds

LEMMA ActivationFields ==
  ASSUME NEW x \in Activation
  PROVE  /\ x.at \in {"parse", "build", "loop"}
         /\ x.at = "parse" => /\ x.cmds \in Seq(Command)
                              /\ x.err \in Err
                              /\ x = Parsing(x.cmds, x.err)
         /\ x.at = "build" => /\ x.programs \in Seq(Names \cup {NULL, WILD})
                              /\ x.policy \in Policy \cup {"invalid"}
         /\ x.at = "loop"  => /\ x.policy \in Policy
                              /\ x.cur \in Addr \cup {NULL}
                              /\ x.k \in Nat
                              /\ x.err \in Err
BY DEF Activation, Parsing

LEMMA ParseExcept ==
  ASSUME NEW x \in Activation, x.at = "parse",
         NEW cmds \in Seq(Command), NEW err \in Err
  PROVE  /\ [x EXCEPT !.cmds = cmds] = Parsing(cmds, x.err)
         /\ [x EXCEPT !.err = err] = Parsing(x.cmds, err)
BY ActivationFields DEF Parsing

-----------------------------------------------------------------------------
(* Stacks of activations *)

Nested(s) ==
  \A i \in DOMAIN s :
    /\ (i % 2 = 1) <=> (s[i].at = "parse")
    /\ i < Len(s) /\ s[i].at # "parse" => Holds(s[i])

HoldingIn(s) == {i \in DOMAIN s : Holds(s[i])}
HeldBy(s)    == {s[i].cur : i \in HoldingIn(s)}
Once(s)      == \A i, j \in HoldingIn(s) : s[i].cur = s[j].cur => i = j

Sound(s) == s \in Seq(Activation) /\ Nested(s) /\ Once(s)

LEMMA HeldProcesses ==
  ASSUME NEW s \in Seq(Activation)
  PROVE  HeldBy(s) \subseteq Addr
<1> SUFFICES ASSUME NEW i \in DOMAIN s, Holds(s[i]) PROVE s[i].cur \in Addr
  BY DEF HeldBy, HoldingIn
<1>1. s[i] \in Activation
  BY LenProperties, ElementOfSeq
<1> QED BY <1>1, ActivationFields DEF Holds

(* An activation that holds no process is put on top. *)
LEMMA PushSound ==
  ASSUME NEW s, Sound(s), NEW x \in Activation, ~ Holds(x),
         s # <<>> => s[Len(s)].at = "parse" \/ Holds(s[Len(s)]),
         (x.at = "parse") <=> (Len(s) % 2 = 0)
  PROVE  Sound(Append(s, x)) /\ HeldBy(Append(s, x)) = HeldBy(s)
<1> DEFINE new == Append(s, x)
           n   == Len(s)
<1>1. /\ new \in Seq(Activation) /\ Len(new) = n + 1 /\ new[n + 1] = x
      /\ \A i \in 1 .. n : new[i] = s[i]
  BY AppendProperties DEF Sound
<1>2. DOMAIN s = 1 .. n /\ n \in Nat /\ DOMAIN new = 1 .. n + 1 /\ (n > 0 => s # <<>>)
  BY <1>1, LenProperties, EmptySeq DEF Sound
<1> HIDE DEF new, n
<1>3. HoldingIn(new) = HoldingIn(s)
  BY <1>1, <1>2 DEF HoldingIn
<1>4. \A i \in HoldingIn(s) : new[i] = s[i]
  BY <1>1, <1>2 DEF HoldingIn
<1>5. HeldBy(new) = HeldBy(s)
  BY <1>3, <1>4 DEF HeldBy
<1>6. Once(new)
  BY <1>3, <1>4 DEF Once, Sound
<1>7. Nested(new)
  <2> SUFFICES ASSUME NEW i \in 1 .. n + 1
               PROVE  /\ (i % 2 = 1) <=> (new[i].at = "parse")
                      /\ i < n + 1 /\ new[i].at # "parse" => Holds(new[i])
    BY <1>1, <1>2 DEF Nested
  <2>1. CASE i = n + 1
    <3>1. (n + 1) % 2 = 1 <=> n % 2 = 0
      BY <1>2
    <3> QED BY <2>1, <3>1, <1>1, <1>2 DEF n
  <2>2. CASE i < n
    BY <2>2, <1>1, <1>2 DEF Nested, Sound, n
  <2>3. CASE i = n
    BY <2>3, <1>1, <1>2 DEF Nested, Sound, n
  <2>4. i = n + 1 \/ i < n \/ i = n
    BY <1>2
  <2> QED BY <2>1, <2>2, <2>3, <2>4
<1> QED BY <1>1, <1>5, <1>6, <1>7 DEF new, n, Sound

(* The top is replaced by an activation of the same parity. *)
LEMMA ReplaceSound ==
  ASSUME NEW s, Sound(s), s # <<>>, NEW x \in Activation,
         (x.at = "parse") <=> (s[Len(s)].at = "parse"),
         Holds(x) => \/ Holds(s[Len(s)]) /\ s[Len(s)].cur = x.cur
                     \/ x.cur \notin HeldBy(s)
  PROVE  LET new  == [s EXCEPT ![Len(s)] = x]
             top  == s[Len(s)]
         IN  /\ Sound(new) /\ Len(new) = Len(s) /\ new[Len(new)] = x
             /\ ~ Holds(x) /\ ~ Holds(top) => HeldBy(new) = HeldBy(s)
             /\ Holds(x) /\ ~ Holds(top) => HeldBy(new) = HeldBy(s) \cup {x.cur}
             /\ ~ Holds(x) /\ Holds(top) => /\ HeldBy(new) = HeldBy(s) \ {top.cur}
                                            /\ top.cur \in HeldBy(s)
             /\ Holds(x) /\ Holds(top) /\ x.cur = top.cur => HeldBy(new) = HeldBy(s)
<1> DEFINE new == [s EXCEPT ![Len(s)] = x]
           n   == Len(s)
<1>2. DOMAIN s = 1 .. n /\ n \in Nat /\ n > 0 /\ s \in Seq(Activation)
  BY LenProperties, EmptySeq DEF Sound
<1>1. /\ new \in Seq(Activation) /\ Len(new) = n /\ new[n] = x
      /\ \A i \in 1 .. n : i # n => new[i] = s[i]
  BY <1>2, ExceptSeq
<1>3. DOMAIN new = 1 .. n
  BY <1>1, LenProperties
<1> HIDE DEF new, n
<1>4. \A i \in 1 .. n : i # n => (i \in HoldingIn(new) <=> i \in HoldingIn(s))
  BY <1>1, <1>2, <1>3 DEF HoldingIn
<1>5. n \in HoldingIn(new) <=> Holds(x)
  BY <1>1, <1>2, <1>3 DEF HoldingIn
<1>6. n \in HoldingIn(s) <=> Holds(s[n])
  BY <1>1, <1>2, <1>3 DEF HoldingIn
<1>7. HoldingIn(s) \subseteq 1 .. n /\ HoldingIn(new) \subseteq 1 .. n
  BY <1>2, <1>3 DEF HoldingIn
<1>8. Nested(new)
  <2> SUFFICES ASSUME NEW i \in 1 .. n
               PROVE  /\ (i % 2 = 1) <=> (new[i].at = "parse")
                      /\ i < n /\ new[i].at # "parse" => Holds(new[i])
    BY <1>1, <1>3 DEF Nested
  <2>1. CASE i = n
    BY <2>1, <1>1, <1>2 DEF Nested, Sound, n
  <2>2. CASE i # n
    BY <2>2, <1>1, <1>2 DEF Nested, Sound, n
  <2> QED BY <2>1, <2>2
<1>9. Once(new)
  <2> SUFFICES ASSUME NEW i \in HoldingIn(new), NEW j \in HoldingIn(new),
                      new[i].cur = new[j].cur
               PROVE  i = j
    BY DEF Once
  <2>1. CASE i # n /\ j # n
    BY <2>1, <1>1, <1>4, <1>7 DEF Once, Sound
  <2>2. CASE i = n /\ j # n
    <3>1. Holds(x) /\ j \in HoldingIn(s) /\ s[j].cur = x.cur
      BY <2>2, <1>1, <1>4, <1>5, <1>7
    <3>2. x.cur \in HeldBy(s)
      BY <3>1 DEF HeldBy
    <3> QED BY <3>1, <3>2, <2>2, <1>6 DEF Once, Sound, n
  <2>3. CASE i # n /\ j = n
    <3>1. Holds(x) /\ i \in HoldingIn(s) /\ s[i].cur = x.cur
      BY <2>3, <1>1, <1>4, <1>5, <1>7
    <3>2. x.cur \in HeldBy(s)
      BY <3>1 DEF HeldBy
    <3> QED BY <3>1, <3>2, <2>3, <1>6 DEF Once, Sound, n
  <2> QED BY <2>1, <2>2, <2>3
<1>10. ASSUME NEW i \in HoldingIn(s), i # n
       PROVE  new[i].cur = s[i].cur /\ (Holds(s[n]) => s[i].cur # s[n].cur)
  BY <1>10, <1>1, <1>6, <1>7 DEF Once, Sound
<1>11. ~ Holds(x) /\ ~ Holds(s[n]) => HeldBy(new) = HeldBy(s)
  BY <1>4, <1>5, <1>6, <1>7, <1>10 DEF HeldBy
<1>12. Holds(x) /\ ~ Holds(s[n]) => HeldBy(new) = HeldBy(s) \cup {x.cur}
  <2> SUFFICES ASSUME Holds(x), ~ Holds(s[n]) PROVE HeldBy(new) = HeldBy(s) \cup {x.cur}
    OBVIOUS
  <2>1. HoldingIn(new) = HoldingIn(s) \cup {n} /\ n \notin HoldingIn(s)
    BY <1>2, <1>4, <1>5, <1>6, <1>7
  <2> QED BY <2>1, <1>1, <1>10 DEF HeldBy
<1>13. ~ Holds(x) /\ Holds(s[n]) => /\ HeldBy(new) = HeldBy(s) \ {s[n].cur}
                                    /\ s[n].cur \in HeldBy(s)
  <2> SUFFICES ASSUME ~ Holds(x), Holds(s[n])
               PROVE  /\ HeldBy(new) = HeldBy(s) \ {s[n].cur}
                      /\ s[n].cur \in HeldBy(s)
    OBVIOUS
  <2>1. HoldingIn(new) = HoldingIn(s) \ {n} /\ n \in HoldingIn(s)
    BY <1>2, <1>4, <1>5, <1>6, <1>7
  <2> QED BY <2>1, <1>1, <1>10 DEF HeldBy
<1>14. Holds(x) /\ Holds(s[n]) /\ x.cur = s[n].cur => HeldBy(new) = HeldBy(s)
  <2> SUFFICES ASSUME Holds(x), Holds(s[n]), x.cur = s[n].cur PROVE HeldBy(new) = HeldBy(s)
    OBVIOUS
  <2>1. \A i : i \in HoldingIn(new) <=> i \in HoldingIn(s)
    BY <1>4, <1>5, <1>6, <1>7
  <2>2. \A i \in HoldingIn(s) : new[i].cur = s[i].cur
    BY <1>1, <1>10
  <2> QED BY <2>1, <2>2 DEF HeldBy
<1> QED BY <1>1, <1>8, <1>9, <1>11, <1>12, <1>13, <1>14 DEF new, n, Sound

(* An activation that holds no process is taken off the top. *)
LEMMA PopSound ==
  ASSUME NEW s, Sound(s), s # <<>>, ~ Holds(s[Len(s)])
  PROVE  LET new == SubSeq(s, 1, Len(s) - 1)
         IN  /\ Sound(new) /\ Len(new) = Len(s) - 1 /\ HeldBy(new) = HeldBy(s)
             /\ \A i \in 1 .. Len(s) - 1 : new[i] = s[i]
<1> DEFINE new == SubSeq(s, 1, Len(s) - 1)
           n   == Len(s)
<1>2. DOMAIN s = 1 .. n /\ n \in Nat /\ n > 0 /\ s \in Seq(Activation)
  BY LenProperties, EmptySeq DEF Sound
<1>1. /\ new \in Seq(Activation) /\ Len(new) = n - 1
      /\ \A i \in 1 .. n - 1 : new[i] = s[i]
  <2>1. n - 1 \in Int /\ 1 \in Int /\ \A i \in 1 .. n - 1 : s[i] \in Activation
    BY <1>2, ElementOfSeq
  <2>2. /\ new \in Seq(Activation)
        /\ Len(new) = IF 1 <= n - 1 THEN (n - 1) - 1 + 1 ELSE 0
        /\ \A i \in 1 .. (n - 1) - 1 + 1 : new[i] = s[1 + i - 1]
    BY <2>1, SubSeqProperties
  <2> HIDE DEF new, n
  <2> QED BY <2>2, <1>2
<1>3. DOMAIN new = 1 .. n - 1
  BY <1>1, LenProperties
<1> HIDE DEF new
<1>4. n \notin HoldingIn(s)
  BY DEF HoldingIn
<1>5. HoldingIn(new) = HoldingIn(s)
  BY <1>1, <1>2, <1>3, <1>4 DEF HoldingIn
<1>6. \A i \in HoldingIn(s) : new[i] = s[i]
  BY <1>1, <1>3, <1>5 DEF HoldingIn
<1>7. HeldBy(new) = HeldBy(s)
  BY <1>5, <1>6 DEF HeldBy
<1>8. Once(new)
  BY <1>5, <1>6 DEF Once, Sound
<1>9. Nested(new)
  BY <1>1, <1>2, <1>3 DEF Nested, Sound
<1> QED BY <1>1, <1>7, <1>8, <1>9 DEF new, Sound

-----------------------------------------------------------------------------
(* The ways a step changes the stack *)

LEMMA TopFacts ==
  ASSUME Sound(stack), stack # <<>>
  PROVE  /\ Depth \in Nat \ {0} /\ DOMAIN stack = 1 .. Depth
         /\ Top \in Activation
         /\ (Depth % 2 = 1) <=> (Top.at = "parse")
         /\ Depth > 1 => /\ stack[Depth - 1] \in Activation
                         /\ stack[Depth - 1].at = "parse" <=> Top.at # "parse"
                         /\ Top.at = "parse" => Holds(stack[Depth - 1])
         /\ Top.at # "parse" => Depth > 1
         /\ Holds(Top) => Top.cur \in HeldBy(stack) /\ Top.cur \in Addr
<1>1. Depth \in Nat \ {0} /\ DOMAIN stack = 1 .. Depth
  BY LenProperties, EmptySeq DEF Sound, Depth
<1>2. Top \in Activation /\ Depth \in DOMAIN stack
  BY <1>1, ElementOfSeq DEF Sound, Top, Depth
<1>3. (Depth % 2 = 1) <=> (Top.at = "parse")
  BY <1>2 DEF Sound, Nested, Top
<1>4. ASSUME Depth > 1
      PROVE  /\ stack[Depth - 1] \in Activation
             /\ stack[Depth - 1].at = "parse" <=> Top.at # "parse"
             /\ Top.at = "parse" => Holds(stack[Depth - 1])
  <2>1. Depth - 1 \in DOMAIN stack /\ Depth - 1 < Depth
    BY <1>1, <1>4
  <2>2. ((Depth - 1) % 2 = 1) <=> ~ (Depth % 2 = 1)
    BY <1>1
  <2>3. stack[Depth - 1] \in Activation
    BY <2>1, ElementOfSeq, <1>1 DEF Sound, Depth
  <2>4. /\ ((Depth - 1) % 2 = 1) <=> (stack[Depth - 1].at = "parse")
        /\ stack[Depth - 1].at # "parse" => Holds(stack[Depth - 1])
    BY <2>1 DEF Sound, Nested, Depth
  <2> QED BY <2>2, <2>3, <2>4, <1>3
<1>5. Top.at # "parse" => Depth > 1
  BY <1>1, <1>3
<1>6. Holds(Top) => Top.cur \in HeldBy(stack) /\ Top.cur \in Addr
  BY <1>2, ActivationFields DEF Holds, HeldBy, HoldingIn, Top
<1> QED BY <1>1, <1>2, <1>3, <1>4, <1>5, <1>6

LEMMA CallSound ==
  ASSUME Sound(stack), stack # <<>>, Holds(Top),
         NEW x \in Activation, x.at = "parse", Call(x)
  PROVE  Sound(stack') /\ HeldBy(stack') = HeldBy(stack)
<1>1. ~ Holds(x) /\ Top.at # "parse"
  BY DEF Holds
<1>2. Depth % 2 = 0
  BY <1>1, TopFacts
<1> QED BY <1>1, <1>2, PushSound DEF Call, Depth, Top

LEMMA BecomeSound ==
  ASSUME Sound(stack), stack # <<>>, NEW x \in Activation, Become(x),
         x.at = "parse" <=> Top.at = "parse",
         Holds(x) => ~ Holds(Top) /\ x.cur \notin HeldBy(stack)
  PROVE  /\ Sound(stack')
         /\ Holds(x) => HeldBy(stack') = HeldBy(stack) \cup {x.cur}
         /\ ~ Holds(x) /\ ~ Holds(Top) => HeldBy(stack') = HeldBy(stack)
         /\ ~ Holds(x) /\ Holds(Top) => HeldBy(stack') = HeldBy(stack) \ {Top.cur}
BY ReplaceSound DEF Become, Depth, Top

(* exec returns to the parseInput below it. *)
LEMMA ReturnSound ==
  ASSUME Sound(stack), stack # <<>>, Top.at # "parse", ~ Holds(Top),
         NEW err \in Err, ReturnToParse(err)
  PROVE  Sound(stack') /\ HeldBy(stack') = HeldBy(stack)
<1> DEFINE pop == SubSeq(stack, 1, Len(stack) - 1)
           x   == [pop[Len(pop)] EXCEPT !.err = err]
<1>1. /\ Depth \in Nat /\ Depth > 1 /\ stack[Depth - 1] \in Activation
      /\ stack[Depth - 1].at = "parse"
  BY TopFacts
<1>2. /\ Sound(pop) /\ Len(pop) = Depth - 1 /\ HeldBy(pop) = HeldBy(stack)
      /\ \A i \in 1 .. Len(stack) - 1 : pop[i] = stack[i]
  BY PopSound DEF Depth, Top
<1>3. stack' = [pop EXCEPT ![Len(pop)] = x]
  BY <1>2 DEF ReturnToParse, Depth
<1>4. pop[Len(pop)] = stack[Depth - 1] /\ pop # <<>>
  <2>1. Depth - 1 \in 1 .. Len(stack) - 1
    BY <1>1 DEF Depth
  <2> HIDE DEF pop
  <2>2. Len(pop) # 0
    BY <1>1, <1>2
  <2>3. pop # <<>>
    BY <2>2, EmptySeq
  <2> QED BY <1>2, <2>1, <2>3
<1> HIDE DEF pop
<1>5. /\ x = Parsing(stack[Depth - 1].cmds, err)
      /\ stack[Depth - 1].cmds \in Seq(Command)
  <2>1. stack[Depth - 1].cmds \in Seq(Command) /\ stack[Depth - 1] \in Activation
    BY <1>1, ActivationFields
  <2>2. [stack[Depth - 1] EXCEPT !.err = err] = Parsing(stack[Depth - 1].cmds, err)
    BY <2>1, <1>1, ParseExcept
  <2> QED BY <2>1, <2>2, <1>4
<1>6. x \in Activation /\ x.at = "parse" /\ ~ Holds(x) /\ ~ Holds(pop[Len(pop)])
  BY <1>1, <1>4, <1>5, ParsingType DEF Holds
<1> HIDE DEF x
<1>7. pop[Len(pop)].at = "parse"
  BY <1>1, <1>4
<1>8. Sound(stack')
  BY <1>2, <1>3, <1>4, <1>6, <1>7, ReplaceSound
<1>9. HeldBy(stack') = HeldBy(pop)
  BY <1>2, <1>3, <1>4, <1>6, <1>7, ReplaceSound
<1> QED BY <1>2, <1>8, <1>9

(* parseInput returns to the scheduler below it. *)
LEMMA ResumeSound ==
  ASSUME Sound(stack), stack # <<>>, Depth > 1, Top.at = "parse",
         NEW cur, NEW k \in Nat, Resume(cur, k),
         cur = NULL \/ cur = Waiting.cur
  PROVE  /\ Sound(stack')
         /\ Waiting \in Activation /\ Holds(Waiting)
         /\ Waiting.cur \in HeldBy(stack) /\ Waiting.cur \in Addr
         /\ cur = Waiting.cur => HeldBy(stack') = HeldBy(stack)
         /\ cur = NULL => HeldBy(stack') = HeldBy(stack) \ {Waiting.cur}
<1> DEFINE pop == SubSeq(stack, 1, Len(stack) - 1)
           x   == Looping(Waiting.policy, cur, k, Top.err)
<1>1. /\ Depth \in Nat /\ Waiting \in Activation /\ Waiting.at = "loop"
      /\ Holds(Waiting) /\ Top \in Activation /\ DOMAIN stack = 1 .. Depth
  BY TopFacts DEF Waiting, Holds
<1>2. /\ Waiting.policy \in Policy /\ Waiting.cur \in Addr /\ Top.err \in Err
      /\ Waiting.cur # NULL
  BY <1>1, ActivationFields DEF Holds
<1>3. /\ Sound(pop) /\ Len(pop) = Depth - 1 /\ HeldBy(pop) = HeldBy(stack)
      /\ \A i \in 1 .. Len(stack) - 1 : pop[i] = stack[i]
  BY PopSound DEF Depth, Top, Holds
<1>4. stack' = [pop EXCEPT ![Len(pop)] = x]
  BY <1>3 DEF Resume, Depth
<1>5. pop[Len(pop)] = Waiting /\ pop # <<>>
  <2>1. Depth - 1 \in 1 .. Len(stack) - 1
    BY <1>1 DEF Depth
  <2> HIDE DEF pop
  <2>2. Len(pop) # 0
    BY <1>1, <1>3
  <2>3. pop # <<>>
    BY <2>2, EmptySeq
  <2> QED BY <1>3, <2>1, <2>3 DEF Waiting
<1> HIDE DEF pop
<1>6. /\ x \in Activation /\ x.at = "loop" /\ x.cur = cur
      /\ Holds(x) <=> cur # NULL
  <2>1. cur \in Addr \cup {NULL}
    BY <1>2
  <2>2. Waiting.policy \in Policy /\ Top.err \in Err
    BY <1>2
  <2> QED BY <2>1, <2>2 DEF Looping, Activation, Holds
<1> HIDE DEF x
<1>7. Sound(stack')
  BY <1>1, <1>3, <1>4, <1>5, <1>6, ReplaceSound
<1>8. Waiting.cur \in HeldBy(stack)
  BY <1>1 DEF HeldBy, HoldingIn, Waiting
<1>9. cur = Waiting.cur => HeldBy(stack') = HeldBy(stack)
  BY <1>1, <1>2, <1>3, <1>4, <1>5, <1>6, ReplaceSound
<1>10. cur = NULL => HeldBy(stack') = HeldBy(stack) \ {Waiting.cur}
  BY <1>1, <1>2, <1>3, <1>4, <1>5, <1>6, ReplaceSound
<1> QED BY <1>1, <1>2, <1>7, <1>8, <1>9, <1>10

-----------------------------------------------------------------------------
(* The inductive invariant *)

Statuses == {"running", "exited", "failed", "crashed"}

(* mem.live is exactly what the queue and the schedulers hold, and no      *)
(* process is in two of these places.                                      *)
HeldApart(live, queue, s) ==
  /\ queue \in Seq(Addr) /\ Distinct(queue)
  /\ HeldBy(s) \cap Queued(queue) = {}
  /\ live = Queued(queue) \cup HeldBy(s)

(* PagingInv speaks of every block of the heap, freed ones included: a     *)
(* freed block whose frames are still resident is handed out again, and    *)
(* mem_free_memory_frame writes into it meanwhile.                         *)
Inv ==
  /\ PagingInv(mem)
  /\ Sound(stack)
  /\ HeldApart(mem.live, ready, stack)
  /\ status \in Statuses
  /\ typed \in 0 .. MaxInputs

LEMMA InvTypeOK ==
  ASSUME Inv
  PROVE  TypeOK
<1>1. WellNested
  BY DEF Inv, Sound, Nested, WellNested, Depth
<1> QED BY <1>1 DEF Inv, TypeOK, PagingInv, Sound, HeldApart, Statuses

LEMMA InvHeldOnce ==
  ASSUME Inv
  PROVE  EachProcessHeldOnce
<1>1. Holding = HoldingIn(stack)
  BY DEF Holding, HoldingIn
<1>2. {stack[i].cur : i \in Holding} = HeldBy(stack)
  BY <1>1 DEF HeldBy
<1>3. \A i \in Holding : stack[i].cur \in HeldBy(stack)
  BY <1>2
<1>4. /\ Distinct(ready) /\ Once(stack)
      /\ HeldBy(stack) \cap Queued(ready) = {}
      /\ mem.live = Queued(ready) \cup HeldBy(stack)
  BY DEF Inv, Sound, HeldApart
<1> QED BY <1>1, <1>2, <1>3, <1>4 DEF EachProcessHeldOnce, Distinct, Once

LEMMA InvFrames ==
  ASSUME Inv
  PROVE  FramesAccounted
BY DEF Inv, PagingInv, FramesAccounted

LEMMA InvPages ==
  ASSUME Inv
  PROVE  PagesAreOwn
<1>1. mem.live \subseteq Addr
  BY MemFields DEF Inv, PagingInv, PagingTypeOK
<1> QED BY <1>1 DEF Inv, PagingInv, PagesAreOwn, OwnPagesSound, LoadedPcbSound

LEMMA InvInit == Init => Inv
<1> SUFFICES ASSUME Init PROVE Inv
  OBVIOUS
<1>1. PagingInv(mem)
  BY PagingInitInv DEF Init
<1>2. stack \in Seq(Activation) /\ DOMAIN stack = {}
  BY DEF Init
<1>3. Sound(stack) /\ HeldBy(stack) = {}
  BY <1>2 DEF Sound, Nested, Once, HoldingIn, HeldBy
<1>4. HeldApart(mem.live, ready, stack)
  BY <1>3 DEF Init, HeldApart, Distinct, Queued, PagingInit
<1> QED BY <1>1, <1>3, <1>4, SchedulerAssumption DEF Init, Inv, Statuses

-----------------------------------------------------------------------------
(* The prompt and parseInput: the memory and the queue are not touched. *)

LEMMA StackOnly ==
  ASSUME Inv, Sound(stack'), HeldBy(stack') = HeldBy(stack),
         UNCHANGED <<mem, ready>>, status' \in Statuses, typed' \in 0 .. MaxInputs
  PROVE  Inv'
BY DEF Inv, HeldApart

LEMMA InvReadLine ==
  ASSUME Inv, NEW line \in Inputs, ReadLine(line)
  PROVE  Inv'
<1>1. /\ Parsing(line, "unset") \in Activation
      /\ Parsing(line, "unset").at = "parse" /\ ~ Holds(Parsing(line, "unset"))
  BY ParsingType, SchedulerAssumption DEF Err
<1>2. stack = <<>> /\ stack' = Append(stack, Parsing(line, "unset"))
  BY DEF ReadLine
<1>3. Sound(stack') /\ HeldBy(stack') = HeldBy(stack)
  <2>1. Len(stack) % 2 = 0 /\ Sound(stack)
    BY <1>2 DEF Inv
  <2> QED BY <1>1, <1>2, <2>1, PushSound
<1>4. typed' \in 0 .. MaxInputs
  BY SchedulerAssumption DEF ReadLine, Inv
<1> QED BY <1>3, <1>4, StackOnly DEF ReadLine, Inv

LEMMA InvEndOfInput ==
  ASSUME Inv, EndOfInput
  PROVE  Inv'
BY StackOnly DEF EndOfInput, Inv, Statuses

LEMMA NextCommand ==
  ASSUME Inv, NEW op, HasCommand(op)
  PROVE  /\ Sound(stack) /\ stack # <<>> /\ Top \in Activation
         /\ Top.at = "parse" /\ ~ Holds(Top)
         /\ Top.cmds \in Seq(Command) /\ Top.err \in Err
         /\ Head(Top.cmds) \in Command /\ Tail(Top.cmds) \in Seq(Command)
         /\ Head(Top.cmds).op = op
<1>1. /\ Sound(stack) /\ stack # <<>> /\ Top \in Activation
      /\ Top.at = "parse" /\ ~ Holds(Top)
  BY TopFacts DEF HasCommand, Running, Inv, Holds
<1>2. Top.cmds \in Seq(Command) /\ Top.err \in Err
  BY <1>1, ActivationFields
<1> QED BY <1>1, <1>2, HeadTailProperties DEF HasCommand

LEMMA InvPlain ==
  ASSUME Inv, Plain
  PROVE  Inv'
<1>1. /\ Sound(stack) /\ stack # <<>> /\ Top.at = "parse" /\ ~ Holds(Top)
      /\ Tail(Top.cmds) \in Seq(Command)
  BY NextCommand DEF Plain
<1> DEFINE x == Parsing(Tail(Top.cmds), "set")
<1>2. x \in Activation /\ x.at = "parse" /\ ~ Holds(x)
  BY <1>1, ParsingType DEF Err
<1>3. Become(x)
  BY DEF Plain
<1> HIDE DEF x
<1>4. Sound(stack') /\ HeldBy(stack') = HeldBy(stack)
  BY <1>1, <1>2, <1>3, BecomeSound
<1> QED BY <1>4, StackOnly DEF Plain, Inv

LEMMA InvQuit ==
  ASSUME Inv, Quit
  PROVE  Inv'
BY StackOnly DEF Quit, Inv, Statuses

LEMMA CallBuildSound ==
  ASSUME Inv, stack # <<>>, Top.at = "parse",
         NEW programs \in Seq(Names \cup {NULL, WILD}),
         NEW policy \in Policy \cup {"invalid"},
         Tail(Top.cmds) \in Seq(Command), CallBuild(programs, policy)
  PROVE  Sound(stack') /\ HeldBy(stack') = HeldBy(stack)
<1> DEFINE rest == [Top EXCEPT !.cmds = Tail(Top.cmds)]
           left == [stack EXCEPT ![Depth] = rest]
           x    == Building(programs, policy)
<1>1. /\ Sound(stack) /\ Top \in Activation /\ ~ Holds(Top)
      /\ Depth \in Nat /\ Depth % 2 = 1
  BY TopFacts DEF Inv, Holds
<1>2. rest = Parsing(Tail(Top.cmds), Top.err) /\ Top.err \in Err
  BY <1>1, ParseExcept, ActivationFields
<1>3. rest \in Activation /\ rest.at = "parse" /\ ~ Holds(rest)
  BY <1>2, ParsingType
<1>4. x \in Activation /\ x.at = "build" /\ ~ Holds(x)
  BY BuildingType
<1>5. stack' = Append(left, x)
  BY DEF CallBuild, Top
<1> HIDE DEF rest, x
<1>6. /\ Sound(left) /\ Len(left) = Depth /\ left[Len(left)] = rest
      /\ HeldBy(left) = HeldBy(stack)
  BY <1>1, <1>3, ReplaceSound DEF Depth, Top
<1> HIDE DEF left
<1>7. Len(left) % 2 # 0
  BY <1>1, <1>6
<1> QED BY <1>3, <1>4, <1>5, <1>6, <1>7, PushSound

LEMMA InvExec ==
  ASSUME Inv, Exec
  PROVE  Inv'
<1> DEFINE cmd == Head(Top.cmds)
<1>1. /\ stack # <<>> /\ Top.at = "parse" /\ cmd \in Command /\ cmd.op = "exec"
      /\ Tail(Top.cmds) \in Seq(Command)
  BY NextCommand DEF Exec
<1>2. CallBuild(cmd.programs, cmd.policy)
  BY DEF Exec
<1> HIDE DEF cmd
<1>3. cmd.programs \in Seq(Names) /\ cmd.policy \in Policy \cup {"invalid"}
  BY <1>1 DEF Command
<1>4. cmd.programs \in Seq(Names \cup {NULL, WILD})
  BY <1>3
<1>5. Sound(stack') /\ HeldBy(stack') = HeldBy(stack)
  BY <1>1, <1>2, <1>3, <1>4, CallBuildSound
<1> QED BY <1>5, StackOnly DEF Exec, Inv

LEMMA InvRun ==
  ASSUME Inv, NEW second \in Names \cup {NULL, WILD},
         NEW third \in Names \cup {NULL, WILD}, Run(second, third)
  PROVE  Inv'
<1> DEFINE cmd == Head(Top.cmds)
           programs == <<cmd.programs[1], second, third>>
<1>1. /\ stack # <<>> /\ Top.at = "parse" /\ cmd \in Command /\ cmd.op = "run"
      /\ Tail(Top.cmds) \in Seq(Command)
  BY NextCommand DEF Run
<1>2. CallBuild(programs, cmd.policy)
  BY DEF Run
<1> HIDE DEF cmd
<1>3. (\E name \in Names : cmd.programs = <<name>>) /\ cmd.policy = "FCFS"
  BY <1>1 DEF Command
<1>4. programs \in Seq(Names \cup {NULL, WILD})
  BY <1>3
<1>5. cmd.policy \in Policy \cup {"invalid"}
  BY <1>3 DEF Policy
<1> HIDE DEF programs
<1>6. Sound(stack') /\ HeldBy(stack') = HeldBy(stack)
  BY <1>1, <1>2, <1>4, <1>5, CallBuildSound
<1> QED BY <1>6, StackOnly DEF Run, Inv

LEMMA InvBackToPrompt ==
  ASSUME Inv, BackToPrompt
  PROVE  Inv'
<1>1. Sound(stack) /\ stack # <<>> /\ Depth = 1 /\ Top.at = "parse" /\ ~ Holds(Top)
  BY DEF BackToPrompt, LineFinished, Running, Inv, Holds
<1> DEFINE pop == SubSeq(stack, 1, Len(stack) - 1)
<1>2. Sound(pop) /\ Len(pop) = 0 /\ HeldBy(pop) = HeldBy(stack)
  BY <1>1, PopSound DEF Depth, Top
<1> HIDE DEF pop
<1>3. pop = <<>>
  BY <1>2, EmptySeq DEF Sound
<1>4. Sound(stack') /\ HeldBy(stack') = HeldBy(stack)
  BY <1>2, <1>3 DEF BackToPrompt
<1> QED BY <1>4, StackOnly DEF BackToPrompt, Inv, Statuses

-----------------------------------------------------------------------------
(* build_ready_queue *)

LEMMA NextToBuild ==
  ASSUME Inv, BuildsNext
  PROVE  /\ Sound(stack) /\ stack # <<>> /\ Top \in Activation
         /\ Top.at = "build" /\ ~ Holds(Top)
         /\ NextProgram \in Names \cup {NULL, WILD}
         /\ Building(Tail(Top.programs), Top.policy) \in Activation
         /\ Building(Tail(Top.programs), Top.policy).at = "build"
         /\ ~ Holds(Building(Tail(Top.programs), Top.policy))
<1>1. /\ Sound(stack) /\ stack # <<>> /\ Top \in Activation
      /\ Top.at = "build" /\ ~ Holds(Top)
  BY TopFacts DEF BuildsNext, Running, Inv, Holds
<1>2. /\ Top.programs \in Seq(Names \cup {NULL, WILD})
      /\ Top.policy \in Policy \cup {"invalid"}
  BY <1>1, ActivationFields
<1>3. /\ Tail(Top.programs) \in Seq(Names \cup {NULL, WILD})
      /\ Head(Top.programs) \in Names \cup {NULL, WILD}
  BY <1>2, HeadTailProperties DEF BuildsNext
<1> QED BY <1>1, <1>2, <1>3, BuildingType DEF NextProgram

LEMMA BuildRestSound ==
  ASSUME Inv, BuildsNext, BuildRest
  PROVE  Sound(stack') /\ HeldBy(stack') = HeldBy(stack)
<1> DEFINE x == Building(Tail(Top.programs), Top.policy)
<1>1. /\ Sound(stack) /\ stack # <<>> /\ Top.at = "build" /\ ~ Holds(Top)
      /\ x \in Activation /\ x.at = "build" /\ ~ Holds(x)
  BY NextToBuild
<1>2. Become(x)
  BY DEF BuildRest
<1> HIDE DEF x
<1> QED BY <1>1, <1>2, BecomeSound

(* A process is appended that was not live. *)
LEMMA NewProcess ==
  ASSUME Inv, NEW a \in Addr, a \notin mem.live,
         Sound(stack'), HeldBy(stack') = HeldBy(stack),
         PagingInv(mem'), mem'.live = mem.live \cup {a},
         ready' = AppendProcess(ready, a), UNCHANGED <<status, typed>>
  PROVE  Inv'
<1>1. HeldApart(mem.live, ready, stack)
  BY DEF Inv
<1>2. a \notin Queued(ready) /\ a \notin HeldBy(stack)
  BY <1>1 DEF HeldApart
<1>3. /\ ready' \in Seq(Addr) /\ Queued(ready') = Queued(ready) \cup {a}
      /\ Distinct(ready')
  BY <1>1, <1>2, AppendQueued DEF HeldApart
<1>4. HeldApart(mem'.live, ready', stack')
  BY <1>1, <1>2, <1>3 DEF HeldApart
<1> QED BY <1>4 DEF Inv

LEMMA InvSkipNull ==
  ASSUME Inv, SkipNull
  PROVE  Inv'
<1>1. Sound(stack') /\ HeldBy(stack') = HeldBy(stack)
  BY BuildRestSound DEF SkipNull
<1> QED BY <1>1, StackOnly DEF SkipNull, Inv

LEMMA FirstOfPlaces ==
  ASSUME NEW places \in SUBSET Nat, places # {}
  PROVE  FirstOf(places) \in places
BY LeastExists DEF FirstOf

LEMMA InvBuildDuplicate ==
  ASSUME Inv, NEW a \in Addr, BuildDuplicate(a)
  PROVE  Inv'
<1> DEFINE places == DuplicatesOf(NextProgram)
           dup    == ready[FirstOf(places)]
<1>1. PagingInv(mem) /\ ready \in Seq(Addr) /\ mem.live = Queued(ready) \cup HeldBy(stack)
  BY DEF Inv, HeldApart
<1>2. places # {} /\ places \subseteq 1 .. Len(ready)
  BY <1>1, LenProperties DEF BuildDuplicate, DuplicatesOf, Duplicates
<1>3. FirstOf(places) \in 1 .. Len(ready)
  <2> HIDE DEF places
  <2>1. Len(ready) \in Nat
    BY <1>1, LenProperties
  <2>2. places \in SUBSET Nat
    BY <1>2, <2>1
  <2> QED BY <1>2, <2>2, FirstOfPlaces
<1>4. dup \in Addr /\ dup \in Queued(ready)
  BY <1>1, <1>3, LenProperties, ElementOfSeq DEF Queued
<1>5. mem' = PcbDupInit(mem, a, dup) /\ a \notin mem.live
  BY DEF BuildDuplicate
<1> HIDE DEF dup, places
<1>6. a # dup
  BY <1>1, <1>4, <1>5
<1>7. PagingInv(mem') /\ mem'.live = mem.live \cup {a}
  BY <1>1, <1>4, <1>5, <1>6, PcbDupInitKeepsInv
<1>8. Sound(stack') /\ HeldBy(stack') = HeldBy(stack)
  BY BuildRestSound DEF BuildDuplicate
<1> QED BY <1>7, <1>8, NewProcess DEF BuildDuplicate

LEMMA InvBuildNew ==
  ASSUME Inv, NEW a \in Addr, BuildNew(a)
  PROVE  Inv'
<1>1. PagingInv(mem) /\ NextProgram \in Files /\ a \notin mem.live
      /\ mem' = PcbInit(mem, a, NextProgram)
  BY DEF Inv, BuildNew
<1>2. Len(Source[NextProgram]) \in Nat
  BY <1>1, SchedulerAssumption
<1>3. PagingInv(mem') /\ mem'.live = mem.live \cup {a}
  BY <1>1, <1>2, PcbInitKeepsInv
<1>4. Sound(stack') /\ HeldBy(stack') = HeldBy(stack)
  BY BuildRestSound DEF BuildNew
<1> QED BY <1>1, <1>3, <1>4, NewProcess DEF BuildNew

LEMMA InvBuildMissing ==
  ASSUME Inv, BuildMissing
  PROVE  Inv'
<1>1. Sound(stack') /\ HeldBy(stack') = HeldBy(stack)
  BY NextToBuild, ReturnSound DEF BuildMissing, Err
<1> QED BY <1>1, StackOnly DEF BuildMissing, Inv

LEMMA InvBuildOutOfMemory ==
  ASSUME Inv, BuildOutOfMemory
  PROVE  Inv'
BY StackOnly DEF BuildOutOfMemory, Inv, Statuses

LEMMA InvBuildWild ==
  ASSUME Inv, BuildWild
  PROVE  Inv'
<1>1. CASE ReturnToParse("set") /\ UNCHANGED status
  <2>1. Sound(stack') /\ HeldBy(stack') = HeldBy(stack)
    BY <1>1, NextToBuild, ReturnSound DEF BuildWild, Err
  <2> QED BY <1>1, <2>1, StackOnly DEF BuildWild, Inv
<1>2. CASE status' = "crashed" /\ UNCHANGED stack
  BY <1>2, StackOnly DEF BuildWild, Inv, Statuses
<1> QED BY <1>1, <1>2 DEF BuildWild

(* Only the queue's order changes. *)
LEMMA QueueReordered ==
  ASSUME Inv, Sound(stack'), HeldBy(stack') = HeldBy(stack),
         ready' \in Seq(Addr), Queued(ready') = Queued(ready), Distinct(ready'),
         UNCHANGED <<mem, status, typed>>
  PROVE  Inv'
BY DEF Inv, HeldApart

LEMMA InvStartPolicy ==
  ASSUME Inv, StartPolicy
  PROVE  Inv'
<1> DEFINE x == Looping(Top.policy, NULL, 0, "unset")
<1>1. /\ Sound(stack) /\ stack # <<>> /\ Top.at = "build" /\ ~ Holds(Top)
      /\ Top.policy \in Policy
  BY DEF StartPolicy, Running, Inv, Holds
<1>2. x \in Activation /\ x.at = "loop" /\ ~ Holds(x)
  BY <1>1 DEF Looping, Activation, Holds, Err
<1>3. Become(x)
  BY DEF StartPolicy
<1> HIDE DEF x
<1>4. Sound(stack') /\ HeldBy(stack') = HeldBy(stack)
  BY <1>1, <1>2, <1>3, BecomeSound
<1>5. ready \in Seq(Addr) /\ Distinct(ready)
  BY DEF Inv, HeldApart
<1>6. /\ ready' \in Seq(Addr) /\ Queued(ready') = Queued(ready)
      /\ Distinct(ready')
  BY <1>5, SortPermutes DEF StartPolicy
<1> QED BY <1>4, <1>6, QueueReordered DEF StartPolicy

LEMMA InvInvalidPolicy ==
  ASSUME Inv, InvalidPolicy
  PROVE  Inv'
<1>1. Sound(stack) /\ stack # <<>> /\ Top.at = "build" /\ ~ Holds(Top)
  BY DEF InvalidPolicy, Running, Inv, Holds
<1>2. Sound(stack') /\ HeldBy(stack') = HeldBy(stack)
  BY <1>1, ReturnSound DEF InvalidPolicy, Err
<1> QED BY <1>2, StackOnly DEF InvalidPolicy, Inv

-----------------------------------------------------------------------------
(* The schedulers *)

LEMMA PickNextFacts ==
  ASSUME Inv, PickNext
  PROVE  /\ Sound(stack') /\ HeldBy(stack') = HeldBy(stack) \cup {Head(ready)}
         /\ Head(ready) \in Queued(ready) /\ Head(ready) \in Addr
<1> DEFINE x == Looping(Top.policy, Head(ready), 0, Top.err)
<1>1. /\ Sound(stack) /\ stack # <<>> /\ Top \in Activation /\ Top.at = "loop"
      /\ ~ Holds(Top)
  BY TopFacts DEF PickNext, Running, Inv, Holds
<1>2. ready \in Seq(Addr) /\ ready # <<>> /\ HeldBy(stack) \cap Queued(ready) = {}
  BY DEF PickNext, Inv, HeldApart
<1>3. Head(ready) \in Queued(ready) /\ Head(ready) \in Addr
  BY <1>2, TailQueued
<1>4. Head(ready) \notin HeldBy(stack) /\ Head(ready) # NULL
  BY <1>2, <1>3, Constants
<1>5. Top.policy \in Policy /\ Top.err \in Err
  BY <1>1, ActivationFields
<1>6. x \in Activation /\ x.at = "loop" /\ Holds(x) /\ x.cur = Head(ready)
  BY <1>3, <1>4, <1>5 DEF Looping, Activation, Holds
<1>7. Become(x)
  BY DEF PickNext
<1> HIDE DEF x
<1>8. Sound(stack') /\ HeldBy(stack') = HeldBy(stack) \cup {x.cur}
  BY <1>1, <1>4, <1>6, <1>7, BecomeSound
<1> QED BY <1>3, <1>6, <1>8

LEMMA InvPickNext ==
  ASSUME Inv, PickNext
  PROVE  Inv'
<1>1. ready \in Seq(Addr) /\ ready # <<>> /\ Distinct(ready)
  BY DEF PickNext, Inv, HeldApart
<1>2. /\ ready' \in Seq(Addr) /\ Distinct(ready')
      /\ Queued(ready) = Queued(ready') \cup {Head(ready)}
      /\ Head(ready) \notin Queued(ready')
  BY <1>1, TailQueued DEF PickNext
<1>3. HeldApart(mem'.live, ready', stack')
  BY <1>2, PickNextFacts DEF HeldApart, Inv, PickNext
<1> QED BY <1>3, PickNextFacts DEF Inv, PickNext

LEMMA InvSchedulerReturns ==
  ASSUME Inv, SchedulerReturns
  PROVE  Inv'
<1>1. /\ Sound(stack) /\ stack # <<>> /\ Top \in Activation /\ Top.at = "loop"
      /\ ~ Holds(Top)
  BY TopFacts DEF SchedulerReturns, Running, Inv, Holds
<1>2. Sound(stack') /\ HeldBy(stack') = HeldBy(stack)
  BY <1>1, ActivationFields, ReturnSound DEF SchedulerReturns
<1> QED BY <1>2, StackOnly DEF SchedulerReturns, Inv

(* A turn: the process in the scheduler's hands is a live block. *)
LEMMA TurnFacts ==
  ASSUME Inv, InTurn
  PROVE  /\ Sound(stack) /\ stack # <<>> /\ Top \in Activation /\ Top.at = "loop"
         /\ Holds(Top) /\ Top.cur \in HeldBy(stack) /\ Top.cur \in Addr
         /\ Top.cur \notin Queued(ready) /\ Top.cur \in mem.live
         /\ Top.policy \in Policy /\ Top.err \in Err /\ Top.k \in Nat
         /\ PagingInv(mem) /\ Current \in Pcb
<1>1. /\ Sound(stack) /\ stack # <<>> /\ Top \in Activation /\ Top.at = "loop"
      /\ Holds(Top) /\ Top.cur \in HeldBy(stack) /\ Top.cur \in Addr
  BY TopFacts DEF InTurn, Running, Inv, Holds
<1>2. Top.cur \notin Queued(ready) /\ Top.cur \in mem.live
  BY <1>1 DEF Inv, HeldApart
<1>3. Top.policy \in Policy /\ Top.err \in Err /\ Top.k \in Nat
  BY <1>1, ActivationFields
<1>4. PagingInv(mem) /\ mem.pcbs \in [Addr -> Pcb]
  BY MemFields DEF Inv, PagingInv, PagingTypeOK
<1> QED BY <1>1, <1>2, <1>3, <1>4 DEF Current

(* The turn ends and the scheduler lets go of the process. *)
LEMMA LetGo ==
  ASSUME Inv, InTurn, Become(NoTurn(Top.err))
  PROVE  Sound(stack') /\ HeldBy(stack') = HeldBy(stack) \ {Top.cur}
<1> DEFINE x == NoTurn(Top.err)
<1>1. /\ Sound(stack) /\ stack # <<>> /\ Top.at = "loop" /\ Holds(Top)
      /\ Top.policy \in Policy /\ Top.err \in Err
  BY TurnFacts
<1>2. x \in Activation /\ x.at = "loop" /\ ~ Holds(x)
  BY <1>1 DEF NoTurn, Looping, Activation, Holds
<1> HIDE DEF x
<1>3. Become(x)
  BY DEF x
<1> QED BY <1>1, <1>2, <1>3, BecomeSound

LEMMA InvRetire ==
  ASSUME Inv, Retire
  PROVE  Inv'
<1>1. Top.cur \in Addr /\ Top.cur \notin Queued(ready)
  BY TurnFacts DEF Retire
<1>2. Sound(stack') /\ HeldBy(stack') = HeldBy(stack) \ {Top.cur}
  BY LetGo DEF Retire
<1>3. PagingInv(mem') /\ mem'.live = mem.live \ {Top.cur}
  BY <1>1, PcbDeinitKeepsInv DEF Retire, Inv
<1>4. HeldApart(mem'.live, ready', stack')
  BY <1>1, <1>2, <1>3 DEF HeldApart, Inv, Retire
<1> QED BY <1>2, <1>3, <1>4 DEF Inv, Retire

(* The process goes back to the end of the queue. *)
LEMMA Appended ==
  ASSUME Inv, InTurn, Become(NoTurn(Top.err)),
         ready' = AppendProcess(ready, Top.cur),
         PagingInv(mem'), mem'.live = mem.live, UNCHANGED <<status, typed>>
  PROVE  Inv'
<1>1. /\ Top.cur \in Addr /\ Top.cur \notin Queued(ready)
      /\ Top.cur \in HeldBy(stack)
  BY TurnFacts
<1>2. Sound(stack') /\ HeldBy(stack') = HeldBy(stack) \ {Top.cur}
  BY LetGo
<1>3. /\ ready' \in Seq(Addr) /\ Queued(ready') = Queued(ready) \cup {Top.cur}
      /\ Distinct(ready')
  BY <1>1, AppendQueued DEF Inv, HeldApart
<1>4. HeldApart(mem'.live, ready', stack')
  BY <1>1, <1>2, <1>3 DEF HeldApart, Inv
<1> QED BY <1>2, <1>4 DEF Inv

LEMMA InvRequeue ==
  ASSUME Inv, Requeue
  PROVE  Inv'
BY Appended DEF Requeue, Inv

LEMMA FetchType ==
  ASSUME NEW m, PagingInv(m), NEW frame \in Frame, NEW offset \in Offset
  PROVE  Fetch(m, frame, offset) \in Seq(Command)
<1> DEFINE x == m.memory[frame][offset]
<1>1. x \in ScriptLine \cup {NULL}
  BY MemFields DEF PagingInv, PagingTypeOK
<1>2. CASE x = NULL
  BY <1>2 DEF Fetch
<1>3. CASE x # NULL
  <2>1. x.script \in Files /\ x.line \in Nat /\ x.line < FileLength(x.script)
    BY <1>1, <1>3, Constants DEF ScriptLine, LineNo
  <2>2. Source[x.script] \in Seq(Seq(Command))
    BY <2>1, SchedulerAssumption
  <2>3. Len(Source[x.script]) \in Nat
    BY <2>2, LenProperties
  <2>4. x.line + 1 \in 1 .. Len(Source[x.script])
    BY <2>1, <2>3, Constants DEF FileLength
  <2>5. Source[x.script][x.line + 1] \in Seq(Command)
    BY <2>2, <2>4, ElementOfSeq
  <2> QED BY <2>5, <1>3 DEF Fetch
<1> QED BY <1>2, <1>3

(* A line is given to parseInput. *)
LEMMA LineStarts ==
  ASSUME Inv, InTurn, NEW cmds \in Seq(Command), Call(Parsing(cmds, "unset")),
         PagingInv(mem'), mem'.live = mem.live, UNCHANGED <<ready, status, typed>>
  PROVE  Inv'
<1> DEFINE x == Parsing(cmds, "unset")
<1>1. x \in Activation /\ x.at = "parse"
  BY ParsingType DEF Err
<1> HIDE DEF x
<1>2. Call(x)
  BY DEF x
<1>3. Sound(stack') /\ HeldBy(stack') = HeldBy(stack)
  BY <1>1, <1>2, CallSound, TurnFacts
<1> QED BY <1>3 DEF Inv, HeldApart

LEMMA CurrentPlace ==
  ASSUME Inv, InTurn
  PROVE  /\ CurPage \in Nat /\ CurOffset \in Offset
         /\ LineAt(CurPage, CurOffset) = Current.program_counter
         /\ CurPage \in Page => CurFrame \in Frame \cup {-1}
<1>1. Current \in Pcb /\ Current.program_counter \in Nat
  BY TurnFacts DEF Pcb
<1>2. CurPage \in Page => CurFrame \in Frame \cup {-1}
  BY <1>1 DEF Pcb, CurFrame
<1> QED BY <1>1, <1>2, LineOfCounter DEF CurPage, CurOffset

LEMMA InvExecute ==
  ASSUME Inv, Execute
  PROVE  Inv'
<1>1. CurFrame \in Frame /\ CurOffset \in Offset
  BY CurrentPlace DEF Execute, WantsLine
<1>2. Fetch(mem, CurFrame, CurOffset) \in Seq(Command)
  BY <1>1, FetchType DEF Inv
<1>3. PagingInv(mem') /\ mem'.live = mem.live
  BY <1>1, TouchKeepsInv DEF Execute, Inv
<1> QED BY <1>2, <1>3, LineStarts DEF Execute, WantsLine

LEMMA FaultedFacts ==
  ASSUME Inv, Faults
  PROVE  /\ InTurn /\ PagingInv(FaultedMem) /\ FaultedMem.live = mem.live
         /\ SameProcesses(mem.pcbs, FaultedMem.pcbs)
         /\ FaultFrame(mem) \in Frame
<1>1. InTurn /\ ~ LoadReadsGarbage(mem, Top.cur, CurPage)
  BY DEF Faults, WantsLine
<1>2. Top.cur \in Addr /\ CurPage \in Nat
  BY <1>1, TurnFacts, CurrentPlace
<1> QED BY <1>1, <1>2, PageFaultKeepsInv DEF FaultedMem, Inv

LEMMA InvFaultAndRetry ==
  ASSUME Inv, FaultAndRetry
  PROVE  Inv'
BY FaultedFacts DEF FaultAndRetry, Inv, HeldApart

LEMMA InvFaultAndYield ==
  ASSUME Inv, FaultAndYield
  PROVE  Inv'
BY FaultedFacts, Appended DEF FaultAndYield

LEMMA InvFaultAndExecute ==
  ASSUME Inv, FaultAndExecute
  PROVE  Inv'
<1>1. /\ InTurn /\ PagingInv(FaultedMem) /\ FaultedMem.live = mem.live
      /\ FaultFrame(mem) \in Frame
  BY FaultedFacts DEF FaultAndExecute
<1>2. Fetch(FaultedMem, FaultFrame(mem), CurOffset) \in Seq(Command)
  BY <1>1, CurrentPlace, FetchType
<1>3. PagingInv(mem') /\ mem'.live = mem.live
  BY <1>1, TouchKeepsInv DEF FaultAndExecute
<1> QED BY <1>1, <1>2, <1>3, LineStarts DEF FaultAndExecute

LEMMA InvCrash ==
  ASSUME Inv, FaultCrashes \/ PageTableOverrun
  PROVE  Inv'
BY StackOnly DEF FaultCrashes, PageTableOverrun, Inv, Statuses

-----------------------------------------------------------------------------
(* The end of a script's line *)

LEMMA WaitingFacts ==
  ASSUME Inv, LineFinished, Depth > 1
  PROVE  /\ Sound(stack) /\ stack # <<>> /\ Top.at = "parse"
         /\ Waiting \in Activation /\ Waiting.at = "loop" /\ Holds(Waiting)
         /\ Waiting.cur \in HeldBy(stack) /\ Waiting.cur \in Addr
         /\ Waiting.cur \notin Queued(ready) /\ Waiting.k \in Nat
<1>1. /\ Sound(stack) /\ stack # <<>> /\ Top.at = "parse"
      /\ HeldBy(stack) \cap Queued(ready) = {}
  BY DEF LineFinished, Running, Inv, HeldApart
<1>2. /\ Waiting \in Activation /\ Waiting.at = "loop" /\ Holds(Waiting)
      /\ Depth - 1 \in DOMAIN stack
  BY <1>1, TopFacts DEF Waiting, Holds
<1>3. Waiting.cur \in HeldBy(stack)
  BY <1>2 DEF HeldBy, HoldingIn, Waiting
<1>4. Waiting.cur \in Addr /\ Waiting.k \in Nat
  BY <1>2, ActivationFields DEF Holds
<1> QED BY <1>1, <1>2, <1>3, <1>4

LEMMA AdvancedFacts ==
  ASSUME Inv, LineFinished, Depth > 1
  PROVE  /\ PagingInv(Advanced) /\ Advanced.live = mem.live
         /\ Advanced.pcbs = [mem.pcbs EXCEPT ![Waiting.cur].program_counter = @ + 1]
         /\ Advanced.pcbs \in [Addr -> Pcb]
<1> DEFINE a    == Waiting.cur
           pcb  == [mem.pcbs[a] EXCEPT !.program_counter = mem.pcbs[a].program_counter + 1]
           pcbs == [mem.pcbs EXCEPT ![a] = pcb]
<1>1. a \in Addr /\ PagingInv(mem) /\ mem \in MemType /\ mem.pcbs \in [Addr -> Pcb]
  BY WaitingFacts, MemFields DEF Inv, PagingInv, PagingTypeOK
<1>2. /\ pcb \in Pcb
      /\ pcb.filename = mem.pcbs[a].filename
      /\ pcb.file_contents = mem.pcbs[a].file_contents
      /\ pcb.file_length = mem.pcbs[a].file_length
      /\ pcb.page_table = mem.pcbs[a].page_table
      /\ pcb.loaded = mem.pcbs[a].loaded
  <2>1. mem.pcbs[a] \in Pcb /\ mem.pcbs[a].program_counter + 1 \in Nat
    BY <1>1 DEF Pcb
  <2> QED BY <2>1 DEF Pcb
<1>3. Advanced = [mem EXCEPT !.pcbs = pcbs]
  BY <1>1 DEF Advanced, MemType
<1>4. pcbs = [mem.pcbs EXCEPT ![a].program_counter = @ + 1]
  OBVIOUS
<1> HIDE DEF a, pcb
<1>5. pcbs \in [Addr -> Pcb] /\ pcbs[a] = pcb /\ \A b \in Addr : b # a => pcbs[b] = mem.pcbs[b]
  BY <1>1, <1>2
<1> HIDE DEF pcbs
<1>6. /\ PagingInv([mem EXCEPT !.pcbs = pcbs])
      /\ [mem EXCEPT !.pcbs = pcbs].live = mem.live
      /\ [mem EXCEPT !.pcbs = pcbs].pcbs = pcbs
  BY <1>1, <1>2, <1>5, CountersKeepInv
<1> QED BY <1>3, <1>4, <1>5, <1>6 DEF a

LEMMA InvLineDone ==
  ASSUME Inv, LineDone
  PROVE  Inv'
<1>1. /\ Sound(stack) /\ stack # <<>> /\ Top.at = "parse" /\ Depth > 1
      /\ Waiting.k + 1 \in Nat
  BY WaitingFacts DEF LineDone
<1>2. Sound(stack') /\ HeldBy(stack') = HeldBy(stack)
  BY <1>1, ResumeSound DEF LineDone
<1>3. PagingInv(mem') /\ mem'.live = mem.live
  BY AdvancedFacts DEF LineDone
<1> QED BY <1>2, <1>3 DEF Inv, HeldApart, LineDone

LEMMA InvAgingRetires ==
  ASSUME Inv, AgingRetires
  PROVE  Inv'
<1>1. /\ Sound(stack) /\ stack # <<>> /\ Top.at = "parse" /\ Depth > 1
      /\ Waiting.cur \in Addr /\ Waiting.cur \notin Queued(ready)
  BY WaitingFacts DEF AgingRetires
<1>2. Sound(stack') /\ HeldBy(stack') = HeldBy(stack) \ {Waiting.cur}
  BY <1>1, ResumeSound DEF AgingRetires
<1>3. PagingInv(Advanced) /\ Advanced.live = mem.live
  BY AdvancedFacts DEF AgingRetires
<1>4. PagingInv(mem') /\ mem'.live = mem.live \ {Waiting.cur}
  BY <1>1, <1>3, PcbDeinitKeepsInv DEF AgingRetires
<1>5. HeldApart(mem'.live, ready', stack')
  BY <1>1, <1>2, <1>4 DEF HeldApart, Inv, AgingRetires
<1> QED BY <1>2, <1>4, <1>5 DEF Inv, AgingRetires

LEMMA AgedFacts ==
  ASSUME Inv, LineFinished, Depth > 1
  PROVE  /\ PagingInv(AgedMem) /\ AgedMem.live = mem.live
         /\ \A b \in Addr :
              /\ AgedMem.pcbs[b].filename = Advanced.pcbs[b].filename
              /\ AgedMem.pcbs[b].file_length = Advanced.pcbs[b].file_length
              /\ AgedMem.pcbs[b].program_counter = Advanced.pcbs[b].program_counter
<1> DEFINE old  == Advanced.pcbs
           pcbs == AgeReadyQueue(old)
<1>1. PagingInv(Advanced) /\ Advanced.live = mem.live /\ old \in [Addr -> Pcb]
  BY AdvancedFacts
<1>2. AgedMem = [Advanced EXCEPT !.pcbs = pcbs]
  BY DEF AgedMem
<1> HIDE DEF old
<1>3. ASSUME NEW a \in Addr
      PROVE  /\ pcbs[a] \in Pcb
             /\ pcbs[a].filename = old[a].filename
             /\ pcbs[a].file_contents = old[a].file_contents
             /\ pcbs[a].file_length = old[a].file_length
             /\ pcbs[a].page_table = old[a].page_table
             /\ pcbs[a].program_counter = old[a].program_counter
             /\ pcbs[a].loaded = old[a].loaded
  <2>1. old[a] \in Pcb /\ old[a].job_score \in 0 .. MAX_FILE_SIZE
    BY <1>1 DEF Pcb
  <2>2. Aged(old[a].job_score) \in 0 .. MAX_FILE_SIZE
    BY <2>1, Constants DEF Aged
  <2> DEFINE aged == [old[a] EXCEPT !.job_score = Aged(@)]
  <2>3. /\ aged \in Pcb
        /\ aged.filename = old[a].filename
        /\ aged.file_contents = old[a].file_contents
        /\ aged.file_length = old[a].file_length
        /\ aged.page_table = old[a].page_table
        /\ aged.program_counter = old[a].program_counter
        /\ aged.loaded = old[a].loaded
    BY <2>1, <2>2 DEF Pcb
  <2>4. pcbs[a] = aged \/ pcbs[a] = old[a]
    BY DEF AgeReadyQueue
  <2> HIDE DEF pcbs, aged
  <2> QED BY <2>1, <2>3, <2>4
<1>4. pcbs \in [Addr -> Pcb]
  BY <1>3 DEF AgeReadyQueue
<1> HIDE DEF pcbs
<1>5. /\ PagingInv([Advanced EXCEPT !.pcbs = pcbs])
      /\ [Advanced EXCEPT !.pcbs = pcbs].live = Advanced.live
      /\ [Advanced EXCEPT !.pcbs = pcbs].pcbs = pcbs
  BY <1>1, <1>3, <1>4, CountersKeepInv DEF old
<1> QED BY <1>1, <1>2, <1>3, <1>5 DEF old

LEMMA InvAgingRequeues ==
  ASSUME Inv, AgingRequeues
  PROVE  Inv'
<1> DEFINE queue == AppendLeftProcess(ready, Waiting.cur)
<1>1. /\ Sound(stack) /\ stack # <<>> /\ Top.at = "parse" /\ Depth > 1
      /\ Waiting.cur \in Addr /\ Waiting.cur \notin Queued(ready)
      /\ Waiting.cur \in HeldBy(stack)
  BY WaitingFacts DEF AgingRequeues
<1>2. Sound(stack') /\ HeldBy(stack') = HeldBy(stack) \ {Waiting.cur}
  BY <1>1, ResumeSound DEF AgingRequeues
<1>3. PagingInv(mem') /\ mem'.live = mem.live
  BY AgedFacts DEF AgingRequeues
<1>4. /\ queue \in Seq(Addr) /\ Queued(queue) = Queued(ready) \cup {Waiting.cur}
      /\ Distinct(queue)
  BY <1>1, AppendLeftQueued DEF Inv, HeldApart
<1>5. ready' = SortReadyQueue(queue, Score(AgedMem))
  BY DEF AgingRequeues
<1> HIDE DEF queue
<1>6. /\ ready' \in Seq(Addr) /\ Queued(ready') = Queued(ready) \cup {Waiting.cur}
      /\ Distinct(ready')
  BY <1>4, <1>5, SortPermutes
<1>7. HeldApart(mem'.live, ready', stack')
  BY <1>1, <1>2, <1>3, <1>6 DEF HeldApart, Inv
<1> QED BY <1>2, <1>3, <1>7 DEF Inv, AgingRequeues

-----------------------------------------------------------------------------
LEMMA InvNext ==
  ASSUME Inv, [Next]_vars
  PROVE  Inv'
<1>1. CASE Type
  BY <1>1, InvEndOfInput, InvReadLine DEF Type
<1>2. CASE Parse
  BY <1>2, InvPlain, InvQuit, InvExec, InvRun, InvBackToPrompt DEF Parse
<1>3. CASE BuildReadyQueue
  BY <1>3, InvSkipNull, InvBuildMissing, InvBuildWild, InvBuildOutOfMemory,
     InvBuildDuplicate, InvBuildNew, InvStartPolicy, InvInvalidPolicy
     DEF BuildReadyQueue
<1>4. CASE Schedule
  BY <1>4, InvPickNext, InvSchedulerReturns, InvRetire, InvRequeue, InvExecute,
     InvFaultAndRetry, InvFaultAndYield, InvFaultAndExecute, InvCrash,
     InvLineDone, InvAgingRetires, InvAgingRequeues
     DEF Schedule
<1>5. CASE Ended \/ UNCHANGED vars
  BY <1>5 DEF Ended, vars, Inv
<1> QED BY <1>1, <1>2, <1>3, <1>4, <1>5 DEF Next, Work

(* The invariant the others follow from. *)
THEOREM Invariance == Spec => []Inv
BY InvInit, InvNext, PTL DEF Spec

(* The memory, the queue and the stack keep their types and their nesting: *)
(* parseInput and exec alternate however scripts call exec.                *)
THEOREM TypeCorrect == Spec => []TypeOK
BY Invariance, InvTypeOK, PTL

(* build_ready_queue and the five schedulers never lose a PCB, never queue *)
(* one twice and never touch one they freed.                               *)
THEOREM HeldOnce == Spec => []EachProcessHeldOnce
BY Invariance, InvHeldOnce, PTL

(* mem_load_page_into_frame and mem_free_memory_frame keep frame store and *)
(* frame table agreed on which frames are free.                            *)
THEOREM FramesStayAccounted == Spec => []FramesAccounted
BY Invariance, InvFrames, PTL

(* A loaded process's resident pages are in frames recorded as its own and *)
(* hold its own lines, whatever other processes load, evict or free.       *)
THEOREM PagesStayOwn == Spec => []PagesAreOwn
BY Invariance, InvPages, PTL

=============================================================================
