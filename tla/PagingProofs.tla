---------------------------- MODULE PagingProofs ----------------------------
(***************************************************************************)
(* Facts about the operators of LruOrder and Paging, for every number and  *)
(* size of frames, every set of scripts and every heap.                    *)
(***************************************************************************)
EXTENDS Paging, WellFoundedInduction, TLAPS

-----------------------------------------------------------------------------
(* Every frame of a permutation is found at its position. *)
LEMMA PositionFound ==
  ASSUME NEW order \in Orders, IsPermutation(order), NEW frame \in Frame
  PROVE  /\ PositionOf(order, frame) \in Position
         /\ order[PositionOf(order, frame)] = frame
BY DEF IsPermutation, PositionOf

(* access_frame keeps the frames in a row in which every frame has a place *)
LEMMA AccessKeepsOrder ==
  ASSUME NEW order \in Orders, IsPermutation(order), NEW frame \in Frame
  PROVE  /\ AccessFrame(order, frame) \in Orders
         /\ IsPermutation(AccessFrame(order, frame))
<1> DEFINE at  == PositionOf(order, frame)
           new == AccessFrame(order, frame)
<1>0. NumFrames \in Nat \ {0}
  BY FrameAssumption
<1>1. at \in Position /\ order[at] = frame
  BY PositionFound
<1>2. new = [i \in Position |-> IF i = 1 THEN frame
                               ELSE IF i <= at THEN order[i - 1] ELSE order[i]]
  BY DEF AccessFrame
<1> HIDE DEF at, new
<1>3. \A i \in Position : new[i] \in Frame
  <2> SUFFICES ASSUME NEW i \in Position PROVE new[i] \in Frame
    OBVIOUS
  <2>1. CASE i = 1
    BY <2>1, <1>2
  <2>2. CASE i > 1 /\ i <= at
    <3>1. i - 1 \in Position /\ new[i] = order[i - 1]
      BY <2>2, <1>1, <1>2, <1>0 DEF Position
    <3> QED BY <3>1 DEF Orders
  <2>3. CASE i > 1 /\ i > at
    <3>1. new[i] = order[i]
      BY <2>3, <1>2, <1>1, <1>0 DEF Position
    <3> QED BY <3>1 DEF Orders
  <2> QED BY <2>1, <2>2, <2>3, <1>0, <1>1 DEF Position
<1>4. new \in Orders
  BY <1>2, <1>3 DEF Orders
<1>5. ASSUME NEW f \in Frame PROVE \E i \in Position : new[i] = f
  <2>1. PICK j \in Position : order[j] = f
    BY DEF IsPermutation
  <2>2. CASE f = frame
    <3>1. 1 \in Position /\ new[1] = frame
      BY <1>2, <1>0 DEF Position
    <3> QED BY <3>1, <2>2
  <2>3. CASE f # frame /\ j < at
    <3>1. j + 1 \in Position /\ new[j + 1] = order[j]
      BY <2>3, <1>1, <1>2, <1>0 DEF Position
    <3> QED BY <3>1, <2>1
  <2>4. CASE f # frame /\ j > at
    <3>1. new[j] = order[j]
      BY <2>4, <1>1, <1>2, <1>0 DEF Position
    <3> QED BY <3>1, <2>1
  <2>5. f # frame => j # at
    BY <2>1, <1>1
  <2> QED BY <2>2, <2>3, <2>4, <2>5, <1>1, <1>0 DEF Position
<1> QED BY <1>4, <1>5 DEF IsPermutation, new

-----------------------------------------------------------------------------
(* The state of paged memory that every operation keeps: types, frame      *)
(* accounting, and sound page tables of all filled PCBs, freed ones        *)
(* included, because an eviction can still write to them.                  *)
LoadedPcbSound(m, a) ==
  LET pcb == m.pcbs[a]
  IN  /\ pcb.filename \in Files
      /\ \A l \in 0 .. (pcb.file_length - 1) : pcb.file_contents[l] = pcb.filename
      /\ \A p \in Page : pcb.page_table[p] # -1 =>
           /\ m.frame_table[pcb.page_table[p]] = [pcb |-> a, page |-> p]
           /\ \A o \in Offset : LineAt(p, o) < pcb.file_length =>
                m.memory[pcb.page_table[p]][o] =
                  [script |-> pcb.filename, line |-> LineAt(p, o)]

PagingInv(m) ==
  /\ PagingTypeOK(m)
  /\ FrameAccounting(m)
  /\ \A a \in Addr : m.pcbs[a].loaded => LoadedPcbSound(m, a)

LEMMA Constants ==
  /\ FRAME_SIZE \in Nat \ {0} /\ MAX_FILE_SIZE \in Nat \ {0}
  /\ NumFrames \in Nat \ {0}
  /\ 0 \in Offset
  /\ -1 \notin Frame /\ -1 \notin Page
  /\ NULL \notin Addr /\ NULL \notin Names /\ NULL \notin Files
  /\ NULL \notin ScriptLine
BY FrameAssumption, PagingAssumption DEF Offset, Frame, Page

(* Lines of pages: a natural number, at least the page's first line.       *)
LEMMA LineAtNat ==
  ASSUME NEW page \in Nat, NEW offset \in Offset
  PROVE  /\ page * FRAME_SIZE \in Nat
         /\ LineAt(page, offset) \in Nat
         /\ LineAt(page, offset) >= page * FRAME_SIZE
         /\ LineAt(page, 0) = page * FRAME_SIZE
BY Constants DEF LineAt, Offset

(* A page that the file reaches has an entry in the page table. *)
LEMMA PageInTable ==
  ASSUME NEW page \in Nat, page * FRAME_SIZE < MAX_FILE_SIZE
  PROVE  page \in Page
<1> DEFINE n == MAX_FILE_SIZE + FRAME_SIZE - 1
           q == n \div FRAME_SIZE
<1>1. /\ FRAME_SIZE \in Nat /\ FRAME_SIZE > 0 /\ n \in Nat /\ q \in Nat
      /\ n < (q + 1) * FRAME_SIZE
  BY Constants
<1>2. (page + 1) * FRAME_SIZE = page * FRAME_SIZE + FRAME_SIZE
  BY <1>1
<1>3. (page + 1) * FRAME_SIZE <= n
  BY <1>1, <1>2, Constants, page * FRAME_SIZE \in Nat
<1>4. (page + 1) * FRAME_SIZE < (q + 1) * FRAME_SIZE
  BY <1>1, <1>3
<1>5. page < q
  BY <1>1, <1>4
<1> QED BY <1>1, <1>5 DEF Page, MAX_PAGE_TABLE_SIZE

(* A set of natural numbers that is not empty has a least element. *)
LEMMA LeastExists ==
  ASSUME NEW places \in SUBSET Nat, places # {}
  PROVE  \E i \in places : \A j \in places : i <= j
<1>1. OpToRel(<, Nat) = {s \in Nat \X Nat : s[1] < s[2]}
  BY Zenon DEF OpToRel
<1> DEFINE R == OpToRel(<, Nat)
<1>2. IsWellFoundedOn(R, Nat)
  BY NatLessThanWellFounded
<1>3. R = {s \in Nat \X Nat : s[1] < s[2]}
  BY <1>1
<1> HIDE DEF R
<1>4. PICK i \in places : \A j \in places : <<j, i>> \notin R
  BY <1>2, WFMin
<1>5. ASSUME NEW j \in places PROVE i <= j
  <2>1. i \in Nat /\ j \in Nat
    OBVIOUS
  <2>2. <<j, i>> \in Nat \X Nat /\ <<j, i>>[1] = j /\ <<j, i>>[2] = i
    BY <2>1
  <2>3. ~ (j < i)
    BY <1>3, <1>4, <2>2, Zenon
  <2> QED BY <2>1, <2>3
<1> QED BY <1>5

(* A nonempty set of frames has a lowest one. *)
LEMMA LowestOfFrames ==
  ASSUME NEW frames \in SUBSET Frame, frames # {}
  PROVE  LowestOf(frames) \in frames
<1>1. frames \in SUBSET Nat
  BY Constants DEF Frame
<1> QED BY <1>1, LeastExists DEF LowestOf

-----------------------------------------------------------------------------
(* find_available_frame answers -1 exactly when every frame has an owner,  *)
(* and otherwise a frame without one.                                      *)
LEMMA FindAvailableFrameFinds ==
  ASSUME NEW m, FrameAccounting(m)
  PROVE  LET frame == FindAvailableFrame(m)
         IN  \/ frame = -1 /\ \A f \in Frame : m.frame_table[f] # NoEntry
             \/ frame # -1 /\ frame \in Frame /\ m.frame_table[frame] = NoEntry
<1>1. CASE FreeFrames(m) = {}
  BY <1>1 DEF FindAvailableFrame, FreeFrames, FrameAccounting
<1>2. CASE FreeFrames(m) # {}
  <2>1. FreeFrames(m) \in SUBSET Frame
    BY DEF FreeFrames
  <2>2. LowestOf(FreeFrames(m)) \in FreeFrames(m)
    BY <1>2, <2>1, LowestOfFrames
  <2>3. FindAvailableFrame(m) = LowestOf(FreeFrames(m))
    BY <1>2 DEF FindAvailableFrame
  <2> QED BY <2>2, <2>3, Constants DEF FreeFrames, FrameAccounting
<1> QED BY <1>1, <1>2

(* The frame chosen for eviction is a frame. *)
LEMMA LruFrameIsFrame ==
  ASSUME NEW order \in Orders
  PROVE  GetLruFrame(order) \in Frame
BY Constants DEF Orders, GetLruFrame, Position

LEMMA MemFields ==
  ASSUME NEW m \in MemType
  PROVE  /\ m.memory \in [Frame -> [Offset -> ScriptLine \cup {NULL}]]
         /\ m.frame_table \in [Frame -> {NoEntry} \cup [pcb : Addr, page : Page]]
         /\ m.lru \in Orders
         /\ m.pcbs \in [Addr -> Pcb]
         /\ m.live \in SUBSET Addr
         /\ m = [memory |-> m.memory, frame_table |-> m.frame_table,
                 lru |-> m.lru, pcbs |-> m.pcbs, live |-> m.live]
BY DEF MemType

(* Paging changes nothing of a PCB but its page table. *)
SameProcesses(pcbs, new) ==
  \A b \in Addr :
    /\ new[b].filename = pcbs[b].filename
    /\ new[b].file_contents = pcbs[b].file_contents
    /\ new[b].file_length = pcbs[b].file_length
    /\ new[b].program_counter = pcbs[b].program_counter
    /\ new[b].job_score = pcbs[b].job_score
    /\ new[b].loaded = pcbs[b].loaded

LEMMA PageTableUpdate ==
  ASSUME NEW pcbs \in [Addr -> Pcb], NEW a \in Addr, NEW page \in Page,
         NEW value \in Frame \cup {-1}
  PROVE  LET new == SetPageTable(pcbs, a, page, value)
         IN  /\ new \in [Addr -> Pcb]
             /\ new[a].page_table = [pcbs[a].page_table EXCEPT ![page] = value]
             /\ \A b \in Addr : b # a => new[b] = pcbs[b]
             /\ SameProcesses(pcbs, new)
<1> DEFINE table == [pcbs[a].page_table EXCEPT ![page] = value]
           pcb   == [pcbs[a] EXCEPT !.page_table = table]
           new   == [pcbs EXCEPT ![a] = pcb]
<1>1. table \in [Page -> Frame \cup {-1}]
  BY DEF Pcb
<1> HIDE DEF table
<1>2. /\ pcb \in Pcb /\ pcb.page_table = table
      /\ pcb.filename = pcbs[a].filename
      /\ pcb.file_contents = pcbs[a].file_contents
      /\ pcb.file_length = pcbs[a].file_length
      /\ pcb.program_counter = pcbs[a].program_counter
      /\ pcb.job_score = pcbs[a].job_score
      /\ pcb.loaded = pcbs[a].loaded
  BY <1>1 DEF Pcb
<1> HIDE DEF pcb
<1>3. /\ new \in [Addr -> Pcb] /\ new[a] = pcb
      /\ \A b \in Addr : b # a => new[b] = pcbs[b]
  BY <1>2
<1>4. new = SetPageTable(pcbs, a, page, value)
  BY DEF pcb, table, SetPageTable
<1> HIDE DEF new
<1> QED BY <1>2, <1>3, <1>4 DEF table, SameProcesses

(* What a page in range does to each part of the memory. *)
LEMMA LoadPageFields ==
  ASSUME NEW m \in MemType, NEW a \in Addr, NEW page \in Page,
         NEW frame \in Frame, PageInRange(m.pcbs[a], page)
  PROVE  LET n == LoadPage(m, a, page, frame)
         IN  /\ n.memory = [m.memory EXCEPT ![frame] =
                   [o \in Offset |-> IF LineAt(page, o) < m.pcbs[a].file_length
                      THEN [script |-> m.pcbs[a].file_contents[LineAt(page, o)],
                            line |-> LineAt(page, o)]
                      ELSE m.memory[frame][o]]]
             /\ n.frame_table = [m.frame_table EXCEPT ![frame] =
                                   [pcb |-> a, page |-> page]]
             /\ n.lru = AccessFrame(m.lru, frame)
             /\ n.pcbs = SetPageTable(m.pcbs, a, page, frame)
             /\ n.live = m.live
             /\ n = [memory |-> n.memory, frame_table |-> n.frame_table,
                     lru |-> n.lru, pcbs |-> n.pcbs, live |-> n.live]
BY MemFields DEF LoadPage, MemType

(* Loading a page whose lines are known into a frame without an owner.     *)
LEMMA LoadPageKeepsInv ==
  ASSUME NEW m, PagingInv(m), NEW a \in Addr, NEW page \in Nat,
         NEW frame \in Frame, m.frame_table[frame] = NoEntry,
         ~ LoadReadsGarbage(m, a, page)
  PROVE  LET n == LoadPage(m, a, page, frame)
         IN  /\ PagingInv(n)
             /\ n.live = m.live
             /\ SameProcesses(m.pcbs, n.pcbs)
             /\ PageInRange(m.pcbs[a], page) => n.pcbs[a].page_table[page] = frame
<1> DEFINE n == LoadPage(m, a, page, frame)
           pcb == m.pcbs[a]
<1>1. CASE ~ PageInRange(pcb, page)
  BY <1>1 DEF LoadPage, SameProcesses
<1>2. CASE PageInRange(pcb, page)
  <2>1. m \in MemType /\ IsPermutation(m.lru) /\ pcb \in Pcb
        /\ pcb.file_length \in 0 .. MAX_FILE_SIZE
        /\ pcb.file_contents \in [LineNo -> Files \cup {NULL}]
        /\ pcb.page_table \in [Page -> Frame \cup {-1}]
    BY MemFields DEF PagingInv, PagingTypeOK, Pcb
  <2>2. page * FRAME_SIZE \in Nat /\ page * FRAME_SIZE < pcb.file_length
    BY <1>2, LineAtNat, Constants DEF PageInRange
  <2>3. page \in Page
    BY <2>1, <2>2, PageInTable, Constants
  <2>4. /\ n.memory = [m.memory EXCEPT ![frame] =
              [o \in Offset |-> IF LineAt(page, o) < pcb.file_length
                 THEN [script |-> pcb.file_contents[LineAt(page, o)],
                       line |-> LineAt(page, o)]
                 ELSE m.memory[frame][o]]]
        /\ n.frame_table = [m.frame_table EXCEPT ![frame] =
                              [pcb |-> a, page |-> page]]
        /\ n.lru = AccessFrame(m.lru, frame)
        /\ n.pcbs = SetPageTable(m.pcbs, a, page, frame)
        /\ n.live = m.live
        /\ n = [memory |-> n.memory, frame_table |-> n.frame_table,
                lru |-> n.lru, pcbs |-> n.pcbs, live |-> n.live]
    BY <2>1, <2>3, <1>2, LoadPageFields, SMTT(30)
  <2> HIDE DEF n
  (* The lines of the page are lines of files. *)
  <2>5. ASSUME NEW o \in Offset, LineAt(page, o) < pcb.file_length
        PROVE  /\ LineAt(page, o) \in LineNo
               /\ pcb.file_contents[LineAt(page, o)] \in Files
               /\ [script |-> pcb.file_contents[LineAt(page, o)],
                   line |-> LineAt(page, o)] \in ScriptLine
    <3>1. LineAt(page, o) \in LineNo
      <4>1. LineAt(page, o) \in Nat
        BY LineAtNat
      <4> QED BY <4>1, <2>1, <2>5, Constants DEF LineNo
    <3>2. LineAt(page, o) \in LinesOfPage(pcb, page)
      BY <2>5 DEF LinesOfPage
    <3>3. pcb.file_contents[LineAt(page, o)] \in Files
      BY <1>2, <2>1, <3>1, <3>2 DEF LoadReadsGarbage
    <3>4. LineAt(page, o) < FileLength(pcb.file_contents[LineAt(page, o)])
      BY <3>1, <3>3, Constants DEF PagingInv, PagingTypeOK
    <3> QED BY <3>1, <3>3, <3>4 DEF ScriptLine
  <2>6. n.memory \in [Frame -> [Offset -> ScriptLine \cup {NULL}]]
    BY <2>1, <2>4, <2>5, MemFields
  <2>7. n.frame_table \in [Frame -> {NoEntry} \cup [pcb : Addr, page : Page]]
    BY <2>1, <2>3, <2>4, MemFields
  <2>8. n.lru \in Orders /\ IsPermutation(n.lru)
    BY <2>1, <2>4, MemFields, AccessKeepsOrder
  <2>9. /\ n.pcbs \in [Addr -> Pcb]
        /\ n.pcbs[a].page_table = [pcb.page_table EXCEPT ![page] = frame]
        /\ \A b \in Addr : b # a => n.pcbs[b] = m.pcbs[b]
        /\ SameProcesses(m.pcbs, n.pcbs)
    <3>1. m.pcbs \in [Addr -> Pcb] /\ frame \in Frame \cup {-1}
      BY <2>1, MemFields
    <3>2. n.pcbs = SetPageTable(m.pcbs, a, page, frame)
      BY <2>4
    <3> QED BY <3>1, <3>2, <2>3, PageTableUpdate
  <2>10. /\ n.pcbs[a].page_table = [pcb.page_table EXCEPT ![page] = frame]
         /\ \A b \in Addr :
             /\ b # a => n.pcbs[b] = m.pcbs[b]
             /\ n.pcbs[b].filename = m.pcbs[b].filename
             /\ n.pcbs[b].file_contents = m.pcbs[b].file_contents
             /\ n.pcbs[b].file_length = m.pcbs[b].file_length
             /\ n.pcbs[b].loaded = m.pcbs[b].loaded
    BY <2>9 DEF SameProcesses
  <2>11. PagingTypeOK(n)
    <3>1. n \in MemType
      BY <2>1, <2>4, <2>6, <2>7, <2>8, <2>9, MemFields DEF MemType
    <3> QED BY <3>1, <2>8, <2>10 DEF PagingInv, PagingTypeOK
  <2>12. FrameAccounting(n)
    <3> SUFFICES ASSUME NEW f \in Frame
                 PROVE  /\ (n.memory[f][0] = NULL) <=> (n.frame_table[f] = NoEntry)
                        /\ (n.frame_table[f] = NoEntry) =>
                              \A o \in Offset : n.memory[f][o] = NULL
      BY DEF FrameAccounting
    <3>1. CASE f # frame
      BY <3>1, <2>1, <2>4, MemFields DEF PagingInv, FrameAccounting
    <3>2. CASE f = frame
      <4>1. n.frame_table[f] # NoEntry
        BY <3>2, <2>1, <2>4, MemFields, Constants DEF NoEntry
      <4>2. LineAt(page, 0) < pcb.file_length
        BY <2>2, LineAtNat, Constants
      <4>3. n.memory[f][0] = [script |-> pcb.file_contents[LineAt(page, 0)],
                              line |-> LineAt(page, 0)]
        BY <3>2, <4>2, <2>1, <2>4, MemFields, Constants
      <4>4. n.memory[f][0].script \in Files
        BY <4>2, <4>3, <2>5, Constants
      <4>5. n.memory[f][0] # NULL
        BY <4>2, <4>3, <2>5, Constants
      <4> QED BY <4>1, <4>5
    <3> QED BY <3>1, <3>2
  <2>13. ASSUME NEW b \in Addr, n.pcbs[b].loaded PROVE LoadedPcbSound(n, b)
    <3>1. LoadedPcbSound(m, b)
      BY <2>10, <2>13 DEF PagingInv, n
    <3>2. \A l \in 0 .. (n.pcbs[b].file_length - 1) :
            n.pcbs[b].file_contents[l] = n.pcbs[b].filename
      BY <2>10, <3>1 DEF LoadedPcbSound
    <3>3. ASSUME NEW p \in Page, n.pcbs[b].page_table[p] # -1
          PROVE  LET f == n.pcbs[b].page_table[p]
                 IN  /\ n.frame_table[f] = [pcb |-> b, page |-> p]
                     /\ \A o \in Offset : LineAt(p, o) < n.pcbs[b].file_length =>
                          n.memory[f][o] = [script |-> n.pcbs[b].filename,
                                            line |-> LineAt(p, o)]
      <4> DEFINE f == n.pcbs[b].page_table[p]
      (* The page just loaded. *)
      <4>1. CASE b = a /\ p = page
        <5>1. f = frame
          BY <4>1, <2>1, <2>3, <2>10
        <5>2. n.frame_table[f] = [pcb |-> b, page |-> p]
          BY <4>1, <5>1, <2>1, <2>4, MemFields
        <5>3. ASSUME NEW o \in Offset, LineAt(p, o) < pcb.file_length
              PROVE  /\ n.memory[f][o] =
                          [script |-> pcb.file_contents[LineAt(p, o)],
                           line |-> LineAt(p, o)]
                     /\ pcb.file_contents[LineAt(p, o)] = pcb.filename
          <6>1. n.memory[frame][o] =
                          [script |-> pcb.file_contents[LineAt(p, o)],
                           line |-> LineAt(p, o)]
            BY <4>1, <5>3, <2>1, <2>4, MemFields
          <6>2. LineAt(p, o) \in 0 .. (pcb.file_length - 1)
            <7>1. LineAt(p, o) \in Nat
              BY <4>1, LineAtNat
            <7> QED BY <7>1, <5>3, <2>1, Constants
          <6>3. pcb.file_contents[LineAt(p, o)] = pcb.filename
            BY <6>2, <3>1, <4>1 DEF LoadedPcbSound
          <6> QED BY <6>1, <6>3, <5>1
        <5>4. /\ n.pcbs[b].file_length = pcb.file_length
              /\ n.pcbs[b].filename = pcb.filename
          BY <4>1, <2>10
        <5> HIDE DEF f, pcb
        <5>5. \A o \in Offset : LineAt(p, o) < n.pcbs[b].file_length =>
                n.memory[f][o] = [script |-> n.pcbs[b].filename,
                                  line |-> LineAt(p, o)]
          BY <5>3, <5>4
        <5> QED BY <5>2, <5>5 DEF f
      (* Any other resident page is in another frame: frame had no owner.  *)
      <4>2. CASE ~ (b = a /\ p = page)
        <5>1. f = m.pcbs[b].page_table[p]
          BY <4>2, <2>1, <2>3, <2>10
        <5>2. f \in Frame
          <6>1. n.pcbs[b].page_table \in [Page -> Frame \cup {-1}]
            BY <2>9, MemFields DEF Pcb
          <6> QED BY <6>1, <3>3
        <5> HIDE DEF f
        <5>3. m.frame_table[f] = [pcb |-> b, page |-> p]
          BY <5>1, <5>2, <3>1, Constants DEF LoadedPcbSound
        <5>4. f # frame
          BY <5>3, Constants DEF NoEntry
        <5>5. n.frame_table[f] = m.frame_table[f] /\ n.memory[f] = m.memory[f]
          BY <5>2, <5>4, <2>1, <2>4, MemFields
        <5>6. /\ n.pcbs[b].file_length = m.pcbs[b].file_length
              /\ n.pcbs[b].filename = m.pcbs[b].filename
          BY <2>10
        <5>7. \A o \in Offset : LineAt(p, o) < m.pcbs[b].file_length =>
                m.memory[f][o] = [script |-> m.pcbs[b].filename,
                                  line |-> LineAt(p, o)]
          BY <5>1, <5>2, <3>1, Constants DEF LoadedPcbSound
        <5>8. \A o \in Offset : LineAt(p, o) < n.pcbs[b].file_length =>
                n.memory[f][o] = [script |-> n.pcbs[b].filename,
                                  line |-> LineAt(p, o)]
          BY <5>5, <5>6, <5>7
        <5> QED BY <5>3, <5>5, <5>8 DEF f
      <4> QED BY <4>1, <4>2
    <3>4. n.pcbs[b].filename \in Files
      BY <2>10, <3>1 DEF LoadedPcbSound
    <3> QED BY <3>2, <3>3, <3>4 DEF LoadedPcbSound
  <2>14. PagingInv(n)
    BY <2>11, <2>12, <2>13 DEF PagingInv
  <2>15. n.pcbs[a].page_table[page] = frame
    BY <2>1, <2>3, <2>10
  <2> QED BY <2>4, <2>9, <2>14, <2>15 DEF n
<1> QED BY <1>1, <1>2

-----------------------------------------------------------------------------
LEMMA FreeMemoryFrameFields ==
  ASSUME NEW m \in MemType, NEW frame \in Frame
  PROVE  LET n == FreeMemoryFrame(m, frame)
         IN  /\ n.memory = [m.memory EXCEPT ![frame] = [o \in Offset |-> NULL]]
             /\ n.frame_table = [m.frame_table EXCEPT ![frame] = NoEntry]
             /\ n.lru = m.lru
             /\ n.pcbs = SetPageTable(m.pcbs, m.frame_table[frame].pcb,
                                      m.frame_table[frame].page, -1)
             /\ n.live = m.live
             /\ n.pcbs \in [Addr -> Pcb] => n \in MemType
<1> DEFINE pcbs == SetPageTable(m.pcbs, m.frame_table[frame].pcb,
                                m.frame_table[frame].page, -1)
           memory == [m.memory EXCEPT ![frame] = [o \in Offset |-> NULL]]
           frame_table == [m.frame_table EXCEPT ![frame] = NoEntry]
           n == [m EXCEPT !.memory = memory, !.pcbs = pcbs,
                          !.frame_table = frame_table]
<1>1. FreeMemoryFrame(m, frame) = n
  BY DEF FreeMemoryFrame
<1>2. /\ memory \in [Frame -> [Offset -> ScriptLine \cup {NULL}]]
      /\ frame_table \in [Frame -> {NoEntry} \cup [pcb : Addr, page : Page]]
  BY MemFields
<1> HIDE DEF memory, frame_table, pcbs
<1>3. /\ n.memory = memory /\ n.pcbs = pcbs /\ n.frame_table = frame_table
      /\ n.lru = m.lru /\ n.live = m.live
  BY DEF MemType
<1>4. pcbs \in [Addr -> Pcb] => n \in MemType
  BY <1>2 DEF MemType
<1> QED BY <1>1, <1>3, <1>4 DEF memory, frame_table, pcbs

(* Evicting a frame that has an owner: the owner's page table is the only  *)
(* one of a filled PCB that named the frame.                               *)
LEMMA FreeMemoryFrameKeepsInv ==
  ASSUME NEW m, PagingInv(m), NEW frame \in Frame, m.frame_table[frame] # NoEntry
  PROVE  LET n == FreeMemoryFrame(m, frame)
         IN  /\ PagingInv(n)
             /\ n.frame_table[frame] = NoEntry
             /\ n.live = m.live
             /\ SameProcesses(m.pcbs, n.pcbs)
<1> DEFINE n == FreeMemoryFrame(m, frame)
           a == m.frame_table[frame].pcb
           page == m.frame_table[frame].page
<1>1. m \in MemType /\ IsPermutation(m.lru)
  BY DEF PagingInv, PagingTypeOK
<1>2. a \in Addr /\ page \in Page /\ m.frame_table[frame] = [pcb |-> a, page |-> page]
  <2>1. m.frame_table[frame] \in [pcb : Addr, page : Page]
    BY <1>1, MemFields
  <2> QED BY <2>1
<1> HIDE DEF a, page
<1>3. /\ n.memory = [m.memory EXCEPT ![frame] = [o \in Offset |-> NULL]]
      /\ n.frame_table = [m.frame_table EXCEPT ![frame] = NoEntry]
      /\ n.lru = m.lru
      /\ n.pcbs = SetPageTable(m.pcbs, a, page, -1)
      /\ n.live = m.live
      /\ n.pcbs \in [Addr -> Pcb] => n \in MemType
  BY <1>1, FreeMemoryFrameFields DEF a, page
<1> HIDE DEF n
<1>4. /\ n.pcbs \in [Addr -> Pcb]
      /\ n.pcbs[a].page_table = [m.pcbs[a].page_table EXCEPT ![page] = -1]
      /\ \A b \in Addr : b # a => n.pcbs[b] = m.pcbs[b]
      /\ SameProcesses(m.pcbs, n.pcbs)
  <2>1. m.pcbs \in [Addr -> Pcb] /\ -1 \in Frame \cup {-1}
    BY <1>1, MemFields
  <2>2. a \in Addr /\ page \in Page /\ n.pcbs = SetPageTable(m.pcbs, a, page, -1)
    BY <1>2, <1>3
  <2>3. LET new == SetPageTable(m.pcbs, a, page, -1)
        IN  /\ new \in [Addr -> Pcb]
            /\ new[a].page_table = [m.pcbs[a].page_table EXCEPT ![page] = -1]
            /\ \A b \in Addr : b # a => new[b] = m.pcbs[b]
            /\ SameProcesses(m.pcbs, new)
    BY <2>1, <2>2, PageTableUpdate
  <2> QED BY <2>2, <2>3
<1>5. n.memory \in [Frame -> [Offset -> ScriptLine \cup {NULL}]]
      /\ n.frame_table \in [Frame -> {NoEntry} \cup [pcb : Addr, page : Page]]
  BY <1>1, <1>3, MemFields
<1>6. PagingTypeOK(n)
  <2>1. n \in MemType
    BY <1>3, <1>4
  <2> QED BY <2>1, <1>1, <1>3, <1>4 DEF PagingInv, PagingTypeOK, SameProcesses
<1>7. FrameAccounting(n)
  <2> SUFFICES ASSUME NEW f \in Frame
               PROVE  /\ (n.memory[f][0] = NULL) <=> (n.frame_table[f] = NoEntry)
                      /\ (n.frame_table[f] = NoEntry) =>
                            \A o \in Offset : n.memory[f][o] = NULL
    BY DEF FrameAccounting
  <2>1. CASE f # frame
    BY <2>1, <1>1, <1>3, MemFields DEF PagingInv, FrameAccounting
  <2>2. CASE f = frame
    BY <2>2, <1>1, <1>3, MemFields, Constants
  <2> QED BY <2>1, <2>2
<1>8. ASSUME NEW b \in Addr, n.pcbs[b].loaded PROVE LoadedPcbSound(n, b)
  <2>1. LoadedPcbSound(m, b)
    BY <1>4, <1>8 DEF PagingInv, SameProcesses
  <2>2. \A l \in 0 .. (n.pcbs[b].file_length - 1) :
          n.pcbs[b].file_contents[l] = n.pcbs[b].filename
    BY <1>4, <2>1 DEF LoadedPcbSound, SameProcesses
  <2>3. ASSUME NEW p \in Page, n.pcbs[b].page_table[p] # -1
        PROVE  LET f == n.pcbs[b].page_table[p]
               IN  /\ n.frame_table[f] = [pcb |-> b, page |-> p]
                   /\ \A o \in Offset : LineAt(p, o) < n.pcbs[b].file_length =>
                        n.memory[f][o] = [script |-> n.pcbs[b].filename,
                                          line |-> LineAt(p, o)]
    <3> DEFINE f == n.pcbs[b].page_table[p]
    <3>1. m.pcbs[b].page_table \in [Page -> Frame \cup {-1}]
      BY <1>1, MemFields DEF Pcb
    <3>2. ~ (b = a /\ p = page) /\ f = m.pcbs[b].page_table[p]
      BY <1>2, <1>4, <2>3, <3>1
    <3>3. f \in Frame
      BY <2>3, <3>1, <3>2
    <3> HIDE DEF f
    <3>4. m.frame_table[f] = [pcb |-> b, page |-> p]
      BY <3>2, <3>3, <2>1, Constants DEF LoadedPcbSound
    <3>5. f # frame
      BY <3>2, <3>4, <1>2
    <3>6. n.frame_table[f] = m.frame_table[f] /\ n.memory[f] = m.memory[f]
      BY <3>3, <3>5, <1>1, <1>3, MemFields
    <3>7. \A o \in Offset : LineAt(p, o) < m.pcbs[b].file_length =>
            m.memory[f][o] = [script |-> m.pcbs[b].filename,
                              line |-> LineAt(p, o)]
      BY <3>2, <3>3, <2>1, Constants DEF LoadedPcbSound
    <3>8. \A o \in Offset : LineAt(p, o) < n.pcbs[b].file_length =>
            n.memory[f][o] = [script |-> n.pcbs[b].filename,
                              line |-> LineAt(p, o)]
      BY <3>6, <3>7, <1>4 DEF SameProcesses
    <3> QED BY <3>4, <3>6, <3>8 DEF f
  <2>4. n.pcbs[b].filename \in Files
    BY <1>4, <2>1 DEF LoadedPcbSound, SameProcesses
  <2> QED BY <2>2, <2>3, <2>4 DEF LoadedPcbSound
<1>9. PagingInv(n)
  BY <1>6, <1>7, <1>8 DEF PagingInv
<1>10. n.frame_table[frame] = NoEntry
  BY <1>1, <1>3, MemFields
<1> QED BY <1>3, <1>4, <1>9, <1>10 DEF n

-----------------------------------------------------------------------------
(* The page fault of the schedulers: room is made by evicting at most one  *)
(* frame, and the frame then used has no owner.                            *)
LEMMA RoomForKeepsInv ==
  ASSUME NEW m, PagingInv(m)
  PROVE  LET n == RoomFor(m)
         IN  /\ PagingInv(n)
             /\ n.live = m.live
             /\ SameProcesses(m.pcbs, n.pcbs)
             /\ FaultFrame(m) \in Frame
             /\ n.frame_table[FaultFrame(m)] = NoEntry
<1>1. FrameAccounting(m)
  BY DEF PagingInv
<1>2. GetLruFrame(m.lru) \in Frame
  BY MemFields, LruFrameIsFrame DEF PagingInv, PagingTypeOK
<1>3. CASE FindAvailableFrame(m) = -1
  <2>1. m.frame_table[GetLruFrame(m.lru)] # NoEntry
    BY <1>1, <1>2, <1>3, FindAvailableFrameFinds
  <2>2. RoomFor(m) = FreeMemoryFrame(m, GetLruFrame(m.lru))
        /\ FaultFrame(m) = GetLruFrame(m.lru)
    BY <1>3 DEF RoomFor, FaultFrame
  <2> QED BY <1>2, <2>1, <2>2, FreeMemoryFrameKeepsInv
<1>4. CASE FindAvailableFrame(m) # -1
  <2>1. RoomFor(m) = m /\ FaultFrame(m) = FindAvailableFrame(m)
    BY <1>4 DEF RoomFor, FaultFrame
  <2>2. FindAvailableFrame(m) \in Frame
        /\ m.frame_table[FindAvailableFrame(m)] = NoEntry
    BY <1>1, <1>4, FindAvailableFrameFinds
  <2> QED BY <2>1, <2>2 DEF SameProcesses
<1> QED BY <1>3, <1>4

LEMMA PageFaultKeepsInv ==
  ASSUME NEW m, PagingInv(m), NEW a \in Addr, NEW page \in Nat,
         ~ LoadReadsGarbage(m, a, page)
  PROVE  LET n == PageFault(m, a, page)
         IN  /\ PagingInv(n)
             /\ n.live = m.live
             /\ SameProcesses(m.pcbs, n.pcbs)
             /\ FaultFrame(m) \in Frame
             /\ PageInRange(m.pcbs[a], page) =>
                  n.pcbs[a].page_table[page] = FaultFrame(m)
<1> DEFINE r == RoomFor(m)
           n == PageFault(m, a, page)
<1>1. /\ PagingInv(r) /\ r.live = m.live /\ SameProcesses(m.pcbs, r.pcbs)
      /\ FaultFrame(m) \in Frame /\ r.frame_table[FaultFrame(m)] = NoEntry
  BY RoomForKeepsInv
<1>2. n = LoadPage(r, a, page, FaultFrame(m))
  BY DEF PageFault
<1> HIDE DEF n, r
<1>3. ~ LoadReadsGarbage(r, a, page)
  BY <1>1 DEF LoadReadsGarbage, SameProcesses, PageInRange, LinesOfPage
<1>4. /\ PagingInv(n) /\ n.live = r.live /\ SameProcesses(r.pcbs, n.pcbs)
      /\ PageInRange(r.pcbs[a], page) => n.pcbs[a].page_table[page] = FaultFrame(m)
  BY <1>1, <1>2, <1>3, LoadPageKeepsInv
<1>5. PageInRange(m.pcbs[a], page) => PageInRange(r.pcbs[a], page)
  BY <1>1 DEF SameProcesses, PageInRange
<1> QED BY <1>1, <1>4, <1>5 DEF n, SameProcesses

(* A file's length is a number of lines that fit the PCB. *)
LEMMA FileLengthFits ==
  ASSUME NEW name \in Files, Len(Source[name]) \in Nat
  PROVE  FileLength(name) \in 0 .. MAX_FILE_SIZE
BY Constants DEF FileLength

-----------------------------------------------------------------------------
(* Writing a whole PCB: what is needed of it for the memory to stay sound. *)
WithPcb(m, a, pcb) == [m EXCEPT !.pcbs[a] = pcb, !.live = @ \cup {a}]

LEMMA WithPcbKeepsInv ==
  ASSUME NEW m, PagingInv(m), NEW a \in Addr, NEW pcb \in Pcb,
         \A l \in LineNo : pcb.file_contents[l] # NULL =>
                             l < FileLength(pcb.file_contents[l]),
         pcb.loaded =>
           /\ pcb.filename \in Files
           /\ \A l \in 0 .. (pcb.file_length - 1) :
                pcb.file_contents[l] = pcb.filename
           /\ \A p \in Page : pcb.page_table[p] = -1
  PROVE  LET n == WithPcb(m, a, pcb)
         IN  /\ PagingInv(n)
             /\ n.live = m.live \cup {a}
             /\ n.pcbs = [m.pcbs EXCEPT ![a] = pcb]
<1> DEFINE n == WithPcb(m, a, pcb)
<1>1. m \in MemType /\ IsPermutation(m.lru)
  BY DEF PagingInv, PagingTypeOK
<1>2. /\ n.memory = m.memory /\ n.frame_table = m.frame_table
      /\ n.lru = m.lru /\ n.live = m.live \cup {a}
      /\ n.pcbs = [m.pcbs EXCEPT ![a] = pcb]
  BY <1>1 DEF WithPcb, MemType
<1>3. n \in MemType
  <2>1. [m.pcbs EXCEPT ![a] = pcb] \in [Addr -> Pcb]
    BY <1>1, MemFields
  <2>2. m.live \cup {a} \in SUBSET Addr
    BY <1>1, MemFields
  <2> DEFINE pcbs == [m.pcbs EXCEPT ![a] = pcb]
             live == m.live \cup {a}
  <2>3. n = [m EXCEPT !.pcbs = pcbs, !.live = live]
    BY DEF WithPcb
  <2> HIDE DEF pcbs, live, n
  <2>4. pcbs \in [Addr -> Pcb] /\ live \in SUBSET Addr
    BY <2>1, <2>2 DEF pcbs, live
  <2> QED BY <2>3, <2>4, <1>1 DEF MemType
<1> HIDE DEF n
<1>4. \A b \in Addr : n.pcbs[b] = IF b = a THEN pcb ELSE m.pcbs[b]
  BY <1>1, <1>2, MemFields
<1>5. PagingTypeOK(n)
  BY <1>1, <1>2, <1>3, <1>4 DEF PagingInv, PagingTypeOK
<1>6. FrameAccounting(n)
  BY <1>2 DEF PagingInv, FrameAccounting
<1>7. ASSUME NEW b \in Addr, n.pcbs[b].loaded PROVE LoadedPcbSound(n, b)
  <2>1. CASE b = a
    BY <2>1, <1>4, <1>7 DEF LoadedPcbSound
  <2>2. CASE b # a
    BY <2>2, <1>2, <1>4, <1>7 DEF LoadedPcbSound, PagingInv
  <2> QED BY <2>1, <2>2
<1>8. PagingInv(n)
  BY <1>5, <1>6, <1>7 DEF PagingInv
<1> QED BY <1>2, <1>8 DEF n

(* The lines of a filled PCB are never bytes that nobody wrote. *)
LEMMA LoadedReadsNoGarbage ==
  ASSUME NEW m, PagingInv(m), NEW a \in Addr, NEW page \in Nat,
         m.pcbs[a].loaded
  PROVE  ~ LoadReadsGarbage(m, a, page)
<1> DEFINE pcb == m.pcbs[a]
<1>1. /\ pcb.file_length \in 0 .. MAX_FILE_SIZE
      /\ pcb.file_contents \in [LineNo -> Files \cup {NULL}]
      /\ LoadedPcbSound(m, a)
  BY MemFields DEF PagingInv, PagingTypeOK, Pcb
<1> SUFFICES ASSUME NEW o \in Offset, LineAt(page, o) < pcb.file_length,
                    pcb.file_contents[LineAt(page, o)] = NULL
             PROVE  FALSE
  BY DEF LoadReadsGarbage, LinesOfPage
<1>2. LineAt(page, o) \in Nat
  BY LineAtNat
<1>3. LineAt(page, o) \in 0 .. (pcb.file_length - 1) /\ 0 \in 0 .. (pcb.file_length - 1)
  BY <1>1, <1>2, Constants
<1>4. pcb.file_contents[LineAt(page, o)] = pcb.filename
      /\ pcb.file_contents[0] = pcb.filename
  BY <1>1, <1>3 DEF LoadedPcbSound
<1> QED BY <1>1, <1>4, Constants DEF LoadedPcbSound

LEMMA LoadIfRoomKeepsInv ==
  ASSUME NEW m, PagingInv(m), NEW a \in Addr, NEW page \in Nat,
         m.pcbs[a].loaded
  PROVE  LET n == LoadIfRoom(m, a, page)
         IN  /\ PagingInv(n)
             /\ n.live = m.live
             /\ SameProcesses(m.pcbs, n.pcbs)
<1>1. CASE ~ (PageInRange(m.pcbs[a], page) /\ FindAvailableFrame(m) # -1)
  BY <1>1 DEF LoadIfRoom, SameProcesses
<1>2. CASE PageInRange(m.pcbs[a], page) /\ FindAvailableFrame(m) # -1
  <2> DEFINE frame == FindAvailableFrame(m)
  <2>1. frame \in Frame /\ m.frame_table[frame] = NoEntry
    BY <1>2, FindAvailableFrameFinds DEF PagingInv
  <2>2. ~ LoadReadsGarbage(m, a, page)
    BY LoadedReadsNoGarbage
  <2>3. LoadIfRoom(m, a, page) = LoadPage(m, a, page, frame)
    BY <1>2 DEF LoadIfRoom
  <2> HIDE DEF frame
  <2> QED BY <2>1, <2>2, <2>3, LoadPageKeepsInv
<1> QED BY <1>1, <1>2

(* pcb_init: whatever the block held before and however many frames are    *)
(* free, the new process's page table is sound.                            *)
LEMMA PcbInitKeepsInv ==
  ASSUME NEW m, PagingInv(m), NEW a \in Addr, NEW name \in Files,
         Len(Source[name]) \in Nat
  PROVE  LET n == PcbInit(m, a, name)
         IN  /\ PagingInv(n)
             /\ n.live = m.live \cup {a}
             /\ n.pcbs[a].filename = name
             /\ n.pcbs[a].file_length = FileLength(name)
             /\ n.pcbs[a].program_counter = 0
             /\ \A b \in Addr : b # a =>
                  /\ n.pcbs[b].filename = m.pcbs[b].filename
                  /\ n.pcbs[b].file_length = m.pcbs[b].file_length
                  /\ n.pcbs[b].program_counter = m.pcbs[b].program_counter
<1> DEFINE length == FileLength(name)
           old == m.pcbs[a].file_contents
           contents == [l \in LineNo |-> IF l < length THEN name ELSE old[l]]
           pcb == [filename |-> name, file_contents |-> contents,
                   file_length |-> length, page_table |-> [p \in Page |-> -1],
                   program_counter |-> 0, job_score |-> length, loaded |-> TRUE]
           fresh == WithPcb(m, a, pcb)
           first == LoadIfRoom(fresh, a, 0)
           n == LoadIfRoom(first, a, 1)
<1>1. n = PcbInit(m, a, name)
  BY DEF PcbInit, WithPcb
<1>2. length \in 0 .. MAX_FILE_SIZE
  BY FileLengthFits
<1>3. /\ old \in [LineNo -> Files \cup {NULL}]
      /\ \A l \in LineNo : old[l] # NULL => l < FileLength(old[l])
  BY MemFields DEF PagingInv, PagingTypeOK, Pcb
<1>4. /\ contents \in [LineNo -> Files \cup {NULL}]
      /\ \A l \in LineNo : contents[l] # NULL => l < FileLength(contents[l])
      /\ \A l \in 0 .. (length - 1) : contents[l] = name
  BY <1>2, <1>3, Constants DEF LineNo
<1> HIDE DEF contents, length
<1>5. pcb \in Pcb
  BY <1>2, <1>4, PagingAssumption DEF Pcb
<1>6. /\ pcb.filename = name /\ pcb.file_contents = contents
      /\ pcb.file_length = length /\ pcb.page_table = [p \in Page |-> -1]
      /\ pcb.program_counter = 0 /\ pcb.loaded = TRUE
  OBVIOUS
<1> HIDE DEF pcb
<1>7. /\ PagingInv(fresh) /\ fresh.live = m.live \cup {a}
      /\ fresh.pcbs = [m.pcbs EXCEPT ![a] = pcb]
  BY <1>4, <1>5, <1>6, WithPcbKeepsInv
<1> HIDE DEF fresh
<1>8. fresh.pcbs[a] = pcb /\ \A b \in Addr : b # a => fresh.pcbs[b] = m.pcbs[b]
  BY <1>7, MemFields DEF PagingInv, PagingTypeOK
<1>9. PagingInv(first) /\ first.live = fresh.live /\ SameProcesses(fresh.pcbs, first.pcbs)
  <2>1. fresh.pcbs[a].loaded /\ 0 \in Nat
    BY <1>6, <1>8
  <2> QED BY <2>1, <1>7, LoadIfRoomKeepsInv
<1> HIDE DEF first
<1>10. first.pcbs[a].loaded
  BY <1>6, <1>8, <1>9 DEF SameProcesses
<1>11. PagingInv(n) /\ n.live = first.live /\ SameProcesses(first.pcbs, n.pcbs)
  BY <1>9, <1>10, LoadIfRoomKeepsInv
<1> HIDE DEF n
<1> QED BY <1>1, <1>6, <1>7, <1>8, <1>9, <1>11 DEF SameProcesses, length

(* pcb_dup_init: the copy counts as not filled, its contents are the       *)
(* block's.                                                                *)
LEMMA PcbDupInitKeepsInv ==
  ASSUME NEW m, PagingInv(m), NEW a \in Addr, NEW dup \in Addr, a # dup
  PROVE  LET n == PcbDupInit(m, a, dup)
         IN  /\ PagingInv(n)
             /\ n.live = m.live \cup {a}
             /\ n.pcbs[a].filename = m.pcbs[dup].filename
             /\ n.pcbs[a].file_length = m.pcbs[dup].file_length
             /\ n.pcbs[a].program_counter = 0
             /\ \A b \in Addr : b # a => n.pcbs[b] = m.pcbs[b]
<1> DEFINE contents == m.pcbs[a].file_contents
           pcb == [m.pcbs[dup] EXCEPT !.file_contents = contents,
                                      !.program_counter = 0, !.loaded = FALSE]
           n == WithPcb(m, a, pcb)
<1>1. n = PcbDupInit(m, a, dup)
  BY DEF PcbDupInit, WithPcb
<1>2. /\ m.pcbs \in [Addr -> Pcb]
      /\ contents \in [LineNo -> Files \cup {NULL}]
      /\ \A l \in LineNo : contents[l] # NULL => l < FileLength(contents[l])
  BY MemFields DEF PagingInv, PagingTypeOK, Pcb
<1> HIDE DEF contents
<1>3. /\ pcb \in Pcb /\ pcb.file_contents = contents
      /\ pcb.filename = m.pcbs[dup].filename
      /\ pcb.file_length = m.pcbs[dup].file_length
      /\ pcb.program_counter = 0 /\ pcb.loaded = FALSE
  BY <1>2 DEF Pcb
<1> HIDE DEF pcb
<1>4. /\ PagingInv(n) /\ n.live = m.live \cup {a}
      /\ n.pcbs = [m.pcbs EXCEPT ![a] = pcb]
  BY <1>2, <1>3, WithPcbKeepsInv
<1> HIDE DEF n
<1>5. n.pcbs[a] = pcb /\ \A b \in Addr : b # a => n.pcbs[b] = m.pcbs[b]
  BY <1>2, <1>4
<1> QED BY <1>1, <1>3, <1>4, <1>5

LEMMA PcbDeinitKeepsInv ==
  ASSUME NEW m, PagingInv(m), NEW a \in Addr
  PROVE  LET n == PcbDeinit(m, a)
         IN  PagingInv(n) /\ n.live = m.live \ {a} /\ n.pcbs = m.pcbs
<1> DEFINE n == PcbDeinit(m, a)
<1>1. m \in MemType /\ IsPermutation(m.lru)
  BY DEF PagingInv, PagingTypeOK
<1>2. /\ n.memory = m.memory /\ n.frame_table = m.frame_table
      /\ n.lru = m.lru /\ n.live = m.live \ {a} /\ n.pcbs = m.pcbs
  BY <1>1 DEF PcbDeinit, MemType
<1>3. n \in MemType
  BY <1>1 DEF PcbDeinit, MemType
<1> HIDE DEF n
<1>4. PagingTypeOK(n) /\ FrameAccounting(n)
  BY <1>1, <1>2, <1>3 DEF PagingInv, PagingTypeOK, FrameAccounting
<1>5. \A b \in Addr : n.pcbs[b].loaded => LoadedPcbSound(n, b)
  BY <1>2 DEF PagingInv, LoadedPcbSound
<1> QED BY <1>2, <1>4, <1>5 DEF PagingInv, n

LEMMA TouchKeepsInv ==
  ASSUME NEW m, PagingInv(m), NEW frame \in Frame
  PROVE  LET n == Touch(m, frame)
         IN  PagingInv(n) /\ n.live = m.live /\ n.pcbs = m.pcbs
<1> DEFINE lru == AccessFrame(m.lru, frame)
           n   == [m EXCEPT !.lru = lru]
<1>1. n = Touch(m, frame)
  BY DEF Touch
<1>2. m \in MemType /\ IsPermutation(m.lru)
  BY DEF PagingInv, PagingTypeOK
<1>3. lru \in Orders /\ IsPermutation(lru)
  BY <1>2, MemFields, AccessKeepsOrder
<1> HIDE DEF lru
<1>4. /\ n.memory = m.memory /\ n.frame_table = m.frame_table
      /\ n.lru = lru /\ n.live = m.live /\ n.pcbs = m.pcbs
      /\ n \in MemType
  BY <1>2, <1>3 DEF MemType
<1> HIDE DEF n
<1>5. PagingTypeOK(n) /\ FrameAccounting(n)
  BY <1>3, <1>4 DEF PagingInv, PagingTypeOK, FrameAccounting
<1>6. \A b \in Addr : n.pcbs[b].loaded => LoadedPcbSound(n, b)
  BY <1>4 DEF PagingInv, LoadedPcbSound
<1> QED BY <1>1, <1>4, <1>5, <1>6 DEF PagingInv

(* Program counters and job scores are not part of what paging keeps.      *)
LEMMA CountersKeepInv ==
  ASSUME NEW m, PagingInv(m), NEW pcbs \in [Addr -> Pcb],
         \A b \in Addr :
           /\ pcbs[b].filename = m.pcbs[b].filename
           /\ pcbs[b].file_contents = m.pcbs[b].file_contents
           /\ pcbs[b].file_length = m.pcbs[b].file_length
           /\ pcbs[b].page_table = m.pcbs[b].page_table
           /\ pcbs[b].loaded = m.pcbs[b].loaded
  PROVE  LET n == [m EXCEPT !.pcbs = pcbs]
         IN  PagingInv(n) /\ n.live = m.live /\ n.pcbs = pcbs
<1> DEFINE n == [m EXCEPT !.pcbs = pcbs]
<1>1. m \in MemType /\ IsPermutation(m.lru)
  BY DEF PagingInv, PagingTypeOK
<1>2. /\ n.memory = m.memory /\ n.frame_table = m.frame_table
      /\ n.lru = m.lru /\ n.live = m.live /\ n.pcbs = pcbs
      /\ n \in MemType
  BY <1>1 DEF MemType
<1> HIDE DEF n
<1>3. PagingTypeOK(n) /\ FrameAccounting(n)
  BY <1>1, <1>2 DEF PagingInv, PagingTypeOK, FrameAccounting
<1>4. \A b \in Addr : n.pcbs[b].loaded => LoadedPcbSound(n, b)
  BY <1>2 DEF PagingInv, LoadedPcbSound
<1> QED BY <1>2, <1>3, <1>4 DEF PagingInv, n

-----------------------------------------------------------------------------
LEMMA PagingInitInv == PagingInv(PagingInit)
<1>1. /\ PagingInit.memory = [f \in Frame |-> [o \in Offset |-> NULL]]
      /\ PagingInit.frame_table = [f \in Frame |-> NoEntry]
      /\ PagingInit.lru = LruInit
      /\ PagingInit.pcbs = [a \in Addr |-> RawPcb]
      /\ PagingInit.live = {}
  BY DEF PagingInit
<1>2. LruInit \in Orders /\ IsPermutation(LruInit)
  <2>1. \A i \in Position : i - 1 \in Frame
    BY Constants DEF Position, Frame
  <2>2. LruInit \in Orders
    BY <2>1 DEF LruInit, Orders
  <2>3. ASSUME NEW f \in Frame PROVE f + 1 \in Position /\ LruInit[f + 1] = f
    BY Constants DEF Position, Frame, LruInit
  <2> QED BY <2>2, <2>3 DEF IsPermutation
<1>3. RawPcb \in Pcb
  BY Constants DEF RawPcb, Pcb
<1>4. PagingInit \in MemType
  BY <1>2, <1>3 DEF PagingInit, MemType
<1>5. \A a \in Addr : ~ PagingInit.pcbs[a].loaded
        /\ \A l \in LineNo : PagingInit.pcbs[a].file_contents[l] = NULL
  BY <1>1 DEF RawPcb
<1>6. PagingTypeOK(PagingInit)
  BY <1>1, <1>2, <1>4, <1>5 DEF PagingTypeOK
<1>7. FrameAccounting(PagingInit)
  BY <1>1, Constants DEF FrameAccounting
<1> QED BY <1>5, <1>6, <1>7 DEF PagingInv

(* A resident page of a filled PCB yields the file's own line. *)
LEMMA FetchOwnLine ==
  ASSUME NEW m, PagingInv(m), NEW a \in Addr, m.pcbs[a].loaded,
         NEW page \in Page, NEW offset \in Offset,
         LineAt(page, offset) < m.pcbs[a].file_length,
         m.pcbs[a].page_table[page] # -1
  PROVE  Fetch(m, m.pcbs[a].page_table[page], offset)
           = Source[m.pcbs[a].filename][LineAt(page, offset) + 1]
<1> DEFINE x == m.memory[m.pcbs[a].page_table[page]][offset]
           pcb == m.pcbs[a]
           l == LineAt(page, offset)
<1>1. LoadedPcbSound(m, a) /\ pcb \in Pcb
  BY MemFields DEF PagingInv, PagingTypeOK
<1>2. x = [script |-> pcb.filename, line |-> l] /\ pcb.filename \in Files
  BY <1>1 DEF LoadedPcbSound
<1>3. l \in Nat
  BY LineAtNat, Constants DEF Page
<1>4. l \in 0 .. (pcb.file_length - 1) /\ l \in LineNo
  BY <1>1, <1>3, Constants DEF Pcb, LineNo
<1>5. pcb.file_contents[l] = pcb.filename
  BY <1>1, <1>4 DEF LoadedPcbSound
<1>6. l < FileLength(pcb.filename)
  BY <1>2, <1>4, <1>5, Constants DEF PagingInv, PagingTypeOK
<1> HIDE DEF l, pcb
<1>7. [script |-> pcb.filename, line |-> l] \in ScriptLine
  BY <1>2, <1>4, <1>6 DEF ScriptLine
<1>8. x # NULL
  BY <1>2, <1>7, Constants
<1> HIDE DEF x
<1> QED BY <1>2, <1>8 DEF Fetch, x, l, pcb

(* A line number is its page's first line plus its offset. *)
LEMMA LineOfCounter ==
  ASSUME NEW n \in Nat
  PROVE  /\ n \div FRAME_SIZE \in Nat
         /\ n % FRAME_SIZE \in Offset
         /\ LineAt(n \div FRAME_SIZE, n % FRAME_SIZE) = n
BY Constants DEF LineAt, Offset

=============================================================================
