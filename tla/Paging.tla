------------------------------- MODULE Paging -------------------------------
(***************************************************************************)
(* Demand paging: src/memory/memory.c, frame_store.c and                   *)
(* src/scheduling/pcb.c.  The state is a record m:                         *)
(*   m.memory       the frame store, a line of some script or NULL at      *)
(*                  every frame and offset (address frame * FRAME_SIZE +   *)
(*                  offset in the code)                                    *)
(*   m.frame_table  the PCB and page each frame was loaded for             *)
(*   m.lru          the recency order of the frames                        *)
(*   m.pcbs         the bytes of every PCB-sized block of the heap         *)
(*   m.live         the blocks that malloc has handed out                  *)
(* A block keeps its bytes when it is freed, and malloc may hand it out    *)
(* again: pcb_dup_init leaves file_contents as it finds it, and            *)
(* mem_free_memory_frame writes to a block that may have been freed.       *)
(* The operations are operators from m to m; Scheduler calls them.         *)
(***************************************************************************)
EXTENDS LruOrder, Sequences

CONSTANTS
  MAX_FILE_SIZE,  \* lines of a script that are read (interpreter.h)
  Names,          \* script names a command may give
  Files,          \* those that can be opened
  Source,         \* the parsed lines of every file
  Addr,           \* PCB-sized blocks of the heap
  NULL

MAX_PAGE_TABLE_SIZE == (MAX_FILE_SIZE + FRAME_SIZE - 1) \div FRAME_SIZE

Offset == 0 .. (FRAME_SIZE - 1)
Page   == 0 .. (MAX_PAGE_TABLE_SIZE - 1)
LineNo == 0 .. (MAX_FILE_SIZE - 1)

(* build_ready_queue buffers at most MAX_FILE_SIZE lines of the file. *)
FileLength(name) == IF Len(Source[name]) < MAX_FILE_SIZE
                    THEN Len(Source[name]) ELSE MAX_FILE_SIZE

(* What an address of the frame store can hold. *)
ScriptLine == {x \in [script : Files, line : LineNo] :
                 x.line < FileLength(x.script)}

ASSUME PagingAssumption ==
  /\ MAX_FILE_SIZE \in Nat \ {0}
  /\ Files \subseteq Names
  /\ NULL \notin Names /\ NULL \notin Addr /\ NULL \notin ScriptLine

LineAt(page, offset) == page * FRAME_SIZE + offset

NoEntry == [pcb |-> NULL, page |-> -1]

(* struct PCB.  An element of file_contents is named by the file the line  *)
(* came from, NULL standing for bytes nobody wrote.  loaded is a history   *)
(* field: pcb_init, not pcb_dup_init, filled the block.                    *)
Pcb == [filename : Names \cup {NULL},
        file_contents : [LineNo -> Files \cup {NULL}],
        file_length : 0 .. MAX_FILE_SIZE,
        page_table : [Page -> Frame \cup {-1}],
        program_counter : Nat,
        job_score : 0 .. MAX_FILE_SIZE,
        loaded : BOOLEAN]

(* Heap bytes before the first PCB, and fstore_init. *)
RawPcb == [filename |-> NULL,
           file_contents |-> [l \in LineNo |-> NULL],
           file_length |-> 0,
           page_table |-> [p \in Page |-> -1],
           program_counter |-> 0,
           job_score |-> 0,
           loaded |-> FALSE]

PagingInit == [memory      |-> [f \in Frame |-> [o \in Offset |-> NULL]],
               frame_table |-> [f \in Frame |-> NoEntry],
               lru         |-> LruInit,
               pcbs        |-> [a \in Addr |-> RawPcb],
               live        |-> {}]

-----------------------------------------------------------------------------
(* fstore_find_available_frame: the lowest frame whose first line is free. *)
FreeFrames(m) == {f \in Frame : m.memory[f][0] = NULL}
LowestOf(frames) == CHOOSE f \in frames : \A g \in frames : f <= g
FindAvailableFrame(m) ==
  IF FreeFrames(m) = {} THEN -1 ELSE LowestOf(FreeFrames(m))

(* A fault: a page that begins where the file ends passes. *)
BrokenPageInRange(pcb, page) == page >= 0 /\ page * FRAME_SIZE <= pcb.file_length

(* mem_load_page_into_frame's range check. *)
PageInRange(pcb, page) == page >= 0 /\ page * FRAME_SIZE < pcb.file_length

(* The lines of the page: strdup reads every one of them. *)
LinesOfPage(pcb, page) ==
  {LineAt(page, o) : o \in {o \in Offset : LineAt(page, o) < pcb.file_length}}

(* strdup is given bytes nobody wrote. *)
LoadReadsGarbage(m, a, page) ==
  /\ PageInRange(m.pcbs[a], page)
  /\ \E l \in LinesOfPage(m.pcbs[a], page) : m.pcbs[a].file_contents[l] = NULL

SetPageTable(pcbs, a, page, frame) ==
  [pcbs EXCEPT ![a].page_table[page] = frame]

(* mem_load_page_into_frame: a page out of range is reported and ignored;  *)
(* offsets behind the end of the file are left as they are.                *)
LoadPage(m, a, page, frame) ==
  LET pcb  == m.pcbs[a]
      line(o) == LineAt(page, o)
  IN  IF ~ PageInRange(pcb, page) THEN m
      ELSE [m EXCEPT
        !.memory[frame] =
           [o \in Offset |-> IF line(o) < pcb.file_length
                             THEN [script |-> pcb.file_contents[line(o)],
                                   line   |-> line(o)]
                             ELSE m.memory[frame][o]],
        !.frame_table[frame] = [pcb |-> a, page |-> page],
        !.pcbs = SetPageTable(@, a, page, frame),
        !.lru = AccessFrame(m.lru, frame)]

(* A fault: the PCB's page table keeps its entry. *)
BrokenFree(m, frame) ==
  [m EXCEPT !.memory[frame] = [o \in Offset |-> NULL],
            !.frame_table[frame] = NoEntry]

(* mem_free_memory_frame with fstore_evict_frame: only the PCB recorded in *)
(* the frame table loses its page table entry.                             *)
FreeMemoryFrame(m, frame) ==
  LET entry == m.frame_table[frame]
  IN  [m EXCEPT !.memory[frame] = [o \in Offset |-> NULL],
                !.pcbs = SetPageTable(@, entry.pcb, entry.page, -1),
                !.frame_table[frame] = NoEntry]

(* The schedulers' page fault: the free frame, else the LRU victim. *)
FaultFrame(m) == IF FindAvailableFrame(m) = -1 THEN GetLruFrame(m.lru)
                                               ELSE FindAvailableFrame(m)
RoomFor(m) == IF FindAvailableFrame(m) = -1
              THEN FreeMemoryFrame(m, GetLruFrame(m.lru)) ELSE m
PageFault(m, a, page) == LoadPage(RoomFor(m), a, page, FaultFrame(m))

Touch(m, frame) == [m EXCEPT !.lru = AccessFrame(@, frame)]

-----------------------------------------------------------------------------
(* pcb_init: load up to the first two pages while there is a free frame. *)
LoadIfRoom(m, a, page) ==
  LET frame == FindAvailableFrame(m)
  IN  IF PageInRange(m.pcbs[a], page) /\ frame # -1
      THEN LoadPage(m, a, page, frame) ELSE m

(* A fault: the page table is left as malloc returned it. *)
BrokenInit(m, a, name) ==
  LET length == FileLength(name)
      pcb    == [m.pcbs[a] EXCEPT
                   !.filename = name,
                   !.file_contents = [l \in LineNo |-> IF l < length THEN name
                                                                     ELSE @[l]],
                   !.file_length = length, !.program_counter = 0,
                   !.job_score = length, !.loaded = TRUE]
      fresh  == [m EXCEPT !.pcbs[a] = pcb, !.live = @ \cup {a}]
  IN  LoadIfRoom(LoadIfRoom(fresh, a, 0), a, 1)

PcbInit(m, a, name) ==
  LET length == FileLength(name)
      old    == m.pcbs[a].file_contents
      pcb    == [filename |-> name,
                 file_contents |-> [l \in LineNo |-> IF l < length THEN name
                                                                  ELSE old[l]],
                 file_length |-> length,
                 page_table |-> [p \in Page |-> -1],
                 program_counter |-> 0,
                 job_score |-> length,
                 loaded |-> TRUE]
      fresh  == [m EXCEPT !.pcbs[a] = pcb, !.live = @ \cup {a}]
  IN  LoadIfRoom(LoadIfRoom(fresh, a, 0), a, 1)

(* pcb_dup_init: the page table is copied, file_contents is not. *)
PcbDupInit(m, a, dup) ==
  LET pcb == [m.pcbs[dup] EXCEPT !.file_contents = m.pcbs[a].file_contents,
                                 !.program_counter = 0,
                                 !.loaded = FALSE]
  IN  [m EXCEPT !.pcbs[a] = pcb, !.live = @ \cup {a}]

(* pcb_deinit: the block is freed, the frames are not. *)
PcbDeinit(m, a) == [m EXCEPT !.live = @ \ {a}]

(* mem_get_fstore_value and the split of the line into commands; strtok    *)
(* given NULL finds none.                                                  *)
Fetch(m, frame, offset) ==
  LET x == m.memory[frame][offset]
  IN  IF x = NULL THEN <<>> ELSE Source[x.script][x.line + 1]

-----------------------------------------------------------------------------
MemType ==
  [memory      : [Frame -> [Offset -> ScriptLine \cup {NULL}]],
   frame_table : [Frame -> {NoEntry} \cup [pcb : Addr, page : Page]],
   lru         : Orders,
   pcbs        : [Addr -> Pcb],
   live        : SUBSET Addr]

(* Types, and the order that keeps access_frame's search from running off. *)
PagingTypeOK(m) ==
  /\ m \in MemType
  /\ IsPermutation(m.lru)
  /\ \A a \in Addr, l \in LineNo :
       LET file == m.pcbs[a].file_contents[l]
       IN  file # NULL => l < FileLength(file)

(* A frame is free for fstore_find_available_frame exactly when the frame  *)
(* table records no owner, and a free frame holds nothing at all: a page   *)
(* shorter than a frame never leaves lines of an earlier page behind it,   *)
(* and mem_free_memory_frame never follows a NULL owner.                   *)
FrameAccounting(m) ==
  \A f \in Frame :
    /\ (m.memory[f][0] = NULL) <=> (m.frame_table[f] = NoEntry)
    /\ (m.frame_table[f] = NoEntry) => \A o \in Offset : m.memory[f][o] = NULL

(* A process whose PCB was filled from its file: what its page table calls *)
(* resident is resident, in a frame recorded as its own, line for line, in *)
(* spite of evictions, of freed blocks that frames still name and of other *)
(* processes of the same script.                                           *)
OwnPagesSound(m) ==
  \A a \in m.live : m.pcbs[a].loaded =>
    LET pcb == m.pcbs[a]
    IN  /\ \A l \in 0 .. (pcb.file_length - 1) : pcb.file_contents[l] = pcb.filename
        /\ \A p \in Page : pcb.page_table[p] # -1 =>
             /\ m.frame_table[pcb.page_table[p]] = [pcb |-> a, page |-> p]
             /\ \A o \in Offset : LineAt(p, o) < pcb.file_length =>
                  m.memory[pcb.page_table[p]][o] =
                    [script |-> pcb.filename, line |-> LineAt(p, o)]

=============================================================================
