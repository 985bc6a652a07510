# pico-shell in TLA+

A verification development beside the C sources of pico-shell: a shell whose
`exec` command runs scripts as processes under five scheduling policies, over a
demand-paged store with LRU eviction, and whose `mkdir`, `rmdir` and `cd` work on
an inode file system kept in an array. Paths are relative to the repository's
root, which is `src/`.

## The system

| component | state it keeps | operations | what makes it correct |
|---|---|---|---|
| main loop, `parseInput` (`src/core/shell.c`) | the line, `errorCode`, one activation per nested call | read a line, run its commands in turn, return the last code | every line typed finishes or ends the shell; -1 only for a reason |
| interpreter (`src/core/interpreter.c`) | none | dispatch on the first word | calls what was typed |
| exec, run (`src/commands`) | none | build the ready queue, start a policy | queues a process for every program, or says why not |
| schedulers (`src/scheduling/scheduler.c`) | the process in hand, the count of the time slice | FCFS, SJF, RR, RR30, AGING | each process runs its own lines in order, to the end, once |
| ready queue (`ready_queue.c`) | a linked list of PCBs, `process_count` | append, appendleft, pop, sort, age, find a duplicate | no process lost or in two places; the shortest in front |
| PCB (`pcb.c`) | file contents, page table, program counter, score | init, init from a duplicate, free | the page table tells the truth |
| memory manager, frame store (`src/memory`) | lines in frames, the frame table | find a free frame, load a page, evict a frame, read a line | frame table, page tables and frames agree |
| LRU list (`lru.c`) | a doubly linked list, one node per frame | move a frame to the head, name the victim | a whole list; the victim is the oldest |
| variable store (`variable_store.c`, the `set`, `print`, `echo` and `$` arguments) | a table of pairs | set, get | a map: the value read is the one last set; a full table drops only what is new |
| bitmaps, inodes, data blocks (`src/fs`) | two bitmaps, the inode table, the data region | allocate, free, read, update, map a block | nothing is taken twice, nothing in use is free |
| file layer (`file.c`) | none of its own; its caller keeps a struct with the inode | read and write bytes across blocks | a file is a sequence of bytes, and its own |
| directory layer, pathname | none of their own | look up, add, remove, resolve | names in a directory differ; what is added is found |
| file system operations (`fs.c`) | `cwd` | create, delete, chdir | a tree of directories |
| block, disk | the array | copy a block | every block number computed above is in bounds |
| touch, ls, fork, help | none | calls of the host system | - |

They interact by calls on one thread; there are no messages, interrupts or
files of the shell's own to recover. Four things are hard nevertheless:

* **Re-entrance.** A script line is given to `parseInput`, so it may be an `exec`.
  The inner scheduler drains the same global queue and evicts from the same
  frames while the outer one holds a process that is in no queue.
* **State that outlives its owner.** Frames keep the PCB of a finished process,
  and `pcb_deinit` frees the block; the next eviction writes into the freed block
  or into the PCB that malloc has put there since. A failed `exec` leaves
  processes in the queue.
* **Memory nobody wrote.** `run` passes two uninitialised pointers, a duplicate's
  PCB has no file contents, error codes are returned unassigned, `/` leaves the
  name unassigned. These are choices over what the build can produce.
* **Operations that stop half way.** `rmdir` returns -1 after removing the entry
  and before freeing the inode; `mkdir` reports success when the entry is lost in
  a hole. What is left on the disk must still be a tree. `file_write` may find no
  block half way through: the struct in its caller's hands is then ahead of the
  inode table, and what was mapped is lost when the struct is dropped.

PROJECT.json lists each of these as a hazard at its line, with the properties
that would catch it.

## Modules

| module | models | how it corresponds to the code |
|---|---|---|
| `LruOrder` | the recency order of the frames, most recent first | operators `LruInit`, `AccessFrame`, `GetLruFrame` |
| `LruSpec` | what an LRU list promises: the only step moves a frame to the front | abstract specification |
| `LruList` | `lru.c` with its `next` and `prev` pointers | `Init` is `lru_init`, `access_frame` the one operation; `lastUse` is a history variable |
| `ReadyQueue` | `ready_queue.c` | the list is a sequence, one operator per function |
| `Paging` | `memory.c`, `frame_store.c`, `pcb.c` | a record `m` of the store, the frame table, the LRU row, the bytes of every PCB-sized heap block, and the blocks that are allocated; one operator from `m` to `m` per function |
| `Scheduler` | `shell.c`, `exec.c`, `run.c`, `scheduler.c`, composing `Paging` and `ReadyQueue` | `stack` holds the activations: a `parseInput`, the `exec` it called (building, then looping), the `parseInput` of a line of the process in hand, and so on; one action per step of one function |
| `JobRunner` | what exec promises of scripts: a job runs its lines one at a time, each once, in order, and ends behind the last; a line may start lines of other jobs | abstract specification; `Scheduler` maps the allocated PCBs to jobs and every second place of `stack` (the `parseInput` of a script's line) to a line being run |
| `VarMap` | what variables promise the commands: a map of bounded size | abstract specification |
| `VarStore` | `variable_store.c`, `set.c`, `print.c`, `echo.c`, the argument of `mkdir.c` and `rmdir.c`, and the tests of all of them in `interpreter.c` | `var_table` is the array, `reply` a history of the last command; one action per command |
| `ByteFile` | what the file layer promises: sequences of bytes, overwritten and extended | abstract specification |
| `FileIO` | `file.c`, `inode.c`, `data.c`, `bitmap.c`, `block.c`, `disk.c` | `disk` is a function from block numbers, `copy` the inode struct each caller holds; actions are what `directory.c`, `fs.c` and the unit tests do with a file: create, open, write, close, remove |
| `DirTree` | what the file system promises: a set of paths to which one is added below another, or from which one with nothing below is taken | abstract specification |
| `FileSystem` | `fs.c`, `pathname.c`, `directory.c`, and the layers below as they are used for directories | `disk` holds bitmaps, inode table and data blocks, a block being the entries it holds; `FsCreate` and `FsDelete` give the disk and whether 0 was returned; actions `mkdir`, `rmdir`, `cd` |
| `MCLruList`, `MCScheduler`, `MCVarStore`, `MCFileIO`, `MCFileSystem` | - | values of the constants for TLC |
| `LruProofs`, `PagingProofs`, `SchedulerProofs`, `ProgressProofs`, `JobProofs`, `VarStoreProofs`, `FileIOProofs`, `FileSystemProofs` | - | the proofs |

Operators named `Broken...` are faults a change to the code might introduce; each
stands in front of the definition it corrupts, and a passing run must fail with it.

Abstractions worth knowing:

* A script line is the sequence of commands it parses to. `plain` is any command
  that touches neither processes nor frames. Names fit their buffers and a line
  has fewer than `MAX_NUM_COMMANDS` commands.
* malloc may hand out again a block that a PCB was freed from, with its bytes;
  other reuse of the block is left out. `loaded` is a history field: `pcb_init`,
  not `pcb_dup_init`, filled the block.
* Undefined behaviour that does not fit a value (a wild pointer followed, an index
  past a table) ends in status `"crashed"`. An error code nobody assigned may or
  may not be -1.
* In `VarStore` a token is a word with a number of dollar signs in front; the word
  may be empty, because `parseInput` makes an empty word of a second space. A value is
  the sequence of its tokens, which `set` joins with spaces.
* In `FileIO` a byte is zero or carries the file it was written to, a bitmap block is
  the set of its bits, and a table block its inodes. A caller has one struct for an
  inode at a time, as `directory.c` and the tests do. `live` and `failed` are history.
* In `FileSystem` sizes and offsets count directory entries (64 bytes, which divide
  a block). `JUNK` is the name in an entry that `dir_add` wrote into a hole: the
  bytes at the address of its own parameter, which no command can type. `WILD`
  and the other names of `LastNames` are what an unassigned name may read as.

## Runs

| run | bounds | shows |
|---|---|---|
| `lru_list` | 4 frames, 6 accesses | `WalkIsComplete`, `VictimIsOldest`, and that the list implements the row (`ImplementsOrder`), which is why `Paging` may use the row |
| `scheduler` | 2 frames of 2 lines, files of up to 3 lines, 4 PCB blocks, 2 typed lines out of 9 | the safety of paging and scheduling, in spite of duplicates, nested and failed execs, crashes; that every process runs its lines once and in order (`ImplementsJobRunner`) |
| `progress` | 3 frames, files of up to 4 lines, 3 blocks, every policy with two orders of three scripts, and nesting | `LinesFinish` and `PicksShortest` |
| `file_system` | 5 inodes, 9 blocks of 2 entries, 2 names, paths of up to 3 names | blocks owned once, a sound tree, links counted, and `DirTree` implemented |
| `var_store` | 2 entries, 4 variables to set, commands of up to 4 words, tokens with up to 2 dollar signs | a sound table (`TableSound`) and a map of bounded size for all five commands (`ImplementsVarMap`) |
| `file_io` | blocks of 2 bytes, 3 pointers to an inode, 3 data blocks, 2 inodes in one table block, writes of 0, 1, 3 and 4 bytes at every offset | files share no block with each other or with the free ones, only a failed write loses any, no file holds another's bytes, reads inside a file give what was written, `ByteFile` is implemented |

`scheduler`: two frames are fewer than the four processes that can exist, so every
page load evicts; three lines with two to a frame make a last page shorter than a
frame; files exceed `MAX_FILE_SIZE`, one is empty, one is missing, one runs
another. Two typed lines are enough for a leftover process to meet a second exec.
The PCB blocks are interchangeable, which the run uses as a symmetry. `lru_list`
stops when its history is full, and `file_io` may stop when every inode has been used
up, so deadlock is not checked in these two; it is in every other passing run. `file_system`: an inode is never given back (see below), so
5 inodes bound the number of directories ever made to 4: enough to make, remove,
fill the hole, and go on. The sizes keep the proportion of the real ones (80 inodes,
120 blocks, 12 pointers to 16 entries): inodes run out before blocks and before a
directory is full. `rmdir` is given `/`, which it refuses, and `//`, for
which it takes any name. `cd` is given the root and a path that leads nowhere. `var_store`: the table is full
before every variable is set, so that a set is dropped, and `x` and `$x` are different
variables with the same word. `file_io`: three data blocks are the size of one full
file, so a second one makes writes fail before the first block and after some; a
write that succeeds may end inside a block, at its edge, or in the third.

Runs that end in a counterexample, each against what the repository says of itself:

| run | property | what happens |
|---|---|---|
| `thrash` | `LinesFinish` | with one frame, round robin comes to load the page of each of two processes in turn and to run neither |
| `duplicate` | `SharesOwnLine` | a duplicate runs what another process loaded into the frame it believes to share |
| `run_command` | `NeverCrashes` | `run` follows a pointer nobody wrote |
| `file_read` | `StopsAtSize` | a read that exceeds the file goes on to the end of its last block |
| `mkdir_lost` | `MkdirTells` | mkdir after rmdir returns 0 and the directory is not there |
| `rmdir_fails` | `RmdirTells` | rmdir removes the directory and returns -1 |

More happens that the passing runs step around rather than contradict.
AGING counts an empty script past its end until it overruns the page table: `JobRunner`
promises nothing of a script without lines, `Scheduler` ends such a run as `"crashed"`.
An `exec` of an empty script returns a code nobody assigned, which may be the -1 that ends
the shell; `scheduler` goes on from both. `ReadsBack` is about reads inside a file. `mkdir`
is not given `/`: `fs_create` has no test for it, although `src/fs/fs.c:63-64` wants none made,
and makes a directory under the name the stack held. And an `exec` that fails after queueing programs
leaves them queued, so a second one may make more than `MAX_NUM_PROGRAMS` of them;
`sort_ready_queue` takes that many from the front, sorts them and appends them behind the
rest, so a longer process can be in front: `PicksShortest` is checked in `progress`, where
no exec fails.

`RunsOwnLine` and `PagesAreOwn` are restricted to processes that `pcb_init` filled;
`duplicate` shows why. `num_links` is only bounded from below (`LinksCover`), because a
lost entry leaves its link in the parent's count.

**Fairness.** The program is one thread that waits for nothing between two prompts,
so a step of `Work` that stays possible is taken: `WF_vars(Work)`. Nothing is
assumed of the user, who may never type again. `LinesFinish` needs as many frames as
processes; `thrash` shows what happens with fewer.

## Proofs

Every invariant that a run checks, every refinement, the action property `RunsOwnLine`
and, under two hypotheses on the execs, `PicksShortest` are theorems. They hold for all
values of the constants that satisfy the named assumptions, which TLC evaluates in every
run.

| module | assumptions | theorems |
|---|---|---|
| `LruProofs` | `FrameAssumption`, `AccessAssumption` | `TypeCorrect`, `WalksComplete`, `OldestIsVictim`, `ListIsARow` |
| `SchedulerProofs` | `FrameAssumption`, `PagingAssumption`, `SchedulerAssumption` | `TypeCorrect`, `FramesStayAccounted`, `PagesStayOwn`, `HeldOnce` |
| `ProgressProofs` | the same | `LinesAreLeft`, `OwnLinesRun`, `ShortestIsPicked` (action properties), `NoneHalfRun` |
| `JobProofs` | the same | `RunsJobs`, the refinement of `JobRunner` |
| `VarStoreProofs` | `VarStoreAssumption` | `TypeCorrect`, `TableStaysSound`, `StoreIsAMap` |
| `FileIOProofs` | `FileIOAssumption`, `NoneAssumption` | `RegionsApart`, `TypeCorrect`, `BlocksStayApart`, `SpaceStaysAccounted`, `BytesStayOwn`, `WritesReadBack`, `OverreadsGiveZeros`, `FilesAreBytes` |
| `FileSystemProofs` | `FileSystemAssumption`, and `MkdirNamed` | `TypeCorrect`, `BlocksStayOwned`, `TreeStaysSound`, `LinksStayCovered`, `NamesCanBeTyped`, `Refinement` |

**LRU list.** The invariant has a witness: a sequence of all frames, each once, whose
neighbours are what `next` and `prev` say, whose ends are head and tail, and along
which the last uses fall. `access_frame` moves one element of the witness to the front,
by its three cases (head, tail, between). That the walk from the head is that sequence
is shown by induction over sets of positions, since the walk is a recursive function.

**Scheduling.** `Inv` is the conjunction of `PagingInv` (types, a permutation of the
frames, frame accounting, and sound page tables), `Sound` (the stack is typed and well
nested, no two of its places hold the same process) and `HeldApart` (allocated blocks
are exactly those queued or held). Two of its parts are stronger than what they prove.
`OwnPagesSound` speaks of allocated blocks, but an eviction may write into a freed
one, so the invariant `LoadedPcbSound` is kept for every loaded block, freed or not: a
block that is handed out again is then known not to be disturbed by a stale frame
table entry. And `HeldApart` must say that the process in each loop's hands is
allocated and unqueued, at every depth, for a `pcb_deinit` by the inner scheduler
not to free the outer one's process. `CountersInv` adds that counters of queued
processes are below the file's length and those in hand not above; `IdleInv` that
no half-run process is in the queue unless some scheduler is active.

`RunsJobs` rests on `Inv`, `CountersInv` and one more invariant, `Scripted`: the
`file_length` of an allocated PCB is that of the script it is named after, duplicates
included, which is where the two models agree about the end of a job. Its steps are
by action: those that leave counters and lines alone map to a stutter (`QuietStep`),
and the others each to one step of `JobRunner`. That a line is never begun for a
process in the middle of one comes from `HeldApart` again.

`ShortestIsPicked` is `PicksShortest` for behaviours with `FewQueued` (never more than
`MAX_NUM_PROGRAMS` processes in the queue) and without a failing `exec` (no step of
`Fails`). The inputs of `progress` meet both; the theorem adds execs nested in SJF and
AGING. Without them the property is false, as said above. Three exchanges put a queue of at most three in rising order
(`SortRises`). The invariant `ShortestInv` is that the queue rises while the scheduler on
top of the stack is SJF or AGING, or waits there for the line it runs. It is enough to
speak of the innermost one: a nested scheduler returns with an empty queue, and a
nested `exec` that does not fail goes through its scheduler.

`PagingProofs` has one lemma per paging operation; `SchedulerProofs` begins with the
facts about queues, above all that sorting permutes. Both are cited by name.

**Variables.** `StoreIsAMap` needs `TableSound` for one thing: when a variable is not in
the table, it has a free entry exactly if fewer than `VAR_STORE_SIZE` variables are
assigned. The proof gives a bijection between the entries in use and the assigned
variables.

**Files.** `BlocksApart` compares the inodes that are in use, but `file_write` works
on the struct in its caller's hands, and after a failed write that struct has blocks
the inode table knows nothing of. `FilesKept` therefore speaks of both. Whatever the
table maps for a file, its struct maps too, to the same block; only a live file has a
struct; the blocks of the structs are taken, and apart; the blocks of one file are
mapped without a gap from the first. A byte of a file's blocks is zero or its own, and a
byte behind its end is zero unless a write has failed: `file_read` gives those bytes when
it is asked for more than the file has (`StopsAtSize`, `OverreadsGiveZeros`). The loops of `file_read` and `file_write` are recursive
functions of the block's address in the model. What each turn has done by then (`ByteAfter`)
is proved by induction over sets of addresses (`Induction`), because the
library's induction theorems take an operator. `FilesAreBytes` then takes each call to
one step of `ByteFile`, whatever the number of its blocks.

**Directories.** The invariant is that there is a set `L` of directories with
`Sound(disk, L)`:

* `Laid`: each has a block for every entry and no more, and no two share one. It is
  stated for any set of directories, for the one that `fs_create` is filling is not in
  `L` yet, and the one that `fs_delete` frees no longer is.
* `Entries`: `.` comes first and names the directory, `..` second, and behind them come
  children, junk from a hole, and holes. A hole must not carry a name that can be typed,
  because `dir_remove` compares names without looking at `valid`.
* `Tied`: every child is in `L`, is not the root, and its `..` names the directory it is
  in; every one but the root is a child. So there is one entry for each.
* `Counted`: `num_links` covers the entries that refer to the directory. What `fs_create`
  and `fs_delete` write back was read before other writes, and this is where it matters
  that these did not touch the parent's size or blocks.
* `Least`: `L` is in every set that holds the root and the children of what it holds:
  there is no cycle off the root. An entry is removed only of a directory without
  children, so what is left is still the least such set.

`LiveIs` shows that `L` is what the properties call `Live`, by counting: each of the
`NUM_INODES` rounds of `LiveIn` finds something new or nothing is left. `OnePath` shows
that two paths do not lead to one directory, from `..`, and `DepthBounded` that no path
is as long as there are inodes (two of its prefixes would lead to one directory), so that
`Tree` is the set of all paths that lead somewhere (`TreeIs`). A step of `fs_create` or
`fs_delete` that returns half way is shown either to leave this set alone or to be a
whole step of `DirTree`: the case where `fs_delete` returns -1 after it has removed the
entry is the second kind.

`MkdirNamed`, the one hypothesis beyond the assumptions, is that `mkdir` is not given `/`
or `//`. It is needed: a directory made under a name nobody wrote may
have the name that is in a hole, and `dir_remove` would then clear the hole and leave the
entry. `rmdir` and `cd` may be given any path.

Nothing is assumed about sizes but that the root has room for its two entries. The
theorems therefore cover what the run's sizes, like the real ones, cannot reach: blocks
that run out while a new directory gets its first entries, and a full parent.

**Only model-checked.** `LinesFinish`, since liveness is outside the prover's reach. The
properties that end in a counterexample have the run as evidence.

## Where code and words differ

Besides the counterexamples above, reading the file layers showed:

* Where `file_read` goes on behind the size (`StopsAtSize`), it gives zeros unless a
  write has failed (`OverreadsGiveZeros`).
* `vstore_set` (`src/memory/variable_store.c:38`) says nothing when the table is full.
* `fs_create` can make a file (`FILE_T`), but no command asks it to, and `fs.c` never
  links one to the functions of `file.c`; only directories and the unit tests use them.
* `bitmap_find_free` searches `NUM_DATA_BLOCKS` bits of either bitmap, and `inode_free`
  takes `NUM_INODES` for an inode number and goes on after its own complaint, as
  `fstore_set` takes `FRAME_STORE_SIZE` for an address. With the sizes of `fs.h` and the
  callers there are, none of these is reached. Nor are the returns of `bitmap_alloc` and
  `bitmap_free` for a bit that has its value already, in `FileIO`; `FileSystem`, where
  one could be, has the second.

## Not modelled

The commands that only call the host system; messages and error numbers; the Unity
framework and the tests, which were read for what they expect. The characters of a
line: a line is given as its commands, a path as its names. NULL arguments of the file
layer, which no caller passes. Offsets are small enough not to overflow. What happens
after the shell's loop (`mem_deinit`, `lru_deinit`, `vstore_deinit`). The superblock,
which is written once and never read. The hazard about `fs_chdir` and `cwd` has no
property, since nothing reads `cwd` yet. That a bitmap fits in its block: it is a set here,
and the theorems are about the sizes for which it does, as with those of `fs.h`. A line of
`MAX_NUM_COMMANDS` commands or more, which would leave `strtok` in the middle of it.

## Plan

1. Done: LRU, ready queue, paging, schedulers, directories, variables, files; the
   theorems above.
2. When `mkdir` and `rmdir` tell the truth: `MkdirTells` for a parent without holes,
   `RmdirTells` for a directory that uses every direct pointer.
