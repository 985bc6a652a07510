------------------------------- MODULE FileIO -------------------------------
(***************************************************************************)
(* The bytes of files: file.c, inode.c, data.c and bitmap.c on the blocks  *)
(* of block.c and disk.c, as directory.c and the unit tests use them.  A   *)
(* caller reads an inode into a struct of its own, passes the struct to    *)
(* file_read and file_write, and drops it; it does so with one struct for  *)
(* an inode at a time.                                                     *)
(*                                                                         *)
(* The disk is a function from block numbers.  A bitmap block is the set   *)
(* of its bits that are 1, an inode table block the inodes in its slots, a *)
(* data block its bytes.  A byte is ZERO or carries the file it was        *)
(* written to.  An inode's number is its place.                            *)
(***************************************************************************)
EXTENDS Integers, Sequences

CONSTANTS
  BLOCK_SIZE, NUM_BLOCKS, NUM_DATA_BLOCKS, DATA_REGION_START,   \* fs.h
  NUM_INODES, NDIRECT, INODES_PER_BLOCK,                        \* inode.h
  Mark,         \* what tells the bytes of one file apart
  Marks,        \* the sequences of marks that are written
  ZERO, NONE

INODE_BITMAP_BLOCK == 1
DATA_BITMAP_BLOCK == 2
INODE_TABLE_START == 3
INODE_TABLE_BLOCKS == (NUM_INODES + INODES_PER_BLOCK - 1) \div INODES_PER_BLOCK
MAX_FILE_SIZE == NDIRECT * BLOCK_SIZE

ASSUME FileIOAssumption ==
  /\ BLOCK_SIZE \in Nat \ {0} /\ NDIRECT \in Nat \ {0}
  /\ NUM_INODES \in Nat \ {0} /\ INODES_PER_BLOCK \in Nat \ {0}
  /\ NUM_DATA_BLOCKS \in Nat \ {0} /\ NUM_BLOCKS \in Nat /\ DATA_REGION_START \in Nat
  /\ INODE_TABLE_START + INODE_TABLE_BLOCKS <= DATA_REGION_START
  /\ DATA_REGION_START + NUM_DATA_BLOCKS <= NUM_BLOCKS
  /\ Marks \subseteq Seq(Mark)

VARIABLES
  disk,
  copy,    \* the struct a caller holds of each inode, or NONE
  live,    \* the inodes in use: allocated, and not removed since
  failed   \* whether a write has failed (a history variable)

vars == <<disk, copy, live, failed>>

Inum == 0 .. (NUM_INODES - 1)
Dnum == 0 .. (NUM_DATA_BLOCKS - 1)
Bnum == 1 .. (NUM_BLOCKS - 1)      \* block 0 is the superblock
Direct == 0 .. (NDIRECT - 1)

Byte == {ZERO} \cup [file : Inum, mark : Mark]
DataBlock == [0 .. (BLOCK_SIZE - 1) -> Byte]
Inode == [size : 0 .. MAX_FILE_SIZE, addrs : [Direct -> Dnum \cup {-1}]]

(* NONE is told apart from a struct and from the bytes of a file. *)
ASSUME NoneAssumption == NONE \notin Inode /\ NONE \notin Seq(Byte)

(* inode.h and data.h: where an inode and a data block are. *)
IBLOCK(inum) == inum \div INODES_PER_BLOCK + INODE_TABLE_START
IOFFSET(inum) == inum % INODES_PER_BLOCK

DBLOCK(dnum) == dnum + DATA_REGION_START

ZeroBlock == [i \in 0 .. (BLOCK_SIZE - 1) |-> ZERO]
EmptyInode == [size |-> 0, addrs |-> [i \in Direct |-> -1]]
ZeroInode == [size |-> 0, addrs |-> [i \in Direct |-> 0]]

-----------------------------------------------------------------------------
(* block.c on disk.c.  Their tests of the block number and of the offset   *)
(* on the disk hold for every block the layers above compute (RegionsApart *)
(* in FileIOProofs).                                                       *)

block_read(d, bnum) == d[bnum]
block_write(d, bnum, block) == [d EXCEPT ![bnum] = block]

-----------------------------------------------------------------------------
(* bitmap.c.  Both bitmaps are scanned for whole bytes up to the number of *)
(* data blocks, and to the limit.                                          *)

BrokenFindFree(d, bnum, limit) ==
  LET free == (0 .. limit) \ block_read(d, bnum)
  IN  IF free = {} THEN -1 ELSE CHOOSE n \in free : \A m \in free : n <= m

bitmap_find_free(d, bnum, limit) ==
  LET scanned == {n \in 0 .. (limit - 1) : n < 8 * ((NUM_DATA_BLOCKS + 7) \div 8)}
      free == scanned \ block_read(d, bnum)
  IN  IF free = {} THEN -1 ELSE CHOOSE n \in free : \A m \in free : n <= m

bitmap_alloc(d, bnum, n) == block_write(d, bnum, block_read(d, bnum) \cup {n})
bitmap_free(d, bnum, n) == block_write(d, bnum, block_read(d, bnum) \ {n})

-----------------------------------------------------------------------------
(* data.c and inode.c *)

data_read(d, dnum) == block_read(d, DBLOCK(dnum))
data_update(d, dnum, block) == block_write(d, DBLOCK(dnum), block)

BrokenUnmarked(d, dnum) == data_update(d, dnum, ZeroBlock)
BrokenUnwiped(d, dnum) == bitmap_alloc(d, DATA_BITMAP_BLOCK, dnum)

(* data_alloc of the block that was found: zeroed, then taken. *)
data_alloc(d, dnum) ==
  bitmap_alloc(data_update(d, dnum, ZeroBlock), DATA_BITMAP_BLOCK, dnum)

inode_read(d, inum) == block_read(d, IBLOCK(inum))[IOFFSET(inum)]
inode_update(d, inum, inode) ==
  block_write(d, IBLOCK(inum),
              [block_read(d, IBLOCK(inum)) EXCEPT ![IOFFSET(inum)] = inode])

inode_alloc(d, inum, inode) ==
  bitmap_alloc(inode_update(d, inum, inode), INODE_BITMAP_BLOCK, inum)

-----------------------------------------------------------------------------
(* file.c.  The loops of file_read and file_write take the blocks from the *)
(* one of the first byte to the one of the last in turn; the chunk in a    *)
(* block is the bytes from From to To.                                     *)

First(offset) == offset \div BLOCK_SIZE
Last(offset, count) == IF count = 0 THEN First(offset) - 1
                       ELSE (offset + count - 1) \div BLOCK_SIZE

From(addr, offset) == IF addr = First(offset) THEN offset % BLOCK_SIZE ELSE 0
To(addr, offset, count) ==
  IF addr = Last(offset, count) THEN (offset + count - 1) % BLOCK_SIZE ELSE BLOCK_SIZE - 1

(* Forgets that the first chunk may start inside a block. *)
BrokenChunk(d, inode, addr, offset, count) ==
  [i \in 1 .. (To(addr, offset, count) - From(addr, offset) + 1) |->
     data_read(d, inode.addrs[addr])[i - 1]]

Chunk(d, inode, addr, offset, count) ==
  [i \in 1 .. (To(addr, offset, count) - From(addr, offset) + 1) |->
     data_read(d, inode.addrs[addr])[From(addr, offset) + i - 1]]

Refuses(inode, offset, count) ==
  offset > inode.size \/ offset + count > MAX_FILE_SIZE

(* The bytes that file_read copies into the buffer before it returns: all  *)
(* of them, or those before the first block that is not mapped.            *)
file_read(d, inode, offset, count) ==
  LET read[addr \in First(offset) .. (Last(offset, count) + 1)] ==
        IF addr > Last(offset, count) \/ inode.addrs[addr] = -1 THEN <<>>
        ELSE Chunk(d, inode, addr, offset, count) \o read[addr + 1]
  IN  read[First(offset)]

(* Starts again with the first byte of the buffer in every block. *)
BrokenSource(addr, offset, i) == i - From(addr, offset) + 1

(* The byte of the buffer that goes to the i-th of the block. *)
Source(addr, offset, i) == addr * BLOCK_SIZE + i - offset + 1

(* One turn of file_write's loop.  s is the disk, the struct and whether   *)
(* the write goes on; a full disk ends it, and what is done stays done.    *)
PutChunk(s, addr, offset, bytes) ==
  LET old == s.inode.addrs[addr]
      dnum == IF old # -1 THEN old
              ELSE bitmap_find_free(s.disk, DATA_BITMAP_BLOCK, NUM_DATA_BLOCKS)
      base == IF old # -1 THEN s.disk ELSE data_alloc(s.disk, dnum)
      block == [i \in 0 .. (BLOCK_SIZE - 1) |->
                  IF i \in From(addr, offset) .. To(addr, offset, Len(bytes))
                  THEN bytes[Source(addr, offset, i)]
                  ELSE data_read(base, dnum)[i]]
  IN  IF ~ s.ok \/ dnum = -1 THEN [s EXCEPT !.ok = FALSE]
      ELSE [disk |-> data_update(base, dnum, block),
            inode |-> [s.inode EXCEPT !.addrs[addr] = dnum], ok |-> TRUE]

(* The struct gets the new size, but not the disk. *)
BrokenSave(s, inum, end) ==
  IF s.ok /\ end > s.inode.size THEN [s EXCEPT !.inode.size = end] ELSE s

(* What file_write does behind its loop. *)
Save(s, inum, end) ==
  LET grown == [s.inode EXCEPT !.size = end]
  IN  IF s.ok /\ end > s.inode.size
      THEN [s EXCEPT !.inode = grown, !.disk = inode_update(@, inum, grown)]
      ELSE s

file_write(d, inode, inum, offset, bytes) ==
  LET after[addr \in (First(offset) - 1) .. Last(offset, Len(bytes))] ==
        IF addr < First(offset) THEN [disk |-> d, inode |-> inode, ok |-> TRUE]
        ELSE PutChunk(after[addr - 1], addr, offset, bytes)
  IN  Save(after[Last(offset, Len(bytes))], inum, offset + Len(bytes))

-----------------------------------------------------------------------------
(* disk_reset *)
Init ==
  /\ disk = [n \in Bnum |->
       CASE n \in {INODE_BITMAP_BLOCK, DATA_BITMAP_BLOCK} -> {}
         [] n \in INODE_TABLE_START .. (DATA_REGION_START - 1) ->
              [slot \in 0 .. (INODES_PER_BLOCK - 1) |-> ZeroInode]
         [] OTHER -> ZeroBlock]
  /\ copy = [f \in Inum |-> NONE]
  /\ live = {}
  /\ failed = FALSE

(* inode_alloc of a struct as fs_create fills it. *)
Create ==
  LET inum == bitmap_find_free(disk, INODE_BITMAP_BLOCK, NUM_INODES)
  IN  /\ inum # -1
      /\ disk' = inode_alloc(disk, inum, EmptyInode)
      /\ live' = live \cup {inum}
      /\ UNCHANGED <<copy, failed>>

(* inode_read *)
Open(f) ==
  /\ f \in live /\ copy[f] = NONE
  /\ copy' = [copy EXCEPT ![f] = inode_read(disk, f)]
  /\ UNCHANGED <<disk, live, failed>>

Write(f, offset, marks) ==
  LET bytes == [i \in DOMAIN marks |-> [file |-> f, mark |-> marks[i]]]
      after == file_write(disk, copy[f], f, offset, bytes)
  IN  /\ copy[f] # NONE /\ ~ Refuses(copy[f], offset, Len(bytes))
      /\ disk' = after.disk
      /\ copy' = [copy EXCEPT ![f] = after.inode]
      /\ failed' = (failed \/ ~ after.ok)
      /\ UNCHANGED live

(* The struct goes out of scope. *)
Close(f) ==
  /\ copy[f] # NONE
  /\ copy' = [copy EXCEPT ![f] = NONE]
  /\ UNCHANGED <<disk, live, failed>>

(* The end of fs_delete: data_free of the direct pointers in turn, up to   *)
(* the first that is -1, and inode_free when there is none.                *)
Remove(f) ==
  LET inode == inode_read(disk, f)
      used == {i \in Direct : \A j \in 0 .. i : inode.addrs[j] # -1}
      freed == block_write(disk, DATA_BITMAP_BLOCK, block_read(disk, DATA_BITMAP_BLOCK)
                                                      \ {inode.addrs[i] : i \in used})
  IN  /\ f \in live /\ copy[f] = NONE
      /\ disk' = IF used = Direct THEN bitmap_free(freed, INODE_BITMAP_BLOCK, f) ELSE freed
      /\ live' = live \ {f}
      /\ UNCHANGED <<copy, failed>>

Next ==
  \/ Create
  \/ \E f \in Inum : Open(f) \/ Close(f) \/ Remove(f)
  \/ \E f \in Inum, marks \in Marks, offset \in 0 .. MAX_FILE_SIZE : Write(f, offset, marks)

Spec == Init /\ [][Next]_vars

-----------------------------------------------------------------------------
TypeOK ==
  /\ \A n \in Bnum :
       CASE n = INODE_BITMAP_BLOCK -> disk[n] \subseteq Inum
         [] n = DATA_BITMAP_BLOCK -> disk[n] \subseteq Dnum
         [] n \in INODE_TABLE_START .. (DATA_REGION_START - 1) ->
              disk[n] \in [0 .. (INODES_PER_BLOCK - 1) -> Inode]
         [] n \in {DBLOCK(dnum) : dnum \in Dnum} -> disk[n] \in DataBlock
         [] OTHER -> TRUE
  /\ copy \in [Inum -> Inode \cup {NONE}]
  /\ live \subseteq disk[INODE_BITMAP_BLOCK]
  /\ failed \in BOOLEAN

(* The inode as its file's next user has it. *)
Held(f) == IF copy[f] # NONE THEN copy[f] ELSE inode_read(disk, f)
Mapped(inode) == {i \in Direct : inode.addrs[i] # -1}
Blocks(inode) == {inode.addrs[i] : i \in Mapped(inode)}

(* The files in use share no data block, and none of their blocks is free  *)
(* to be allocated again, whatever was written, failed or removed, and     *)
(* though the struct in a caller's hands may be ahead of the disk.  Blocks *)
(* are mapped from the first on, up to the size at least.                  *)
BlocksApart ==
  /\ \A f \in live : LET inode == Held(f) IN
       /\ Blocks(inode) \subseteq disk[DATA_BITMAP_BLOCK]
       /\ \A i, j \in Mapped(inode) : inode.addrs[i] = inode.addrs[j] => i = j
       /\ \A i \in Mapped(inode) : 0 .. i \subseteq Mapped(inode)
       /\ \A i \in Direct : i * BLOCK_SIZE < inode.size => i \in Mapped(inode)
  /\ \A f, g \in live : f # g => Blocks(Held(f)) \cap Blocks(Held(g)) = {}

(* What the disk has of a file is what the struct had: a struct may go out *)
(* of scope after any write that succeeded without losing a block or the   *)
(* size; blocks are lost only when a write failed.                         *)
SpaceAccounted ==
  ~ failed =>
    /\ disk[DATA_BITMAP_BLOCK] = UNION {Blocks(inode_read(disk, f)) : f \in live}
    /\ \A f \in live : Held(f) = inode_read(disk, f)

(* No file's blocks hold a byte of another or of one that was removed, the *)
(* part behind the end of the file included.                               *)
NoForeignBytes ==
  \A f \in live : \A dnum \in Blocks(Held(f)) : \A i \in 0 .. (BLOCK_SIZE - 1) :
    LET byte == data_read(disk, dnum)[i] IN byte = ZERO \/ byte.file = f

(* One byte of a file. *)
ByteAt(inode, n) == data_read(disk, inode.addrs[n \div BLOCK_SIZE])[n % BLOCK_SIZE]

Content == [f \in Inum |->
  IF f \in live THEN [n \in 1 .. Held(f).size |-> ByteAt(Held(f), n - 1)] ELSE NONE]

(* A read inside the file gives the bytes of the file from offset on, as   *)
(* many as were asked for, however writes and reads split them over blocks *)
(* and whether or not a write has failed.                                  *)
ReadsBack ==
  \A f \in live : LET inode == Held(f) IN
    \A offset, count \in 0 .. MAX_FILE_SIZE :
      offset + count <= inode.size =>
        LET bytes == file_read(disk, inode, offset, count)
        IN  /\ Len(bytes) = count
            /\ \A n \in 1 .. count : bytes[n] = Content[f][offset + n]

(* The comment of file_read: a read that exceeds the file's size stops     *)
(* there.  The code stops at the first block that is not mapped.           *)
StopsAtSize ==
  \A f \in live : LET inode == Held(f) IN
    \A offset, count \in 0 .. MAX_FILE_SIZE :
      ~ Refuses(inode, offset, count) =>
        offset + Len(file_read(disk, inode, offset, count)) <= inode.size

Tagged(f) == {[i \in DOMAIN marks |-> [file |-> f, mark |-> marks[i]]] : marks \in Marks}

Files == INSTANCE ByteFile WITH
  File <- Inum, Buffers <- Tagged, content <- Content

(* Every write, split over blocks old and new, is one write of a sequence  *)
(* of bytes, also when the disk is full half way through; opening and      *)
(* closing a file changes nothing, and no call changes two files.          *)
ImplementsByteFile == Files!Spec

=============================================================================
