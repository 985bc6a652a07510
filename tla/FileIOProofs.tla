---------------------------- MODULE FileIOProofs ----------------------------
(***************************************************************************)
(* Theorems about FileIO, for every size of a block, of the inode table    *)
(* and of the disk.                                                        *)
(***************************************************************************)
EXTENDS FileIO, WellFoundedInduction, TLAPS

(* Quotient and remainder. *)
LEMMA Division ==
  ASSUME NEW k \in Nat \ {0}, NEW n \in Nat
  PROVE  /\ n \div k \in Nat /\ n % k \in 0 .. (k - 1)
         /\ n = k * (n \div k) + (n % k)
BY SMT

(* A quotient below a bound. *)
LEMMA QuotientBound ==
  ASSUME NEW k \in Nat \ {0}, NEW n \in Nat, NEW m \in Nat, n < k * m
  PROVE  n \div k < m
<1>1. n \div k \in Nat /\ n >= k * (n \div k)
  BY Division
<1>2. SUFFICES ASSUME n \div k >= m PROVE FALSE
  BY <1>1
<1>3. k * (n \div k) >= k * m
  BY <1>1, <1>2, SMT
<1> QED BY <1>1, <1>3

-----------------------------------------------------------------------------
(* The bounds tests of block.c and disk.c never fail: the two bitmaps, the *)
(* inode table and the data region lie on the disk, apart from each other, *)
(* and no two inodes and no two data blocks share a place.                 *)
THEOREM RegionsApart ==
  /\ \A dnum \in Dnum :
       DBLOCK(dnum) \in Bnum /\ DBLOCK(dnum) >= DATA_REGION_START
  /\ \A inum \in Inum :
       /\ IBLOCK(inum) \in INODE_TABLE_START .. (DATA_REGION_START - 1)
       /\ IBLOCK(inum) \in Bnum
       /\ IOFFSET(inum) \in 0 .. (INODES_PER_BLOCK - 1)
  /\ {INODE_BITMAP_BLOCK, DATA_BITMAP_BLOCK} \subseteq Bnum
  /\ INODE_BITMAP_BLOCK # DATA_BITMAP_BLOCK
  /\ {INODE_BITMAP_BLOCK, DATA_BITMAP_BLOCK} \cap
       (INODE_TABLE_START .. (NUM_BLOCKS - 1)) = {}
  /\ \A d1, d2 \in Dnum : DBLOCK(d1) = DBLOCK(d2) => d1 = d2
  /\ \A i1, i2 \in Inum :
       IBLOCK(i1) = IBLOCK(i2) /\ IOFFSET(i1) = IOFFSET(i2) => i1 = i2
<1> USE FileIOAssumption DEF INODE_TABLE_START, INODE_BITMAP_BLOCK, DATA_BITMAP_BLOCK
<1> DEFINE K == INODES_PER_BLOCK
<1>0. INODE_TABLE_BLOCKS \in Nat /\ DATA_REGION_START >= 3
      /\ NUM_INODES <= K * INODE_TABLE_BLOCKS
  <2> DEFINE T == NUM_INODES + K - 1
             Filled == K * INODE_TABLE_BLOCKS
  <2>1. K \in Nat \ {0} /\ T \in Nat
    OBVIOUS
  <2>2. INODE_TABLE_BLOCKS = T \div K
    BY DEF INODE_TABLE_BLOCKS
  <2> HIDE DEF T
  <2>3. INODE_TABLE_BLOCKS \in Nat /\ T % K \in 0 .. (K - 1)
        /\ T = Filled + (T % K)
    BY <2>1, <2>2, Division
  <2>4. Filled \in Nat
    BY <2>1, <2>3, SMT
  <2> HIDE DEF Filled
  <2>5. NUM_INODES <= Filled
    BY <2>3, <2>4 DEF T
  <2> QED BY <2>3, <2>5 DEF Filled
<1>1. \A dnum \in Dnum :
        DBLOCK(dnum) \in Bnum /\ DBLOCK(dnum) >= DATA_REGION_START
  BY <1>0 DEF Dnum, DBLOCK, Bnum
<1>2. ASSUME NEW inum \in Inum
      PROVE  /\ IBLOCK(inum) \in 3 .. (DATA_REGION_START - 1)
             /\ IBLOCK(inum) \in Bnum
             /\ IOFFSET(inum) \in 0 .. (K - 1)
             /\ inum = K * (IBLOCK(inum) - 3) + IOFFSET(inum)
  <2>1. inum \in Nat /\ inum < K * INODE_TABLE_BLOCKS
    <3>1. K * INODE_TABLE_BLOCKS \in Nat
      BY <1>0, SMT
    <3> QED BY <1>0, <3>1 DEF Inum
  <2>2. inum \div K \in Nat /\ inum \div K < INODE_TABLE_BLOCKS
    BY <2>1, <1>0, Division, QuotientBound
  <2>3. inum % K \in 0 .. (K - 1) /\ inum = K * (inum \div K) + (inum % K)
    BY <2>1, Division
  <2>4. IBLOCK(inum) - 3 = inum \div K
    BY <2>2 DEF IBLOCK
  <2>5. IOFFSET(inum) = inum % K
    BY DEF IOFFSET
  <2>6. inum = K * (IBLOCK(inum) - 3) + IOFFSET(inum)
    BY <2>3, <2>4, <2>5
  <2>7. IBLOCK(inum) \in 3 .. (DATA_REGION_START - 1)
    BY <1>0, <2>2 DEF IBLOCK
  <2>8. IBLOCK(inum) \in Bnum
    BY <1>0, <2>7 DEF Bnum
  <2>9. IOFFSET(inum) \in 0 .. (K - 1)
    BY <2>3, <2>5
  <2> QED BY <2>6, <2>7, <2>8, <2>9, Zenon
<1>3. {1, 2} \subseteq Bnum /\ {1, 2} \cap (3 .. (NUM_BLOCKS - 1)) = {}
  BY <1>0 DEF Bnum
<1>4. \A d1, d2 \in Dnum : DBLOCK(d1) = DBLOCK(d2) => d1 = d2
  BY DEF Dnum, DBLOCK
<1>5. \A i1, i2 \in Inum :
        IBLOCK(i1) = IBLOCK(i2) /\ IOFFSET(i1) = IOFFSET(i2) => i1 = i2
  BY <1>2
<1> QED BY <1>1, <1>2, <1>3, <1>4, <1>5

-----------------------------------------------------------------------------
(* The disk as the layers above the bitmaps see it.                        *)

Taken(d) == d[DATA_BITMAP_BLOCK]
TakenInodes(d) == d[INODE_BITMAP_BLOCK]

DiskTyped(d) ==
  /\ DOMAIN d = Bnum
  /\ TakenInodes(d) \subseteq Inum /\ Taken(d) \subseteq Dnum
  /\ \A n \in INODE_TABLE_START .. (DATA_REGION_START - 1) :
       d[n] \in [0 .. (INODES_PER_BLOCK - 1) -> Inode]
  /\ \A dnum \in Dnum : data_read(d, dnum) \in DataBlock

(* Two disks have the same inodes, the same data blocks. *)
SameInodes(d, e) == \A f \in Inum : inode_read(e, f) = inode_read(d, f)
SameData(d, e) == \A dnum \in Dnum : data_read(e, dnum) = data_read(d, dnum)

LEMMA Numbers ==
  /\ BLOCK_SIZE \in Nat \ {0} /\ NDIRECT \in Nat \ {0} /\ NUM_INODES \in Nat \ {0}
  /\ NUM_DATA_BLOCKS \in Nat \ {0} /\ INODES_PER_BLOCK \in Nat \ {0}
  /\ Inum = 0 .. (NUM_INODES - 1) /\ Dnum = 0 .. (NUM_DATA_BLOCKS - 1)
  /\ Direct = 0 .. (NDIRECT - 1)
  /\ MAX_FILE_SIZE = NDIRECT * BLOCK_SIZE /\ MAX_FILE_SIZE \in Nat
BY FileIOAssumption, SMT DEF Inum, Dnum, Direct, MAX_FILE_SIZE

(* Where things are, in the form the proofs below need. *)
LEMMA Places ==
  /\ INODE_BITMAP_BLOCK \in Bnum /\ DATA_BITMAP_BLOCK \in Bnum
  /\ INODE_BITMAP_BLOCK # DATA_BITMAP_BLOCK
  /\ \A f \in Inum :
       /\ IBLOCK(f) \in Bnum /\ IBLOCK(f) \in INODE_TABLE_START .. (DATA_REGION_START - 1)
       /\ IBLOCK(f) # INODE_BITMAP_BLOCK /\ IBLOCK(f) # DATA_BITMAP_BLOCK
       /\ IOFFSET(f) \in 0 .. (INODES_PER_BLOCK - 1)
  /\ \A dnum \in Dnum :
       /\ DBLOCK(dnum) \in Bnum
       /\ DBLOCK(dnum) \notin INODE_TABLE_START .. (DATA_REGION_START - 1)
       /\ DBLOCK(dnum) # INODE_BITMAP_BLOCK /\ DBLOCK(dnum) # DATA_BITMAP_BLOCK
  /\ \A f \in Inum, dnum \in Dnum : IBLOCK(f) # DBLOCK(dnum)
  /\ \A n \in INODE_TABLE_START .. (DATA_REGION_START - 1) :
       n \in Bnum /\ n # INODE_BITMAP_BLOCK /\ n # DATA_BITMAP_BLOCK
<1>1. INODE_BITMAP_BLOCK = 1 /\ DATA_BITMAP_BLOCK = 2 /\ INODE_TABLE_START = 3
  BY DEF INODE_BITMAP_BLOCK, DATA_BITMAP_BLOCK, INODE_TABLE_START
<1>2. DATA_REGION_START \in Nat /\ NUM_BLOCKS \in Nat /\ Bnum = 1 .. (NUM_BLOCKS - 1)
      /\ DATA_REGION_START + NUM_DATA_BLOCKS <= NUM_BLOCKS
      /\ NUM_DATA_BLOCKS \in Nat \ {0}
  BY FileIOAssumption DEF Bnum
<1>3. \A dnum \in Dnum : DBLOCK(dnum) = dnum + DATA_REGION_START
  BY DEF DBLOCK
<1>4. DATA_REGION_START > 3
  BY RegionsApart, Numbers, <1>1, <1>2
<1>5. \A f \in Inum : /\ IBLOCK(f) \in 3 .. (DATA_REGION_START - 1)
                      /\ IOFFSET(f) \in 0 .. (INODES_PER_BLOCK - 1)
  BY RegionsApart, <1>1
<1>6. \A dnum \in Dnum : /\ DBLOCK(dnum) \in Bnum /\ DBLOCK(dnum) > DATA_REGION_START - 1
                          /\ DBLOCK(dnum) \in Nat /\ DBLOCK(dnum) > 3
  BY <1>2, <1>3, <1>4, Numbers
<1>7. \A f \in Inum : /\ IBLOCK(f) \in Bnum /\ IBLOCK(f) # 1 /\ IBLOCK(f) # 2
                      /\ IBLOCK(f) \in Nat /\ IBLOCK(f) < DATA_REGION_START
  BY <1>2, <1>5, Numbers
<1>8. 1 \in Bnum /\ 2 \in Bnum /\ \A n \in 3 .. (DATA_REGION_START - 1) :
        n \in Bnum /\ n # 1 /\ n # 2
  BY <1>2, <1>4
<1>9. \A f \in Inum, dnum \in Dnum : IBLOCK(f) # DBLOCK(dnum)
  BY <1>2, <1>6, <1>7
<1>10. \A dnum \in Dnum : /\ DBLOCK(dnum) \notin 3 .. (DATA_REGION_START - 1)
                           /\ DBLOCK(dnum) # 1 /\ DBLOCK(dnum) # 2
  BY <1>2, <1>6
<1> QED BY <1>1, <1>5, <1>6, <1>7, <1>8, <1>9, <1>10

LEMMA BlockWrite ==
  ASSUME NEW d, DOMAIN d = Bnum, NEW b \in Bnum, NEW block
  PROVE  /\ DOMAIN block_write(d, b, block) = Bnum
         /\ \A n \in Bnum : block_write(d, b, block)[n] = IF n = b THEN block ELSE d[n]
BY DEF block_write

(* Writing a data block changes nothing but the block. *)
LEMMA DataUpdate ==
  ASSUME NEW d, DiskTyped(d), NEW dnum \in Dnum, NEW block \in DataBlock
  PROVE  LET e == data_update(d, dnum, block)
         IN  /\ DiskTyped(e) /\ Taken(e) = Taken(d) /\ TakenInodes(e) = TakenInodes(d)
             /\ SameInodes(d, e)
             /\ \A n \in Dnum : data_read(e, n) = IF n = dnum THEN block ELSE data_read(d, n)
<1> DEFINE e == data_update(d, dnum, block)
<1>1. DOMAIN e = Bnum /\ \A n \in Bnum : e[n] = IF n = DBLOCK(dnum) THEN block ELSE d[n]
  BY BlockWrite, Places DEF data_update, DiskTyped
<1> HIDE DEF e
<1>2. Taken(e) = Taken(d) /\ TakenInodes(e) = TakenInodes(d)
  BY <1>1, Places DEF Taken, TakenInodes
<1>3. SameInodes(d, e)
  BY <1>1, Places DEF SameInodes, inode_read, block_read
<1>4. \A n \in Dnum : data_read(e, n) = IF n = dnum THEN block ELSE data_read(d, n)
  BY <1>1, Places, RegionsApart DEF data_read, block_read
<1>5. \A n \in INODE_TABLE_START .. (DATA_REGION_START - 1) : e[n] = d[n]
  BY <1>1, Places
<1>6. DiskTyped(e)
  BY <1>1, <1>2, <1>4, <1>5 DEF DiskTyped
<1> QED BY <1>2, <1>3, <1>4, <1>6 DEF e

(* Writing an inode changes nothing but the inode. *)
LEMMA InodeUpdate ==
  ASSUME NEW d, DiskTyped(d), NEW f \in Inum, NEW inode \in Inode
  PROVE  LET e == inode_update(d, f, inode)
         IN  /\ DiskTyped(e) /\ Taken(e) = Taken(d) /\ TakenInodes(e) = TakenInodes(d)
             /\ SameData(d, e)
             /\ \A g \in Inum : inode_read(e, g) = IF g = f THEN inode ELSE inode_read(d, g)
<1> DEFINE e == inode_update(d, f, inode)
           block == [d[IBLOCK(f)] EXCEPT ![IOFFSET(f)] = inode]
<1>1. DOMAIN e = Bnum /\ \A n \in Bnum : e[n] = IF n = IBLOCK(f) THEN block ELSE d[n]
  BY BlockWrite, Places DEF inode_update, DiskTyped, block_read
<1>2. d[IBLOCK(f)] \in [0 .. (INODES_PER_BLOCK - 1) -> Inode]
  BY Places DEF DiskTyped
<1>3. /\ block \in [0 .. (INODES_PER_BLOCK - 1) -> Inode]
      /\ \A i \in 0 .. (INODES_PER_BLOCK - 1) :
           block[i] = IF i = IOFFSET(f) THEN inode ELSE d[IBLOCK(f)][i]
  BY <1>2, Places
<1> HIDE DEF e, block
<1>4. Taken(e) = Taken(d) /\ TakenInodes(e) = TakenInodes(d)
  BY <1>1, Places DEF Taken, TakenInodes
<1>5. SameData(d, e)
  BY <1>1, Places DEF SameData, data_read, block_read
<1>6. ASSUME NEW g \in Inum
      PROVE  inode_read(e, g) = IF g = f THEN inode ELSE inode_read(d, g)
  <2>1. CASE IBLOCK(g) = IBLOCK(f)
    <3>1. inode_read(e, g) = block[IOFFSET(g)] /\ inode_read(d, g) = d[IBLOCK(f)][IOFFSET(g)]
      BY <1>1, <2>1, Places DEF inode_read, block_read
    <3>2. IOFFSET(g) = IOFFSET(f) <=> g = f
      BY <2>1, RegionsApart
    <3> QED BY <1>3, <3>1, <3>2, Places
  <2>2. CASE IBLOCK(g) # IBLOCK(f)
    BY <1>1, <2>2, Places DEF inode_read, block_read
  <2> QED BY <2>1, <2>2
<1>7. \A n \in INODE_TABLE_START .. (DATA_REGION_START - 1) :
        e[n] \in [0 .. (INODES_PER_BLOCK - 1) -> Inode]
  BY <1>1, <1>3, Places DEF DiskTyped
<1>8. DiskTyped(e)
  BY <1>1, <1>4, <1>5, <1>7 DEF DiskTyped, SameData
<1> QED BY <1>4, <1>5, <1>6, <1>8 DEF e

(* Writing a bitmap changes nothing but the bitmap. *)
LEMMA BitmapUpdate ==
  ASSUME NEW d, DiskTyped(d), NEW set
  PROVE  /\ set \subseteq Dnum =>
              LET e == block_write(d, DATA_BITMAP_BLOCK, set)
              IN  /\ DiskTyped(e) /\ Taken(e) = set /\ TakenInodes(e) = TakenInodes(d)
                  /\ SameInodes(d, e) /\ SameData(d, e)
         /\ set \subseteq Inum =>
              LET e == block_write(d, INODE_BITMAP_BLOCK, set)
              IN  /\ DiskTyped(e) /\ Taken(e) = Taken(d) /\ TakenInodes(e) = set
                  /\ SameInodes(d, e) /\ SameData(d, e)
<1>1. ASSUME NEW e, NEW b \in {INODE_BITMAP_BLOCK, DATA_BITMAP_BLOCK},
             e = block_write(d, b, set)
      PROVE  /\ SameInodes(d, e) /\ SameData(d, e) /\ DOMAIN e = Bnum
             /\ \A n \in INODE_TABLE_START .. (DATA_REGION_START - 1) : e[n] = d[n]
             /\ b = DATA_BITMAP_BLOCK => Taken(e) = set /\ TakenInodes(e) = TakenInodes(d)
             /\ b = INODE_BITMAP_BLOCK => Taken(e) = Taken(d) /\ TakenInodes(e) = set
  <2>1. DOMAIN e = Bnum /\ \A n \in Bnum : e[n] = IF n = b THEN set ELSE d[n]
    BY <1>1, BlockWrite, Places DEF DiskTyped
  <2>2. SameInodes(d, e) /\ SameData(d, e)
    BY <2>1, Places DEF SameInodes, SameData, inode_read, data_read, block_read
  <2>3. \A n \in INODE_TABLE_START .. (DATA_REGION_START - 1) : e[n] = d[n]
    BY <2>1, Places
  <2> QED BY <2>1, <2>2, <2>3, Places DEF Taken, TakenInodes
<1>2. ASSUME set \subseteq Dnum
      PROVE LET e == block_write(d, DATA_BITMAP_BLOCK, set)
            IN  /\ DiskTyped(e) /\ Taken(e) = set /\ TakenInodes(e) = TakenInodes(d)
                /\ SameInodes(d, e) /\ SameData(d, e)
  BY <1>1, <1>2 DEF DiskTyped, SameData
<1>3. ASSUME set \subseteq Inum
      PROVE LET e == block_write(d, INODE_BITMAP_BLOCK, set)
            IN  /\ DiskTyped(e) /\ Taken(e) = Taken(d) /\ TakenInodes(e) = set
                /\ SameInodes(d, e) /\ SameData(d, e)
  BY <1>1, <1>3 DEF DiskTyped, SameData
<1> QED BY <1>2, <1>3

-----------------------------------------------------------------------------
(* Blocks and the bytes of a file.                                         *)

LEMMA NextBlock ==
  ASSUME NEW k \in Nat \ {0}, NEW m \in Int, NEW n \in Int, m < n
  PROVE  m * k \in Int /\ n * k \in Int /\ m * k + k <= n * k
<1>1. (n - m - 1) * k >= 0
  BY SMT
<1>2. (n - m - 1) * k = n * k - m * k - k
  BY SMT
<1> QED BY <1>1, <1>2, SMT

(* Every byte has one place, a block and a position in it. *)
LEMMA BlockPlace ==
  ASSUME NEW n \in Nat
  PROVE  /\ n \div BLOCK_SIZE \in Nat /\ n % BLOCK_SIZE \in 0 .. (BLOCK_SIZE - 1)
         /\ n = (n \div BLOCK_SIZE) * BLOCK_SIZE + (n % BLOCK_SIZE)
         /\ \A a \in Nat, i \in 0 .. (BLOCK_SIZE - 1) :
              n = a * BLOCK_SIZE + i => n \div BLOCK_SIZE = a /\ n % BLOCK_SIZE = i
<1> DEFINE K == BLOCK_SIZE
           q == n \div K
           r == n % K
<1>1. K \in Nat \ {0}
  BY Numbers
<1>2. q \in Nat /\ r \in 0 .. (K - 1) /\ n = K * q + r
  BY <1>1, Division
<1> HIDE DEF K, q, r
<1>3. n = q * K + r
  BY <1>1, <1>2, SMT
<1>4. ASSUME NEW a \in Nat, NEW i \in 0 .. (K - 1), n = a * K + i
      PROVE  q = a /\ r = i
  <2>1. ~ (q < a)
    <3> SUFFICES ASSUME q < a PROVE FALSE
      OBVIOUS
    <3>1. q * K \in Int /\ a * K \in Int /\ q * K + K <= a * K
      BY <1>1, <1>2, NextBlock
    <3> QED BY <1>1, <1>2, <1>3, <1>4, <3>1
  <2>2. ~ (a < q)
    <3> SUFFICES ASSUME a < q PROVE FALSE
      OBVIOUS
    <3>1. q * K \in Int /\ a * K \in Int /\ a * K + K <= q * K
      BY <1>1, <1>2, NextBlock
    <3> QED BY <1>1, <1>2, <1>3, <1>4, <3>1
  <2>3. q = a
    BY <1>2, <2>1, <2>2
  <2>4. a * K \in Int
    BY <1>1, SMT
  <2> QED BY <1>1, <1>2, <1>3, <1>4, <2>3, <2>4
<1> QED BY <1>2, <1>3, <1>4 DEF K, q, r

(* The chunks of the blocks from First to Last are the bytes from offset   *)
(* on, count of them.                                                      *)
LEMMA ChunkRange ==
  ASSUME NEW offset \in Nat, NEW count \in Nat, offset + count <= MAX_FILE_SIZE
  PROVE  /\ First(offset) \in Nat /\ Last(offset, count) \in Int
         /\ Last(offset, count) >= First(offset) - 1
         /\ \A a \in First(offset) .. Last(offset, count) : a \in Direct
         /\ \A a \in Nat : a < First(offset) => a * BLOCK_SIZE < offset
         /\ \A a \in Nat, i \in 0 .. (BLOCK_SIZE - 1) :
              /\ a \in First(offset) .. Last(offset, count)
              /\ i \in From(a, offset) .. To(a, offset, count)
              <=> a * BLOCK_SIZE + i \in offset .. (offset + count - 1)
<1> DEFINE K == BLOCK_SIZE
           f == First(offset)
           l == Last(offset, count)
           r == offset % K
           t == (offset + count - 1) % K
<1>1. K \in Nat \ {0} /\ NDIRECT \in Nat \ {0}
  BY Numbers
<1>2. f \in Nat /\ r \in 0 .. (K - 1) /\ offset = f * K + r
  BY BlockPlace DEF First
<1>3. count # 0 => /\ l \in Nat /\ t \in 0 .. (K - 1)
                   /\ offset + count - 1 = l * K + t
  <2> SUFFICES ASSUME count # 0
               PROVE  l \in Nat /\ t \in 0 .. (K - 1) /\ offset + count - 1 = l * K + t
    OBVIOUS
  <2>1. offset + count - 1 \in Nat
    OBVIOUS
  <2> QED BY <2>1, BlockPlace DEF Last
<1>4. count = 0 => l = f - 1
  BY DEF Last
<1> HIDE DEF K, f, l, r, t
<1>5. \A a \in Int : a * K \in Int
  BY <1>1, SMT
<1>6. l >= f - 1
  <2> SUFFICES ASSUME count # 0, l < f PROVE FALSE
    BY <1>2, <1>3, <1>4
  <2>1. l * K + K <= f * K
    BY <1>1, <1>2, <1>3, NextBlock
  <2> QED BY <1>1, <1>2, <1>3, <1>5, <2>1
<1>7. ASSUME NEW a \in f .. l PROVE a \in Direct
  <2>1. count # 0
    BY <1>2, <1>4
  <2>2. l < NDIRECT
    <3> SUFFICES ASSUME NDIRECT - 1 < l PROVE FALSE
      BY <1>1, <1>3, <2>1
    <3>1. (NDIRECT - 1) * K + K <= l * K
      BY <1>1, <1>3, <2>1, NextBlock
    <3>2. (NDIRECT - 1) * K + K = NDIRECT * K
      BY <1>1, SMT
    <3>3. offset + count <= NDIRECT * K
      BY Numbers DEF K
    <3> QED BY <1>1, <1>3, <1>5, <2>1, <3>1, <3>2, <3>3
  <2> QED BY <1>2, <1>3, <2>1, <2>2, Numbers
<1>8. ASSUME NEW a \in Nat, a < f PROVE a * K < offset
  <2>1. a * K + K <= f * K
    BY <1>1, <1>2, <1>8, NextBlock
  <2> QED BY <1>1, <1>2, <1>5, <2>1
<1>9. ASSUME NEW a \in Nat, NEW i \in 0 .. (K - 1)
      PROVE  a \in f .. l /\ i \in From(a, offset) .. To(a, offset, count)
             <=> a * K + i \in offset .. (offset + count - 1)
  <2>1. From(a, offset) = IF a = f THEN r ELSE 0
    BY DEF From, f, r, K
  <2>2. To(a, offset, count) = IF a = l THEN t ELSE K - 1
    BY DEF To, l, t, K
  <2>3. CASE count = 0
    BY <1>2, <1>4, <1>5, <2>3
  <2>4. CASE count # 0
    <3>1. a < f => a * K + K <= f * K
      BY <1>1, <1>2, NextBlock
    <3>2. a > f => f * K + K <= a * K
      BY <1>1, <1>2, NextBlock
    <3>3. a < l => a * K + K <= l * K
      BY <1>1, <1>3, <2>4, NextBlock
    <3>4. a > l => l * K + K <= a * K
      BY <1>1, <1>3, <2>4, NextBlock
    <3>5. a * K \in Int /\ f * K \in Int /\ l * K \in Int
      BY <1>2, <1>3, <1>5, <2>4
    <3> DEFINE A == a * K
               F == f * K
               L == l * K
    <3>6. A \in Int /\ F \in Int /\ L \in Int
      BY <3>5
    <3> HIDE DEF A, F, L
    <3>7. /\ a < f => A + K <= F
          /\ a > f => F + K <= A
          /\ a < l => A + K <= L
          /\ a > l => L + K <= A
          /\ a = f => A = F
          /\ a = l => A = L
          /\ offset = F + r /\ offset + count - 1 = L + t
      BY <1>2, <1>3, <2>4, <3>1, <3>2, <3>3, <3>4 DEF A, F, L
    <3>8. a \in f .. l /\ i \in From(a, offset) .. To(a, offset, count)
          <=> A + i \in offset .. (offset + count - 1)
      <4>1. /\ f \in Nat /\ l \in Nat /\ K \in Nat \ {0} /\ r \in Nat /\ t \in Nat
            /\ r < K /\ t < K /\ i \in Nat /\ i < K /\ a \in Nat
        BY <1>1, <1>2, <1>3, <2>4
      <4>2. a < f \/ a > l => ~ (A + i \in offset .. (offset + count - 1))
        BY <3>6, <3>7, <4>1
      <4>3. f <= a /\ a <= l =>
              (A + i >= offset <=> i >= From(a, offset))
        BY <2>1, <3>6, <3>7, <4>1
      <4>4. f <= a /\ a <= l =>
              (A + i <= offset + count - 1 <=> i <= To(a, offset, count))
        BY <2>2, <3>6, <3>7, <4>1
      <4>5. From(a, offset) \in Int /\ To(a, offset, count) \in Int
        BY <2>1, <2>2, <4>1
      <4> QED BY <3>6, <4>1, <4>2, <4>3, <4>4, <4>5
    <3> QED BY <3>8 DEF A
  <2> QED BY <2>3, <2>4
<1> QED BY <1>2, <1>3, <1>4, <1>6, <1>7, <1>8, <1>9 DEF K, f, l

-----------------------------------------------------------------------------
(* A set of natural numbers that is not empty has a least element. *)
LEMMA LeastExists ==
  ASSUME NEW S \in SUBSET Nat, S # {}
  PROVE  \E i \in S : \A j \in S : i <= j
<1> DEFINE R == OpToRel(<, Nat)
<1>1. R = {s \in Nat \X Nat : s[1] < s[2]}
  BY Zenon DEF OpToRel
<1>2. IsWellFoundedOn(R, Nat)
  BY NatLessThanWellFounded
<1> HIDE DEF R
<1>3. PICK i \in S : \A j \in S : <<j, i>> \notin R
  BY <1>2, WFMin
<1>4. ASSUME NEW j \in S PROVE i <= j
  <2>1. <<j, i>> \in Nat \X Nat /\ <<j, i>>[1] = j /\ <<j, i>>[2] = i
    OBVIOUS
  <2>2. ~ (j < i)
    BY <1>1, <1>3, <2>1, Zenon
  <2> QED BY <2>2
<1> QED BY <1>4

(* Induction over a set: the numbers from m to n are in S when m is and    *)
(* each brings the next.                                                   *)
LEMMA Induction ==
  ASSUME NEW m \in Int, NEW n \in Int, NEW S, m \in S,
         \A i \in m .. n : i \in S /\ i < n => i + 1 \in S
  PROVE  m .. n \subseteq S
<1> DEFINE Missing == {k \in Nat : m + k \in (m .. n) \ S}
<1> SUFFICES ASSUME Missing # {} PROVE FALSE
  <2>1. ASSUME NEW i \in m .. n, i \notin S PROVE i - m \in Missing
    BY <2>1
  <2> QED BY <2>1
<1>1. PICK k \in Missing : \A j \in Missing : k <= j
  <2>1. Missing \in SUBSET Nat
    OBVIOUS
  <2> HIDE DEF Missing
  <2> QED BY <2>1, LeastExists
<1>2. k \in Nat /\ m + k \in m .. n /\ m + k \notin S
  BY <1>1
<1>3. k # 0
  BY <1>2
<1>4. k - 1 \in Nat /\ k - 1 \notin Missing
  BY <1>1, <1>2, <1>3
<1>5. m + (k - 1) \in m .. n /\ (m + (k - 1)) + 1 = m + k
  BY <1>2, <1>3
<1>6. m + (k - 1) \in S
  BY <1>4, <1>5
<1> QED BY <1>2, <1>5, <1>6

(* bitmap_find_free answers -1 or a bit below the limit that is 0. *)
LEMMA FindFree ==
  ASSUME NEW d, NEW b, NEW limit \in Nat
  PROVE  LET n == bitmap_find_free(d, b, limit)
         IN  n = -1 \/ (n \in 0 .. (limit - 1) /\ n \notin d[b])
<1> DEFINE scanned == {n \in 0 .. (limit - 1) : n < 8 * ((NUM_DATA_BLOCKS + 7) \div 8)}
           free == scanned \ block_read(d, b)
           n == bitmap_find_free(d, b, limit)
<1>1. n = IF free = {} THEN -1 ELSE CHOOSE k \in free : \A m \in free : k <= m
  BY Zenon DEF bitmap_find_free
<1>2. free \in SUBSET (0 .. (limit - 1)) /\ \A k \in free : k \notin d[b]
  BY DEF block_read
<1> HIDE DEF n, free
<1>3. CASE free = {}
  BY <1>1, <1>3 DEF n
<1>4. CASE free # {}
  <2>1. free \in SUBSET Nat
    BY <1>2
  <2>2. \E k \in free : \A m \in free : k <= m
    BY <1>4, <2>1, LeastExists
  <2>3. n = CHOOSE k \in free : \A m \in free : k <= m
    BY <1>1, <1>4
  <2>4. n \in free
    BY <2>2, <2>3, Zenon
  <2>5. n \in 0 .. (limit - 1) /\ n \notin d[b]
    BY <1>2, <2>4
  <2> QED BY <2>5 DEF n
<1> QED BY <1>3, <1>4

LEMMA ZeroBlocks == ZeroBlock \in DataBlock
BY DEF ZeroBlock, DataBlock, Byte

(* data_alloc takes the block and wipes it. *)
LEMMA DataAlloc ==
  ASSUME NEW d, DiskTyped(d), NEW dnum \in Dnum
  PROVE  LET e == data_alloc(d, dnum)
         IN  /\ DiskTyped(e) /\ TakenInodes(e) = TakenInodes(d) /\ SameInodes(d, e)
             /\ Taken(e) = Taken(d) \cup {dnum}
             /\ \A n \in Dnum : data_read(e, n) = IF n = dnum THEN ZeroBlock ELSE data_read(d, n)
<1> DEFINE c == data_update(d, dnum, ZeroBlock)
           e == data_alloc(d, dnum)
<1>1. /\ DiskTyped(c) /\ Taken(c) = Taken(d) /\ TakenInodes(c) = TakenInodes(d)
      /\ SameInodes(d, c)
      /\ \A n \in Dnum : data_read(c, n) = IF n = dnum THEN ZeroBlock ELSE data_read(d, n)
  BY DataUpdate, ZeroBlocks
<1>2. e = block_write(c, DATA_BITMAP_BLOCK, Taken(d) \cup {dnum})
  BY <1>1 DEF data_alloc, bitmap_alloc, block_read, Taken
<1> HIDE DEF c, e
<1>3. Taken(d) \cup {dnum} \subseteq Dnum
  BY DEF DiskTyped
<1>4. /\ DiskTyped(e) /\ Taken(e) = Taken(d) \cup {dnum} /\ TakenInodes(e) = TakenInodes(c)
      /\ SameInodes(c, e) /\ SameData(c, e)
  BY <1>1, <1>2, <1>3, BitmapUpdate
<1>5. SameInodes(d, e)
  BY <1>1, <1>4 DEF SameInodes
<1> QED BY <1>1, <1>4, <1>5 DEF e, SameData

-----------------------------------------------------------------------------
(* file_write's loop.                                                      *)

(* An inode that maps different blocks, from the first on, as many as its  *)
(* size needs at least.                                                    *)
Sound(inode) ==
  /\ inode \in Inode
  /\ \A i, j \in Mapped(inode) : inode.addrs[i] = inode.addrs[j] => i = j
  /\ \A i \in Mapped(inode) : 0 .. i \subseteq Mapped(inode)
  /\ \A i \in Direct : i * BLOCK_SIZE < inode.size => i \in Mapped(inode)

(* ahead maps what inode maps, and may map more. *)
Ahead(ahead, inode) ==
  /\ ahead.size = inode.size
  /\ \A i \in Mapped(inode) : ahead.addrs[i] = inode.addrs[i]

Outcome(s) ==
  /\ s = [disk |-> s.disk, inode |-> s.inode, ok |-> s.ok]
  /\ s.ok \in BOOLEAN

(* The byte at position i of block a when the write of bytes to the disk d *)
(* has come as far as block stop.                                          *)
ByteAfter(d, inode, offset, bytes, stop, a, i) ==
  IF a \in First(offset) .. stop /\ i \in From(a, offset) .. To(a, offset, Len(bytes))
  THEN bytes[Source(a, offset, i)]
  ELSE IF a \in Mapped(inode) THEN data_read(d, inode.addrs[a])[i] ELSE ZERO

(* s is what the write has made of the disk d and the struct.              *)
Written(d, inode, offset, bytes, stop, s) ==
  /\ Outcome(s) /\ DiskTyped(s.disk) /\ Sound(s.inode) /\ Ahead(s.inode, inode)
  /\ TakenInodes(s.disk) = TakenInodes(d) /\ SameInodes(d, s.disk)
  /\ Taken(s.disk) = Taken(d) \cup Blocks(s.inode)
  /\ First(offset) .. stop \subseteq Mapped(s.inode)
  /\ \A a \in Mapped(s.inode) \ Mapped(inode) :
       s.inode.addrs[a] \notin Taken(d) /\ a \in First(offset) .. stop
  /\ \A dnum \in Dnum \ Blocks(s.inode) : data_read(s.disk, dnum) = data_read(d, dnum)
  /\ \A a \in Mapped(s.inode), i \in 0 .. (BLOCK_SIZE - 1) :
       data_read(s.disk, s.inode.addrs[a])[i] = ByteAfter(d, inode, offset, bytes, stop, a, i)

(* What the caller of file_write has made sure of. *)
MayWrite(d, inode, offset, bytes) ==
  /\ DiskTyped(d) /\ Sound(inode) /\ Blocks(inode) \subseteq Taken(d)
  /\ bytes \in Seq(Byte) /\ offset \in 0 .. MAX_FILE_SIZE
  /\ offset <= inode.size /\ offset + Len(bytes) <= MAX_FILE_SIZE

LEMMA InodeFields ==
  ASSUME NEW inode \in Inode
  PROVE  /\ inode = [size |-> inode.size, addrs |-> inode.addrs]
         /\ inode.size \in 0 .. MAX_FILE_SIZE /\ inode.addrs \in [Direct -> Dnum \cup {-1}]
         /\ \A a \in Mapped(inode) : a \in Direct /\ inode.addrs[a] \in Dnum
         /\ Blocks(inode) \subseteq Dnum
BY DEF Inode, Mapped, Blocks

(* Before the first turn nothing has changed. *)
LEMMA NothingWritten ==
  ASSUME NEW d, NEW inode, NEW offset, NEW bytes, MayWrite(d, inode, offset, bytes)
  PROVE  Written(d, inode, offset, bytes, First(offset) - 1,
                 [disk |-> d, inode |-> inode, ok |-> TRUE])
<1> DEFINE s == [disk |-> d, inode |-> inode, ok |-> TRUE]
<1>1. s.disk = d /\ s.inode = inode /\ s.ok = TRUE
  OBVIOUS
<1>2. Outcome(s)
  BY DEF Outcome
<1>3. First(offset) \in Nat
  <2>1. offset \in Nat
    BY Numbers DEF MayWrite
  <2> QED BY <2>1, BlockPlace DEF First
<1>4. First(offset) .. (First(offset) - 1) = {}
  BY <1>3
<1> HIDE DEF s
<1>5. Ahead(inode, inode) /\ SameInodes(d, d)
  BY DEF Ahead, SameInodes
<1>6. \A a \in Mapped(inode), i \in 0 .. (BLOCK_SIZE - 1) :
        ByteAfter(d, inode, offset, bytes, First(offset) - 1, a, i)
          = data_read(d, inode.addrs[a])[i]
  BY <1>4 DEF ByteAfter
<1>7. Written(d, inode, offset, bytes, First(offset) - 1, s)
  BY <1>1, <1>2, <1>4, <1>5, <1>6 DEF Written, MayWrite
<1> QED BY <1>7 DEF s

(* The bytes of a chunk come from the buffer. *)
LEMMA ChunkBytes ==
  ASSUME NEW d, NEW inode, NEW offset, NEW bytes, MayWrite(d, inode, offset, bytes)
  PROVE  /\ offset \in Nat /\ Len(bytes) \in Nat /\ offset + Len(bytes) <= MAX_FILE_SIZE
         /\ \A a \in First(offset) .. Last(offset, Len(bytes)) : a \in Direct /\ a \in Nat
         /\ \A a \in First(offset) .. Last(offset, Len(bytes)), i \in 0 .. (BLOCK_SIZE - 1) :
              i \in From(a, offset) .. To(a, offset, Len(bytes)) =>
                Source(a, offset, i) \in 1 .. Len(bytes) /\ bytes[Source(a, offset, i)] \in Byte
         /\ \A a \in Nat : a < First(offset) => a \in Mapped(inode)
<1>1. offset \in Nat /\ Len(bytes) \in Nat /\ offset + Len(bytes) <= MAX_FILE_SIZE
      /\ bytes \in Seq(Byte) /\ Sound(inode) /\ offset <= inode.size
  BY Numbers DEF MayWrite
<1>2. /\ First(offset) \in Nat
      /\ \A a \in First(offset) .. Last(offset, Len(bytes)) : a \in Direct
      /\ \A a \in Nat : a < First(offset) => a * BLOCK_SIZE < offset
  BY <1>1, ChunkRange
<1>3. ASSUME NEW a \in First(offset) .. Last(offset, Len(bytes)), NEW i \in 0 .. (BLOCK_SIZE - 1),
             i \in From(a, offset) .. To(a, offset, Len(bytes))
      PROVE  Source(a, offset, i) \in 1 .. Len(bytes) /\ bytes[Source(a, offset, i)] \in Byte
  <2>1. a \in Nat
    BY <1>2, Numbers
  <2>2. a * BLOCK_SIZE + i \in offset .. (offset + Len(bytes) - 1)
    BY <1>1, <1>3, <2>1, ChunkRange
  <2>3. a * BLOCK_SIZE \in Int
    BY <2>1, Numbers, SMT
  <2> DEFINE p == a * BLOCK_SIZE
  <2>4. Source(a, offset, i) = p + i - offset + 1
    BY DEF Source
  <2> HIDE DEF p
  <2>5. p \in Int /\ p + i \in offset .. (offset + Len(bytes) - 1)
    BY <2>2, <2>3 DEF p
  <2>6. Source(a, offset, i) \in 1 .. Len(bytes)
    BY <1>1, <2>4, <2>5
  <2> QED BY <1>1, <2>6
<1>4. ASSUME NEW a \in Nat, a < First(offset) PROVE a \in Mapped(inode)
  <2>1. a * BLOCK_SIZE < offset /\ a * BLOCK_SIZE \in Int
    BY <1>2, <1>4, Numbers, SMT
  <2>2. inode.size \in Nat /\ inode.size <= NDIRECT * BLOCK_SIZE
    BY <1>1, InodeFields, Numbers DEF Sound
  <2>3. a < NDIRECT
    <3> SUFFICES ASSUME NDIRECT <= a PROVE FALSE
      BY Numbers
    <3>1. NDIRECT * BLOCK_SIZE <= a * BLOCK_SIZE /\ NDIRECT * BLOCK_SIZE \in Int
      <4>1. NDIRECT = a \/ NDIRECT < a
        BY Numbers
      <4>2. CASE NDIRECT = a
        BY <2>1, <4>2
      <4>3. CASE NDIRECT < a
        <5>1. NDIRECT * BLOCK_SIZE + BLOCK_SIZE <= a * BLOCK_SIZE
              /\ NDIRECT * BLOCK_SIZE \in Int
          BY <4>3, Numbers, NextBlock
        <5> QED BY <2>1, <5>1, Numbers
      <4> QED BY <4>1, <4>2, <4>3
    <3> QED BY <1>1, <2>1, <2>2, <3>1
  <2>4. a \in Direct
    BY <2>3, Numbers
  <2>5. a * BLOCK_SIZE < inode.size
    BY <1>1, <2>1, <2>2
  <2> QED BY <1>1, <2>4, <2>5 DEF Sound
<1> QED BY <1>1, <1>2, <1>3, <1>4, Numbers

(* base is the disk of s with the block dnum ready for the next chunk: the *)
(* one that is mapped, or one that was free and is taken and wiped now.    *)
Ready(d, inode, offset, bytes, s, addr, base, dnum) ==
  /\ dnum \in Dnum /\ DiskTyped(base)
  /\ TakenInodes(base) = TakenInodes(d) /\ SameInodes(d, base)
  /\ Taken(base) = Taken(s.disk) \cup {dnum}
  /\ \A n \in Dnum \ {dnum} : data_read(base, n) = data_read(s.disk, n)
  /\ \A i \in 0 .. (BLOCK_SIZE - 1) :
       data_read(base, dnum)[i] = ByteAfter(d, inode, offset, bytes, addr - 1, addr, i)
  /\ IF addr \in Mapped(s.inode) THEN s.inode.addrs[addr] = dnum ELSE dnum \notin Taken(s.disk)

(* The struct with the block in its place. *)
MayPoint(inode, addr, dnum) ==
  /\ Sound(inode) /\ addr \in Direct /\ dnum \in Dnum
  /\ 0 .. (addr - 1) \subseteq Mapped(inode)
  /\ addr \in Mapped(inode) => inode.addrs[addr] = dnum
  /\ addr \notin Mapped(inode) => dnum \notin Blocks(inode)

PointsTo(new, inode, addr, dnum) ==
  /\ Sound(new) /\ Ahead(new, inode)
  /\ Mapped(new) = Mapped(inode) \cup {addr}
  /\ Blocks(new) = Blocks(inode) \cup {dnum}
  /\ new.addrs[addr] = dnum
  /\ \A a \in Mapped(inode) \ {addr} :
       new.addrs[a] = inode.addrs[a] /\ new.addrs[a] # dnum

LEMMA Pointed ==
  ASSUME NEW inode, NEW addr, NEW dnum, MayPoint(inode, addr, dnum)
  PROVE  PointsTo([inode EXCEPT !.addrs[addr] = dnum], inode, addr, dnum)
<1> DEFINE new == [inode EXCEPT !.addrs[addr] = dnum]
<1> USE DEF MayPoint
<1>1. /\ inode = [size |-> inode.size, addrs |-> inode.addrs]
      /\ inode.size \in 0 .. MAX_FILE_SIZE /\ inode.addrs \in [Direct -> Dnum \cup {-1}]
  BY InodeFields DEF Sound
<1>2. new.size = inode.size /\ new.addrs = [inode.addrs EXCEPT ![addr] = dnum]
      /\ new = [size |-> new.size, addrs |-> new.addrs]
  BY <1>1
<1>3. new \in Inode
  BY <1>1, <1>2 DEF Inode
<1>4. \A a \in Direct : new.addrs[a] = IF a = addr THEN dnum ELSE inode.addrs[a]
  BY <1>1, <1>2
<1> HIDE DEF new
<1>5. dnum # -1 /\ dnum \in Nat /\ addr \in Nat
  BY Numbers
<1>6. Mapped(new) = Mapped(inode) \cup {addr}
  BY <1>4, <1>5 DEF Mapped
<1>7. ASSUME NEW a \in Mapped(inode) \ {addr}
      PROVE  new.addrs[a] = inode.addrs[a] /\ new.addrs[a] # dnum
  <2>1. new.addrs[a] = inode.addrs[a] /\ a \in Direct /\ a # addr
    BY <1>4 DEF Mapped
  <2>2. CASE addr \in Mapped(inode)
    BY <2>1, <2>2 DEF Sound
  <2>3. CASE addr \notin Mapped(inode)
    BY <2>1, <2>3 DEF Blocks
  <2> QED BY <2>1, <2>2, <2>3
<1>8. new.addrs[addr] = dnum
  BY <1>4
<1>9. Blocks(new) = Blocks(inode) \cup {dnum}
  <2>1. \A a \in Mapped(new) : new.addrs[a] = dnum \/ (a \in Mapped(inode) /\ new.addrs[a] = inode.addrs[a])
    BY <1>6, <1>7, <1>8
  <2>2. \A a \in Mapped(inode) : a \in Mapped(new) /\ new.addrs[a] = inode.addrs[a]
    BY <1>6, <1>7, <1>8
  <2> QED BY <1>6, <1>8, <2>1, <2>2 DEF Blocks
<1>10. Ahead(new, inode)
  BY <1>2, <1>7, <1>8 DEF Ahead
<1>11. \A i, j \in Mapped(new) : new.addrs[i] = new.addrs[j] => i = j
  BY <1>6, <1>7, <1>8 DEF Sound
<1>12. \A i \in Mapped(new) : 0 .. i \subseteq Mapped(new)
  <2>1. 0 .. addr \subseteq Mapped(new)
    BY <1>5, <1>6
  <2> QED BY <1>6, <2>1 DEF Sound
<1>13. \A i \in Direct : i * BLOCK_SIZE < new.size => i \in Mapped(new)
  BY <1>2, <1>6 DEF Sound
<1>14. Sound(new)
  BY <1>3, <1>11, <1>12, <1>13 DEF Sound
<1> QED BY <1>6, <1>7, <1>8, <1>9, <1>10, <1>14 DEF new, PointsTo

(* The block that a turn of the loop writes. *)
IsChunk(offset, bytes, addr, base, dnum, block) ==
  block = [i \in 0 .. (BLOCK_SIZE - 1) |->
             IF i \in From(addr, offset) .. To(addr, offset, Len(bytes))
             THEN bytes[Source(addr, offset, i)] ELSE data_read(base, dnum)[i]]

(* A turn of the loop that has its block writes the chunk. *)
LEMMA ChunkWritten ==
  ASSUME NEW d, NEW inode, NEW offset, NEW bytes, MayWrite(d, inode, offset, bytes),
         NEW addr \in First(offset) .. Last(offset, Len(bytes)),
         NEW s, Written(d, inode, offset, bytes, addr - 1, s),
         NEW base, NEW dnum, Ready(d, inode, offset, bytes, s, addr, base, dnum),
         NEW block, IsChunk(offset, bytes, addr, base, dnum, block)
  PROVE  Written(d, inode, offset, bytes, addr,
                 [disk |-> data_update(base, dnum, block),
                  inode |-> [s.inode EXCEPT !.addrs[addr] = dnum], ok |-> TRUE])
<1> DEFINE new == [s.inode EXCEPT !.addrs[addr] = dnum]
           disk2 == data_update(base, dnum, block)
           t == [disk |-> disk2, inode |-> new, ok |-> TRUE]
<1>0. /\ First(offset) \in Nat /\ addr \in Nat /\ addr \in Direct /\ offset \in Nat
      /\ addr >= First(offset)
  BY ChunkBytes, ChunkRange
<1>1. block \in DataBlock
  <2>1. data_read(base, dnum) \in DataBlock
    BY DEF Ready, DiskTyped
  <2>2. \A i \in 0 .. (BLOCK_SIZE - 1) : block[i] \in Byte
    BY <2>1, ChunkBytes DEF DataBlock, IsChunk
  <2> QED BY <2>2 DEF DataBlock, IsChunk
<1>2. /\ DiskTyped(disk2) /\ Taken(disk2) = Taken(s.disk) \cup {dnum}
      /\ TakenInodes(disk2) = TakenInodes(d) /\ SameInodes(base, disk2)
      /\ \A n \in Dnum : data_read(disk2, n) = IF n = dnum THEN block ELSE data_read(base, n)
  <2>1. /\ dnum \in Dnum /\ DiskTyped(base) /\ TakenInodes(base) = TakenInodes(d)
        /\ Taken(base) = Taken(s.disk) \cup {dnum}
    BY DEF Ready
  <2>2. /\ DiskTyped(disk2) /\ Taken(disk2) = Taken(base)
        /\ TakenInodes(disk2) = TakenInodes(base) /\ SameInodes(base, disk2)
        /\ \A n \in Dnum : data_read(disk2, n) = IF n = dnum THEN block ELSE data_read(base, n)
    BY <1>1, <2>1, DataUpdate
  <2> QED BY <2>1, <2>2
<1>3. SameInodes(d, disk2)
  BY <1>2 DEF Ready, SameInodes
<1>4. dnum \in Dnum /\ Sound(s.inode)
  BY DEF Ready, Written
<1>5. 0 .. (addr - 1) \subseteq Mapped(s.inode)
  <2>1. \A a \in Mapped(inode) : a \in Mapped(s.inode)
    BY DEF Written, Ahead, Mapped
  <2>2. First(offset) .. (addr - 1) \subseteq Mapped(s.inode)
    BY DEF Written
  <2> QED BY <1>0, <2>1, <2>2, ChunkBytes
<1>6. addr \in Mapped(s.inode) => s.inode.addrs[addr] = dnum
  BY DEF Ready
<1>7. addr \notin Mapped(s.inode) => dnum \notin Blocks(s.inode)
  BY DEF Ready, Written
<1>8. PointsTo(new, s.inode, addr, dnum)
  <2>1. MayPoint(s.inode, addr, dnum)
    BY <1>0, <1>4, <1>5, <1>6, <1>7 DEF MayPoint
  <2> QED BY <2>1, Pointed
<1>9. t.disk = disk2 /\ t.inode = new /\ t.ok = TRUE /\ Outcome(t)
  BY DEF Outcome
<1> HIDE DEF new, disk2, t
<1> USE DEF PointsTo
<1>10. Ahead(new, inode)
  <2>1. \A a \in Mapped(inode) : a \in Mapped(s.inode) /\ s.inode.addrs[a] = inode.addrs[a]
    BY DEF Written, Ahead, Mapped
  <2> QED BY <1>8, <2>1 DEF Ahead, Written
<1>11. Taken(disk2) = Taken(d) \cup Blocks(new)
  BY <1>2, <1>8 DEF Written
<1>12. First(offset) .. addr \subseteq Mapped(new)
  BY <1>0, <1>8 DEF Written
<1>13. ASSUME NEW a \in Mapped(new) \ Mapped(inode)
       PROVE  new.addrs[a] \notin Taken(d) /\ a \in First(offset) .. addr
  <2>1. CASE a = addr
    <3>1. dnum \notin Taken(d)
      BY <1>6, <1>13, <2>1 DEF Written, Ready
    <3> QED BY <1>0, <1>8, <2>1, <3>1
  <2>2. CASE a # addr
    <3>1. a \in Mapped(s.inode) \ Mapped(inode) /\ new.addrs[a] = s.inode.addrs[a]
      BY <1>8, <2>2
    <3>2. s.inode.addrs[a] \notin Taken(d) /\ a \in First(offset) .. (addr - 1)
      BY <3>1 DEF Written
    <3> QED BY <1>0, <3>1, <3>2
  <2> QED BY <2>1, <2>2
<1>14. \A n \in Dnum \ Blocks(new) : data_read(disk2, n) = data_read(d, n)
  BY <1>2, <1>8 DEF Written, Ready
<1>15. ASSUME NEW a \in Mapped(new), NEW i \in 0 .. (BLOCK_SIZE - 1)
       PROVE  data_read(disk2, new.addrs[a])[i] = ByteAfter(d, inode, offset, bytes, addr, a, i)
  <2>1. CASE a = addr
    <3>1. addr \in First(offset) .. addr /\ addr \notin First(offset) .. (addr - 1)
      BY <1>0
    <3>2. data_read(disk2, new.addrs[a])[i]
            = IF i \in From(addr, offset) .. To(addr, offset, Len(bytes))
              THEN bytes[Source(addr, offset, i)] ELSE data_read(base, dnum)[i]
      BY <1>2, <1>4, <1>8, <2>1 DEF IsChunk
    <3>3. data_read(base, dnum)[i] = ByteAfter(d, inode, offset, bytes, addr - 1, addr, i)
      BY DEF Ready
    <3> QED BY <2>1, <3>1, <3>2, <3>3 DEF ByteAfter
  <2>2. CASE a # addr
    <3>1. a \in Mapped(s.inode) /\ a \in Direct /\ new.addrs[a] = s.inode.addrs[a]
          /\ new.addrs[a] # dnum
      BY <1>8, <2>2 DEF Mapped
    <3>2. s.inode.addrs[a] \in Dnum
      BY <1>4, <3>1, InodeFields DEF Sound
    <3>3. data_read(disk2, new.addrs[a]) = data_read(s.disk, s.inode.addrs[a])
      BY <1>2, <3>1, <3>2 DEF Ready
    <3>4. data_read(s.disk, s.inode.addrs[a])[i]
            = ByteAfter(d, inode, offset, bytes, addr - 1, a, i)
      BY <3>1 DEF Written
    <3>5. a \in First(offset) .. (addr - 1) <=> a \in First(offset) .. addr
      BY <1>0, <2>2, <3>1, Numbers
    <3> QED BY <3>3, <3>4, <3>5 DEF ByteAfter
  <2> QED BY <2>1, <2>2
<1>16. Written(d, inode, offset, bytes, addr, t)
  BY <1>2, <1>3, <1>8, <1>9, <1>10, <1>11, <1>12, <1>13, <1>14, <1>15 DEF Written
<1> QED BY <1>16 DEF t, disk2, new

(* One turn of the loop: the chunk is written, or the disk is full. *)
LEMMA OneTurn ==
  ASSUME NEW d, NEW inode, NEW offset, NEW bytes, MayWrite(d, inode, offset, bytes),
         NEW addr \in First(offset) .. Last(offset, Len(bytes)),
         NEW s, Written(d, inode, offset, bytes, addr - 1, s), s.ok = TRUE
  PROVE  LET t == PutChunk(s, addr, offset, bytes)
         IN  \/ t.ok = TRUE /\ Written(d, inode, offset, bytes, addr, t)
             \/ /\ t.ok = FALSE /\ Written(d, inode, offset, bytes, addr - 1, t)
                /\ addr \notin Mapped(inode)
<1> DEFINE old == s.inode.addrs[addr]
           dnum == IF old # -1 THEN old
                   ELSE bitmap_find_free(s.disk, DATA_BITMAP_BLOCK, NUM_DATA_BLOCKS)
           base == IF old # -1 THEN s.disk ELSE data_alloc(s.disk, dnum)
           block == [i \in 0 .. (BLOCK_SIZE - 1) |->
                       IF i \in From(addr, offset) .. To(addr, offset, Len(bytes))
                       THEN bytes[Source(addr, offset, i)] ELSE data_read(base, dnum)[i]]
           t == PutChunk(s, addr, offset, bytes)
<1>1. t = IF ~ s.ok \/ dnum = -1 THEN [s EXCEPT !.ok = FALSE]
          ELSE [disk |-> data_update(base, dnum, block),
                inode |-> [s.inode EXCEPT !.addrs[addr] = dnum], ok |-> TRUE]
  BY Zenon DEF PutChunk
<1>2. /\ First(offset) \in Nat /\ addr \in Nat /\ addr \in Direct
      /\ addr >= First(offset) /\ addr \notin First(offset) .. (addr - 1)
  BY ChunkBytes, ChunkRange
<1>3. /\ Outcome(s) /\ DiskTyped(s.disk) /\ Sound(s.inode) /\ Blocks(s.inode) \subseteq Taken(s.disk)
      /\ TakenInodes(s.disk) = TakenInodes(d) /\ SameInodes(d, s.disk)
  BY DEF Written
<1>4. \A a \in Mapped(inode) : a \in Mapped(s.inode)
  BY DEF Written, Ahead, Mapped
<1>5. addr \in Mapped(s.inode) <=> old # -1
  BY <1>2 DEF Mapped
<1> HIDE DEF t, block
<1>6. CASE old # -1
  <2>1. dnum = old /\ base = s.disk /\ old \in Dnum /\ dnum # -1
    BY <1>3, <1>5, <1>6, InodeFields DEF Sound
  <2>2. old \in Taken(s.disk)
    BY <1>3, <1>5, <1>6 DEF Blocks
  <2> HIDE DEF dnum, base
  <2>3. \A i \in 0 .. (BLOCK_SIZE - 1) :
          data_read(base, dnum)[i] = ByteAfter(d, inode, offset, bytes, addr - 1, addr, i)
    BY <1>5, <1>6, <2>1 DEF Written
  <2>4. Ready(d, inode, offset, bytes, s, addr, base, dnum)
    BY <1>3, <1>5, <1>6, <2>1, <2>2, <2>3 DEF Ready
  <2>5. t = [disk |-> data_update(base, dnum, block),
             inode |-> [s.inode EXCEPT !.addrs[addr] = dnum], ok |-> TRUE]
    BY <1>1, <2>1
  <2>6. Written(d, inode, offset, bytes, addr, t)
    BY <2>4, <2>5, ChunkWritten DEF block, IsChunk
  <2> QED BY <2>5, <2>6 DEF t
<1>7. CASE old = -1 /\ dnum = -1
  <2>1. t = [s EXCEPT !.ok = FALSE]
    BY <1>1, <1>7
  <2>2. t.ok = FALSE /\ t.disk = s.disk /\ t.inode = s.inode /\ Outcome(t)
    BY <1>3, <2>1 DEF Outcome
  <2> HIDE DEF old, dnum
  <2>3. Written(d, inode, offset, bytes, addr - 1, t)
    BY <2>2 DEF Written
  <2> QED BY <1>4, <1>5, <1>7, <2>2, <2>3 DEF t
<1>8. CASE old = -1 /\ dnum # -1
  <2>1. dnum = bitmap_find_free(s.disk, DATA_BITMAP_BLOCK, NUM_DATA_BLOCKS)
        /\ base = data_alloc(s.disk, dnum)
    BY <1>8
  <2> HIDE DEF dnum, base
  <2>2. dnum \in Dnum /\ dnum \notin Taken(s.disk)
    BY <1>8, <2>1, FindFree, Numbers DEF Taken
  <2>3. /\ DiskTyped(base) /\ TakenInodes(base) = TakenInodes(s.disk) /\ SameInodes(s.disk, base)
        /\ Taken(base) = Taken(s.disk) \cup {dnum}
        /\ \A n \in Dnum : data_read(base, n) = IF n = dnum THEN ZeroBlock ELSE data_read(s.disk, n)
    BY <1>3, <2>1, <2>2, DataAlloc
  <2>4. SameInodes(d, base)
    BY <1>3, <2>3 DEF SameInodes
  <2>5. \A i \in 0 .. (BLOCK_SIZE - 1) :
          data_read(base, dnum)[i] = ByteAfter(d, inode, offset, bytes, addr - 1, addr, i)
    BY <1>2, <1>4, <1>5, <1>8, <2>2, <2>3 DEF ByteAfter, ZeroBlock
  <2>6. Ready(d, inode, offset, bytes, s, addr, base, dnum)
    BY <1>3, <1>5, <1>8, <2>2, <2>3, <2>4, <2>5 DEF Ready
  <2>7. t = [disk |-> data_update(base, dnum, block),
             inode |-> [s.inode EXCEPT !.addrs[addr] = dnum], ok |-> TRUE]
    BY <1>1, <1>8
  <2>8. Written(d, inode, offset, bytes, addr, t)
    BY <2>6, <2>7, ChunkWritten DEF block, IsChunk
  <2> QED BY <2>7, <2>8 DEF t
<1> QED BY <1>6, <1>7, <1>8

(* s is where the loop is behind block addr: it got that far, or the disk  *)
(* was full at an earlier block, one that was not mapped.                  *)
Reached(d, inode, offset, bytes, addr, s) ==
  \E stop \in (First(offset) - 1) .. addr :
    /\ Written(d, inode, offset, bytes, stop, s)
    /\ s.ok => stop = addr
    /\ ~ s.ok => stop < addr /\ stop + 1 \notin Mapped(inode)

LEMMA TurnsReach ==
  ASSUME NEW d, NEW inode, NEW offset, NEW bytes, MayWrite(d, inode, offset, bytes),
         NEW addr \in First(offset) .. Last(offset, Len(bytes)),
         NEW s, Reached(d, inode, offset, bytes, addr - 1, s)
  PROVE  Reached(d, inode, offset, bytes, addr, PutChunk(s, addr, offset, bytes))
<1> DEFINE t == PutChunk(s, addr, offset, bytes)
<1>1. First(offset) \in Nat /\ addr \in Nat /\ addr >= First(offset)
  BY ChunkBytes, ChunkRange
<1>2. PICK stop \in (First(offset) - 1) .. (addr - 1) :
        /\ Written(d, inode, offset, bytes, stop, s)
        /\ s.ok => stop = addr - 1
        /\ ~ s.ok => stop < addr - 1 /\ stop + 1 \notin Mapped(inode)
  BY DEF Reached
<1>3. s.ok \in BOOLEAN /\ s = [disk |-> s.disk, inode |-> s.inode, ok |-> s.ok]
  BY <1>2 DEF Written, Outcome
<1>4. CASE s.ok = TRUE
  <2>1. Written(d, inode, offset, bytes, addr - 1, s)
    BY <1>2, <1>4
  <2>2. \/ t.ok = TRUE /\ Written(d, inode, offset, bytes, addr, t)
        \/ /\ t.ok = FALSE /\ Written(d, inode, offset, bytes, addr - 1, t)
           /\ addr \notin Mapped(inode)
    BY <1>4, <2>1, OneTurn
  <2> HIDE DEF t
  <2>3. CASE t.ok = TRUE
    <3>1. addr \in (First(offset) - 1) .. addr
      BY <1>1
    <3>2. Written(d, inode, offset, bytes, addr, t)
      BY <2>2, <2>3
    <3>3. Reached(d, inode, offset, bytes, addr, t)
      BY <2>3, <3>1, <3>2 DEF Reached
    <3> QED BY <3>3 DEF t
  <2>4. CASE t.ok = FALSE
    <3>1. addr - 1 \in (First(offset) - 1) .. addr /\ addr - 1 < addr /\ (addr - 1) + 1 = addr
      BY <1>1
    <3>2. Written(d, inode, offset, bytes, addr - 1, t) /\ addr \notin Mapped(inode)
      BY <2>2, <2>4
    <3>3. Reached(d, inode, offset, bytes, addr, t)
      BY <2>4, <3>1, <3>2 DEF Reached
    <3> QED BY <3>3 DEF t
  <2> QED BY <2>2, <2>3, <2>4
<1>5. CASE s.ok = FALSE
  <2>1. t = s
    <3>1. t = [s EXCEPT !.ok = FALSE]
      BY <1>5 DEF PutChunk
    <3> HIDE DEF t
    <3> QED BY <1>3, <1>5, <3>1
  <2>2. stop \in (First(offset) - 1) .. addr /\ stop < addr
    BY <1>1
  <2>3. Reached(d, inode, offset, bytes, addr, s)
    BY <1>2, <1>5, <2>2 DEF Reached
  <2> QED BY <2>1, <2>3
<1> QED BY <1>3, <1>4, <1>5

(* The states that file_write's loop passes through exist, one behind each *)
(* block.                                                                  *)
Turns(d, inode, inum, offset, bytes, after) ==
  /\ after[First(offset) - 1] = [disk |-> d, inode |-> inode, ok |-> TRUE]
  /\ \A addr \in First(offset) .. Last(offset, Len(bytes)) :
       after[addr] = PutChunk(after[addr - 1], addr, offset, bytes)
  /\ file_write(d, inode, inum, offset, bytes)
       = Save(after[Last(offset, Len(bytes))], inum, offset + Len(bytes))

LEMMA LoopDefined ==
  ASSUME NEW d, NEW inode, NEW inum, NEW offset, NEW bytes,
         MayWrite(d, inode, offset, bytes)
  PROVE  \E after : Turns(d, inode, inum, offset, bytes, after)
<1> DEFINE f == First(offset)
           l == Last(offset, Len(bytes))
           start == [disk |-> d, inode |-> inode, ok |-> TRUE]
           Turn(s, addr) == PutChunk(s, addr, offset, bytes)
           Obeys(g, n) == g = [addr \in (f - 1) .. n |->
                                 IF addr < f THEN start ELSE Turn(g[addr - 1], addr)]
           S == {n \in (f - 1) .. l : \E g : Obeys(g, n)}
           after == CHOOSE g : Obeys(g, l)
<1>1. f \in Nat /\ l \in Int /\ l >= f - 1
  BY ChunkBytes, ChunkRange
<1>2. file_write(d, inode, inum, offset, bytes) = Save(after[l], inum, offset + Len(bytes))
  BY Zenon DEF file_write
<1> HIDE DEF f, l, start, Turn
<1>3. f - 1 \in S
  <2> DEFINE g == [addr \in (f - 1) .. (f - 1) |-> start]
  <2>1. \A addr \in (f - 1) .. (f - 1) : addr < f
    BY <1>1
  <2>2. Obeys(g, f - 1)
    BY <2>1, Zenon
  <2>3. f - 1 \in (f - 1) .. l
    BY <1>1
  <2> HIDE DEF Obeys
  <2> QED BY <2>2, <2>3
<1>4. ASSUME NEW n \in (f - 1) .. l, n \in S, n < l PROVE n + 1 \in S
  <2>1. PICK g : Obeys(g, n)
    BY <1>4
  <2> DEFINE h == [addr \in (f - 1) .. (n + 1) |->
                     IF addr = n + 1 THEN Turn(g[n], n + 1) ELSE g[addr]]
             rule == [addr \in (f - 1) .. (n + 1) |->
                        IF addr < f THEN start ELSE Turn(h[addr - 1], addr)]
  <2>2. n \in Int /\ n >= f - 1 /\ n + 1 \in (f - 1) .. l
    BY <1>1, <1>4
  <2>3. ASSUME NEW addr \in (f - 1) .. (n + 1) PROVE h[addr] = rule[addr]
    <3>1. h[addr] = IF addr = n + 1 THEN Turn(g[n], n + 1) ELSE g[addr]
      OBVIOUS
    <3>2. rule[addr] = IF addr < f THEN start ELSE Turn(h[addr - 1], addr)
      OBVIOUS
    <3>3. \A k \in (f - 1) .. n : h[k] = g[k]
      BY <2>2
    <3>4. \A k \in (f - 1) .. n : g[k] = IF k < f THEN start ELSE Turn(g[k - 1], k)
      BY <2>1
    <3> HIDE DEF h, rule, Obeys
    <3>5. CASE addr = n + 1
      <4>1. ~ (addr < f) /\ addr - 1 = n /\ n \in (f - 1) .. n
        BY <1>1, <2>2, <3>5
      <4> QED BY <3>1, <3>2, <3>3, <3>5, <4>1
    <3>6. CASE addr # n + 1
      <4>1. addr \in (f - 1) .. n
        BY <1>1, <2>2, <3>6
      <4>2. CASE addr < f
        BY <3>1, <3>2, <3>4, <3>6, <4>1, <4>2
      <4>3. CASE ~ (addr < f)
        <5>1. addr - 1 \in (f - 1) .. n
          BY <1>1, <2>2, <4>1, <4>3
        <5> QED BY <3>1, <3>2, <3>3, <3>4, <3>6, <4>1, <4>3, <5>1
      <4> QED BY <4>2, <4>3
    <3> QED BY <3>5, <3>6
  <2>4. h = rule
    BY <2>3
  <2>5. Obeys(h, n + 1)
    BY <2>4, Zenon
  <2> HIDE DEF Obeys, h, rule
  <2> QED BY <2>2, <2>5
<1>5. l \in S
  <2> HIDE DEF S
  <2>1. (f - 1) .. l \subseteq S
    BY <1>1, <1>3, <1>4, Induction
  <2> QED BY <1>1, <2>1
<1>6. Obeys(after, l)
  <2>1. \E g : Obeys(g, l)
    BY <1>5
  <2> HIDE DEF Obeys
  <2> QED BY <2>1, Zenon
<1> HIDE DEF after
<1>7. \A addr \in (f - 1) .. l : after[addr] = IF addr < f THEN start ELSE Turn(after[addr - 1], addr)
  BY <1>6
<1>8. after[f - 1] = start
  BY <1>1, <1>7
<1>9. \A addr \in f .. l : after[addr] = Turn(after[addr - 1], addr)
  BY <1>1, <1>7
<1> QED BY <1>2, <1>8, <1>9 DEF f, l, start, Turn, Turns

(* What file_write leaves behind.  s is the state behind the loop.         *)
LEMMA LoopReaches ==
  ASSUME NEW d, NEW inode, NEW inum, NEW offset, NEW bytes,
         MayWrite(d, inode, offset, bytes)
  PROVE  \E s : /\ Reached(d, inode, offset, bytes, Last(offset, Len(bytes)), s)
                /\ file_write(d, inode, inum, offset, bytes)
                     = Save(s, inum, offset + Len(bytes))
<1> DEFINE f == First(offset)
           l == Last(offset, Len(bytes))
<1>1. f \in Nat /\ l \in Int /\ l >= f - 1
  BY ChunkBytes, ChunkRange
<1>0. PICK after : Turns(d, inode, inum, offset, bytes, after)
  BY LoopDefined
<1>2. /\ after[f - 1] = [disk |-> d, inode |-> inode, ok |-> TRUE]
      /\ \A addr \in f .. l : after[addr] = PutChunk(after[addr - 1], addr, offset, bytes)
      /\ file_write(d, inode, inum, offset, bytes) = Save(after[l], inum, offset + Len(bytes))
  BY <1>0 DEF Turns
<1> DEFINE S == {n \in (f - 1) .. l : Reached(d, inode, offset, bytes, n, after[n])}
<1>3. f - 1 \in S
  <2>1. Written(d, inode, offset, bytes, f - 1, after[f - 1]) /\ after[f - 1].ok = TRUE
    BY <1>2, NothingWritten
  <2>2. f - 1 \in (f - 1) .. (f - 1) /\ f - 1 \in (f - 1) .. l
    BY <1>1
  <2>3. Reached(d, inode, offset, bytes, f - 1, after[f - 1])
    BY <2>1, <2>2 DEF Reached
  <2> QED BY <2>2, <2>3
<1>4. ASSUME NEW n \in (f - 1) .. l, n \in S, n < l PROVE n + 1 \in S
  <2>1. n + 1 \in f .. l /\ (n + 1) - 1 = n
    BY <1>1, <1>4
  <2>2. Reached(d, inode, offset, bytes, (n + 1) - 1, after[n])
    BY <1>4, <2>1
  <2>3. after[n + 1] = PutChunk(after[n], n + 1, offset, bytes)
    BY <1>2, <2>1
  <2>4. Reached(d, inode, offset, bytes, n + 1, after[n + 1])
    BY <2>1, <2>2, <2>3, TurnsReach
  <2> QED BY <1>1, <2>1, <2>4
<1>5. l \in S
  <2> HIDE DEF f, l, S
  <2>0. f - 1 \in Int
    BY <1>1
  <2>1. (f - 1) .. l \subseteq S
    BY <1>1, <1>3, <1>4, <2>0, Induction
  <2> QED BY <1>1, <2>1
<1> QED BY <1>2, <1>5

(* All that a write leaves behind: e is the result of file_write, which    *)
(* got as far as block stop.                                               *)
Done(d, inode, inum, offset, bytes, stop, e) ==
  /\ e.ok \in BOOLEAN /\ DiskTyped(e.disk) /\ Sound(e.inode)
  /\ \A a \in Mapped(inode) : a \in Mapped(e.inode) /\ e.inode.addrs[a] = inode.addrs[a]
  /\ TakenInodes(e.disk) = TakenInodes(d)
  /\ Taken(e.disk) = Taken(d) \cup Blocks(e.inode)
  /\ \A g \in Inum \ {inum} : inode_read(e.disk, g) = inode_read(d, g)
  /\ IF e.ok /\ offset + Len(bytes) > inode.size
     THEN e.inode.size = offset + Len(bytes) /\ inode_read(e.disk, inum) = e.inode
     ELSE e.inode.size = inode.size /\ inode_read(e.disk, inum) = inode_read(d, inum)
  /\ e.ok /\ offset + Len(bytes) <= inode.size => e.inode = inode
  /\ \A a \in Mapped(e.inode) \ Mapped(inode) :
       e.inode.addrs[a] \notin Taken(d) /\ a \in First(offset) .. stop
  /\ \A dnum \in Dnum \ Blocks(e.inode) : data_read(e.disk, dnum) = data_read(d, dnum)
  /\ \A a \in Mapped(e.inode), i \in 0 .. (BLOCK_SIZE - 1) :
       data_read(e.disk, e.inode.addrs[a])[i] = ByteAfter(d, inode, offset, bytes, stop, a, i)
  /\ stop \in (First(offset) - 1) .. Last(offset, Len(bytes))
  /\ e.ok => stop = Last(offset, Len(bytes))
  /\ ~ e.ok => stop < Last(offset, Len(bytes)) /\ stop + 1 \notin Mapped(inode)

(* A block of the range starts before the end of what is written. *)
LEMMA BlockBeforeEnd ==
  ASSUME NEW d, NEW inode, NEW offset, NEW bytes, MayWrite(d, inode, offset, bytes),
         NEW a \in First(offset) .. Last(offset, Len(bytes))
  PROVE  a * BLOCK_SIZE < offset + Len(bytes)
<1> DEFINE l == Last(offset, Len(bytes))
           p == offset + Len(bytes) - 1
<1>1. offset \in Nat /\ Len(bytes) \in Nat /\ a \in Nat /\ First(offset) \in Nat /\ l \in Int
  BY ChunkBytes, ChunkRange
<1>2. Len(bytes) # 0
  <2> SUFFICES ASSUME Len(bytes) = 0 PROVE FALSE
    OBVIOUS
  <2>1. l = First(offset) - 1
    BY DEF Last
  <2> QED BY <1>1, <2>1
<1>3. p \in Nat /\ l = p \div BLOCK_SIZE
  BY <1>1, <1>2 DEF Last
<1> HIDE DEF p
<1>4. l \in Nat /\ p % BLOCK_SIZE \in 0 .. (BLOCK_SIZE - 1)
      /\ p = l * BLOCK_SIZE + (p % BLOCK_SIZE)
  BY <1>3, BlockPlace
<1> DEFINE r == p % BLOCK_SIZE
<1> HIDE DEF r, l
<1>5. r \in Nat /\ p = l * BLOCK_SIZE + r /\ l \in Nat
  BY <1>4, Numbers DEF r
<1>6. a = l \/ a < l
  BY <1>1, <1>5 DEF l
<1>7. a * BLOCK_SIZE <= p
  <2>1. l * BLOCK_SIZE \in Int /\ a * BLOCK_SIZE \in Int
    BY <1>1, <1>5, Numbers, SMT
  <2>2. CASE a = l
    BY <1>3, <1>5, <2>1, <2>2
  <2>3. CASE a < l
    <3>1. a * BLOCK_SIZE + BLOCK_SIZE <= l * BLOCK_SIZE
      BY <1>1, <1>5, <2>3, Numbers, NextBlock
    <3> QED BY <1>3, <1>5, <2>1, <3>1, Numbers
  <2> QED BY <1>6, <2>2, <2>3
<1>8. a * BLOCK_SIZE \in Int
  BY <1>1, Numbers, SMT
<1> QED BY <1>1, <1>7, <1>8 DEF p

(* A block that starts before the end of what is written is mapped.        *)
LEMMA MappedToEnd ==
  ASSUME NEW d, NEW inode, NEW offset, NEW bytes, MayWrite(d, inode, offset, bytes),
         NEW s, Written(d, inode, offset, bytes, Last(offset, Len(bytes)), s),
         NEW a \in Direct, a * BLOCK_SIZE < offset + Len(bytes)
  PROVE  a \in Mapped(s.inode)
<1>1. offset \in Nat /\ Len(bytes) \in Nat /\ offset + Len(bytes) <= MAX_FILE_SIZE
      /\ Sound(inode) /\ offset <= inode.size /\ inode.size \in Nat /\ a \in Nat
      /\ a * BLOCK_SIZE \in Int
  <2>1. Sound(inode) /\ offset <= inode.size
    BY DEF MayWrite
  <2>2. a \in Nat /\ inode.size \in Nat
    BY <2>1, InodeFields, Numbers DEF Sound
  <2>3. a * BLOCK_SIZE \in Int
    BY <2>2, Numbers, SMT
  <2> QED BY <2>1, <2>2, <2>3, ChunkBytes
<1>2. \A n \in Mapped(inode) : n \in Mapped(s.inode)
  BY DEF Written, Ahead, Mapped
<1> DEFINE p == a * BLOCK_SIZE
<1>3. CASE p < offset
  <2>1. p < inode.size
    BY <1>1, <1>3
  <2>2. a \in Mapped(inode)
    BY <1>1, <2>1 DEF Sound
  <2> QED BY <1>2, <2>2
<1>4. CASE ~ (p < offset)
  <2>1. a * BLOCK_SIZE + 0 \in offset .. (offset + Len(bytes) - 1)
    BY <1>1, <1>4
  <2>2. 0 \in 0 .. (BLOCK_SIZE - 1)
    BY Numbers
  <2>3. a \in First(offset) .. Last(offset, Len(bytes))
    BY <1>1, <2>1, <2>2, ChunkRange
  <2> QED BY <2>3 DEF Written
<1> QED BY <1>3, <1>4

LEMMA WriteDone ==
  ASSUME NEW d, NEW inode, NEW inum \in Inum, NEW offset, NEW bytes,
         MayWrite(d, inode, offset, bytes)
  PROVE  \E stop : Done(d, inode, inum, offset, bytes, stop,
                        file_write(d, inode, inum, offset, bytes))
<1> DEFINE l == Last(offset, Len(bytes))
           last == offset + Len(bytes)
           e == file_write(d, inode, inum, offset, bytes)
<1>1. PICK s : /\ Reached(d, inode, offset, bytes, l, s)
               /\ e = Save(s, inum, last)
  BY LoopReaches
<1>2. PICK stop \in (First(offset) - 1) .. l :
        /\ Written(d, inode, offset, bytes, stop, s)
        /\ s.ok => stop = l
        /\ ~ s.ok => stop < l /\ stop + 1 \notin Mapped(inode)
  BY <1>1 DEF Reached
<1> HIDE DEF e
<1>3. /\ Outcome(s) /\ DiskTyped(s.disk) /\ Sound(s.inode) /\ Ahead(s.inode, inode)
      /\ TakenInodes(s.disk) = TakenInodes(d) /\ SameInodes(d, s.disk)
      /\ Taken(s.disk) = Taken(d) \cup Blocks(s.inode)
      /\ s.ok \in BOOLEAN /\ s.inode.size = inode.size
  BY <1>2 DEF Written, Outcome, Ahead
<1>4. Sound(inode) /\ offset \in Nat /\ Len(bytes) \in Nat /\ last \in Nat
      /\ last <= MAX_FILE_SIZE /\ inode.size \in Nat
  <2>1. Sound(inode)
    BY DEF MayWrite
  <2>2. inode.size \in Nat
    BY <2>1, InodeFields, Numbers DEF Sound
  <2> QED BY <2>1, <2>2, ChunkBytes
<1>5. \A a \in Mapped(inode) : a \in Mapped(s.inode) /\ s.inode.addrs[a] = inode.addrs[a]
  BY <1>3 DEF Ahead, Mapped
<1>6. \A a \in Mapped(s.inode) \ Mapped(inode) :
        s.inode.addrs[a] \notin Taken(d) /\ a \in First(offset) .. stop
  BY <1>2 DEF Written
<1>7. \A dnum \in Dnum \ Blocks(s.inode) : data_read(s.disk, dnum) = data_read(d, dnum)
  BY <1>2 DEF Written
<1>8. \A a \in Mapped(s.inode), i \in 0 .. (BLOCK_SIZE - 1) :
        data_read(s.disk, s.inode.addrs[a])[i] = ByteAfter(d, inode, offset, bytes, stop, a, i)
  BY <1>2 DEF Written
<1>9. \A g \in Inum : inode_read(s.disk, g) = inode_read(d, g)
  BY <1>3 DEF SameInodes
<1>10. CASE s.ok = TRUE /\ last > inode.size
  <2> DEFINE grown == [s.inode EXCEPT !.size = last]
             disk2 == inode_update(s.disk, inum, grown)
  <2>1. e = [s EXCEPT !.inode = grown, !.disk = inode_update(@, inum, grown)]
    BY <1>1, <1>3, <1>10 DEF Save
  <2>2. e.ok = TRUE /\ e.inode = grown /\ e.disk = disk2
    BY <1>3, <1>10, <2>1 DEF Outcome
  <2>3. s.inode = [size |-> s.inode.size, addrs |-> s.inode.addrs]
        /\ s.inode.addrs \in [Direct -> Dnum \cup {-1}]
    BY <1>3, InodeFields DEF Sound
  <2>4. grown = [size |-> last, addrs |-> s.inode.addrs] /\ grown.size = last
        /\ grown.addrs = s.inode.addrs
    BY <2>3
  <2> HIDE DEF grown
  <2>5. grown \in Inode
    BY <1>4, <2>3, <2>4, Numbers DEF Inode
  <2>6. Mapped(grown) = Mapped(s.inode) /\ Blocks(grown) = Blocks(s.inode)
    BY <2>4 DEF Mapped, Blocks
  <2>7. \A a \in Direct : a * BLOCK_SIZE < last => a \in Mapped(s.inode)
    BY <1>2, <1>10, MappedToEnd
  <2>8. Sound(grown)
    BY <1>3, <2>4, <2>5, <2>6, <2>7 DEF Sound
  <2>9. /\ DiskTyped(disk2) /\ Taken(disk2) = Taken(s.disk)
        /\ TakenInodes(disk2) = TakenInodes(s.disk) /\ SameData(s.disk, disk2)
        /\ \A g \in Inum : inode_read(disk2, g) = IF g = inum THEN grown ELSE inode_read(s.disk, g)
    BY <1>3, <2>5, InodeUpdate
  <2> HIDE DEF disk2
  <2>10. \A n \in Dnum : data_read(disk2, n) = data_read(s.disk, n)
    BY <2>9 DEF SameData
  <2>11. \A a \in Mapped(grown), i \in 0 .. (BLOCK_SIZE - 1) :
           data_read(disk2, grown.addrs[a])[i] = ByteAfter(d, inode, offset, bytes, stop, a, i)
    <3>1. \A a \in Mapped(s.inode) : s.inode.addrs[a] \in Dnum
      BY <1>3, InodeFields DEF Sound
    <3> QED BY <1>8, <2>4, <2>6, <2>10, <3>1
  <2>12. e.ok /\ last > inode.size /\ ~ (last <= inode.size)
    BY <1>4, <1>10, <2>2
  <2>13. /\ \A a \in Mapped(inode) : a \in Mapped(grown) /\ grown.addrs[a] = inode.addrs[a]
         /\ \A a \in Mapped(grown) \ Mapped(inode) :
              grown.addrs[a] \notin Taken(d) /\ a \in First(offset) .. stop
         /\ \A dnum \in Dnum \ Blocks(grown) : data_read(disk2, dnum) = data_read(d, dnum)
         /\ \A g \in Inum \ {inum} : inode_read(disk2, g) = inode_read(d, g)
         /\ inode_read(disk2, inum) = grown
    BY <1>5, <1>6, <1>7, <1>9, <2>4, <2>6, <2>9, <2>10
  <2>14. Taken(disk2) = Taken(d) \cup Blocks(grown) /\ TakenInodes(disk2) = TakenInodes(d)
    BY <1>3, <2>6, <2>9
  <2>15. stop = l
    BY <1>2, <1>10
  <2>16. Done(d, inode, inum, offset, bytes, stop, e)
    BY <1>2, <2>2, <2>4, <2>8, <2>9, <2>11, <2>12, <2>13, <2>14, <2>15 DEF Done
  <2> QED BY <2>16 DEF e
<1>11. CASE ~ (s.ok = TRUE /\ last > inode.size)
  <2>1. e = s
    BY <1>1, <1>3, <1>11 DEF Save
  <2>2. ASSUME s.ok = TRUE PROVE s.inode = inode
    <3>1. last <= inode.size /\ stop = l
      BY <1>2, <1>4, <1>11, <2>2
    <3>2. ASSUME NEW a \in Mapped(s.inode) PROVE a \in Mapped(inode)
      <4> SUFFICES ASSUME a \notin Mapped(inode) PROVE FALSE
        OBVIOUS
      <4>1. a \in First(offset) .. l /\ a \in Direct
        BY <1>6, <3>1 DEF Mapped
      <4>2. a * BLOCK_SIZE < last
        BY <4>1, BlockBeforeEnd
      <4>3. a * BLOCK_SIZE \in Int
        BY <4>1, Numbers, SMT
      <4>4. a * BLOCK_SIZE < inode.size
        BY <1>4, <3>1, <4>2, <4>3
      <4> QED BY <1>4, <4>1, <4>4 DEF Sound
    <3>3. /\ inode = [size |-> inode.size, addrs |-> inode.addrs]
          /\ inode.addrs \in [Direct -> Dnum \cup {-1}]
      BY <1>4, InodeFields DEF Sound
    <3>4. /\ s.inode = [size |-> s.inode.size, addrs |-> s.inode.addrs]
          /\ s.inode.addrs \in [Direct -> Dnum \cup {-1}]
      BY <1>3, InodeFields DEF Sound
    <3>5. \A a \in Direct : s.inode.addrs[a] = inode.addrs[a]
      BY <1>5, <3>2 DEF Mapped
    <3>6. s.inode.addrs = inode.addrs
      BY <3>3, <3>4, <3>5
    <3> QED BY <1>3, <3>3, <3>4, <3>6
  <2>3. Done(d, inode, inum, offset, bytes, stop, s)
    BY <1>2, <1>3, <1>5, <1>6, <1>7, <1>8, <1>9, <1>11, <2>2 DEF Done
  <2> QED BY <2>1, <2>3 DEF e
<1> QED BY <1>10, <1>11

-----------------------------------------------------------------------------
(* The inductive invariant, of a disk d, structs c, the files l in use and *)
(* whether a write has failed, x.  It has besides what the runs check:     *)
(* what the disk has of an inode is sound as well as the struct, and maps  *)
(* no more than it; only a file in use has a struct; no byte lies behind   *)
(* the end of a file unless a write has failed.                            *)

HeldOn(d, c, f) == IF c[f] # NONE THEN c[f] ELSE inode_read(d, f)

FileKept(d, stored, held, f, x) ==
  /\ Sound(stored) /\ Sound(held) /\ Ahead(held, stored) /\ Blocks(held) \subseteq Taken(d)
  /\ \A a \in Mapped(held), i \in 0 .. (BLOCK_SIZE - 1) :
       LET byte == data_read(d, held.addrs[a])[i]
       IN  /\ byte = ZERO \/ byte.file = f
           /\ x \/ a * BLOCK_SIZE + i < held.size \/ byte = ZERO
  /\ x \/ held = stored

Kept(d, c, l, x) ==
  /\ DiskTyped(d) /\ c \in [Inum -> Inode \cup {NONE}] /\ l \subseteq TakenInodes(d)
  /\ x \in BOOLEAN
  /\ \A f \in Inum : c[f] # NONE => f \in l
  /\ \A f \in l : FileKept(d, inode_read(d, f), HeldOn(d, c, f), f, x)
  /\ \A f, g \in l : f # g => Blocks(HeldOn(d, c, f)) \cap Blocks(HeldOn(d, c, g)) = {}
  /\ x \/ Taken(d) = UNION {Blocks(inode_read(d, f)) : f \in l}

FilesKept == Kept(disk, copy, live, failed)

(* What a file in use has, in the form the steps below need. *)
LEMMA KeptFacts ==
  ASSUME NEW d, NEW c, NEW l, NEW x, Kept(d, c, l, x)
  PROVE  /\ l \subseteq Inum /\ l \subseteq TakenInodes(d)
         /\ \A f \in l : /\ Sound(inode_read(d, f)) /\ Sound(HeldOn(d, c, f))
                         /\ Blocks(HeldOn(d, c, f)) \subseteq Taken(d)
                         /\ Blocks(inode_read(d, f)) \subseteq Blocks(HeldOn(d, c, f))
                         /\ Mapped(inode_read(d, f)) \subseteq Mapped(HeldOn(d, c, f))
                         /\ x \/ HeldOn(d, c, f) = inode_read(d, f)
<1>1. l \subseteq Inum /\ l \subseteq TakenInodes(d)
  BY DEF Kept, DiskTyped
<1>2. ASSUME NEW f \in l
      PROVE  /\ Sound(inode_read(d, f)) /\ Sound(HeldOn(d, c, f))
             /\ Blocks(HeldOn(d, c, f)) \subseteq Taken(d)
             /\ Blocks(inode_read(d, f)) \subseteq Blocks(HeldOn(d, c, f))
             /\ Mapped(inode_read(d, f)) \subseteq Mapped(HeldOn(d, c, f))
             /\ x \/ HeldOn(d, c, f) = inode_read(d, f)
  <2>1. FileKept(d, inode_read(d, f), HeldOn(d, c, f), f, x)
    BY DEF Kept
  <2> DEFINE stored == inode_read(d, f)
             held == HeldOn(d, c, f)
  <2> HIDE DEF stored, held
  <2>2. FileKept(d, stored, held, f, x)
    BY <2>1 DEF stored, held
  <2>3. \A i \in Mapped(stored) : i \in Mapped(held) /\ held.addrs[i] = stored.addrs[i]
    BY <2>2 DEF FileKept, Ahead, Mapped
  <2>4. /\ Sound(stored) /\ Sound(held) /\ Blocks(held) \subseteq Taken(d)
        /\ x \/ held = stored
    BY <2>2 DEF FileKept
  <2>5. Blocks(stored) \subseteq Blocks(held)
    BY <2>3 DEF Blocks
  <2> QED BY <2>3, <2>4, <2>5 DEF stored, held
<1> QED BY <1>1, <1>2

(* A file keeps its shape on a disk that has its blocks, taken and with    *)
(* the bytes they had.                                                     *)
LEMMA FileStays ==
  ASSUME NEW d, NEW e, NEW stored, NEW held, NEW f, NEW x,
         FileKept(d, stored, held, f, x), Blocks(held) \subseteq Taken(e),
         \A n \in Blocks(held) : data_read(e, n) = data_read(d, n)
  PROVE  FileKept(e, stored, held, f, x)
<1>1. \A a \in Mapped(held) : data_read(e, held.addrs[a]) = data_read(d, held.addrs[a])
  BY DEF Blocks
<1> QED BY <1>1 DEF FileKept

(* The files of l but f, between the disk d and the structs c before a step *)
(* and e and b behind it: the step leaves their inodes, their structs and   *)
(* their blocks alone; they have what they had.                             *)
LeftAlone(d, c, l, e, b, f) ==
  /\ \A g \in Inum \ {f} : inode_read(e, g) = inode_read(d, g) /\ b[g] = c[g]
  /\ \A g \in l \ {f} :
       /\ Blocks(HeldOn(d, c, g)) \subseteq Taken(e)
       /\ \A n \in Blocks(HeldOn(d, c, g)) : data_read(e, n) = data_read(d, n)

OthersKept(d, c, l, e, b, y, f) ==
  \A g \in l \ {f} : /\ HeldOn(e, b, g) = HeldOn(d, c, g)
                     /\ FileKept(e, inode_read(e, g), HeldOn(e, b, g), g, y)

LEMMA OthersStay ==
  ASSUME NEW d, NEW c, NEW l, NEW x, Kept(d, c, l, x),
         NEW e, NEW b, NEW y, x => y, NEW f, LeftAlone(d, c, l, e, b, f)
  PROVE  OthersKept(d, c, l, e, b, y, f)
<1> SUFFICES ASSUME NEW g \in l \ {f}
             PROVE  /\ HeldOn(e, b, g) = HeldOn(d, c, g)
                    /\ FileKept(e, inode_read(e, g), HeldOn(e, b, g), g, y)
  BY DEF OthersKept
<1>1. g \in Inum \ {f}
  BY KeptFacts
<1>2. inode_read(e, g) = inode_read(d, g) /\ HeldOn(e, b, g) = HeldOn(d, c, g)
  BY <1>1 DEF HeldOn, LeftAlone
<1>3. FileKept(d, inode_read(d, g), HeldOn(d, c, g), g, x)
  BY DEF Kept
<1>4. FileKept(e, inode_read(d, g), HeldOn(d, c, g), g, x)
  <2>1. Blocks(HeldOn(d, c, g)) \subseteq Taken(e)
        /\ \A n \in Blocks(HeldOn(d, c, g)) : data_read(e, n) = data_read(d, n)
    BY DEF LeftAlone
  <2> QED BY <1>3, <2>1, FileStays
<1>5. FileKept(e, inode_read(d, g), HeldOn(d, c, g), g, y)
  BY <1>4 DEF FileKept
<1> QED BY <1>2, <1>5

-----------------------------------------------------------------------------
LEMMA EmptySound == Sound(EmptyInode) /\ Mapped(EmptyInode) = {} /\ Blocks(EmptyInode) = {}
<1>1. EmptyInode.size = 0 /\ EmptyInode.addrs = [i \in Direct |-> -1]
  BY DEF EmptyInode
<1>2. EmptyInode \in Inode
  BY Numbers DEF EmptyInode, Inode
<1>3. Mapped(EmptyInode) = {} /\ Blocks(EmptyInode) = {}
  BY <1>1 DEF Mapped, Blocks
<1>4. \A i \in Direct : ~ (i * BLOCK_SIZE < 0)
  <2> SUFFICES ASSUME NEW i \in Direct PROVE ~ (i * BLOCK_SIZE < 0)
    OBVIOUS
  <2>1. i \in Nat /\ BLOCK_SIZE \in Nat
    BY Numbers
  <2> QED BY <2>1, SMT
<1> QED BY <1>1, <1>2, <1>3, <1>4 DEF Sound

LEMMA InitKept == Init => FilesKept
<1> SUFFICES ASSUME Init PROVE FilesKept
  OBVIOUS
<1>1. DOMAIN disk = Bnum /\ copy = [f \in Inum |-> NONE] /\ live = {} /\ failed = FALSE
  BY DEF Init
<1>2. disk[INODE_BITMAP_BLOCK] = {} /\ disk[DATA_BITMAP_BLOCK] = {}
  BY Places DEF Init
<1>3. ASSUME NEW n \in INODE_TABLE_START .. (DATA_REGION_START - 1)
      PROVE  disk[n] \in [0 .. (INODES_PER_BLOCK - 1) -> Inode]
  <2>1. disk[n] = [slot \in 0 .. (INODES_PER_BLOCK - 1) |-> ZeroInode]
    BY Places DEF Init
  <2>2. ZeroInode \in Inode
    BY Numbers DEF ZeroInode, Inode
  <2> QED BY <2>1, <2>2
<1>4. ASSUME NEW dnum \in Dnum PROVE data_read(disk, dnum) \in DataBlock
  <2>1. disk[DBLOCK(dnum)] = ZeroBlock
    BY Places DEF Init
  <2> QED BY <2>1, ZeroBlocks DEF data_read, block_read
<1>5. DiskTyped(disk)
  BY <1>1, <1>2, <1>3, <1>4 DEF DiskTyped, Taken, TakenInodes
<1> QED BY <1>1, <1>2, <1>5 DEF FilesKept, Kept, Taken

LEMMA CreateKept ==
  ASSUME FilesKept, Create
  PROVE  /\ FilesKept' /\ failed' = failed
         /\ \E inum \in Inum :
              /\ inum \notin live /\ live' = live \cup {inum}
              /\ HeldOn(disk', copy', inum) = EmptyInode
              /\ LeftAlone(disk, copy, live, disk', copy', inum)
              /\ OthersKept(disk, copy, live, disk', copy', failed, inum)
<1> DEFINE inum == bitmap_find_free(disk, INODE_BITMAP_BLOCK, NUM_INODES)
           mid == inode_update(disk, inum, EmptyInode)
           e == inode_alloc(disk, inum, EmptyInode)
           l == live \cup {inum}
<1>1. inum # -1 /\ disk' = e /\ live' = l /\ copy' = copy /\ failed' = failed
  BY DEF Create
<1>2. Kept(disk, copy, live, failed) /\ DiskTyped(disk)
  BY DEF FilesKept, Kept
<1>3. inum \in Inum /\ inum \notin TakenInodes(disk)
  <2> HIDE DEF inum
  <2>1. inum = -1 \/ (inum \in 0 .. (NUM_INODES - 1) /\ inum \notin disk[INODE_BITMAP_BLOCK])
    BY FindFree, Numbers DEF inum
  <2> QED BY <1>1, <2>1, Numbers DEF TakenInodes
<1> HIDE DEF inum
<1>4. EmptyInode \in Inode
  BY EmptySound DEF Sound
<1>5. /\ DiskTyped(mid) /\ Taken(mid) = Taken(disk) /\ TakenInodes(mid) = TakenInodes(disk)
      /\ SameData(disk, mid)
      /\ \A g \in Inum : inode_read(mid, g) = IF g = inum THEN EmptyInode ELSE inode_read(disk, g)
  BY <1>2, <1>3, <1>4, InodeUpdate
<1>6. e = block_write(mid, INODE_BITMAP_BLOCK, TakenInodes(disk) \cup {inum})
  BY <1>5 DEF inode_alloc, bitmap_alloc, block_read, TakenInodes
<1> HIDE DEF mid, e
<1>7. TakenInodes(disk) \cup {inum} \subseteq Inum
  BY <1>2, <1>3 DEF DiskTyped
<1>8. /\ DiskTyped(e) /\ Taken(e) = Taken(mid) /\ TakenInodes(e) = TakenInodes(disk) \cup {inum}
      /\ SameInodes(mid, e) /\ SameData(mid, e)
  BY <1>5, <1>6, <1>7, BitmapUpdate
<1>9. \A g \in Inum : inode_read(e, g) = IF g = inum THEN EmptyInode ELSE inode_read(disk, g)
  BY <1>5, <1>8 DEF SameInodes
<1>10. \A n \in Dnum : data_read(e, n) = data_read(disk, n)
  BY <1>5, <1>8 DEF SameData
<1>11. inum \notin live /\ copy[inum] = NONE
  BY <1>2, <1>3, KeptFacts DEF Kept
<1>12. /\ inode_read(e, inum) = EmptyInode /\ HeldOn(e, copy, inum) = EmptyInode
  BY <1>3, <1>9, <1>11 DEF HeldOn
<1>13. \A g \in live : Blocks(HeldOn(disk, copy, g)) \subseteq Taken(e)
                       /\ Blocks(HeldOn(disk, copy, g)) \subseteq Dnum
  BY <1>2, <1>5, <1>8, KeptFacts DEF DiskTyped
<1>21. LeftAlone(disk, copy, live, e, copy, inum)
  BY <1>9, <1>10, <1>13 DEF LeftAlone
<1>22. OthersKept(disk, copy, live, e, copy, failed, inum)
  BY <1>2, <1>21, OthersStay
<1>14. \A g \in live \ {inum} :
         /\ HeldOn(e, copy, g) = HeldOn(disk, copy, g)
         /\ FileKept(e, inode_read(e, g), HeldOn(e, copy, g), g, failed)
  BY <1>22 DEF OthersKept
<1>15. FileKept(e, EmptyInode, EmptyInode, inum, failed)
  BY EmptySound DEF FileKept, Ahead
<1>16. \A g \in l : FileKept(e, inode_read(e, g), HeldOn(e, copy, g), g, failed)
  BY <1>12, <1>14, <1>15
<1>17. \A g, h \in l : g # h =>
         Blocks(HeldOn(e, copy, g)) \cap Blocks(HeldOn(e, copy, h)) = {}
  <2>1. \A g, h \in live : g # h =>
          Blocks(HeldOn(disk, copy, g)) \cap Blocks(HeldOn(disk, copy, h)) = {}
    BY <1>2 DEF Kept
  <2> QED BY <1>11, <1>12, <1>14, <2>1, EmptySound
<1>18. failed \/ Taken(e) = UNION {Blocks(inode_read(e, g)) : g \in l}
  <2> SUFFICES ASSUME ~ failed PROVE Taken(e) = UNION {Blocks(inode_read(e, g)) : g \in l}
    OBVIOUS
  <2>1. Taken(e) = UNION {Blocks(inode_read(disk, g)) : g \in live}
    BY <1>2, <1>5, <1>8 DEF Kept
  <2>2. \A g \in live : g \in Inum /\ g # inum
    BY <1>2, <1>11, KeptFacts
  <2>3. \A g \in live : inode_read(e, g) = inode_read(disk, g)
    BY <1>9, <2>2
  <2> QED BY <1>12, <2>1, <2>3, EmptySound
<1>19. /\ copy \in [Inum -> Inode \cup {NONE}] /\ failed \in BOOLEAN
       /\ l \subseteq TakenInodes(e)
       /\ \A f \in Inum : copy[f] # NONE => f \in l
  BY <1>2, <1>8 DEF Kept
<1>20. Kept(e, copy, l, failed)
  BY <1>8, <1>16, <1>17, <1>18, <1>19 DEF Kept
<1>23. FilesKept'
  BY <1>1, <1>20 DEF FilesKept
<1> HIDE DEF l
<1> QED BY <1>1, <1>3, <1>11, <1>12, <1>21, <1>22, <1>23 DEF l

LEMMA OpenKept ==
  ASSUME FilesKept, NEW f \in Inum, Open(f)
  PROVE  FilesKept' /\ \A g \in Inum : HeldOn(disk', copy', g) = HeldOn(disk, copy, g)
<1> DEFINE stored == inode_read(disk, f)
           c == [copy EXCEPT ![f] = stored]
<1>1. f \in live /\ copy[f] = NONE /\ copy' = c /\ disk' = disk /\ live' = live /\ failed' = failed
  BY DEF Open
<1>2. Kept(disk, copy, live, failed)
  BY DEF FilesKept
<1>3. stored \in Inode /\ stored # NONE
  BY <1>1, <1>2, KeptFacts, NoneAssumption DEF Sound
<1> HIDE DEF stored
<1>4. c \in [Inum -> Inode \cup {NONE}] /\ \A g \in Inum : c[g] = IF g = f THEN stored ELSE copy[g]
  BY <1>2, <1>3 DEF Kept
<1> HIDE DEF c
<1>5. \A g \in Inum : HeldOn(disk, c, g) = HeldOn(disk, copy, g)
  BY <1>1, <1>3, <1>4 DEF HeldOn, stored
<1>6. \A g \in live : g \in Inum
  BY <1>2, KeptFacts
<1>7. \A g \in Inum : c[g] # NONE => g \in live
  BY <1>1, <1>2, <1>4 DEF Kept
<1>8. Kept(disk, c, live, failed)
  BY <1>2, <1>4, <1>5, <1>6, <1>7 DEF Kept
<1> QED BY <1>1, <1>5, <1>8 DEF FilesKept

(* The struct is dropped, and with it what it had over the disk's. *)
LEMMA CloseKept ==
  ASSUME FilesKept, NEW f \in Inum, Close(f)
  PROVE  FilesKept'
<1> DEFINE stored == inode_read(disk, f)
           held == HeldOn(disk, copy, f)
           c == [copy EXCEPT ![f] = NONE]
<1>1. copy[f] # NONE /\ copy' = c /\ disk' = disk /\ live' = live /\ failed' = failed
  BY DEF Close
<1>2. Kept(disk, copy, live, failed)
  BY DEF FilesKept
<1>3. f \in live
  BY <1>1, <1>2 DEF Kept
<1>4. c \in [Inum -> Inode \cup {NONE}] /\ \A g \in Inum : c[g] = IF g = f THEN NONE ELSE copy[g]
  BY <1>2 DEF Kept
<1> HIDE DEF c
<1>5. HeldOn(disk, c, f) = stored /\
      \A g \in Inum \ {f} : HeldOn(disk, c, g) = HeldOn(disk, copy, g)
  BY <1>4 DEF HeldOn
<1>6. /\ FileKept(disk, stored, held, f, failed) /\ Blocks(stored) \subseteq Blocks(held)
      /\ Mapped(stored) \subseteq Mapped(held)
  BY <1>2, <1>3, KeptFacts DEF Kept
<1> HIDE DEF stored, held
<1>7. FileKept(disk, stored, stored, f, failed)
  <2>1. \A a \in Mapped(stored) : a \in Mapped(held) /\ held.addrs[a] = stored.addrs[a]
    BY <1>6 DEF FileKept, Ahead
  <2>2. held.size = stored.size
    BY <1>6 DEF FileKept, Ahead
  <2>3. Ahead(stored, stored)
    BY DEF Ahead
  <2> QED BY <1>6, <2>1, <2>2, <2>3 DEF FileKept
<1>8. \A g \in live : g \in Inum
  BY <1>2, KeptFacts
<1>9. \A g \in live : FileKept(disk, inode_read(disk, g), HeldOn(disk, c, g), g, failed)
  <2>1. \A g \in live : FileKept(disk, inode_read(disk, g), HeldOn(disk, copy, g), g, failed)
    BY <1>2 DEF Kept
  <2> SUFFICES ASSUME NEW g \in live
               PROVE  FileKept(disk, inode_read(disk, g), HeldOn(disk, c, g), g, failed)
    OBVIOUS
  <2>2. CASE g = f
    BY <1>5, <1>7, <2>2 DEF stored
  <2>3. CASE g # f
    BY <1>5, <1>8, <2>1, <2>3
  <2> QED BY <2>2, <2>3
<1>10. \A g \in live : Blocks(HeldOn(disk, c, g)) \subseteq Blocks(HeldOn(disk, copy, g))
  BY <1>5, <1>6, <1>8 DEF held
<1>11. \A g, h \in live : g # h =>
         Blocks(HeldOn(disk, c, g)) \cap Blocks(HeldOn(disk, c, h)) = {}
  <2>1. \A g, h \in live : g # h =>
          Blocks(HeldOn(disk, copy, g)) \cap Blocks(HeldOn(disk, copy, h)) = {}
    BY <1>2 DEF Kept
  <2> QED BY <1>10, <2>1
<1>12. \A g \in Inum : c[g] # NONE => g \in live
  BY <1>2, <1>4 DEF Kept
<1>13. Kept(disk, c, live, failed)
  BY <1>2, <1>4, <1>9, <1>11, <1>12 DEF Kept
<1> QED BY <1>1, <1>13 DEF FilesKept

(* fs_delete frees what the inode maps: all of it, for nothing is mapped   *)
(* behind the first pointer that is -1.                                    *)
LEMMA UsedIsMapped ==
  ASSUME NEW inode, Sound(inode)
  PROVE  {i \in Direct : \A j \in 0 .. i : inode.addrs[j] # -1} = Mapped(inode)
<1>1. \A i \in Direct : i \in 0 .. i /\ 0 .. i \subseteq Direct
  BY Numbers
<1>2. \A i \in Mapped(inode) : \A j \in 0 .. i : inode.addrs[j] # -1
  BY DEF Sound, Mapped
<1> QED BY <1>1, <1>2 DEF Mapped

LEMMA RemoveKept ==
  ASSUME FilesKept, NEW f \in Inum, Remove(f)
  PROVE  /\ FilesKept' /\ f \in live /\ live' = live \ {f} /\ failed' = failed
         /\ LeftAlone(disk, copy, live, disk', copy', f)
         /\ OthersKept(disk, copy, live, disk', copy', failed, f)
<1> DEFINE inode == inode_read(disk, f)
           used == {i \in Direct : \A j \in 0 .. i : inode.addrs[j] # -1}
           rest == Taken(disk) \ Blocks(inode)
           mid == block_write(disk, DATA_BITMAP_BLOCK, rest)
           e == disk'
           l == live \ {f}
<1>1. f \in live /\ copy[f] = NONE /\ live' = l /\ copy' = copy /\ failed' = failed
  BY DEF Remove
<1>2. Kept(disk, copy, live, failed) /\ DiskTyped(disk)
  BY DEF FilesKept, Kept
<1>3. Sound(inode) /\ HeldOn(disk, copy, f) = inode
  BY <1>1, <1>2, KeptFacts DEF HeldOn
<1>4. used = Mapped(inode)
  <2> HIDE DEF inode
  <2> QED BY <1>3, UsedIsMapped
<1>5. {inode.addrs[i] : i \in used} = Blocks(inode)
  BY <1>4 DEF Blocks
<1>6. e = IF used = Direct THEN bitmap_free(mid, INODE_BITMAP_BLOCK, f) ELSE mid
  BY <1>5 DEF Remove, block_read, Taken
<1> HIDE DEF e, used, mid, inode, rest
<1>7. rest \subseteq Dnum
  BY <1>2 DEF rest, DiskTyped
<1>8. /\ DiskTyped(mid) /\ Taken(mid) = rest /\ TakenInodes(mid) = TakenInodes(disk)
      /\ SameInodes(disk, mid) /\ SameData(disk, mid)
  BY <1>2, <1>7, BitmapUpdate DEF mid
<1>9. /\ DiskTyped(e) /\ Taken(e) = rest /\ TakenInodes(disk) \ {f} \subseteq TakenInodes(e)
      /\ SameInodes(mid, e) /\ SameData(mid, e)
  <2>1. CASE used = Direct
    <3>1. e = block_write(mid, INODE_BITMAP_BLOCK, TakenInodes(disk) \ {f})
      BY <1>6, <1>8, <2>1 DEF bitmap_free, block_read, TakenInodes
    <3>2. TakenInodes(disk) \ {f} \subseteq Inum
      BY <1>2 DEF DiskTyped
    <3>3. /\ DiskTyped(e) /\ Taken(e) = Taken(mid) /\ TakenInodes(e) = TakenInodes(disk) \ {f}
          /\ SameInodes(mid, e) /\ SameData(mid, e)
      BY <1>8, <3>1, <3>2, BitmapUpdate
    <3> QED BY <1>8, <3>3
  <2>2. CASE used # Direct
    BY <1>6, <1>8, <2>2 DEF SameInodes, SameData
  <2> QED BY <2>1, <2>2
<1>10. \A g \in Inum : inode_read(e, g) = inode_read(disk, g)
  BY <1>8, <1>9 DEF SameInodes
<1>11. \A n \in Dnum : data_read(e, n) = data_read(disk, n)
  BY <1>8, <1>9 DEF SameData
<1>12. \A g \in l : Blocks(HeldOn(disk, copy, g)) \cap Blocks(inode) = {}
                    /\ g \in live /\ g # f
  BY <1>1, <1>2, <1>3 DEF Kept
<1>13. \A g \in live \ {f} : Blocks(HeldOn(disk, copy, g)) \subseteq Taken(e)
                             /\ Blocks(HeldOn(disk, copy, g)) \subseteq Dnum
  BY <1>2, <1>9, <1>12, KeptFacts DEF rest, DiskTyped
<1>20. LeftAlone(disk, copy, live, e, copy, f)
  BY <1>10, <1>11, <1>13 DEF LeftAlone
<1>21. OthersKept(disk, copy, live, e, copy, failed, f)
  BY <1>2, <1>20, OthersStay
<1>14. \A g \in l :
         /\ HeldOn(e, copy, g) = HeldOn(disk, copy, g)
         /\ FileKept(e, inode_read(e, g), HeldOn(e, copy, g), g, failed)
  BY <1>21 DEF OthersKept
<1>15. \A g, h \in l : g # h =>
         Blocks(HeldOn(e, copy, g)) \cap Blocks(HeldOn(e, copy, h)) = {}
  <2>1. \A g, h \in live : g # h =>
          Blocks(HeldOn(disk, copy, g)) \cap Blocks(HeldOn(disk, copy, h)) = {}
    BY <1>2 DEF Kept
  <2> QED BY <1>12, <1>14, <2>1
<1>16. failed \/ Taken(e) = UNION {Blocks(inode_read(e, g)) : g \in l}
  <2> SUFFICES ASSUME ~ failed PROVE Taken(e) = UNION {Blocks(inode_read(e, g)) : g \in l}
    OBVIOUS
  <2>1. Taken(disk) = UNION {Blocks(inode_read(disk, g)) : g \in live}
    BY <1>2 DEF Kept
  <2>2. \A g \in l : /\ inode_read(e, g) = inode_read(disk, g) /\ g \in live /\ g # f
                     /\ Blocks(inode_read(disk, g)) \cap Blocks(inode) = {}
    BY <1>2, <1>10, <1>12, KeptFacts
  <2>3. Blocks(inode_read(disk, f)) = Blocks(inode)
    BY DEF inode
  <2>4. ASSUME NEW n \in Taken(e) PROVE \E g \in l : n \in Blocks(inode_read(e, g))
    <3>1. n \in Taken(disk) /\ n \notin Blocks(inode)
      BY <1>9 DEF rest
    <3>2. PICK g \in live : n \in Blocks(inode_read(disk, g))
      BY <2>1, <3>1
    <3> QED BY <2>2, <2>3, <3>1, <3>2
  <2>5. ASSUME NEW g \in l, NEW n \in Blocks(inode_read(e, g)) PROVE n \in Taken(e)
    BY <1>9, <2>1, <2>2 DEF rest
  <2> QED BY <2>4, <2>5
<1>17. /\ copy \in [Inum -> Inode \cup {NONE}] /\ failed \in BOOLEAN
       /\ l \subseteq TakenInodes(e)
       /\ \A g \in Inum : copy[g] # NONE => g \in l
  BY <1>1, <1>2, <1>9 DEF Kept
<1>18. Kept(e, copy, l, failed)
  BY <1>9, <1>14, <1>15, <1>16, <1>17 DEF Kept
<1>19. FilesKept'
  BY <1>1, <1>18 DEF FilesKept, e
<1> QED BY <1>1, <1>19, <1>20, <1>21 DEF e

-----------------------------------------------------------------------------
(* The bytes of a write. *)
Bytes(f, marks) == [i \in DOMAIN marks |-> [file |-> f, mark |-> marks[i]]]

LEMMA WrittenBytes ==
  ASSUME NEW f \in Inum, NEW marks \in Marks
  PROVE  /\ Bytes(f, marks) \in Seq(Byte) /\ Len(Bytes(f, marks)) = Len(marks)
         /\ Len(marks) \in Nat
         /\ \A i \in 1 .. Len(marks) : Bytes(f, marks)[i].file = f
<1>1. marks \in Seq(Mark)
  BY FileIOAssumption
<1>2. Len(marks) \in Nat /\ DOMAIN marks = 1 .. Len(marks)
      /\ \A i \in 1 .. Len(marks) : marks[i] \in Mark
  BY <1>1
<1>3. \A i \in 1 .. Len(marks) : [file |-> f, mark |-> marks[i]] \in Byte
  BY <1>2 DEF Byte
<1>4. Bytes(f, marks) = [i \in 1 .. Len(marks) |-> [file |-> f, mark |-> marks[i]]]
  BY <1>2 DEF Bytes
<1>5. Bytes(f, marks) \in [1 .. Len(marks) -> Byte]
  BY <1>3, <1>4
<1>6. Bytes(f, marks) \in Seq(Byte) /\ Len(Bytes(f, marks)) = Len(marks)
  BY <1>2, <1>5
<1>7. \A i \in 1 .. Len(marks) : Bytes(f, marks)[i].file = f
  BY <1>4
<1> QED BY <1>2, <1>6, <1>7

(* What a step that writes does. *)
Wrote(f, offset, bytes, stop, e) ==
  /\ copy[f] # NONE /\ f \in live /\ copy[f] = HeldOn(disk, copy, f)
  /\ MayWrite(disk, copy[f], offset, bytes)
  /\ Done(disk, copy[f], f, offset, bytes, stop, e)
  /\ disk' = e.disk /\ copy' = [copy EXCEPT ![f] = e.inode]
  /\ failed' = (failed \/ ~ e.ok) /\ live' = live

LEMMA WriteStep ==
  ASSUME FilesKept, NEW f \in Inum, NEW marks \in Marks, NEW offset \in 0 .. MAX_FILE_SIZE,
         Write(f, offset, marks)
  PROVE  \E stop, e : Wrote(f, offset, Bytes(f, marks), stop, e)
<1> DEFINE inode == copy[f]
           bytes == Bytes(f, marks)
           e == file_write(disk, inode, f, offset, bytes)
<1>1. /\ inode # NONE /\ ~ Refuses(inode, offset, Len(bytes))
      /\ disk' = e.disk /\ copy' = [copy EXCEPT ![f] = e.inode]
      /\ failed' = (failed \/ ~ e.ok) /\ live' = live
  BY DEF Write, Bytes
<1>2. Kept(disk, copy, live, failed) /\ DiskTyped(disk)
  BY DEF FilesKept, Kept
<1>3. f \in live /\ inode = HeldOn(disk, copy, f)
  BY <1>1, <1>2 DEF Kept, HeldOn
<1>4. Sound(inode) /\ Blocks(inode) \subseteq Taken(disk)
  BY <1>2, <1>3, KeptFacts
<1>5. bytes \in Seq(Byte) /\ Len(bytes) \in Nat
  BY WrittenBytes
<1> HIDE DEF e, bytes
<1>6. offset <= inode.size /\ offset + Len(bytes) <= MAX_FILE_SIZE
  <2>1. inode.size \in Nat /\ MAX_FILE_SIZE \in Nat
    BY <1>4, InodeFields, Numbers DEF Sound
  <2> QED BY <1>1, <1>5, <2>1 DEF Refuses
<1>7. MayWrite(disk, inode, offset, bytes)
  BY <1>2, <1>4, <1>5, <1>6 DEF MayWrite
<1>8. PICK stop : Done(disk, inode, f, offset, bytes, stop, e)
  BY <1>7, WriteDone DEF e
<1>9. Wrote(f, offset, bytes, stop, e)
  BY <1>1, <1>3, <1>7, <1>8 DEF Wrote
<1> QED BY <1>9 DEF bytes

LEMMA WriteKept ==
  ASSUME FilesKept, NEW f \in Inum, NEW offset, NEW marks \in Marks, NEW stop, NEW e,
         Wrote(f, offset, Bytes(f, marks), stop, e)
  PROVE  /\ FilesKept' /\ OthersKept(disk, copy, live, disk', copy', failed', f)
         /\ HeldOn(disk', copy', f) = e.inode
         /\ LeftAlone(disk, copy, live, disk', copy', f)
<1> DEFINE inode == copy[f]
           bytes == Bytes(f, marks)
           stored == inode_read(disk, f)
           c == [copy EXCEPT ![f] = e.inode]
           x == failed \/ ~ e.ok
           last == offset + Len(bytes)
<1>1. /\ inode # NONE /\ f \in live /\ inode = HeldOn(disk, copy, f)
      /\ MayWrite(disk, inode, offset, bytes)
      /\ Done(disk, inode, f, offset, bytes, stop, e)
      /\ disk' = e.disk /\ copy' = c /\ failed' = x /\ live' = live
  BY DEF Wrote
<1>2. Kept(disk, copy, live, failed) /\ DiskTyped(disk) /\ failed \in BOOLEAN
  BY DEF FilesKept, Kept
<1>3. /\ Sound(inode) /\ Blocks(inode) \subseteq Taken(disk)
      /\ FileKept(disk, stored, inode, f, failed)
      /\ failed \/ inode = stored
  <2>1. FileKept(disk, inode_read(disk, f), HeldOn(disk, copy, f), f, failed)
    BY <1>1, <1>2 DEF Kept
  <2> HIDE DEF inode
  <2>2. FileKept(disk, stored, inode, f, failed)
    BY <1>1, <2>1
  <2> QED BY <2>2 DEF FileKept
<1>4. /\ e.ok \in BOOLEAN /\ DiskTyped(e.disk) /\ Sound(e.inode)
      /\ TakenInodes(e.disk) = TakenInodes(disk)
      /\ Taken(e.disk) = Taken(disk) \cup Blocks(e.inode)
      /\ \A a \in Mapped(inode) : a \in Mapped(e.inode) /\ e.inode.addrs[a] = inode.addrs[a]
      /\ \A a \in Mapped(e.inode) \ Mapped(inode) : e.inode.addrs[a] \notin Taken(disk)
  BY <1>1 DEF Done
<1>5. e.inode \in Inode /\ e.inode # NONE
  BY <1>4, NoneAssumption DEF Sound
<1>6. c \in [Inum -> Inode \cup {NONE}] /\ \A g \in Inum : c[g] = IF g = f THEN e.inode ELSE copy[g]
  BY <1>2, <1>5 DEF Kept
<1>7. HeldOn(e.disk, c, f) = e.inode
  BY <1>5, <1>6 DEF HeldOn
<1>8. /\ Len(bytes) \in Nat /\ offset \in Nat /\ inode.size \in Nat
      /\ \A i \in 1 .. Len(bytes) : bytes[i].file = f
  <2>1. inode.size \in Nat
    BY <1>3, InodeFields, Numbers DEF Sound
  <2> QED BY <1>1, <2>1, WrittenBytes, ChunkBytes
<1> HIDE DEF c, x, inode, stored, bytes
<1>9. Blocks(inode) \subseteq Blocks(e.inode)
      /\ \A n \in Blocks(e.inode) : n \in Taken(disk) => n \in Blocks(inode)
  <2>1. Blocks(inode) \subseteq Blocks(e.inode)
    BY <1>4 DEF Blocks
  <2>2. ASSUME NEW n \in Blocks(e.inode), n \in Taken(disk) PROVE n \in Blocks(inode)
    <3>1. PICK a \in Mapped(e.inode) : n = e.inode.addrs[a]
      BY DEF Blocks
    <3>2. a \in Mapped(inode)
      BY <1>4, <2>2, <3>1
    <3> QED BY <1>4, <3>1, <3>2 DEF Blocks
  <2> QED BY <2>1, <2>2
<1>10. \A g \in live \ {f} : /\ g \in Inum
                             /\ Blocks(HeldOn(disk, copy, g)) \subseteq Taken(disk)
                             /\ Blocks(HeldOn(disk, copy, g)) \subseteq Dnum
                             /\ Blocks(HeldOn(disk, copy, g)) \cap Blocks(e.inode) = {}
  <2> SUFFICES ASSUME NEW g \in live \ {f}
               PROVE  /\ g \in Inum
                      /\ Blocks(HeldOn(disk, copy, g)) \subseteq Taken(disk)
                      /\ Blocks(HeldOn(disk, copy, g)) \subseteq Dnum
                      /\ Blocks(HeldOn(disk, copy, g)) \cap Blocks(e.inode) = {}
    OBVIOUS
  <2>1. Blocks(HeldOn(disk, copy, g)) \subseteq Taken(disk) /\ g \in Inum
    BY <1>2, KeptFacts
  <2>2. Blocks(HeldOn(disk, copy, g)) \cap Blocks(inode) = {}
    BY <1>1, <1>2 DEF Kept
  <2>3. Taken(disk) \subseteq Dnum
    BY <1>2 DEF DiskTyped
  <2> QED BY <1>9, <2>1, <2>2, <2>3
<1>11. LeftAlone(disk, copy, live, e.disk, c, f)
  <2>1. \A g \in Inum \ {f} : inode_read(e.disk, g) = inode_read(disk, g) /\ c[g] = copy[g]
    BY <1>1, <1>6 DEF Done
  <2>2. \A n \in Dnum \ Blocks(e.inode) : data_read(e.disk, n) = data_read(disk, n)
    BY <1>1 DEF Done
  <2>3. \A g \in live \ {f} :
          /\ Blocks(HeldOn(disk, copy, g)) \subseteq Taken(e.disk)
          /\ \A n \in Blocks(HeldOn(disk, copy, g)) : data_read(e.disk, n) = data_read(disk, n)
    BY <1>4, <1>10, <2>2
  <2> QED BY <2>1, <2>3 DEF LeftAlone
<1>12. OthersKept(disk, copy, live, e.disk, c, x, f)
  BY <1>2, <1>11, OthersStay DEF x
<1>13. FileKept(e.disk, inode_read(e.disk, f), e.inode, f, x)
  <2> DEFINE stored2 == inode_read(e.disk, f)
  <2>1. Sound(stored2) /\ Ahead(e.inode, stored2)
    <3>1. CASE e.ok /\ last > inode.size
      BY <1>1, <1>4, <3>1 DEF Done, Ahead
    <3>2. CASE ~ (e.ok /\ last > inode.size)
      <4>1. stored2 = stored /\ e.inode.size = inode.size
        BY <1>1, <3>2 DEF Done, stored
      <4>2. Sound(stored) /\ Ahead(inode, stored)
        BY <1>3 DEF FileKept
      <4>3. \A a \in Mapped(stored) : a \in Mapped(inode)
        BY <4>2 DEF Ahead, Mapped
      <4> QED BY <1>4, <4>1, <4>2, <4>3 DEF Ahead
    <3> QED BY <3>1, <3>2
  <2>2. x \/ e.inode = stored2
    <3> SUFFICES ASSUME ~ x PROVE e.inode = stored2
      OBVIOUS
    <3>1. e.ok /\ inode = stored
      BY <1>3 DEF x
    <3>2. CASE last > inode.size
      BY <1>1, <3>1, <3>2 DEF Done
    <3>3. CASE ~ (last > inode.size)
      <4>1. last <= inode.size
        BY <1>8, <3>3
      <4> QED BY <1>1, <3>1, <3>3, <4>1 DEF Done, stored
    <3> QED BY <3>2, <3>3
  <2> HIDE DEF stored2
  <2>3. ASSUME NEW a \in Mapped(e.inode), NEW i \in 0 .. (BLOCK_SIZE - 1)
        PROVE  LET byte == data_read(e.disk, e.inode.addrs[a])[i]
               IN  /\ byte = ZERO \/ byte.file = f
                   /\ x \/ a * BLOCK_SIZE + i < e.inode.size \/ byte = ZERO
    <3> DEFINE byte == data_read(e.disk, e.inode.addrs[a])[i]
               n == a * BLOCK_SIZE + i
               len == Len(bytes)
    <3>1. byte = ByteAfter(disk, inode, offset, bytes, stop, a, i)
      BY <1>1 DEF Done
    <3>2. e.inode.size = (IF e.ok /\ last > inode.size THEN last ELSE inode.size)
          /\ stop \in (First(offset) - 1) .. Last(offset, Len(bytes))
      BY <1>1 DEF Done
    <3>3. First(offset) \in Nat /\ Last(offset, Len(bytes)) \in Int
      BY <1>1, ChunkBytes, ChunkRange
    <3>4. n \in Int /\ a \in Nat
      <4>1. a \in Nat /\ i \in Nat /\ BLOCK_SIZE \in Nat
        BY Numbers DEF Mapped
      <4> QED BY <4>1, SMT
    <3> HIDE DEF byte, n, len
    <3>5. CASE a \in First(offset) .. stop /\ i \in From(a, offset) .. To(a, offset, Len(bytes))
      <4>1. a \in First(offset) .. Last(offset, Len(bytes))
        BY <3>2, <3>3, <3>5
      <4>2. byte = bytes[Source(a, offset, i)] /\ Source(a, offset, i) \in 1 .. Len(bytes)
        BY <1>1, <3>1, <3>5, <4>1, ChunkBytes DEF ByteAfter
      <4>3. byte.file = f
        BY <1>8, <4>2
      <4>4. n \in offset .. (offset + Len(bytes) - 1)
        BY <1>1, <3>4, <3>5, <4>1, ChunkBytes, ChunkRange DEF n
      <4>5. x \/ n < e.inode.size
        BY <1>4, <1>8, <3>2, <3>4, <4>4 DEF x
      <4> QED BY <4>3, <4>5 DEF n, byte
    <3>6. CASE ~ (a \in First(offset) .. stop /\ i \in From(a, offset) .. To(a, offset, Len(bytes)))
      <4>1. CASE a \in Mapped(inode)
        <5>1. byte = data_read(disk, inode.addrs[a])[i]
          BY <3>1, <3>6, <4>1 DEF ByteAfter
        <5>2. /\ byte = ZERO \/ byte.file = f
              /\ failed \/ n < inode.size \/ byte = ZERO
          BY <1>3, <4>1, <5>1 DEF FileKept, n
        <5>3. n < inode.size => n < e.inode.size
          BY <1>8, <3>2, <3>4
        <5> QED BY <5>2, <5>3 DEF x, n, byte
      <4>2. CASE a \notin Mapped(inode)
        <5>1. byte = ZERO
          BY <3>1, <3>6, <4>2 DEF ByteAfter
        <5> QED BY <5>1 DEF byte
      <4> QED BY <4>1, <4>2
    <3> QED BY <3>5, <3>6
  <2> QED BY <1>4, <2>1, <2>2, <2>3 DEF FileKept, stored2
<1>14. \A g \in live : FileKept(e.disk, inode_read(e.disk, g), HeldOn(e.disk, c, g), g, x)
  BY <1>7, <1>12, <1>13 DEF OthersKept
<1>15. \A g, h \in live : g # h =>
         Blocks(HeldOn(e.disk, c, g)) \cap Blocks(HeldOn(e.disk, c, h)) = {}
  <2>1. \A g, h \in live : g # h =>
          Blocks(HeldOn(disk, copy, g)) \cap Blocks(HeldOn(disk, copy, h)) = {}
    BY <1>2 DEF Kept
  <2>2. \A g \in live \ {f} : HeldOn(e.disk, c, g) = HeldOn(disk, copy, g)
    BY <1>12 DEF OthersKept
  <2> SUFFICES ASSUME NEW g \in live, NEW h \in live, g # h
               PROVE  Blocks(HeldOn(e.disk, c, g)) \cap Blocks(HeldOn(e.disk, c, h)) = {}
    OBVIOUS
  <2>3. CASE g = f
    BY <1>7, <1>10, <2>2, <2>3
  <2>4. CASE h = f
    BY <1>7, <1>10, <2>2, <2>4
  <2>5. CASE g # f /\ h # f
    BY <2>1, <2>2, <2>5
  <2> QED BY <2>3, <2>4, <2>5
<1>16. x \/ Taken(e.disk) = UNION {Blocks(inode_read(e.disk, g)) : g \in live}
  <2> SUFFICES ASSUME ~ x
               PROVE  Taken(e.disk) = UNION {Blocks(inode_read(e.disk, g)) : g \in live}
    OBVIOUS
  <2>1. Taken(disk) = UNION {Blocks(inode_read(disk, g)) : g \in live}
    BY <1>2 DEF Kept, x
  <2>2. \A g \in live \ {f} : inode_read(e.disk, g) = inode_read(disk, g)
    BY <1>10, <1>11 DEF LeftAlone
  <2>3. inode_read(e.disk, f) = e.inode
    BY <1>13 DEF FileKept
  <2>4. inode_read(disk, f) = inode
    BY <1>3 DEF x, stored
  <2> HIDE DEF x
  <2>5. ASSUME NEW n \in Taken(e.disk) PROVE \E g \in live : n \in Blocks(inode_read(e.disk, g))
    <3>1. CASE n \in Blocks(e.inode)
      BY <1>1, <2>3, <3>1
    <3>2. CASE n \notin Blocks(e.inode)
      <4>1. n \in Taken(disk)
        BY <1>4, <3>2
      <4>2. PICK g \in live : n \in Blocks(inode_read(disk, g))
        BY <2>1, <4>1
      <4>3. g # f
        BY <1>9, <2>4, <3>2, <4>2
      <4> QED BY <2>2, <4>2, <4>3
    <3> QED BY <3>1, <3>2
  <2>6. ASSUME NEW g \in live, NEW n \in Blocks(inode_read(e.disk, g)) PROVE n \in Taken(e.disk)
    <3>1. CASE g = f
      BY <1>4, <2>3, <3>1
    <3>2. CASE g # f
      BY <1>4, <2>1, <2>2, <3>2
    <3> QED BY <3>1, <3>2
  <2> QED BY <2>5, <2>6
<1>17. /\ x \in BOOLEAN /\ live \subseteq TakenInodes(e.disk)
       /\ \A g \in Inum : c[g] # NONE => g \in live
  BY <1>1, <1>2, <1>4, <1>6 DEF Kept, x
<1>18. Kept(e.disk, c, live, x)
  BY <1>4, <1>6, <1>14, <1>15, <1>16, <1>17 DEF Kept
<1>19. FilesKept'
  BY <1>1, <1>18 DEF FilesKept
<1> QED BY <1>1, <1>7, <1>11, <1>12, <1>19

-----------------------------------------------------------------------------
LEMMA StepKept == FilesKept /\ [Next]_vars => FilesKept'
<1> SUFFICES ASSUME FilesKept, [Next]_vars PROVE FilesKept'
  OBVIOUS
<1>1. CASE Create
  BY <1>1, CreateKept
<1>2. ASSUME NEW f \in Inum, Open(f) PROVE FilesKept'
  BY <1>2, OpenKept
<1>3. ASSUME NEW f \in Inum, Close(f) PROVE FilesKept'
  BY <1>3, CloseKept
<1>4. ASSUME NEW f \in Inum, Remove(f) PROVE FilesKept'
  BY <1>4, RemoveKept
<1>5. ASSUME NEW f \in Inum, NEW marks \in Marks, NEW offset \in 0 .. MAX_FILE_SIZE,
             Write(f, offset, marks)
      PROVE  FilesKept'
  <2>1. PICK stop, e : Wrote(f, offset, Bytes(f, marks), stop, e)
    BY <1>5, WriteStep
  <2> QED BY <2>1, WriteKept
<1>6. CASE UNCHANGED vars
  BY <1>6 DEF vars, FilesKept
<1> QED BY <1>1, <1>2, <1>3, <1>4, <1>5, <1>6 DEF Next

(* In every state: the disk is well formed, the files in use are sound on  *)
(* the disk and in their callers' structs, they share no block, their      *)
(* blocks are taken and hold bytes of their own only, none of it behind    *)
(* their ends and no block lost unless a write has failed.                 *)
THEOREM Invariance == Spec => []FilesKept
<1>1. Init => FilesKept
  BY InitKept
<1>2. FilesKept /\ [Next]_vars => FilesKept'
  BY StepKept
<1> QED BY <1>1, <1>2, PTL DEF Spec

LEMMA HeldHere == \A f : Held(f) = HeldOn(disk, copy, f)
BY DEF Held, HeldOn

(* Both bitmaps only have bits of inodes and blocks that there are, table  *)
(* blocks hold inodes and data blocks bytes, a struct is an inode's, and   *)
(* the inodes in use are taken.                                            *)
THEOREM TypeCorrect == Spec => []TypeOK
<1>1. FilesKept => TypeOK
  <2> SUFFICES ASSUME FilesKept PROVE TypeOK
    OBVIOUS
  <2>1. Kept(disk, copy, live, failed)
    BY DEF FilesKept
  <2>2. /\ disk[INODE_BITMAP_BLOCK] \subseteq Inum /\ disk[DATA_BITMAP_BLOCK] \subseteq Dnum
        /\ \A n \in INODE_TABLE_START .. (DATA_REGION_START - 1) :
             disk[n] \in [0 .. (INODES_PER_BLOCK - 1) -> Inode]
        /\ \A dnum \in Dnum : disk[DBLOCK(dnum)] \in DataBlock
    BY <2>1 DEF Kept, DiskTyped, Taken, TakenInodes, data_read, block_read
  <2>3. \A n \in Bnum :
          CASE n = INODE_BITMAP_BLOCK -> disk[n] \subseteq Inum
            [] n = DATA_BITMAP_BLOCK -> disk[n] \subseteq Dnum
            [] n \in INODE_TABLE_START .. (DATA_REGION_START - 1) ->
                 disk[n] \in [0 .. (INODES_PER_BLOCK - 1) -> Inode]
            [] n \in {DBLOCK(dnum) : dnum \in Dnum} -> disk[n] \in DataBlock
            [] OTHER -> TRUE
    BY <2>2, Places
  <2>4. /\ copy \in [Inum -> Inode \cup {NONE}]
        /\ live \subseteq disk[INODE_BITMAP_BLOCK] /\ failed \in BOOLEAN
    BY <2>1 DEF Kept, TakenInodes
  <2> QED BY <2>3, <2>4 DEF TypeOK
<1> QED BY <1>1, Invariance, PTL

(* No two pointers of the files in use, on whatever struct, lead to one    *)
(* data block, and no block that a file has can be allocated again.        *)
THEOREM BlocksStayApart == Spec => []BlocksApart
<1>1. FilesKept => BlocksApart
  <2> SUFFICES ASSUME FilesKept PROVE BlocksApart
    OBVIOUS
  <2>1. Kept(disk, copy, live, failed)
    BY DEF FilesKept
  <2>2. ASSUME NEW f \in live
        PROVE  LET inode == Held(f) IN
                 /\ Blocks(inode) \subseteq disk[DATA_BITMAP_BLOCK]
                 /\ \A i, j \in Mapped(inode) : inode.addrs[i] = inode.addrs[j] => i = j
                 /\ \A i \in Mapped(inode) : 0 .. i \subseteq Mapped(inode)
                 /\ \A i \in Direct : i * BLOCK_SIZE < inode.size => i \in Mapped(inode)
    <3> DEFINE inode == Held(f)
    <3>1. Sound(inode) /\ Blocks(inode) \subseteq Taken(disk)
      BY <2>1, KeptFacts, HeldHere
    <3> HIDE DEF inode
    <3>2. /\ Blocks(inode) \subseteq disk[DATA_BITMAP_BLOCK]
          /\ \A i, j \in Mapped(inode) : inode.addrs[i] = inode.addrs[j] => i = j
          /\ \A i \in Mapped(inode) : 0 .. i \subseteq Mapped(inode)
          /\ \A i \in Direct : i * BLOCK_SIZE < inode.size => i \in Mapped(inode)
      BY <3>1 DEF Sound, Taken
    <3> QED BY <3>2 DEF inode
  <2>3. \A f, g \in live : f # g => Blocks(Held(f)) \cap Blocks(Held(g)) = {}
    BY <2>1, HeldHere DEF Kept
  <2> QED BY <2>2, <2>3 DEF BlocksApart
<1> QED BY <1>1, Invariance, PTL

(* As long as no write has failed, exactly the blocks that the inodes on   *)
(* the disk point to are taken, and a struct says what the disk says.      *)
THEOREM SpaceStaysAccounted == Spec => []SpaceAccounted
<1>1. FilesKept => SpaceAccounted
  <2> SUFFICES ASSUME FilesKept, ~ failed
               PROVE  /\ disk[DATA_BITMAP_BLOCK] = UNION {Blocks(inode_read(disk, f)) : f \in live}
                      /\ \A f \in live : Held(f) = inode_read(disk, f)
    BY DEF SpaceAccounted
  <2>1. Kept(disk, copy, live, failed)
    BY DEF FilesKept
  <2>2. Taken(disk) = UNION {Blocks(inode_read(disk, f)) : f \in live}
    BY <2>1 DEF Kept
  <2>3. \A f \in live : Held(f) = inode_read(disk, f)
    BY <2>1, KeptFacts, HeldHere
  <2> QED BY <2>2, <2>3, Zenon DEF Taken
<1> QED BY <1>1, Invariance, PTL

(* A file's blocks hold zeros and bytes written to that file, also when    *)
(* they were another's before: data_alloc wipes what it hands out.         *)
THEOREM BytesStayOwn == Spec => []NoForeignBytes
<1>1. FilesKept => NoForeignBytes
  <2> SUFFICES ASSUME FilesKept, NEW f \in live, NEW dnum \in Blocks(Held(f)),
                      NEW i \in 0 .. (BLOCK_SIZE - 1)
               PROVE  LET byte == data_read(disk, dnum)[i] IN byte = ZERO \/ byte.file = f
    BY DEF NoForeignBytes
  <2> DEFINE held == Held(f)
  <2>1. FileKept(disk, inode_read(disk, f), held, f, failed)
    BY HeldHere DEF FilesKept, Kept
  <2> HIDE DEF held
  <2>2. PICK a \in Mapped(held) : dnum = held.addrs[a]
    BY DEF Blocks, held
  <2> QED BY <2>1, <2>2 DEF FileKept
<1> QED BY <1>1, Invariance, PTL

-----------------------------------------------------------------------------
(* file_read. *)

(* What the caller of file_read has made sure of. *)
MayRead(d, inode, offset, count) ==
  /\ Sound(inode) /\ offset \in Nat /\ count \in Nat
  /\ offset <= inode.size /\ offset + count <= MAX_FILE_SIZE

(* What file_read has read from block addr on. *)
ReadOn(d, inode, offset, count, read, addr) ==
  IF addr > Last(offset, count) \/ inode.addrs[addr] = -1 THEN <<>>
  ELSE Chunk(d, inode, addr, offset, count) \o read[addr + 1]

Reads(d, inode, offset, count, read) ==
  /\ \A addr \in First(offset) .. (Last(offset, count) + 1) :
       read[addr] = ReadOn(d, inode, offset, count, read, addr)
  /\ file_read(d, inode, offset, count) = read[First(offset)]

LEMMA ReadDefined ==
  ASSUME NEW d, NEW inode, NEW offset, NEW count, MayRead(d, inode, offset, count)
  PROVE  \E read : Reads(d, inode, offset, count, read)
<1> DEFINE f == First(offset)
           l == Last(offset, count)
           On(g, addr) == IF addr > l \/ inode.addrs[addr] = -1 THEN <<>>
                          ELSE Chunk(d, inode, addr, offset, count) \o g[addr + 1]
           Obeys(g, m) == g = [addr \in m .. (l + 1) |-> On(g, addr)]
           len == l + 1 - f
           S == {n \in 0 .. len : \E g : Obeys(g, l + 1 - n)}
           read == CHOOSE g : Obeys(g, f)
<1>1. f \in Nat /\ l \in Int /\ l >= f - 1 /\ len \in Nat /\ len = l + 1 - f
  BY ChunkRange DEF MayRead
<1>2. file_read(d, inode, offset, count) = read[f]
  BY Zenon DEF file_read
<1> DEFINE Piece(addr) == Chunk(d, inode, addr, offset, count)
           Stops(addr) == addr > l \/ inode.addrs[addr] = -1
<1>3. \A g, addr : On(g, addr) = IF Stops(addr) THEN <<>> ELSE Piece(addr) \o g[addr + 1]
  BY Zenon
<1>4. \A addr : addr > l => Stops(addr)
  OBVIOUS
<1> HIDE DEF f, l, len, On, Piece, Stops
<1>5. 0 \in S
  <2> DEFINE g == [addr \in (l + 1) .. (l + 1) |-> <<>>]
  <2>1. \A addr \in (l + 1) .. (l + 1) : On(g, addr) = <<>>
    <3>1. \A addr \in (l + 1) .. (l + 1) : addr > l
      BY <1>1
    <3> QED BY <1>3, <1>4, <3>1
  <2>2. Obeys(g, l + 1)
    BY <2>1, Zenon
  <2>3. l + 1 - 0 = l + 1 /\ 0 \in 0 .. len
    BY <1>1
  <2> HIDE DEF Obeys
  <2> QED BY <2>2, <2>3
<1>6. ASSUME NEW n \in 0 .. len, n \in S, n < len PROVE n + 1 \in S
  <2> DEFINE m == l + 1 - n
  <2>1. m \in Int /\ m <= l + 1 /\ m > f /\ n + 1 \in 0 .. len /\ l + 1 - (n + 1) = m - 1
    BY <1>1, <1>6
  <2>2. PICK g : Obeys(g, m)
    BY <1>6
  <2> HIDE DEF m
  <2> DEFINE h == [addr \in (m - 1) .. (l + 1) |->
                     IF addr = m - 1 THEN On(g, addr) ELSE g[addr]]
  <2>3. \A addr \in m .. (l + 1) : h[addr] = g[addr] /\ g[addr] = On(g, addr)
    <3>1. \A addr \in m .. (l + 1) : addr \in (m - 1) .. (l + 1) /\ addr # m - 1
      BY <1>1, <2>1
    <3>2. \A addr \in m .. (l + 1) : g[addr] = On(g, addr)
      BY <2>2
    <3> QED BY <3>1, <3>2
  <2>4. h[m - 1] = On(g, m - 1)
    <3>1. m - 1 \in (m - 1) .. (l + 1)
      BY <1>1, <2>1
    <3> QED BY <3>1
  <2>5. DOMAIN h = (m - 1) .. (l + 1)
    OBVIOUS
  <2>6. h = [addr \in DOMAIN h |-> h[addr]]
    OBVIOUS
  <2> HIDE DEF h, Obeys
  <2>7. ASSUME NEW addr \in (m - 1) .. (l + 1) PROVE h[addr] = On(h, addr)
    <3>1. h[addr] = On(g, addr)
      <4>1. addr = m - 1 \/ addr \in m .. (l + 1)
        BY <1>1, <2>1
      <4> QED BY <2>3, <2>4, <4>1
    <3>2. CASE Stops(addr)
      BY <1>3, <3>1, <3>2
    <3>3. CASE ~ Stops(addr)
      <4>1. addr + 1 \in m .. (l + 1)
        <5>1. ~ (addr > l)
          BY <1>4, <3>3
        <5> QED BY <1>1, <2>1, <5>1
      <4>2. h[addr + 1] = g[addr + 1]
        BY <2>3, <4>1
      <4> QED BY <1>3, <3>1, <3>3, <4>2
    <3> QED BY <3>2, <3>3
  <2>8. h = [addr \in (m - 1) .. (l + 1) |-> On(h, addr)]
    <3>1. [addr \in (m - 1) .. (l + 1) |-> h[addr]] = [addr \in (m - 1) .. (l + 1) |-> On(h, addr)]
      BY <2>7, Zenon
    <3> QED BY <2>5, <2>6, <3>1
  <2>9. Obeys(h, m - 1)
    BY <2>8, Zenon DEF Obeys
  <2> QED BY <2>1, <2>9
<1>7. len \in S
  <2> HIDE DEF S
  <2>0. 0 \in Int /\ len \in Int
    BY <1>1
  <2>1. 0 .. len \subseteq S
    BY <1>5, <1>6, <2>0, Induction
  <2> QED BY <1>1, <2>1
<1>8. \E g : Obeys(g, f)
  <2>1. l + 1 - len = f
    BY <1>1
  <2> HIDE DEF Obeys
  <2> QED BY <1>7, <2>1
<1>9. Obeys(read, f)
  <2> HIDE DEF Obeys
  <2> QED BY <1>8, Zenon
<1> HIDE DEF read
<1>10. \A addr \in f .. (l + 1) : read[addr] = On(read, addr)
  BY <1>9
<1> QED BY <1>2, <1>10 DEF Reads, ReadOn, On, f, l

(* Where in the file the chunk of block addr begins. *)
Start(offset, addr) == IF addr = First(offset) THEN offset ELSE addr * BLOCK_SIZE

(* bytes are those of the file from position start on, none behind end,    *)
(* and all before end that the file has.                                   *)
ReadFrom(d, inode, start, last, bytes) ==
  /\ Len(bytes) \in Nat /\ DOMAIN bytes = 1 .. Len(bytes)
  /\ bytes = [n \in 1 .. Len(bytes) |-> bytes[n]]
  /\ \A n \in 1 .. Len(bytes) :
       /\ start + n - 1 < last
       /\ \E a \in Mapped(inode), i \in 0 .. (BLOCK_SIZE - 1) :
            start + n - 1 = a * BLOCK_SIZE + i /\ bytes[n] = data_read(d, inode.addrs[a])[i]
  /\ \A p \in Nat : start <= p /\ p < last /\ p < inode.size => p - start + 1 \in 1 .. Len(bytes)

(* The chunk of a block that is mapped, with what is read behind it. *)
LEMMA ChunkRead ==
  ASSUME NEW d, NEW inode, NEW offset, NEW count, MayRead(d, inode, offset, count),
         NEW addr \in First(offset) .. Last(offset, count), addr \in Mapped(inode),
         NEW rest, ReadFrom(d, inode, Start(offset, addr + 1), offset + count, rest),
         addr = Last(offset, count) => rest = <<>>
  PROVE  ReadFrom(d, inode, Start(offset, addr), offset + count,
                  Chunk(d, inode, addr, offset, count) \o rest)
<1> DEFINE K == BLOCK_SIZE
           from == From(addr, offset)
           to == To(addr, offset, count)
           l == Last(offset, count)
           f == First(offset)
           A == addr * K
           last == offset + count
           len == to - from + 1
           chunk == Chunk(d, inode, addr, offset, count)
           start == Start(offset, addr)
           next == Start(offset, addr + 1)
           bytes == chunk \o rest
           t == (offset + count - 1) % K
<1>1. /\ K \in Nat \ {0} /\ offset \in Nat /\ count \in Nat /\ last \in Nat
      /\ f \in Nat /\ l \in Int /\ addr \in Nat /\ addr >= f /\ addr <= l
  BY Numbers, ChunkRange DEF MayRead
<1>0. count # 0 => l \in Nat /\ t \in 0 .. (K - 1) /\ last - 1 = l * K + t
  <2> SUFFICES ASSUME count # 0
               PROVE  l \in Nat /\ t \in 0 .. (K - 1) /\ last - 1 = l * K + t
    OBVIOUS
  <2>1. offset + count - 1 \in Nat
    BY <1>1
  <2>2. l \in Nat /\ t \in 0 .. (K - 1) /\ offset + count - 1 = l * K + t
    BY <2>1, BlockPlace DEF Last
  <2>3. last - 1 = offset + count - 1
    BY <1>1
  <2> QED BY <2>2, <2>3
<1>16. count = 0 => l = f - 1
  BY DEF Last
<1>17. count # 0
  BY <1>1, <1>16
<1>18. addr = l => to = t
  BY DEF To
<1>2. A \in Nat /\ (addr + 1) * K = A + K
  <2>1. A \in Nat
    BY <1>1, SMT
  <2>2. (addr + 1) * K = addr * K + K
    BY <1>1, SMT
  <2> QED BY <2>1, <2>2
<1>3. next = A + K
  <2>1. addr + 1 # First(offset)
    BY <1>1
  <2> QED BY <1>2, <2>1 DEF Start
<1>4. from \in 0 .. (K - 1) /\ start = A + from
  <2>1. CASE addr = f
    <3>1. from = offset % K /\ start = offset
      BY <2>1 DEF From, Start
    <3>2. offset % K \in 0 .. (K - 1) /\ offset = (offset \div K) * K + (offset % K)
      BY <1>1, BlockPlace
    <3>3. offset \div K = addr
      BY <2>1 DEF First
    <3> QED BY <3>1, <3>2, <3>3
  <2>2. CASE addr # f
    BY <1>1, <1>2, <2>2 DEF From, Start
  <2> QED BY <2>1, <2>2
<1>5. to \in 0 .. (K - 1) /\ (addr = l => A + to = last - 1) /\ (addr # l => to = K - 1)
  <2>1. CASE addr = l
    <3> HIDE DEF K, to, l, t, last
    <3> QED BY <1>0, <1>17, <1>18, <2>1
  <2>2. CASE addr # l
    BY <1>1, <2>2 DEF To
  <2> QED BY <2>1, <2>2
<1>6. from <= to
  <2>1. CASE addr = l /\ addr = f
    <3>1. start = offset /\ A + from = offset
      BY <1>4, <2>1 DEF Start
    <3>2. A + to = last - 1
      BY <1>5, <2>1
    <3>3. last = offset + count
      OBVIOUS
    <3> HIDE DEF A, from, to, last
    <3> QED BY <1>1, <1>2, <1>4, <1>5, <1>17, <3>1, <3>2, <3>3
  <2>2. CASE addr # f
    <3>1. from = 0
      BY <2>2 DEF From
    <3> QED BY <1>1, <1>5, <3>1
  <2>3. CASE addr # l
    BY <1>1, <1>4, <1>5, <2>3
  <2> QED BY <2>1, <2>2, <2>3
<1>7. len \in Nat \ {0} /\ start + len = A + to + 1
  <2> HIDE DEF A, from, to, start
  <2> QED BY <1>1, <1>2, <1>4, <1>5, <1>6
<1>8. chunk = [i \in 1 .. len |-> data_read(d, inode.addrs[addr])[from + i - 1]]
  BY DEF Chunk
<1> HIDE DEF K, from, to, l, f, A, last, len, chunk, start, next, bytes, t
<1>19. start \in Nat /\ to \in Nat /\ from \in Nat /\ next \in Nat
  BY <1>1, <1>2, <1>3, <1>4, <1>5
<1>10. ReadFrom(d, inode, next, last, rest) /\ (addr = l => rest = <<>>)
  BY DEF next, last, l
<1>11. Len(rest) \in Nat
  BY <1>10 DEF ReadFrom
<1>12. /\ Len(bytes) = len + Len(rest) /\ DOMAIN bytes = 1 .. Len(bytes)
       /\ bytes = [n \in 1 .. Len(bytes) |-> bytes[n]]
       /\ \A n \in 1 .. Len(bytes) : bytes[n] = IF n <= len THEN chunk[n] ELSE rest[n - len]
  <2> DEFINE T == {chunk[i] : i \in 1 .. len} \cup {rest[i] : i \in 1 .. Len(rest)}
  <2>1. chunk \in Seq(T) /\ rest \in Seq(T)
    <3>1. \A i \in 1 .. len : chunk[i] \in T
      OBVIOUS
    <3>2. \A i \in 1 .. Len(rest) : rest[i] \in T
      OBVIOUS
    <3> HIDE DEF T
    <3>3. chunk \in [1 .. len -> T]
      BY <1>8, <3>1
    <3>4. rest \in [1 .. Len(rest) -> T]
      BY <1>10, <3>2 DEF ReadFrom
    <3> QED BY <1>7, <1>11, <3>3, <3>4
  <2> HIDE DEF T
  <2>4. Len(chunk) = len
    BY <1>7, <1>8, <2>1
  <2>2. bytes \in Seq(T) /\ Len(bytes) = len + Len(rest)
    BY <2>1, <2>4 DEF bytes
  <2>3. \A n \in 1 .. Len(bytes) : bytes[n] = IF n <= len THEN chunk[n] ELSE rest[n - len]
    BY <2>1, <2>4 DEF bytes
  <2> QED BY <2>2, <2>3
<1>13. ASSUME NEW n \in 1 .. Len(bytes)
       PROVE  /\ start + n - 1 < last
              /\ \E a \in Mapped(inode), i \in 0 .. (BLOCK_SIZE - 1) :
                   start + n - 1 = a * BLOCK_SIZE + i /\ bytes[n] = data_read(d, inode.addrs[a])[i]
  <2>1. n \in Nat /\ n > 0 /\ start \in Nat /\ to \in Nat /\ from \in Nat /\ n <= len + Len(rest)
    <3>1. Len(bytes) \in Nat /\ Len(bytes) = len + Len(rest)
      BY <1>7, <1>11, <1>12
    <3> QED BY <1>19, <3>1
  <2>2. CASE n <= len
    <3>1. bytes[n] = data_read(d, inode.addrs[addr])[from + n - 1]
      BY <1>8, <1>12, <2>1, <2>2
    <3>2. from + n - 1 \in 0 .. (K - 1) /\ start + n - 1 = A + (from + n - 1)
      BY <1>1, <1>2, <1>4, <1>5, <1>7, <2>1, <2>2
    <3>3. start + n - 1 < last
      <4>1. CASE addr = l
        BY <1>1, <1>2, <1>5, <1>7, <2>1, <2>2, <4>1
      <4>2. CASE addr # l
        <5>1. (addr + 1) * K <= l * K /\ l * K \in Int
          <6>1. addr + 1 = l \/ addr + 1 < l
            BY <1>1, <4>2
          <6>2. l * K \in Int
            BY <1>1, SMT
          <6>3. CASE addr + 1 = l
            BY <1>1, <1>2, <6>2, <6>3
          <6>4. CASE addr + 1 < l
            <7>1. (addr + 1) * K + K <= l * K
              BY <1>1, <6>4, NextBlock
            <7> QED BY <1>1, <1>2, <6>2, <7>1
          <6> QED BY <6>1, <6>3, <6>4
        <5>2. l * K <= last - 1
          <6>1. t \in Nat /\ last - 1 = l * K + t
            BY <1>0, <1>1, <1>17
          <6> QED BY <5>1, <6>1
        <5> QED BY <1>1, <1>2, <1>5, <1>7, <2>1, <2>2, <4>2, <5>1, <5>2
      <4> QED BY <4>1, <4>2
    <3> QED BY <3>1, <3>2, <3>3 DEF K, A
  <2>3. CASE ~ (n <= len)
    <3>1. n - len \in 1 .. Len(rest) /\ bytes[n] = rest[n - len]
      <4>1. bytes[n] = rest[n - len]
        BY <1>12, <2>3
      <4> QED BY <1>7, <1>11, <2>1, <2>3, <4>1
    <3>2. addr # l
      BY <1>10, <3>1
    <3>3. next + (n - len) - 1 = start + n - 1
      BY <1>1, <1>2, <1>3, <1>5, <1>7, <2>1, <3>2
    <3>4. /\ next + (n - len) - 1 < last
          /\ \E a \in Mapped(inode), i \in 0 .. (BLOCK_SIZE - 1) :
               next + (n - len) - 1 = a * BLOCK_SIZE + i
               /\ rest[n - len] = data_read(d, inode.addrs[a])[i]
      BY <1>10, <3>1 DEF ReadFrom
    <3> QED BY <3>1, <3>3, <3>4
  <2> QED BY <2>2, <2>3
<1>14. ASSUME NEW p \in Nat, start <= p, p < last, p < inode.size
       PROVE  p - start + 1 \in 1 .. Len(bytes)
  <2>1. start \in Nat /\ to \in Nat /\ from \in Nat /\ next \in Nat
        /\ Len(bytes) = len + Len(rest)
    BY <1>12, <1>19
  <2>2. CASE p < start + len
    BY <1>7, <1>11, <1>14, <2>1, <2>2
  <2>3. CASE ~ (p < start + len)
    <3>1. addr # l
      BY <1>1, <1>2, <1>5, <1>7, <1>14, <2>1, <2>3
    <3>2. next = start + len
      BY <1>1, <1>2, <1>3, <1>5, <1>7, <2>1, <3>1
    <3>3. next <= p
      BY <1>7, <2>1, <2>3, <3>2
    <3>4. p - next + 1 \in 1 .. Len(rest)
      BY <1>10, <1>14, <3>3 DEF ReadFrom
    <3> QED BY <1>7, <1>11, <1>14, <2>1, <3>2, <3>4
  <2> QED BY <2>2, <2>3
<1>15. ReadFrom(d, inode, start, last, bytes)
  BY <1>7, <1>11, <1>12, <1>13, <1>14 DEF ReadFrom
<1> QED BY <1>15 DEF start, last, bytes, chunk

(* Where file_read stops, there is nothing left that the file has. *)
LEMMA NothingRead ==
  ASSUME NEW d, NEW inode, NEW offset, NEW count, MayRead(d, inode, offset, count),
         NEW addr \in First(offset) .. (Last(offset, count) + 1),
         addr > Last(offset, count) \/ inode.addrs[addr] = -1
  PROVE  ReadFrom(d, inode, Start(offset, addr), offset + count, <<>>)
<1> DEFINE K == BLOCK_SIZE
           l == Last(offset, count)
           f == First(offset)
           last == offset + count
           t == (offset + count - 1) % K
           r == offset % K
           start == Start(offset, addr)
<1>1. /\ K \in Nat \ {0} /\ offset \in Nat /\ count \in Nat /\ last \in Nat /\ Sound(inode)
      /\ f \in Nat /\ l \in Int /\ addr \in Nat /\ addr >= f /\ addr <= l + 1 /\ l >= f - 1
      /\ last = offset + count
  BY Numbers, ChunkRange DEF MayRead
<1>2. inode.size \in Nat
  BY <1>1, InodeFields, Numbers DEF Sound
<1>3. r \in 0 .. (K - 1) /\ offset = f * K + r
  BY <1>1, BlockPlace DEF First
<1>4. start = IF addr = f THEN offset ELSE addr * K
  BY DEF Start
<1>5. addr * K \in Nat /\ l * K \in Int /\ f * K \in Nat
  BY <1>1, SMT
<1>6. start \in Nat /\ start >= addr * K
  <2> HIDE DEF start, r, f, K
  <2>1. CASE addr = f
    <3> DEFINE F == f * K
    <3>1. F \in Nat /\ start = F + r /\ addr * K = F
      BY <1>3, <1>4, <1>5, <2>1
    <3> HIDE DEF F
    <3> QED BY <1>1, <1>3, <3>1
  <2>2. CASE addr # f
    BY <1>4, <1>5, <2>2
  <2> QED BY <2>1, <2>2
<1>7. ASSUME NEW p \in Nat, start <= p, p < last, p < inode.size PROVE FALSE
  <2>1. CASE addr > l
    <3>1. addr = l + 1
      BY <1>1, <2>1
    <3>2. CASE count = 0
      <4>1. l = f - 1
        BY <3>2 DEF Last
      <4>2. start = offset
        BY <1>1, <1>4, <3>1, <4>1
      <4> HIDE DEF last
      <4> QED BY <1>1, <1>7, <3>2, <4>2
    <3>3. CASE count # 0
      <4>1. offset + count - 1 \in Nat
        BY <1>1, <3>3
      <4>2. t \in 0 .. (K - 1) /\ offset + count - 1 = l * K + t
        BY <3>3, <4>1, BlockPlace DEF Last
      <4>3. addr * K = l * K + K
        <5>1. (l + 1) * K = l * K + K
          BY <1>1, SMT
        <5> QED BY <3>1, <5>1
      <4> DEFINE M == l * K
      <4>4. M \in Int /\ addr * K = M + K /\ offset + count - 1 = M + t
        BY <1>5, <4>2, <4>3
      <4> HIDE DEF M, last, start, t, K
      <4>5. addr * K >= last
        BY <1>1, <4>2, <4>4
      <4> QED BY <1>1, <1>5, <1>6, <1>7, <4>5
    <3> QED BY <3>2, <3>3
  <2>2. CASE ~ (addr > l)
    <3>1. addr \in f .. l /\ inode.addrs[addr] = -1
      BY <1>1, <2>2
    <3>2. addr \in Direct
      BY <1>1, <3>1, ChunkRange DEF MayRead
    <3>3. addr * K < inode.size
      <4> HIDE DEF start, K
      <4> QED BY <1>2, <1>5, <1>6, <1>7
    <3>4. addr \in Mapped(inode)
      BY <1>1, <3>2, <3>3 DEF Sound
    <3> QED BY <3>1, <3>4 DEF Mapped
  <2> QED BY <2>1, <2>2
<1>8. Len(<<>>) = 0 /\ DOMAIN <<>> = 1 .. 0 /\ <<>> = [n \in 1 .. 0 |-> <<>>[n]]
  OBVIOUS
<1>9. 1 .. 0 = {}
  OBVIOUS
<1> HIDE DEF start, last
<1>10. ReadFrom(d, inode, start, last, <<>>)
  BY <1>7, <1>8, <1>9 DEF ReadFrom
<1> QED BY <1>10 DEF start, last

(* file_read reads the bytes of the file. *)
LEMMA ReadDone ==
  ASSUME NEW d, NEW inode, NEW offset, NEW count, MayRead(d, inode, offset, count)
  PROVE  ReadFrom(d, inode, offset, offset + count, file_read(d, inode, offset, count))
<1> DEFINE f == First(offset)
           l == Last(offset, count)
           last == offset + count
           len == l + 1 - f
<1>1. f \in Nat /\ l \in Int /\ l >= f - 1 /\ len \in Nat /\ len = l + 1 - f
      /\ \A a \in f .. l : a \in Direct
  BY ChunkRange DEF MayRead
<1>2. PICK read : Reads(d, inode, offset, count, read)
  BY ReadDefined
<1> DEFINE S == {n \in 0 .. len :
                   ReadFrom(d, inode, Start(offset, l + 1 - n), last, read[l + 1 - n])}
<1>3. ASSUME NEW addr \in f .. (l + 1), addr > l \/ inode.addrs[addr] = -1
      PROVE  ReadFrom(d, inode, Start(offset, addr), last, read[addr])
  <2>1. read[addr] = <<>>
    BY <1>2, <1>3 DEF Reads, ReadOn
  <2> QED BY <1>3, <2>1, NothingRead
<1>4. 0 \in S
  <2>1. l + 1 \in f .. (l + 1) /\ l + 1 > l /\ l + 1 - 0 = l + 1 /\ 0 \in 0 .. len
    BY <1>1
  <2>2. ReadFrom(d, inode, Start(offset, l + 1), last, read[l + 1])
    BY <1>3, <2>1
  <2> QED BY <2>1, <2>2
<1>5. ASSUME NEW n \in 0 .. len, n \in S, n < len PROVE n + 1 \in S
  <2> DEFINE addr == l + 1 - (n + 1)
  <2>1. addr \in f .. l /\ addr + 1 = l + 1 - n /\ n + 1 \in 0 .. len
        /\ addr \in f .. (l + 1) /\ ~ (addr > l) /\ l + 1 \in f .. (l + 1) /\ l + 1 > l
    BY <1>1, <1>5
  <2>2. ReadFrom(d, inode, Start(offset, addr + 1), last, read[addr + 1])
    BY <1>5, <2>1
  <2> HIDE DEF addr
  <2>3. CASE inode.addrs[addr] = -1
    <3>1. ReadFrom(d, inode, Start(offset, addr), last, read[addr])
      BY <1>3, <2>1, <2>3
    <3> QED BY <2>1, <3>1 DEF addr
  <2>4. CASE inode.addrs[addr] # -1
    <3>1. addr \in Mapped(inode)
      BY <1>1, <2>1, <2>4 DEF Mapped
    <3>2. read[addr] = Chunk(d, inode, addr, offset, count) \o read[addr + 1]
      BY <1>2, <2>1, <2>4 DEF Reads, ReadOn
    <3>3. addr = l => read[addr + 1] = <<>>
      <4>1. read[l + 1] = <<>>
        BY <1>2, <2>1 DEF Reads, ReadOn
      <4> QED BY <4>1
    <3> HIDE DEF f, l
    <3>4. addr \in First(offset) .. Last(offset, count)
          /\ (addr = Last(offset, count) => read[addr + 1] = <<>>)
      BY <2>1, <3>3 DEF f, l
    <3>5. ReadFrom(d, inode, Start(offset, addr), last, read[addr])
      BY <2>2, <3>1, <3>2, <3>4, ChunkRead
    <3> QED BY <2>1, <3>5 DEF addr
  <2> QED BY <2>3, <2>4
<1>6. len \in S
  <2> HIDE DEF S
  <2>0. 0 \in Int /\ len \in Int
    BY <1>1
  <2> HIDE DEF len
  <2>1. 0 .. len \subseteq S
    BY <1>4, <1>5, <2>0, Induction
  <2> QED BY <1>1, <2>1
<1>7. l + 1 - len = f
  BY <1>1
<1>8. Start(offset, f) = offset
  BY DEF Start
<1>9. file_read(d, inode, offset, count) = read[f]
  BY <1>2 DEF Reads
<1> HIDE DEF len
<1>10. ReadFrom(d, inode, Start(offset, l + 1 - len), last, read[l + 1 - len])
  BY <1>6
<1> QED BY <1>7, <1>8, <1>9, <1>10

(* A byte is where its number says. *)
LEMMA ByteIsAt ==
  ASSUME NEW a \in Direct, NEW i \in 0 .. (BLOCK_SIZE - 1), NEW inode, NEW n,
         n = a * BLOCK_SIZE + i
  PROVE  n \in Nat /\ ByteAt(inode, n) = data_read(disk, inode.addrs[a])[i]
<1>1. a \in Nat /\ i \in Nat /\ BLOCK_SIZE \in Nat
  BY Numbers
<1>2. n \in Nat
  BY <1>1, SMT
<1>3. n \div BLOCK_SIZE = a /\ n % BLOCK_SIZE = i
  BY <1>1, <1>2, BlockPlace
<1> QED BY <1>2, <1>3 DEF ByteAt

(* What file_read gives of a file in use: inside the file its bytes, and   *)
(* behind its end, where the code reads on to the end of the block, zeros  *)
(* unless a write has failed.                                              *)
ReadGives(f, offset, count) ==
  LET bytes  == file_read(disk, Held(f), offset, count)
      within == {n \in 1 .. count : offset + n <= Held(f).size}
  IN  /\ Len(bytes) <= count
      /\ within \subseteq DOMAIN bytes
      /\ \A n \in within : bytes[n] = Content[f][offset + n]
      /\ \A n \in DOMAIN bytes \ within : bytes[n] = ZERO \/ failed

LEMMA ReadsGive ==
  ASSUME FilesKept, NEW f \in live,
         NEW offset \in 0 .. MAX_FILE_SIZE, NEW count \in 0 .. MAX_FILE_SIZE,
         ~ Refuses(Held(f), offset, count)
  PROVE  ReadGives(f, offset, count)
<1> DEFINE inode == Held(f)
           bytes == file_read(disk, inode, offset, count)
           within == {n \in 1 .. count : offset + n <= inode.size}
           last == offset + count
<1>1. Kept(disk, copy, live, failed) /\ f \in Inum
  BY KeptFacts DEF FilesKept
<1>2. Sound(inode) /\ FileKept(disk, inode_read(disk, f), inode, f, failed)
  BY <1>1, KeptFacts, HeldHere DEF Kept
<1>3. /\ offset \in Nat /\ count \in Nat /\ inode.size \in Nat
      /\ offset <= inode.size /\ offset + count <= MAX_FILE_SIZE
      /\ last = offset + count /\ last \in Nat
  <2>1. inode.size \in Nat /\ offset \in Nat /\ count \in Nat /\ MAX_FILE_SIZE \in Nat
    BY <1>2, InodeFields, Numbers DEF Sound
  <2> QED BY <2>1 DEF Refuses
<1>4. ReadFrom(disk, inode, offset, last, bytes)
  <2>1. MayRead(disk, inode, offset, count)
    BY <1>2, <1>3 DEF MayRead
  <2> HIDE DEF inode
  <2> QED BY <2>1, ReadDone
<1>5. Content[f] = [n \in 1 .. inode.size |-> ByteAt(inode, n - 1)]
  BY <1>1 DEF Content
<1> HIDE DEF inode, bytes, last
<1>6. Len(bytes) \in Nat /\ DOMAIN bytes = 1 .. Len(bytes)
  BY <1>4 DEF ReadFrom
<1>7. ASSUME NEW n \in 1 .. Len(bytes)
      PROVE  /\ n <= count /\ bytes[n] = ByteAt(inode, offset + n - 1)
             /\ bytes[n] = ZERO \/ failed \/ offset + n <= inode.size
  <2>1. PICK a \in Mapped(inode), i \in 0 .. (BLOCK_SIZE - 1) :
          /\ offset + n - 1 = a * BLOCK_SIZE + i
          /\ bytes[n] = data_read(disk, inode.addrs[a])[i]
    BY <1>4 DEF ReadFrom
  <2>2. a \in Direct
    BY DEF Mapped
  <2>3. bytes[n] = ByteAt(inode, offset + n - 1)
    BY <2>1, <2>2, ByteIsAt
  <2>4. offset + n - 1 < last
    BY <1>4 DEF ReadFrom
  <2>5. n <= count
    BY <1>3, <1>6, <2>4
  <2>6. failed \/ a * BLOCK_SIZE + i < inode.size \/ bytes[n] = ZERO
    BY <1>2, <2>1 DEF FileKept
  <2>7. offset + n - 1 < inode.size => offset + n <= inode.size
    BY <1>3, <1>6
  <2> QED BY <2>1, <2>3, <2>5, <2>6, <2>7
<1>8. Len(bytes) <= count
  <2> SUFFICES ASSUME count < Len(bytes) PROVE FALSE
    BY <1>3, <1>6
  <2>1. Len(bytes) \in 1 .. Len(bytes)
    BY <1>3, <1>6
  <2> QED BY <1>3, <1>6, <1>7, <2>1
<1>9. within \subseteq DOMAIN bytes
  <2> SUFFICES ASSUME NEW n \in 1 .. count, offset + n <= inode.size
               PROVE  n \in 1 .. Len(bytes)
    BY <1>6
  <2> DEFINE p == offset + n - 1
  <2>1. p \in Nat /\ offset <= p /\ p < last /\ p < inode.size /\ p - offset + 1 = n
    BY <1>3
  <2> HIDE DEF p
  <2> QED BY <1>4, <2>1 DEF ReadFrom
<1>10. \A n \in within : bytes[n] = Content[f][offset + n]
  <2> SUFFICES ASSUME NEW n \in within PROVE bytes[n] = Content[f][offset + n]
    OBVIOUS
  <2>1. n \in 1 .. Len(bytes) /\ n \in Nat /\ n > 0 /\ offset + n <= inode.size
    BY <1>6, <1>9
  <2>2. offset + n \in 1 .. inode.size /\ (offset + n) - 1 = offset + n - 1
    BY <1>3, <2>1
  <2>3. Content[f][offset + n] = ByteAt(inode, (offset + n) - 1)
    BY <1>5, <2>2
  <2> QED BY <1>7, <2>1, <2>2, <2>3
<1>11. \A n \in DOMAIN bytes \ within : bytes[n] = ZERO \/ failed
  <2> SUFFICES ASSUME NEW n \in DOMAIN bytes \ within PROVE bytes[n] = ZERO \/ failed
    OBVIOUS
  <2>1. n \in 1 .. Len(bytes)
    BY <1>6
  <2>2. n \in 1 .. count
    BY <1>3, <1>6, <1>7, <2>1
  <2>3. ~ (offset + n <= inode.size)
    BY <2>2
  <2> QED BY <1>7, <2>1, <2>3
<1> QED BY <1>8, <1>9, <1>10, <1>11 DEF ReadGives, inode, bytes

(* A read inside a file returns what was written: the bytes of the file    *)
(* from the offset on, as many as were asked for, over any number of       *)
(* blocks.                                                                 *)
THEOREM WritesReadBack == Spec => []ReadsBack
<1>1. FilesKept => ReadsBack
  <2> SUFFICES ASSUME FilesKept, NEW f \in live,
                      NEW offset \in 0 .. MAX_FILE_SIZE, NEW count \in 0 .. MAX_FILE_SIZE,
                      offset + count <= Held(f).size
               PROVE  LET bytes == file_read(disk, Held(f), offset, count)
                      IN  /\ Len(bytes) = count
                          /\ \A n \in 1 .. count : bytes[n] = Content[f][offset + n]
    BY DEF ReadsBack
  <2> DEFINE inode == Held(f)
             bytes == file_read(disk, inode, offset, count)
             within == {n \in 1 .. count : offset + n <= inode.size}
  <2>1. /\ offset \in Nat /\ count \in Nat /\ inode.size \in 0 .. MAX_FILE_SIZE
        /\ MAX_FILE_SIZE \in Nat
    <3>1. Sound(inode)
      BY KeptFacts, HeldHere DEF FilesKept
    <3> HIDE DEF inode
    <3> QED BY <3>1, InodeFields, Numbers DEF Sound
  <2>2. ~ Refuses(inode, offset, count)
    <3> HIDE DEF inode
    <3> QED BY <2>1 DEF Refuses, inode
  <2>3. ReadGives(f, offset, count)
    BY <2>2, ReadsGive
  <2>4. /\ Len(bytes) <= count /\ within \subseteq DOMAIN bytes
        /\ \A n \in within : bytes[n] = Content[f][offset + n]
    BY <2>3 DEF ReadGives
  <2> HIDE DEF inode, bytes
  <2>5. within = 1 .. count
    BY <2>1 DEF inode
  <2> HIDE DEF within
  <2> QED BY <2>1, <2>4, <2>5 DEF inode, bytes
<1> QED BY <1>1, Invariance, PTL

(* A read that goes on behind the end of a file, as file_read does against *)
(* its comment, finds nothing but zeros there while no write has failed:   *)
(* neither a removed file's bytes nor more of this one.                    *)
OverreadsAreZero ==
  ~ failed =>
    \A f \in live :
      \A offset \in 0 .. MAX_FILE_SIZE, count \in 0 .. MAX_FILE_SIZE :
        ~ Refuses(Held(f), offset, count) =>
          LET bytes == file_read(disk, Held(f), offset, count)
          IN  \A n \in DOMAIN bytes : offset + n <= Held(f).size \/ bytes[n] = ZERO

THEOREM OverreadsGiveZeros == Spec => []OverreadsAreZero
<1>1. FilesKept => OverreadsAreZero
  <2> SUFFICES ASSUME FilesKept, ~ failed, NEW f \in live,
                      NEW offset \in 0 .. MAX_FILE_SIZE, NEW count \in 0 .. MAX_FILE_SIZE,
                      ~ Refuses(Held(f), offset, count),
                      NEW n \in DOMAIN file_read(disk, Held(f), offset, count),
                      ~ (offset + n <= Held(f).size)
               PROVE  file_read(disk, Held(f), offset, count)[n] = ZERO
    BY DEF OverreadsAreZero
  <2>1. ReadGives(f, offset, count)
    BY ReadsGive
  <2> QED BY <2>1 DEF ReadGives
<1> QED BY <1>1, Invariance, PTL

-----------------------------------------------------------------------------
(* A file is a sequence of bytes: ByteFile's steps.                        *)

BytesOf(d, inode) ==
  [n \in 1 .. inode.size |->
     data_read(d, inode.addrs[(n - 1) \div BLOCK_SIZE])[(n - 1) % BLOCK_SIZE]]

ContentOn(d, c, l) ==
  [f \in Inum |-> IF f \in l THEN BytesOf(d, HeldOn(d, c, f)) ELSE NONE]

LEMMA ContentHere == Content = ContentOn(disk, copy, live)
BY DEF Content, ContentOn, BytesOf, ByteAt, Held, HeldOn

LEMMA ContentNext == Content' = ContentOn(disk', copy', live')
BY DEF Content, ContentOn, BytesOf, ByteAt, Held, HeldOn, inode_read, data_read, block_read

(* The n-th byte of a sound inode is in a block that is mapped. *)
LEMMA BytePlace ==
  ASSUME NEW inode, Sound(inode), NEW n \in 1 .. inode.size
  PROVE  LET a == (n - 1) \div BLOCK_SIZE
             i == (n - 1) % BLOCK_SIZE
         IN  /\ inode.size \in Nat /\ n - 1 \in Nat
             /\ a \in Mapped(inode) /\ i \in 0 .. (BLOCK_SIZE - 1)
             /\ n - 1 = a * BLOCK_SIZE + i
<1> DEFINE a == (n - 1) \div BLOCK_SIZE
           i == (n - 1) % BLOCK_SIZE
           p == n - 1
<1>1. inode.size \in Nat /\ inode.size <= NDIRECT * BLOCK_SIZE
  BY InodeFields, Numbers DEF Sound
<1>2. p \in Nat /\ p < inode.size
  BY <1>1
<1>3. a = p \div BLOCK_SIZE /\ i = p % BLOCK_SIZE
  OBVIOUS
<1> HIDE DEF p, a, i
<1>4. a \in Nat /\ i \in 0 .. (BLOCK_SIZE - 1) /\ p = a * BLOCK_SIZE + i
  BY <1>2, <1>3, BlockPlace
<1>5. a * BLOCK_SIZE \in Nat /\ a * BLOCK_SIZE <= p
  <2>1. a * BLOCK_SIZE \in Nat
    BY <1>4, Numbers, SMT
  <2> DEFINE m == a * BLOCK_SIZE
  <2>2. m \in Nat /\ p = m + i
    BY <1>4, <2>1
  <2> HIDE DEF m
  <2>3. m <= p
    BY <1>4, <2>2, Numbers
  <2> QED BY <2>1, <2>3 DEF m
<1>6. a \in Direct
  <2>1. p < BLOCK_SIZE * NDIRECT
    <3>1. NDIRECT * BLOCK_SIZE = BLOCK_SIZE * NDIRECT /\ NDIRECT * BLOCK_SIZE \in Nat
      BY Numbers, SMT
    <3> QED BY <1>1, <1>2, <3>1
  <2>2. a < NDIRECT
    BY <1>2, <1>3, <2>1, Numbers, QuotientBound
  <2> QED BY <1>4, <2>2, Numbers
<1>7. a \in Mapped(inode)
  BY <1>1, <1>2, <1>5, <1>6 DEF Sound
<1> QED BY <1>1, <1>2, <1>4, <1>7 DEF a, i, p

LEMMA BytesTyped ==
  ASSUME NEW d, DiskTyped(d), NEW inode, Sound(inode)
  PROVE  /\ inode.size \in Nat /\ Len(BytesOf(d, inode)) = inode.size
         /\ BytesOf(d, inode) # NONE
<1>1. inode.size \in Nat
  BY InodeFields, Numbers DEF Sound
<1>2. ASSUME NEW n \in 1 .. inode.size PROVE BytesOf(d, inode)[n] \in Byte
  <2> DEFINE a == (n - 1) \div BLOCK_SIZE
             i == (n - 1) % BLOCK_SIZE
  <2>1. a \in Mapped(inode) /\ i \in 0 .. (BLOCK_SIZE - 1)
    BY BytePlace
  <2>2. BytesOf(d, inode)[n] = data_read(d, inode.addrs[a])[i]
    BY DEF BytesOf
  <2> HIDE DEF a, i
  <2>3. data_read(d, inode.addrs[a]) \in DataBlock
    BY <2>1, InodeFields DEF Sound, DiskTyped
  <2> QED BY <2>1, <2>2, <2>3 DEF DataBlock
<1>3. BytesOf(d, inode) \in [1 .. inode.size -> Byte]
  BY <1>2 DEF BytesOf
<1>4. BytesOf(d, inode) \in Seq(Byte) /\ Len(BytesOf(d, inode)) = inode.size
  BY <1>1, <1>3
<1> QED BY <1>1, <1>4, NoneAssumption

(* An inode that agrees with another has its bytes. *)
LEMMA BytesSame ==
  ASSUME NEW d, NEW e, NEW inode, NEW ahead, Sound(inode), Ahead(ahead, inode),
         \A n \in Blocks(inode) : data_read(e, n) = data_read(d, n)
  PROVE  BytesOf(e, ahead) = BytesOf(d, inode)
<1>1. ahead.size = inode.size
  BY DEF Ahead
<1>2. ASSUME NEW n \in 1 .. inode.size
      PROVE  data_read(e, ahead.addrs[(n - 1) \div BLOCK_SIZE])[(n - 1) % BLOCK_SIZE]
               = data_read(d, inode.addrs[(n - 1) \div BLOCK_SIZE])[(n - 1) % BLOCK_SIZE]
  <2> DEFINE a == (n - 1) \div BLOCK_SIZE
  <2>1. a \in Mapped(inode)
    BY BytePlace
  <2> HIDE DEF a
  <2>2. ahead.addrs[a] = inode.addrs[a] /\ inode.addrs[a] \in Blocks(inode)
    BY <2>1 DEF Ahead, Blocks
  <2>3. data_read(e, ahead.addrs[a]) = data_read(d, inode.addrs[a])
    BY <2>2
  <2> QED BY <2>3 DEF a
<1> QED BY <1>1, <1>2 DEF BytesOf

(* A step changes the bytes of f to new, and of no other file. *)
OnlyChanges(d, c, l, e, b, m, f, new) ==
  /\ new = IF f \in m THEN BytesOf(e, HeldOn(e, b, f)) ELSE NONE
  /\ \A g \in Inum \ {f} : g \in m <=> g \in l
  /\ \A g \in l \ {f} : BytesOf(e, HeldOn(e, b, g)) = BytesOf(d, HeldOn(d, c, g))

LEMMA ContentChanges ==
  ASSUME NEW d, NEW c, NEW l, NEW e, NEW b, NEW m, NEW f, NEW new,
         f \in Inum, OnlyChanges(d, c, l, e, b, m, f, new)
  PROVE  ContentOn(e, b, m) = [ContentOn(d, c, l) EXCEPT ![f] = new]
<1>1. \A g \in Inum : (IF g \in m THEN BytesOf(e, HeldOn(e, b, g)) ELSE NONE)
                      = IF g = f THEN new
                        ELSE IF g \in l THEN BytesOf(d, HeldOn(d, c, g)) ELSE NONE
  BY DEF OnlyChanges
<1>2. ContentOn(e, b, m) = [g \in Inum |-> IF g = f THEN new ELSE ContentOn(d, c, l)[g]]
  BY <1>1 DEF ContentOn
<1>3. DOMAIN ContentOn(d, c, l) = Inum
  BY DEF ContentOn
<1> QED BY <1>2, <1>3

(* Files that a step leaves alone keep their bytes. *)
LEMMA OthersRead ==
  ASSUME NEW d, NEW c, NEW l, NEW x, Kept(d, c, l, x),
         NEW e, NEW b, NEW y, NEW f, LeftAlone(d, c, l, e, b, f), OthersKept(d, c, l, e, b, y, f)
  PROVE  \A g \in l \ {f} : BytesOf(e, HeldOn(e, b, g)) = BytesOf(d, HeldOn(d, c, g))
<1> SUFFICES ASSUME NEW g \in l \ {f}
             PROVE  BytesOf(e, HeldOn(e, b, g)) = BytesOf(d, HeldOn(d, c, g))
  OBVIOUS
<1> DEFINE held == HeldOn(d, c, g)
<1>1. Sound(held)
  BY KeptFacts
<1>2. \A n \in Blocks(held) : data_read(e, n) = data_read(d, n)
  BY DEF LeftAlone
<1>3. HeldOn(e, b, g) = held
  BY DEF OthersKept
<1> HIDE DEF held
<1>4. Ahead(held, held)
  BY DEF Ahead
<1>5. BytesOf(e, held) = BytesOf(d, held)
  BY <1>1, <1>2, <1>4, BytesSame
<1> QED BY <1>3, <1>5 DEF held

-----------------------------------------------------------------------------
(* A step that changes one file is a step of ByteFile.                     *)
LEMMA OneFile ==
  ASSUME NEW f \in Inum, NEW new, Content' = [Content EXCEPT ![f] = new],
         \/ Files!Create(Content[f], new) \/ Files!Remove(Content[f], new)
         \/ \E buf \in Tagged(f) : Files!Write(Content[f], new, buf)
  PROVE  Files!Next
<1>1. DOMAIN Content = Inum
  BY DEF Content
<1>2. Content'[f] = new
  BY <1>1
<1> QED BY <1>2 DEF Files!Next

LEMMA CreateSteps ==
  ASSUME FilesKept, Create
  PROVE  Files!Next
<1>1. Kept(disk, copy, live, failed)
  BY DEF FilesKept
<1>2. PICK inum \in Inum :
        /\ inum \notin live /\ live' = live \cup {inum}
        /\ HeldOn(disk', copy', inum) = EmptyInode
        /\ LeftAlone(disk, copy, live, disk', copy', inum)
        /\ OthersKept(disk, copy, live, disk', copy', failed, inum)
  BY CreateKept
<1>3. BytesOf(disk', EmptyInode) = <<>>
  <2>1. EmptyInode.size = 0 /\ 1 .. 0 = {}
    BY DEF EmptyInode
  <2> QED BY <2>1 DEF BytesOf
<1>4. \A g \in live \ {inum} :
        BytesOf(disk', HeldOn(disk', copy', g)) = BytesOf(disk, HeldOn(disk, copy, g))
  BY <1>1, <1>2, OthersRead
<1>5. ContentOn(disk', copy', live') = [ContentOn(disk, copy, live) EXCEPT ![inum] = <<>>]
  <2>1. <<>> = IF inum \in live' THEN BytesOf(disk', HeldOn(disk', copy', inum)) ELSE NONE
    BY <1>2, <1>3
  <2>2. \A g \in Inum \ {inum} : g \in live' <=> g \in live
    BY <1>2
  <2>3. OnlyChanges(disk, copy, live, disk', copy', live', inum, <<>>)
    BY <1>4, <2>1, <2>2 DEF OnlyChanges
  <2> QED BY <2>3, ContentChanges
<1>6. Content[inum] = NONE
  BY <1>2 DEF Content
<1>7. Files!Create(Content[inum], <<>>)
  BY <1>6, CreateKept DEF Files!Create
<1>8. Content' = [Content EXCEPT ![inum] = <<>>]
  BY <1>5, ContentHere, ContentNext
<1> QED BY <1>7, <1>8, OneFile

LEMMA RemoveSteps ==
  ASSUME FilesKept, NEW f \in Inum, Remove(f)
  PROVE  Files!Next
<1>1. Kept(disk, copy, live, failed) /\ DiskTyped(disk)
  BY DEF FilesKept, Kept
<1>2. /\ f \in live /\ live' = live \ {f} /\ failed' = failed
      /\ LeftAlone(disk, copy, live, disk', copy', f)
      /\ OthersKept(disk, copy, live, disk', copy', failed, f)
  BY RemoveKept
<1>3. \A g \in live \ {f} :
        BytesOf(disk', HeldOn(disk', copy', g)) = BytesOf(disk, HeldOn(disk, copy, g))
  BY <1>1, <1>2, OthersRead
<1>4. ContentOn(disk', copy', live') = [ContentOn(disk, copy, live) EXCEPT ![f] = NONE]
  <2>1. NONE = IF f \in live' THEN BytesOf(disk', HeldOn(disk', copy', f)) ELSE NONE
    BY <1>2
  <2>2. \A g \in Inum \ {f} : g \in live' <=> g \in live
    BY <1>2
  <2>3. OnlyChanges(disk, copy, live, disk', copy', live', f, NONE)
    BY <1>3, <2>1, <2>2 DEF OnlyChanges
  <2> QED BY <2>3, ContentChanges
<1>5. Content[f] = BytesOf(disk, HeldOn(disk, copy, f))
  BY <1>2, ContentHere DEF ContentOn
<1>6. Content[f] # NONE
  BY <1>1, <1>2, <1>5, KeptFacts, BytesTyped
<1>7. Files!Remove(Content[f], NONE)
  BY <1>2, <1>6 DEF Files!Remove
<1>8. Content' = [Content EXCEPT ![f] = NONE]
  BY <1>4, ContentHere, ContentNext
<1> QED BY <1>7, <1>8, OneFile

(* Opening and closing a file is no step. *)
LEMMA OpenStutters ==
  ASSUME FilesKept, NEW f \in Inum, Open(f)
  PROVE  Content' = Content /\ failed' = failed
<1>1. \A g \in Inum : HeldOn(disk', copy', g) = HeldOn(disk, copy, g)
  BY OpenKept
<1>2. disk' = disk /\ live' = live /\ failed' = failed
  BY DEF Open
<1>3. ContentOn(disk', copy', live') = ContentOn(disk, copy, live)
  BY <1>1, <1>2 DEF ContentOn
<1> QED BY <1>2, <1>3, ContentHere, ContentNext

LEMMA CloseStutters ==
  ASSUME FilesKept, NEW f \in Inum, Close(f)
  PROVE  Content' = Content /\ failed' = failed
<1>1. /\ Kept(disk, copy, live, failed) /\ copy \in [Inum -> Inode \cup {NONE}]
      /\ copy[f] # NONE /\ f \in live
  BY DEF FilesKept, Kept, Close
<1>2. disk' = disk /\ live' = live /\ failed' = failed /\ copy' = [copy EXCEPT ![f] = NONE]
  BY DEF Close
<1>3. \A g \in Inum : copy'[g] = IF g = f THEN NONE ELSE copy[g]
  BY <1>1, <1>2
<1> DEFINE stored == inode_read(disk, f)
           held == HeldOn(disk, copy, f)
<1>4. HeldOn(disk', copy', f) = stored
      /\ \A g \in Inum \ {f} : HeldOn(disk', copy', g) = HeldOn(disk, copy, g)
  BY <1>2, <1>3 DEF HeldOn
<1>5. BytesOf(disk, stored) = BytesOf(disk, held)
  <2>1. FileKept(disk, stored, held, f, failed)
    BY <1>1 DEF Kept
  <2> HIDE DEF stored, held
  <2>2. Sound(stored) /\ Ahead(held, stored)
    BY <2>1 DEF FileKept
  <2> QED BY <2>2, BytesSame
<1> HIDE DEF stored, held
<1>6. ContentOn(disk', copy', live') = ContentOn(disk, copy, live)
  <2>1. \A g \in Inum : BytesOf(disk', HeldOn(disk', copy', g)) = BytesOf(disk, HeldOn(disk, copy, g))
    BY <1>2, <1>4, <1>5 DEF held
  <2> QED BY <1>2, <2>1 DEF ContentOn
<1> QED BY <1>2, <1>6, ContentHere, ContentNext

(* A byte of the file behind a write: of the buffer when the write covers  *)
(* it, and what it was when not.  A full disk is met behind the end, so    *)
(* even then the write has covered all that the file has.                  *)
ByteWritten(d, inode, offset, bytes, e, n) ==
  BytesOf(e.disk, e.inode)[n] =
    IF n \in (offset + 1) .. (offset + Len(bytes)) THEN bytes[n - offset]
    ELSE BytesOf(d, inode)[n]

LEMMA BytesWritten ==
  ASSUME NEW d, NEW inode, NEW inum, NEW offset, NEW bytes, NEW stop, NEW e, NEW n,
         MayWrite(d, inode, offset, bytes), Done(d, inode, inum, offset, bytes, stop, e),
         n \in 1 .. e.inode.size
  PROVE  ByteWritten(d, inode, offset, bytes, e, n)
<1> DEFINE a == (n - 1) \div BLOCK_SIZE
           i == (n - 1) % BLOCK_SIZE
           A == a * BLOCK_SIZE
           l == Last(offset, Len(bytes))
           last == offset + Len(bytes)
           new == BytesOf(e.disk, e.inode)[n]
<1>1. /\ Sound(e.inode) /\ e.ok \in BOOLEAN /\ Sound(inode)
      /\ e.inode.size = IF e.ok /\ last > inode.size THEN last ELSE inode.size
      /\ stop \in (First(offset) - 1) .. l
      /\ e.ok => stop = l
      /\ ~ e.ok => stop < l /\ stop + 1 \notin Mapped(inode)
  BY DEF Done, MayWrite
<1>2. /\ offset \in Nat /\ Len(bytes) \in Nat /\ last <= MAX_FILE_SIZE /\ last = offset + Len(bytes)
      /\ offset <= inode.size /\ inode.size \in Nat
      /\ First(offset) \in Nat /\ l \in Int
  <2>1. offset \in Nat /\ Len(bytes) \in Nat /\ last <= MAX_FILE_SIZE
    BY ChunkBytes
  <2>2. inode.size \in Nat
    BY <1>1, InodeFields, Numbers DEF Sound
  <2> QED BY <2>1, <2>2, ChunkRange DEF MayWrite
<1>3. /\ e.inode.size \in Nat /\ a \in Mapped(e.inode) /\ i \in 0 .. (BLOCK_SIZE - 1)
      /\ n - 1 = A + i /\ n \in Nat /\ n > 0
  BY <1>1, BytePlace
<1>4. new = data_read(e.disk, e.inode.addrs[a])[i]
  BY DEF BytesOf
<1>5. n \in 1 .. inode.size =>
        a \in Mapped(inode) /\ BytesOf(d, inode)[n] = data_read(d, inode.addrs[a])[i]
  BY <1>1, BytePlace DEF BytesOf
<1> HIDE DEF a, i, new, l, last
<1>6. new = ByteAfter(d, inode, offset, bytes, stop, a, i)
  BY <1>3, <1>4 DEF Done
<1>7. a \in Nat /\ a \in Direct
  BY <1>3, Numbers DEF Mapped
<1>8. A + i \in offset .. (offset + Len(bytes) - 1)
        <=> a \in First(offset) .. l /\ i \in From(a, offset) .. To(a, offset, Len(bytes))
  BY <1>2, <1>3, <1>7, ChunkRange DEF l, last
<1>9. A \in Nat /\ i \in Nat
  BY <1>3, <1>7, Numbers, SMT
<1> HIDE DEF A
<1>10. CASE n \in (offset + 1) .. (offset + Len(bytes))
  <2>1. A + i \in offset .. (offset + Len(bytes) - 1)
    BY <1>2, <1>3, <1>9, <1>10
  <2>2. a \in First(offset) .. l /\ i \in From(a, offset) .. To(a, offset, Len(bytes))
    BY <1>8, <2>1
  <2>3. a \in First(offset) .. stop
    <3>1. CASE e.ok
      BY <1>1, <2>2, <3>1
    <3>2. CASE ~ e.ok
      <4>1. n \in 1 .. inode.size
        BY <1>1, <3>2
      <4>2. a \in Mapped(inode) /\ 0 .. a \subseteq Mapped(inode)
        BY <1>1, <1>5, <4>1 DEF Sound
      <4>3. stop + 1 \notin 0 .. a
        BY <1>1, <3>2, <4>2
      <4> QED BY <1>1, <1>2, <1>7, <2>2, <4>3
    <3> QED BY <3>1, <3>2
  <2>4. new = bytes[Source(a, offset, i)]
    BY <1>6, <2>2, <2>3 DEF ByteAfter
  <2>5. Source(a, offset, i) = n - offset
    <3>1. Source(a, offset, i) = A + i - offset + 1
      BY DEF Source, A
    <3> QED BY <1>2, <1>3, <1>9, <3>1
  <2> QED BY <1>10, <2>4, <2>5 DEF new, ByteWritten
<1>11. CASE n \notin (offset + 1) .. (offset + Len(bytes))
  <2>1. A + i \notin offset .. (offset + Len(bytes) - 1)
    BY <1>2, <1>3, <1>9, <1>11
  <2>2. n \in 1 .. inode.size
    BY <1>1, <1>2, <1>3, <1>11
  <2>3. a \in Mapped(inode) /\ BytesOf(d, inode)[n] = data_read(d, inode.addrs[a])[i]
    BY <1>5, <2>2
  <2>4. ~ (a \in First(offset) .. stop /\ i \in From(a, offset) .. To(a, offset, Len(bytes)))
    <3>1. a \in First(offset) .. stop => a \in First(offset) .. l
      BY <1>1, <1>2, <1>7
    <3> QED BY <1>8, <2>1, <3>1
  <2>5. new = data_read(d, inode.addrs[a])[i]
    BY <1>6, <2>3, <2>4 DEF ByteAfter
  <2> QED BY <1>11, <2>3, <2>5 DEF new, ByteWritten
<1> QED BY <1>10, <1>11

LEMMA WriteSteps ==
  ASSUME FilesKept, NEW f \in Inum, NEW marks \in Marks, NEW offset \in 0 .. MAX_FILE_SIZE,
         Write(f, offset, marks)
  PROVE  Files!Next
<1> DEFINE inode == copy[f]
           bytes == Bytes(f, marks)
           old == BytesOf(disk, inode)
           last == offset + Len(bytes)
<1>1. PICK stop, e : Wrote(f, offset, bytes, stop, e)
  BY WriteStep
<1> DEFINE new == BytesOf(e.disk, e.inode)
           over == Files!Overwrite(old, offset, bytes)
<1>2. /\ f \in live /\ live' = live /\ inode = HeldOn(disk, copy, f)
      /\ MayWrite(disk, inode, offset, bytes)
      /\ Done(disk, inode, f, offset, bytes, stop, e)
      /\ disk' = e.disk /\ failed' = (failed \/ ~ e.ok)
  BY <1>1 DEF Wrote
<1>3. Kept(disk, copy, live, failed) /\ DiskTyped(disk) /\ failed \in BOOLEAN
  BY DEF FilesKept, Kept
<1>4. /\ HeldOn(disk', copy', f) = e.inode /\ OthersKept(disk, copy, live, disk', copy', failed', f)
      /\ LeftAlone(disk, copy, live, disk', copy', f)
  BY <1>1, WriteKept
<1>5. \A g \in live \ {f} :
        BytesOf(disk', HeldOn(disk', copy', g)) = BytesOf(disk, HeldOn(disk, copy, g))
  BY <1>3, <1>4, OthersRead
<1>6. ContentOn(disk', copy', live') = [ContentOn(disk, copy, live) EXCEPT ![f] = new]
  <2>1. new = IF f \in live' THEN BytesOf(disk', HeldOn(disk', copy', f)) ELSE NONE
    BY <1>2, <1>4
  <2>2. \A g \in Inum \ {f} : g \in live' <=> g \in live
    BY <1>2
  <2> HIDE DEF new
  <2>3. OnlyChanges(disk, copy, live, disk', copy', live', f, new)
    BY <1>5, <2>1, <2>2 DEF OnlyChanges
  <2> QED BY <2>3, ContentChanges
<1>7. Content[f] = old
  BY <1>2, ContentHere DEF ContentOn
<1>8. bytes \in Tagged(f)
  BY DEF Tagged, Bytes
<1>9. /\ Sound(inode) /\ Sound(e.inode) /\ DiskTyped(e.disk) /\ e.ok \in BOOLEAN
      /\ e.inode.size = IF e.ok /\ last > inode.size THEN last ELSE inode.size
      /\ offset \in Nat /\ Len(bytes) \in Nat /\ last = offset + Len(bytes)
      /\ offset <= inode.size
  BY <1>2, ChunkBytes DEF Done, MayWrite
<1>10. /\ inode.size \in Nat /\ Len(old) = inode.size /\ old # NONE
       /\ e.inode.size \in Nat /\ new # NONE
  BY <1>3, <1>9, BytesTyped
<1>11. \A n \in 1 .. e.inode.size :
         new[n] = IF n \in (offset + 1) .. (offset + Len(bytes)) THEN bytes[n - offset] ELSE old[n]
  <2> SUFFICES ASSUME NEW n \in 1 .. e.inode.size
               PROVE  new[n] = IF n \in (offset + 1) .. (offset + Len(bytes))
                               THEN bytes[n - offset] ELSE old[n]
    OBVIOUS
  <2>1. MayWrite(disk, inode, offset, bytes) /\ Done(disk, inode, f, offset, bytes, stop, e)
    BY <1>2
  <2> HIDE DEF inode, bytes
  <2>2. ByteWritten(disk, inode, offset, bytes, e, n)
    BY <2>1, BytesWritten
  <2> QED BY <2>2 DEF ByteWritten
<1>12. new = [n \in 1 .. e.inode.size |-> new[n]]
  BY DEF BytesOf
<1> HIDE DEF inode, bytes, old, new, last
<1>13. over = [n \in 1 .. (IF last > Len(old) THEN last ELSE Len(old)) |->
                 IF n \in (offset + 1) .. (offset + Len(bytes)) THEN bytes[n - offset] ELSE old[n]]
  BY DEF Files!Overwrite, last
<1> HIDE DEF over
<1>14. offset \in 0 .. Len(old)
  BY <1>9, <1>10
<1>15. \/ new = over /\ failed' = failed
       \/ new = SubSeq(over, 1, Len(old)) /\ failed'
  <2>1. CASE e.ok = TRUE
    <3>1. failed' = failed
      BY <1>2, <1>3, <2>1
    <3>2. e.inode.size = IF last > Len(old) THEN last ELSE Len(old)
      BY <1>9, <1>10, <2>1
    <3>3. over = [n \in 1 .. e.inode.size |->
                    IF n \in (offset + 1) .. (offset + Len(bytes)) THEN bytes[n - offset] ELSE old[n]]
      BY <1>13, <3>2
    <3>4. new = over
      BY <1>11, <1>12, <3>3
    <3> QED BY <3>1, <3>4
  <2>2. CASE e.ok = FALSE
    <3>1. failed'
      BY <1>2, <2>2
    <3>2. e.inode.size = Len(old)
      BY <1>9, <1>10, <2>2
    <3> DEFINE m == IF last > Len(old) THEN last ELSE Len(old)
    <3>3. m \in Nat /\ Len(old) <= m /\ Len(old) \in Nat
      BY <1>9, <1>10
    <3>4. over = [n \in 1 .. m |->
                    IF n \in (offset + 1) .. (offset + Len(bytes)) THEN bytes[n - offset] ELSE old[n]]
      BY <1>13
    <3> HIDE DEF m
    <3>5. \A n \in 1 .. Len(old) : new[n] = over[n]
      BY <1>11, <3>2, <3>3, <3>4
    <3>6. SubSeq(over, 1, Len(old)) = [n \in 1 .. Len(old) |-> over[n]]
      <4> DEFINE T == {over[n] : n \in 1 .. m}
      <4>1. over \in [1 .. m -> T]
        BY <3>4
      <4> HIDE DEF T
      <4>2. over \in Seq(T) /\ Len(over) = m
        BY <3>3, <4>1
      <4>3. \A n \in 1 .. Len(old) : n + 1 - 1 = n
        BY <3>3
      <4> QED BY <3>3, <4>2, <4>3
    <3>7. new = [n \in 1 .. Len(old) |-> new[n]]
      BY <1>12, <3>2
    <3>8. new = SubSeq(over, 1, Len(old))
      BY <3>5, <3>6, <3>7
    <3> QED BY <3>1, <3>8
  <2> QED BY <1>9, <2>1, <2>2
<1>16. Files!Write(old, new, bytes)
  BY <1>10, <1>14, <1>15 DEF Files!Write, over
<1>17. Content' = [Content EXCEPT ![f] = new]
  BY <1>6, ContentHere, ContentNext
<1> QED BY <1>7, <1>8, <1>16, <1>17, OneFile

(* Through blocks, bitmaps and inodes on the disk and structs in memory    *)
(* that may be ahead of it, a file is a sequence of bytes: every step of   *)
(* the layers is a step of ByteFile or leaves all the bytes as they are.   *)
THEOREM FilesAreBytes == Spec => ImplementsByteFile
<1>1. Init => Files!Init
  <2> SUFFICES ASSUME Init PROVE Files!Init
    OBVIOUS
  <2>1. Content = [f \in Inum |-> NONE]
    BY DEF Init, Content
  <2> QED BY <2>1 DEF Init, Files!Init
<1>2. FilesKept /\ [Next]_vars => [Files!Next]_(Files!vars)
  <2> SUFFICES ASSUME FilesKept, [Next]_vars
               PROVE  Files!Next \/ (Content' = Content /\ failed' = failed)
    BY DEF Files!vars
  <2>1. CASE Create
    BY <2>1, CreateSteps
  <2>2. ASSUME NEW f \in Inum, Open(f) PROVE Content' = Content /\ failed' = failed
    BY <2>2, OpenStutters
  <2>3. ASSUME NEW f \in Inum, Close(f) PROVE Content' = Content /\ failed' = failed
    BY <2>3, CloseStutters
  <2>4. ASSUME NEW f \in Inum, Remove(f) PROVE Files!Next
    BY <2>4, RemoveSteps
  <2>5. ASSUME NEW f \in Inum, NEW marks \in Marks, NEW offset \in 0 .. MAX_FILE_SIZE,
               Write(f, offset, marks)
        PROVE  Files!Next
    BY <2>5, WriteSteps
  <2>6. CASE UNCHANGED vars
    <3>1. disk' = disk /\ copy' = copy /\ live' = live /\ failed' = failed
      BY <2>6 DEF vars
    <3> QED BY <3>1, ContentHere, ContentNext
  <2> QED BY <2>1, <2>2, <2>3, <2>4, <2>5, <2>6 DEF Next
<1> QED BY <1>1, <1>2, Invariance, PTL DEF Spec, ImplementsByteFile, Files!Spec

=============================================================================
