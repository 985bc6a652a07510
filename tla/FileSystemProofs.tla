-------------------------- MODULE FileSystemProofs -------------------------
(***************************************************************************)
(* Theorems about FileSystem, for every size of the disk and every set of  *)
(* names and paths.                                                        *)
(***************************************************************************)
EXTENDS FileSystem, FiniteSetTheorems, SequenceTheorems, WellFoundedInduction, TLAPS

-----------------------------------------------------------------------------
(* Numbers and names *)

LEMMA Division ==
  ASSUME NEW k \in Nat \ {0}, NEW n \in Nat
  PROVE  /\ n \div k \in Nat /\ n % k \in 0 .. (k - 1)
         /\ n = k * (n \div k) + (n % k)
BY SMT

LEMMA QuotientBound ==
  ASSUME NEW k \in Nat \ {0}, NEW n \in Nat, NEW m \in Nat, n < k * m
  PROVE  n \div k < m
<1>1. n \div k \in Nat /\ n >= k * (n \div k)
  BY Division
<1>2. SUFFICES ASSUME n \div k >= m PROVE FALSE
  BY <1>1
<1>3. k * (n \div k) >= k * m
  BY <1>1, <1>2, SMT
<1> QED BY <1>1, <1>3

LEMMA Numbers ==
  /\ NUM_INODES \in Nat \ {0} /\ NUM_DATA_BLOCKS \in Nat \ {0} /\ NDIRECT \in Nat \ {0}
  /\ DIRENTS_PER_BLOCK \in Nat \ {0}
  /\ Inum = 0 .. (NUM_INODES - 1) /\ Dnum = 0 .. (NUM_DATA_BLOCKS - 1)
  /\ Direct = 0 .. (NDIRECT - 1) /\ Slot = 0 .. (DIRENTS_PER_BLOCK - 1)
  /\ ROOT_INODE = 0 /\ ROOT_INODE \in Inum
  /\ \A n \in Inum \cup Dnum \cup Direct : n \in Nat /\ n # -1
BY FileSystemAssumption DEF Inum, Dnum, Direct, Slot, ROOT_INODE

(* The names that cannot be typed differ from each other and the rest. *)
LEMMA Names ==
  /\ DOT # DOTDOT /\ DOT # NONAME /\ DOT # WILD /\ DOT # JUNK
  /\ DOTDOT # NONAME /\ DOTDOT # WILD /\ DOTDOT # JUNK
  /\ NONAME # WILD /\ NONAME # JUNK /\ WILD # JUNK
  /\ DOT \notin Name /\ DOTDOT \notin Name /\ NONAME \notin Name /\ WILD \notin Name
  /\ JUNK \notin Name
<1> DEFINE S1 == {DOT}
           S2 == S1 \cup {DOTDOT}
           S3 == S2 \cup {NONAME}
           S4 == S3 \cup {WILD}
           S5 == S4 \cup {JUNK}
<1>1. IsFiniteSet(S1) /\ Cardinality(S1) = 1
  BY FS_Singleton
<1> HIDE DEF S1
<1>2. IsFiniteSet(S2) /\ Cardinality(S2) = IF DOTDOT \in S1 THEN 1 ELSE 2
  BY <1>1, FS_AddElement
<1> HIDE DEF S2
<1>3. IsFiniteSet(S3) /\ Cardinality(S3) = IF NONAME \in S2 THEN Cardinality(S2) ELSE Cardinality(S2) + 1
  BY <1>2, FS_AddElement
<1> HIDE DEF S3
<1>4. IsFiniteSet(S4) /\ Cardinality(S4) = IF WILD \in S3 THEN Cardinality(S3) ELSE Cardinality(S3) + 1
  BY <1>3, FS_AddElement
<1> HIDE DEF S4
<1>5. Cardinality(S5) = IF JUNK \in S4 THEN Cardinality(S4) ELSE Cardinality(S4) + 1
  BY <1>4, FS_AddElement
<1>6. Cardinality(S5) = 5
  <2>1. S5 = {DOT, DOTDOT, NONAME, WILD, JUNK}
    BY DEF S4, S3, S2, S1
  <2> QED BY <2>1, FileSystemAssumption
<1>7. DOTDOT \notin S1 /\ NONAME \notin S2 /\ WILD \notin S3 /\ JUNK \notin S4
  BY <1>2, <1>3, <1>4, <1>5, <1>6
<1> QED BY <1>7, FileSystemAssumption DEF S4, S3, S2, S1

(* The block and the slot of an entry. *)
LEMMA PlaceOf ==
  ASSUME NEW o \in Nat
  PROVE  /\ o \div DIRENTS_PER_BLOCK \in Nat /\ o % DIRENTS_PER_BLOCK \in Slot
         /\ o = (o \div DIRENTS_PER_BLOCK) * DIRENTS_PER_BLOCK + (o % DIRENTS_PER_BLOCK)
         /\ (o \div DIRENTS_PER_BLOCK) * DIRENTS_PER_BLOCK \in Nat
         /\ (o \div DIRENTS_PER_BLOCK) * DIRENTS_PER_BLOCK <= o
<1> DEFINE K == DIRENTS_PER_BLOCK
           q == o \div K
<1>1. K \in Nat \ {0} /\ Slot = 0 .. (K - 1)
  BY Numbers
<1>2. q \in Nat /\ o % K \in 0 .. (K - 1) /\ o = K * q + (o % K)
  BY <1>1, Division
<1> HIDE DEF K, q
<1>3. K * q = q * K /\ q * K \in Nat
  BY <1>1, <1>2, SMT
<1> DEFINE w == q * K
<1>4. w \in Nat /\ o = w + (o % K) /\ o % K \in Nat
  BY <1>1, <1>2, <1>3
<1>5. w <= o
  <2> HIDE DEF w
  <2> QED BY <1>4
<1> QED BY <1>1, <1>2, <1>4, <1>5 DEF K, q

LEMMA SamePlace ==
  ASSUME NEW o \in Nat, NEW q \in Nat,
         o \div DIRENTS_PER_BLOCK = q \div DIRENTS_PER_BLOCK,
         o % DIRENTS_PER_BLOCK = q % DIRENTS_PER_BLOCK
  PROVE  o = q
BY PlaceOf

-----------------------------------------------------------------------------
(* Disks whose directories D have their blocks to themselves *)

Disk == [ibitmap : SUBSET Inum, dbitmap : SUBSET Dnum, itable : [Inum -> Inode],
         dblocks : [Dnum -> [Slot -> Dirent]]]

Size(d, i) == d.itable[i].size
At(d, i, o) == EntryAt(d, d.itable[i], o)
BlockOf(d, i, o) == d.itable[i].addrs[o \div DIRENTS_PER_BLOCK]

(* A directory has a block for every entry and no other. *)
Mapped(d, i) ==
  /\ BlocksOf(d, i) \subseteq d.dbitmap
  /\ \A a \in Direct : d.itable[i].addrs[a] # -1 <=> a * DIRENTS_PER_BLOCK < Size(d, i)
  /\ \A a, b \in Direct : (a # b /\ d.itable[i].addrs[a] # -1) =>
                            d.itable[i].addrs[a] # d.itable[i].addrs[b]

Laid(d, D) ==
  /\ d \in Disk /\ D \subseteq Inum
  /\ \A i \in D : Mapped(d, i)
  /\ \A i, j \in D : i # j => BlocksOf(d, i) \cap BlocksOf(d, j) = {}

LEMMA DiskFields ==
  ASSUME NEW d \in Disk
  PROVE  /\ d.ibitmap \subseteq Inum /\ d.dbitmap \subseteq Dnum
         /\ d = [ibitmap |-> d.ibitmap, dbitmap |-> d.dbitmap, itable |-> d.itable,
                 dblocks |-> d.dblocks]
         /\ d.itable \in [Inum -> Inode] /\ d.dblocks \in [Dnum -> [Slot -> Dirent]]
         /\ \A i \in Inum : /\ d.itable[i] \in Inode /\ Size(d, i) \in Nat
                            /\ Size(d, i) <= NDIRECT * DIRENTS_PER_BLOCK
                            /\ d.itable[i].num_links \in Nat
                            /\ d.itable[i].addrs \in [Direct -> Dnum \cup {-1}]
<1>1. NDIRECT * DIRENTS_PER_BLOCK \in Nat
  BY Numbers, SMT
<1> HIDE DEF Inum
<1>2. \A inode \in Inode :
        /\ inode.size \in Nat /\ inode.size <= NDIRECT * DIRENTS_PER_BLOCK
        /\ inode.num_links \in Nat /\ inode.addrs \in [Direct -> Dnum \cup {-1}]
  BY <1>1 DEF Inode
<1> QED BY <1>2 DEF Disk, Size

(* Every offset below the size of a directory is a place in one of its     *)
(* blocks.                                                                 *)
LEMMA BlockAt ==
  ASSUME NEW d, NEW D, Laid(d, D), NEW i \in D, NEW o \in Offsets(d.itable[i])
  PROVE  /\ o \in Nat /\ o < Size(d, i)
         /\ o \div DIRENTS_PER_BLOCK \in Direct /\ o % DIRENTS_PER_BLOCK \in Slot
         /\ BlockOf(d, i, o) \in Dnum /\ BlockOf(d, i, o) \in BlocksOf(d, i)
         /\ At(d, i, o) = d.dblocks[BlockOf(d, i, o)][o % DIRENTS_PER_BLOCK]
         /\ At(d, i, o) \in Dirent
<1>1. d \in Disk /\ i \in Inum /\ Mapped(d, i)
  BY DEF Laid
<1>2. o \in Nat /\ o < Size(d, i) /\ Size(d, i) \in Nat /\ Size(d, i) <= NDIRECT * DIRENTS_PER_BLOCK
  BY <1>1, DiskFields DEF Offsets, Size
<1> DEFINE a == o \div DIRENTS_PER_BLOCK
<1>3. a \in Nat /\ o % DIRENTS_PER_BLOCK \in Slot /\ a * DIRENTS_PER_BLOCK <= o
      /\ a * DIRENTS_PER_BLOCK \in Nat
  BY <1>2, PlaceOf
<1>4. a < NDIRECT
  <2>1. o < DIRENTS_PER_BLOCK * NDIRECT
    <3>1. NDIRECT * DIRENTS_PER_BLOCK = DIRENTS_PER_BLOCK * NDIRECT
          /\ NDIRECT * DIRENTS_PER_BLOCK \in Nat
      BY Numbers, SMT
    <3> QED BY <1>2, <3>1
  <2> QED BY <1>2, <2>1, Numbers, QuotientBound
<1> HIDE DEF a
<1>5. a \in Direct
  BY <1>3, <1>4, Numbers
<1>6. a * DIRENTS_PER_BLOCK < Size(d, i)
  BY <1>2, <1>3
<1>7. d.itable[i].addrs[a] \in Dnum \cup {-1} /\ d.itable[i].addrs[a] # -1
  BY <1>1, <1>5, <1>6, DiskFields DEF Mapped
<1>8. d.itable[i].addrs[a] \in BlocksOf(d, i)
  BY <1>5, <1>7 DEF BlocksOf
<1>9. d.dblocks \in [Dnum -> [Slot -> Dirent]]
  BY <1>1, DiskFields
<1> QED BY <1>2, <1>3, <1>5, <1>7, <1>8, <1>9 DEF BlockOf, At, EntryAt, a

(* Two entries in one place are the same entry. *)
LEMMA OnePlace ==
  ASSUME NEW d, NEW D, Laid(d, D), NEW i \in D, NEW j \in D,
         NEW o \in Offsets(d.itable[i]), NEW q \in Offsets(d.itable[j]),
         BlockOf(d, i, o) = BlockOf(d, j, q), o % DIRENTS_PER_BLOCK = q % DIRENTS_PER_BLOCK
  PROVE  i = j /\ o = q
<1>1. BlockOf(d, i, o) \in BlocksOf(d, i) \cap BlocksOf(d, j)
  BY BlockAt
<1>2. i = j
  BY <1>1 DEF Laid
<1>3. o \div DIRENTS_PER_BLOCK \in Direct /\ q \div DIRENTS_PER_BLOCK \in Direct
      /\ BlockOf(d, i, o) # -1 /\ o \in Nat /\ q \in Nat
  BY BlockAt, Numbers
<1>4. o \div DIRENTS_PER_BLOCK = q \div DIRENTS_PER_BLOCK
  <2>1. Mapped(d, i)
    BY DEF Laid
  <2> QED BY <1>2, <1>3, <2>1 DEF Mapped, BlockOf
<1> QED BY <1>2, <1>3, <1>4, SamePlace

(* An entry written below the size of directory i changes nothing else.    *)
Put(d, e, D, i, o, x) ==
  /\ Laid(e, D) /\ e.ibitmap = d.ibitmap /\ e.itable = d.itable
  /\ \A j \in D : \A q \in Offsets(d.itable[j]) :
       At(e, j, q) = IF j = i /\ q = o THEN x ELSE At(d, j, q)

LEMMA WritePuts ==
  ASSUME NEW d, NEW D, Laid(d, D), NEW i \in D, NEW o \in Offsets(d.itable[i]),
         NEW x \in Dirent
  PROVE  Put(d, WriteAt(d, d.itable[i], o, x), D, i, o, x)
<1> DEFINE b == BlockOf(d, i, o)
           s == o % DIRENTS_PER_BLOCK
           e == WriteAt(d, d.itable[i], o, x)
<1>1. d \in Disk /\ b \in Dnum /\ s \in Slot
  BY BlockAt DEF Laid
<1>2. e = [d EXCEPT !.dblocks[b][s] = x]
  BY DEF WriteAt, BlockOf
<1> HIDE DEF e, b, s
<1>3. /\ e.ibitmap = d.ibitmap /\ e.itable = d.itable /\ e.dbitmap = d.dbitmap
      /\ e.dblocks = [d.dblocks EXCEPT ![b][s] = x]
      /\ e = [ibitmap |-> e.ibitmap, dbitmap |-> e.dbitmap, itable |-> e.itable,
              dblocks |-> e.dblocks]
  <2>1. d = [ibitmap |-> d.ibitmap, dbitmap |-> d.dbitmap, itable |-> d.itable,
             dblocks |-> d.dblocks]
    BY <1>1, DiskFields
  <2>2. e = [d EXCEPT !.dblocks = [@ EXCEPT ![b][s] = x]]
    BY <1>2
  <2> QED BY <2>1, <2>2
<1>4. d.dblocks \in [Dnum -> [Slot -> Dirent]]
  BY <1>1, DiskFields
<1>5. e.dblocks \in [Dnum -> [Slot -> Dirent]]
      /\ \A c \in Dnum, t \in Slot :
           e.dblocks[c][t] = IF c = b /\ t = s THEN x ELSE d.dblocks[c][t]
  BY <1>1, <1>3, <1>4
<1>6. e \in Disk
  BY <1>1, <1>3, <1>5, DiskFields DEF Disk
<1>7. Laid(e, D)
  <2>1. \A j \in D : BlocksOf(e, j) = BlocksOf(d, j) /\ Mapped(e, j)
    BY <1>3 DEF Laid, Mapped, BlocksOf, Size
  <2> QED BY <1>6, <2>1 DEF Laid
<1>8. ASSUME NEW j \in D, NEW q \in Offsets(d.itable[j])
      PROVE  At(e, j, q) = IF j = i /\ q = o THEN x ELSE At(d, j, q)
  <2> DEFINE c == BlockOf(d, j, q)
             t == q % DIRENTS_PER_BLOCK
  <2>1. c \in Dnum /\ t \in Slot /\ At(d, j, q) = d.dblocks[c][t]
    BY BlockAt
  <2>2. At(e, j, q) = e.dblocks[c][t]
    BY <1>3 DEF At, EntryAt, BlockOf
  <2>3. c = b /\ t = s <=> j = i /\ q = o
    BY OnePlace DEF b, s
  <2> HIDE DEF c, t
  <2> QED BY <1>5, <2>1, <2>2, <2>3
<1>9. Put(d, e, D, i, o, x)
  BY <1>3, <1>7, <1>8 DEF Put
<1> QED BY <1>9 DEF e

LEMMA LeastExists ==
  ASSUME NEW S \in SUBSET Nat, S # {}
  PROVE  \E i \in S : \A j \in S : i <= j
<1> DEFINE R == OpToRel(<, Nat)
<1>1. R = {s \in Nat \X Nat : s[1] < s[2]}
  BY Zenon DEF OpToRel
<1>2. IsWellFoundedOn(R, Nat)
  BY NatLessThanWellFounded
<1> HIDE DEF R
<1>3. PICK i \in S : \A j \in S : <<j, i>> \notin R
  BY <1>2, WFMin
<1>4. ASSUME NEW j \in S PROVE i <= j
  <2>1. <<j, i>> \in Nat \X Nat /\ <<j, i>>[1] = j /\ <<j, i>>[2] = i
    OBVIOUS
  <2>2. ~ (j < i)
    BY <1>1, <1>3, <2>1, Zenon
  <2> QED BY <2>2
<1> QED BY <1>4

(* The first of some offsets is one of them. *)
LEMMA FirstIsOne ==
  ASSUME NEW S \in SUBSET Nat, S # {}
  PROVE  FirstOf(S) \in S /\ \A q \in S : FirstOf(S) <= q
BY LeastExists DEF FirstOf

(* A bitmap has a free place or FindFree gives -1. *)
LEMMA FreePlace ==
  ASSUME NEW bitmap, NEW limit \in Nat
  PROVE  LET n == FindFree(bitmap, limit)
         IN  /\ n = -1 \/ (n \in 0 .. (limit - 1) /\ n \notin bitmap)
             /\ n = -1 => 0 .. (limit - 1) \subseteq bitmap
<1> DEFINE free == (0 .. (limit - 1)) \ bitmap
           n == FindFree(bitmap, limit)
<1>1. CASE free = {}
  BY <1>1 DEF FindFree
<1>2. CASE free # {}
  <2>1. \E m \in free : \A k \in free : m <= k
    <3>1. free \in SUBSET Nat
      OBVIOUS
    <3> HIDE DEF free
    <3> QED BY <1>2, <3>1, LeastExists
  <2>2. n = CHOOSE m \in free : \A k \in free : m <= k
    BY <1>2 DEF FindFree
  <2>3. n \in free
    BY <2>1, <2>2
  <2> QED BY <2>3
<1> QED BY <1>1, <1>2

(* An entry added behind the end of directory i changes nothing else.      *)
Grown(d, e, D, i, x) ==
  /\ Laid(e, D) /\ e.ibitmap = d.ibitmap /\ \E b : e.dbitmap = d.dbitmap \cup {b}
  /\ \A j \in Inum \ {i} : e.itable[j] = d.itable[j]
  /\ Size(e, i) = Size(d, i) + 1 /\ e.itable[i].num_links = d.itable[i].num_links
  /\ At(e, i, Size(d, i)) = x
  /\ \A j \in D : \A q \in Offsets(d.itable[j]) : At(e, j, q) = At(d, j, q)

(* The disk before an entry is written behind the end of directory i, once *)
(* block b is there for it.                                                *)
Based(d, i, base, b) ==
  LET addr == Size(d, i) \div DIRENTS_PER_BLOCK IN
  /\ base \in Disk /\ base.ibitmap = d.ibitmap /\ base.itable = d.itable
  /\ base.dbitmap = d.dbitmap \cup {b} /\ addr \in Direct /\ b \in Dnum
  /\ \/ base = d /\ b = d.itable[i].addrs[addr]
     \/ /\ b \notin d.dbitmap /\ d.itable[i].addrs[addr] = -1
        /\ \A c \in Dnum \ {b} : base.dblocks[c] = d.dblocks[c]

LEMMA BasedGrows ==
  ASSUME NEW d, NEW D, Laid(d, D), NEW i \in D, NEW x \in Dirent,
         NEW base, NEW b, Based(d, i, base, b),
         NEW grown, NEW e,
         grown.size = Size(d, i) + 1, grown.num_links = d.itable[i].num_links,
         grown \in Inode,
         \A a \in Direct : grown.addrs[a] = IF a = Size(d, i) \div DIRENTS_PER_BLOCK
                                            THEN b ELSE d.itable[i].addrs[a],
         e = [WriteAt(base, grown, Size(d, i), x) EXCEPT !.itable[i] = grown]
  PROVE  Grown(d, e, D, i, x)
<1> DEFINE n == Size(d, i)
           addr == n \div DIRENTS_PER_BLOCK
           s == n % DIRENTS_PER_BLOCK
<1>1. d \in Disk /\ i \in Inum /\ Mapped(d, i) /\ base \in Disk /\ D \subseteq Inum
  BY DEF Laid, Based
<1>2. n \in Nat /\ addr \in Nat /\ addr \in Direct /\ s \in Slot
      /\ addr * DIRENTS_PER_BLOCK <= n /\ addr * DIRENTS_PER_BLOCK \in Nat
  BY <1>1, DiskFields, PlaceOf DEF Based
<1>3. b \in Dnum /\ b # -1 /\ grown.addrs[addr] = b
  BY <1>2, Numbers DEF Based
<1>4. e = [base EXCEPT !.dblocks = [@ EXCEPT ![b][s] = x], !.itable = [@ EXCEPT ![i] = grown]]
  BY <1>3 DEF WriteAt
<1>5. /\ e.ibitmap = base.ibitmap /\ e.dbitmap = base.dbitmap
      /\ e.dblocks = [base.dblocks EXCEPT ![b][s] = x]
      /\ e.itable = [base.itable EXCEPT ![i] = grown]
      /\ e = [ibitmap |-> e.ibitmap, dbitmap |-> e.dbitmap, itable |-> e.itable,
              dblocks |-> e.dblocks]
  <2>1. base = [ibitmap |-> base.ibitmap, dbitmap |-> base.dbitmap,
                itable |-> base.itable, dblocks |-> base.dblocks]
    BY <1>1, DiskFields
  <2> QED BY <1>4, <2>1
<1>6. /\ e.dblocks \in [Dnum -> [Slot -> Dirent]]
      /\ \A c \in Dnum, t \in Slot :
           e.dblocks[c][t] = IF c = b /\ t = s THEN x ELSE base.dblocks[c][t]
  <2>1. base.dblocks \in [Dnum -> [Slot -> Dirent]]
    BY <1>1, DiskFields
  <2> HIDE DEF s
  <2> QED BY <1>2, <1>3, <1>5, <2>1
<1>7. /\ e.itable \in [Inum -> Inode] /\ e.itable[i] = grown
      /\ \A j \in Inum \ {i} : e.itable[j] = d.itable[j]
  <2>1. base.itable \in [Inum -> Inode] /\ base.itable = d.itable
    BY <1>1, DiskFields DEF Based
  <2> DEFINE T == base.itable
             U == e.itable
  <2>2. T \in [Inum -> Inode] /\ T = d.itable /\ U = [T EXCEPT ![i] = grown] /\ grown \in Inode
    BY <1>5, <2>1
  <2> HIDE DEF T, U
  <2>3. U \in [Inum -> Inode] /\ U[i] = grown /\ \A j \in Inum \ {i} : U[j] = T[j]
    BY <1>1, <2>2
  <2> QED BY <2>2, <2>3 DEF U
<1>8. e \in Disk
  BY <1>1, <1>5, <1>6, <1>7, DiskFields DEF Disk
<1>9. ASSUME NEW j \in D \ {i}
      PROVE  /\ BlocksOf(e, j) = BlocksOf(d, j) /\ Size(e, j) = Size(d, j)
             /\ e.itable[j].addrs = d.itable[j].addrs
  <2>1. e.itable[j] = d.itable[j]
    BY <1>1, <1>7
  <2> QED BY <2>1 DEF BlocksOf, Size
<1>10. BlocksOf(e, i) = BlocksOf(d, i) \cup {b}
  <2>1. \A a \in Direct : e.itable[i].addrs[a] = IF a = addr THEN b ELSE d.itable[i].addrs[a]
    BY <1>7
  <2>2. d.itable[i].addrs[addr] \in {b, -1}
    BY DEF Based
  <2> HIDE DEF addr
  <2> QED BY <1>2, <1>3, <2>1, <2>2 DEF BlocksOf
<1>11. \A j \in D : j # i => b \notin BlocksOf(d, j)
  <2> SUFFICES ASSUME NEW j \in D, j # i PROVE b \notin BlocksOf(d, j)
    OBVIOUS
  <2>1. CASE b \notin d.dbitmap
    BY <2>1 DEF Laid, Mapped
  <2>2. CASE b = d.itable[i].addrs[addr]
    <3>1. b \in BlocksOf(d, i)
      BY <1>2, <1>3, <2>2 DEF BlocksOf
    <3> QED BY <3>1 DEF Laid
  <2> QED BY <2>1, <2>2 DEF Based
<1>12. \A a \in Direct : a # addr => d.itable[i].addrs[a] # b
  <2> SUFFICES ASSUME NEW a \in Direct, a # addr, d.itable[i].addrs[a] = b PROVE FALSE
    OBVIOUS
  <2>1. b \in BlocksOf(d, i) /\ b \in d.dbitmap
    BY <1>1, <1>3 DEF BlocksOf, Mapped
  <2>2. d.itable[i].addrs[addr] = b
    BY <2>1 DEF Based
  <2> HIDE DEF addr
  <2> QED BY <1>1, <1>2, <1>3, <2>2 DEF Mapped
<1> USE DEF Inum
<1>13. Mapped(e, i)
  <2>1. BlocksOf(e, i) \subseteq e.dbitmap
    BY <1>1, <1>5, <1>10 DEF Mapped, Based
  <2>2. \A a \in Direct : e.itable[i].addrs[a] = IF a = addr THEN b ELSE d.itable[i].addrs[a]
    BY <1>7
  <2>3. Size(e, i) = n + 1
    BY <1>7 DEF Size
  <2>4. ASSUME NEW a \in Direct
        PROVE  e.itable[i].addrs[a] # -1 <=> a * DIRENTS_PER_BLOCK < Size(e, i)
    <3>1. a * DIRENTS_PER_BLOCK \in Nat /\ a \in Nat
      BY Numbers, SMT
    <3>2. CASE a = addr
      BY <1>2, <1>3, <2>2, <2>3, <3>2
    <3>3. CASE a # addr
      <4>1. a * DIRENTS_PER_BLOCK # n
        <5> SUFFICES ASSUME a * DIRENTS_PER_BLOCK = n PROVE FALSE
          OBVIOUS
        <5>1. (a * DIRENTS_PER_BLOCK) \div DIRENTS_PER_BLOCK = a
          BY <3>1, Numbers, SMT
        <5> QED BY <3>3, <5>1
      <4>2. d.itable[i].addrs[a] # -1 <=> a * DIRENTS_PER_BLOCK < n
        BY <1>1 DEF Mapped
      <4> HIDE DEF addr, n
      <4> DEFINE w == a * DIRENTS_PER_BLOCK
      <4>3. w < n + 1 <=> w < n
        <5>1. w \in Nat /\ w # n
          BY <3>1, <4>1
        <5> HIDE DEF w
        <5> QED BY <1>2, <5>1
      <4> QED BY <2>2, <2>3, <3>3, <4>2, <4>3
    <3> QED BY <3>2, <3>3
  <2>5. \A a, c \in Direct : (a # c /\ e.itable[i].addrs[a] # -1) =>
                               e.itable[i].addrs[a] # e.itable[i].addrs[c]
    <3> HIDE DEF addr
    <3> QED BY <1>1, <1>12, <2>2 DEF Mapped
  <2> QED BY <2>1, <2>4, <2>5 DEF Mapped
<1>14. Laid(e, D)
  <2>1. ASSUME NEW j \in D PROVE Mapped(e, j)
    <3>1. CASE j = i
      BY <1>13, <3>1
    <3>2. CASE j # i
      <4>1. Mapped(d, j) /\ d.dbitmap \subseteq e.dbitmap
        BY <1>5 DEF Laid, Based
      <4>2. /\ BlocksOf(e, j) = BlocksOf(d, j) /\ Size(e, j) = Size(d, j)
            /\ e.itable[j].addrs = d.itable[j].addrs
        BY <1>9, <3>2
      <4> QED BY <4>1, <4>2 DEF Mapped
    <3> QED BY <3>1, <3>2
  <2>2. ASSUME NEW j \in D, NEW k \in D, j # k
        PROVE  BlocksOf(e, j) \cap BlocksOf(e, k) = {}
    <3>1. BlocksOf(d, j) \cap BlocksOf(d, k) = {}
      BY <2>2 DEF Laid
    <3> QED BY <1>9, <1>10, <1>11, <2>2, <3>1
  <2> QED BY <1>1, <1>8, <2>1, <2>2 DEF Laid
<1>15. At(e, i, n) = x
  <2>1. At(e, i, n) = e.dblocks[b][s]
    BY <1>3, <1>7 DEF At, EntryAt
  <2> QED BY <1>2, <1>3, <1>6, <2>1
<1>16. ASSUME NEW j \in D, NEW q \in Offsets(d.itable[j]) PROVE At(e, j, q) = At(d, j, q)
  <2> DEFINE c == BlockOf(d, j, q)
             t == q % DIRENTS_PER_BLOCK
             p == q \div DIRENTS_PER_BLOCK
  <2>1. /\ c \in Dnum /\ t \in Slot /\ p \in Direct /\ q \in Nat /\ q < Size(d, j)
        /\ c \in BlocksOf(d, j) /\ At(d, j, q) = d.dblocks[c][t]
    BY BlockAt
  <2>2. e.itable[j].addrs[p] = c
    <3>1. CASE j # i
      BY <1>1, <1>7, <3>1 DEF BlockOf
    <3>2. CASE j = i /\ p # addr
      BY <1>7, <2>1, <3>2 DEF BlockOf
    <3>3. CASE j = i /\ p = addr
      <4>1. d.itable[i].addrs[addr] = c /\ c # -1
        BY <2>1, <3>3, Numbers DEF BlockOf
      <4>2. d.itable[i].addrs[addr] = b
        BY <4>1 DEF Based
      <4> QED BY <1>3, <1>7, <3>3, <4>1, <4>2
    <3> QED BY <3>1, <3>2, <3>3
  <2>3. At(e, j, q) = e.dblocks[c][t]
    BY <2>2 DEF At, EntryAt
  <2>4. base.dblocks[c] = d.dblocks[c]
    <3>1. c \in d.dbitmap
      BY <2>1 DEF Laid, Mapped
    <3> HIDE DEF c
    <3> QED BY <2>1, <3>1 DEF Based
  <2>5. ~ (c = b /\ t = s)
    <3> SUFFICES ASSUME c = b, t = s PROVE FALSE
      OBVIOUS
    <3>1. j = i
      BY <1>11, <2>1
    <3>2. p = addr
      <4>1. d.itable[i].addrs[p] = b
        BY <3>1 DEF BlockOf
      <4> HIDE DEF p, addr
      <4> QED BY <1>12, <2>1, <4>1
    <3>3. q = n
      BY <1>2, <2>1, <3>2, SamePlace
    <3> QED BY <2>1, <3>1, <3>3
  <2> HIDE DEF c, t, s, p
  <2> QED BY <1>6, <2>1, <2>3, <2>4, <2>5
<1>17. /\ e.ibitmap = d.ibitmap /\ e.dbitmap = d.dbitmap \cup {b}
       /\ Size(e, i) = Size(d, i) + 1
       /\ e.itable[i].num_links = d.itable[i].num_links
  BY <1>5, <1>7 DEF Based, Size
<1> HIDE DEF addr, s, n
<1> QED BY <1>7, <1>14, <1>15, <1>16, <1>17 DEF Grown, n

LEMMA Allocated ==
  ASSUME NEW d \in Disk, NEW b \in Dnum
  PROVE  LET e == DataAlloc(d, b)
         IN  /\ e \in Disk /\ e.ibitmap = d.ibitmap /\ e.itable = d.itable
             /\ e.dbitmap = d.dbitmap \cup {b}
             /\ \A c \in Dnum \ {b} : e.dblocks[c] = d.dblocks[c]
<1> DEFINE e == DataAlloc(d, b)
<1>1. d = [ibitmap |-> d.ibitmap, dbitmap |-> d.dbitmap, itable |-> d.itable,
           dblocks |-> d.dblocks]
  BY DiskFields
<1>2. /\ e.ibitmap = d.ibitmap /\ e.itable = d.itable
      /\ e.dbitmap = d.dbitmap \cup {b} /\ e.dblocks = [d.dblocks EXCEPT ![b] = ZeroBlock]
      /\ e = [ibitmap |-> e.ibitmap, dbitmap |-> e.dbitmap, itable |-> e.itable,
              dblocks |-> e.dblocks]
  <2>1. e = [d EXCEPT !.dblocks = [@ EXCEPT ![b] = ZeroBlock], !.dbitmap = @ \cup {b}]
    BY DEF DataAlloc
  <2> HIDE DEF e
  <2> QED BY <1>1, <2>1
<1> HIDE DEF e
<1>3. ZeroBlock \in [Slot -> Dirent]
  BY Numbers DEF ZeroBlock, ZeroEntry, Dirent
<1>4. e.dblocks \in [Dnum -> [Slot -> Dirent]] /\ \A c \in Dnum \ {b} : e.dblocks[c] = d.dblocks[c]
  BY <1>2, <1>3, DiskFields
<1>5. e \in Disk
  BY <1>2, <1>4, DiskFields DEF Disk
<1> QED BY <1>2, <1>4, <1>5 DEF e

(* What AppendEntry returns. *)
Appended(d, r, D, i, x) ==
  /\ r.ok \in BOOLEAN
  /\ ~ r.ok => r.disk = d
  /\ r.ok => Grown(d, r.disk, D, i, x)

LEMMA RoomBelow ==
  ASSUME NEW n \in Nat, n \div DIRENTS_PER_BLOCK \in Direct
  PROVE  n + 1 <= NDIRECT * DIRENTS_PER_BLOCK
<1> DEFINE a == n \div DIRENTS_PER_BLOCK
           s == n % DIRENTS_PER_BLOCK
<1>1. a \in Nat /\ a + 1 <= NDIRECT /\ s \in Nat /\ s < DIRENTS_PER_BLOCK
      /\ n = a * DIRENTS_PER_BLOCK + s
  <2>1. a \in Nat /\ s \in Slot /\ n = a * DIRENTS_PER_BLOCK + s
    BY PlaceOf
  <2>2. a \in Direct
    OBVIOUS
  <2> HIDE DEF a, s
  <2> QED BY <2>1, <2>2, Numbers
<1> HIDE DEF a, s
<1>2. (a + 1) * DIRENTS_PER_BLOCK <= NDIRECT * DIRENTS_PER_BLOCK
  BY <1>1, Numbers, SMT
<1>3. (a + 1) * DIRENTS_PER_BLOCK = a * DIRENTS_PER_BLOCK + DIRENTS_PER_BLOCK
  BY <1>1, Numbers, SMT
<1>4. a * DIRENTS_PER_BLOCK \in Nat /\ NDIRECT * DIRENTS_PER_BLOCK \in Nat
  BY <1>1, Numbers, SMT
<1> QED BY <1>1, <1>2, <1>3, <1>4, Numbers

LEMMA AppendGrows ==
  ASSUME NEW d, NEW D, Laid(d, D), NEW i \in D, NEW x \in Dirent
  PROVE  Appended(d, AppendEntry(d, i, x), D, i, x)
<1> DEFINE inode == d.itable[i]
           addr == inode.size \div DIRENTS_PER_BLOCK
           fresh == FindFree(d.dbitmap, NUM_DATA_BLOCKS)
           mapped == addr \in Direct /\ inode.addrs[addr] # -1
           grown == [inode EXCEPT !.size = @ + 1, !.addrs[addr] = IF mapped THEN @ ELSE fresh]
           base == IF mapped THEN d ELSE DataAlloc(d, fresh)
           b == IF mapped THEN inode.addrs[addr] ELSE fresh
           e == [WriteAt(base, grown, inode.size, x) EXCEPT !.itable[i] = grown]
           fails == addr \notin Direct \/ (~ mapped /\ fresh = -1)
<1>1. AppendEntry(d, i, x) = IF fails THEN Returns(FALSE, d) ELSE Returns(TRUE, e)
  BY DEF AppendEntry
<1>2. CASE fails
  <2>1. AppendEntry(d, i, x) = [ok |-> FALSE, disk |-> d]
    <3> HIDE DEF fails, e
    <3> QED BY <1>1, <1>2 DEF Returns
  <2> QED BY <2>1 DEF Appended
<1>3. CASE ~ fails
  <2>1. d \in Disk /\ i \in Inum /\ inode \in Inode /\ inode.size \in Nat
        /\ inode.addrs \in [Direct -> Dnum \cup {-1}] /\ inode.num_links \in Nat
    BY DiskFields DEF Laid, Size
  <2>2. addr \in Direct /\ (mapped \/ fresh # -1)
    BY <1>3
  <2>3. fresh # -1 => fresh \in Dnum /\ fresh \notin d.dbitmap
    BY FreePlace, Numbers
  <2>4. b \in Dnum
    BY <2>1, <2>2, <2>3
  <2>5. inode = [size |-> inode.size, num_links |-> inode.num_links, addrs |-> inode.addrs]
    BY <2>1 DEF Inode
  <2>6. grown = [size |-> inode.size + 1, num_links |-> inode.num_links,
                 addrs |-> [inode.addrs EXCEPT ![addr] = b]]
    <3>1. grown = [inode EXCEPT !.size = @ + 1, !.addrs = [@ EXCEPT ![addr] = b]]
      OBVIOUS
    <3> HIDE DEF grown, addr, b, inode
    <3> QED BY <2>5, <3>1
  <2>7. inode.size + 1 \in 0 .. (NDIRECT * DIRENTS_PER_BLOCK)
    <3>1. inode.size + 1 <= NDIRECT * DIRENTS_PER_BLOCK
      BY <2>1, <2>2, RoomBelow
    <3>2. NDIRECT * DIRENTS_PER_BLOCK \in Nat
      BY Numbers, SMT
    <3> QED BY <2>1, <3>1, <3>2
  <2>8. Based(d, i, base, b)
    <3>1. CASE mapped
      <4>1. b \in d.dbitmap
        <5>1. b \in BlocksOf(d, i)
          BY <3>1 DEF BlocksOf
        <5> QED BY <5>1 DEF Laid, Mapped
      <4>2. d.dbitmap = d.dbitmap \cup {b}
        BY <4>1
      <4>3. base = d /\ b = inode.addrs[addr]
        BY <3>1
      <4> QED BY <2>1, <2>2, <2>4, <4>2, <4>3 DEF Based, Size
    <3>2. CASE ~ mapped
      <4>1. base = DataAlloc(d, fresh) /\ b = fresh /\ fresh \in Dnum
            /\ inode.addrs[addr] = -1 /\ fresh \notin d.dbitmap
        BY <2>2, <2>3, <3>2
      <4> HIDE DEF base, b, fresh
      <4> QED BY <2>1, <2>2, <4>1, Allocated DEF Based, Size
    <3> QED BY <3>1, <3>2
  <2> HIDE DEF b, base, mapped
  <2>9. /\ grown.size = Size(d, i) + 1 /\ grown.num_links = d.itable[i].num_links
        /\ grown \in Inode
        /\ \A a \in Direct : grown.addrs[a] = IF a = addr THEN b ELSE inode.addrs[a]
    <3> HIDE DEF grown, addr
    <3>1. [inode.addrs EXCEPT ![addr] = b] \in [Direct -> Dnum \cup {-1}]
      BY <2>1, <2>4
    <3> QED BY <2>1, <2>6, <2>7, <3>1 DEF Inode, Size
  <2> HIDE DEF grown
  <2>10. Grown(d, e, D, i, x)
    BY <2>8, <2>9, BasedGrows DEF Size
  <2> QED BY <1>1, <1>3, <2>10 DEF Returns, Appended
<1> QED BY <1>2, <1>3

LEMMA OffsetsOf ==
  ASSUME NEW d \in Disk, NEW i \in Inum
  PROVE  /\ Offsets(d.itable[i]) = 0 .. (Size(d, i) - 1) /\ Size(d, i) \in Nat
         /\ Offsets(d.itable[i]) \in SUBSET Nat
BY DiskFields DEF Offsets, Size

(* Entry o of directory i is in use under a name. *)
Named(d, i, o, name) == At(d, i, o).valid /\ At(d, i, o).name = name

(* dir_lookup gives the inode of an entry with the name, or -1. *)
LEMMA LookupFinds ==
  ASSUME NEW d \in Disk, NEW i \in Inum, NEW name
  PROVE  \/ /\ DirLookup(d, i, name) = -1
            /\ \A o \in Offsets(d.itable[i]) : ~ Named(d, i, o, name)
         \/ \E o \in Offsets(d.itable[i]) :
              Named(d, i, o, name) /\ DirLookup(d, i, name) = At(d, i, o).inum
<1> DEFINE found == {o \in Offsets(d.itable[i]) : Named(d, i, o, name)}
<1>1. DirLookup(d, i, name) = IF found = {} THEN -1 ELSE At(d, i, FirstOf(found)).inum
  BY DEF DirLookup, Named, At
<1>2. CASE found = {}
  BY <1>1, <1>2
<1>3. CASE found # {}
  <2>1. found \in SUBSET Nat
    BY OffsetsOf
  <2>2. FirstOf(found) \in found
    <3> HIDE DEF found
    <3> QED BY <1>3, <2>1, FirstIsOne
  <2> QED BY <1>1, <1>3, <2>2
<1> QED BY <1>2, <1>3

(* What dir_add returns: nothing is written, or a hole is filled with the  *)
(* junk, or the entry is behind the others and there was no hole.          *)
Added(d, r, D, i, x, junk) ==
  /\ r.ok \in BOOLEAN
  /\ ~ r.ok => r.disk = d
  /\ r.ok => /\ DirLookup(d, i, x.name) = -1
             /\ \/ \E o \in Offsets(d.itable[i]) :
                     ~ At(d, i, o).valid /\ Put(d, r.disk, D, i, o, junk)
                \/ /\ \A o \in Offsets(d.itable[i]) : At(d, i, o).valid
                   /\ Grown(d, r.disk, D, i, x)

LEMMA AddOutcome ==
  ASSUME NEW d, NEW D, Laid(d, D), NEW i \in D, NEW x \in Dirent, NEW junk \in Dirent
  PROVE  Added(d, DirAdd(d, i, x, junk), D, i, x, junk)
<1> DEFINE holes == {o \in Offsets(d.itable[i]) : ~ At(d, i, o).valid}
           hit == DirLookup(d, i, x.name) # -1
           e == WriteAt(d, d.itable[i], FirstOf(holes), junk)
<1>1. DirAdd(d, i, x, junk) =
        CASE hit -> Returns(FALSE, d)
          [] ~ hit /\ holes # {} -> Returns(TRUE, e)
          [] OTHER -> AppendEntry(d, i, x)
  BY DEF DirAdd, At
<1> HIDE DEF hit, e
<1>2. CASE hit
  <2>1. DirAdd(d, i, x, junk) = [ok |-> FALSE, disk |-> d]
    <3> HIDE DEF holes
    <3> QED BY <1>1, <1>2 DEF Returns
  <2> QED BY <2>1 DEF Added
<1>3. CASE ~ hit /\ holes # {}
  <2>1. DirAdd(d, i, x, junk) = [ok |-> TRUE, disk |-> e]
    <3> HIDE DEF holes
    <3> QED BY <1>1, <1>3 DEF Returns
  <2>2. FirstOf(holes) \in holes
    <3>1. holes \in SUBSET Nat
      BY OffsetsOf DEF Laid
    <3> HIDE DEF holes
    <3> QED BY <1>3, <3>1, FirstIsOne
  <2>3. Put(d, e, D, i, FirstOf(holes), junk)
    BY <2>2, WritePuts DEF e
  <2> HIDE DEF holes
  <2>4. \E o \in Offsets(d.itable[i]) : ~ At(d, i, o).valid /\ Put(d, e, D, i, o, junk)
    BY <2>2, <2>3 DEF holes
  <2> QED BY <1>3, <2>1, <2>4 DEF Added, hit
<1>4. CASE ~ hit /\ holes = {}
  <2>1. DirAdd(d, i, x, junk) = AppendEntry(d, i, x)
    <3> HIDE DEF holes
    <3> QED BY <1>1, <1>4
  <2>2. Appended(d, DirAdd(d, i, x, junk), D, i, x)
    BY <2>1, AppendGrows
  <2>3. \A o \in Offsets(d.itable[i]) : At(d, i, o).valid
    BY <1>4
  <2> HIDE DEF holes
  <2> QED BY <1>4, <2>2, <2>3 DEF Added, Appended, hit
<1> QED BY <1>2, <1>3, <1>4

(* What the directories in D hold is the same on two disks. *)
Same(d, e, D) ==
  /\ \A j \in D : Size(e, j) = Size(d, j)
  /\ \A j \in D : \A q \in Offsets(d.itable[j]) : At(e, j, q) = At(d, j, q)

(* Inode n is taken on disk e: it has no entries, and no other directory   *)
(* changes.                                                                *)
Taken(d, e, D, n, k) ==
  /\ Laid(e, D \cup {n}) /\ Same(d, e, D) /\ e.ibitmap = d.ibitmap \cup {n}
  /\ e.dbitmap = d.dbitmap
  /\ \A j \in Inum \ {n} : e.itable[j] = d.itable[j]
  /\ Size(e, n) = 0 /\ e.itable[n].num_links = k

LEMMA InodeTaken ==
  ASSUME NEW d, NEW D, Laid(d, D), NEW n \in Inum, n \notin D, NEW k \in Nat
  PROVE  Taken(d, InodeAlloc(d, n, k), D, n, k)
<1> DEFINE e == InodeAlloc(d, n, k)
           new == [size |-> 0, num_links |-> k, addrs |-> [i \in Direct |-> -1]]
<1>1. d \in Disk /\ D \subseteq Inum /\ n \in Inum
  BY DEF Laid
<1>2. d = [ibitmap |-> d.ibitmap, dbitmap |-> d.dbitmap, itable |-> d.itable,
           dblocks |-> d.dblocks]
  BY <1>1, DiskFields
<1>3. e = [d EXCEPT !.ibitmap = @ \cup {n}, !.itable = [@ EXCEPT ![n] = new]]
  BY DEF InodeAlloc
<1>4. new \in Inode /\ new.size = 0 /\ new.num_links = k /\ \A a \in Direct : new.addrs[a] = -1
  <2>1. 0 \in 0 .. (NDIRECT * DIRENTS_PER_BLOCK)
    <3>1. NDIRECT * DIRENTS_PER_BLOCK \in Nat
      BY Numbers, SMT
    <3> QED BY <3>1
  <2> QED BY <2>1 DEF Inode
<1> HIDE DEF e, new
<1>5. /\ e.ibitmap = d.ibitmap \cup {n} /\ e.dbitmap = d.dbitmap /\ e.dblocks = d.dblocks
      /\ e.itable = [d.itable EXCEPT ![n] = new]
      /\ e = [ibitmap |-> e.ibitmap, dbitmap |-> e.dbitmap, itable |-> e.itable,
              dblocks |-> e.dblocks]
  BY <1>2, <1>3
<1>6. /\ e.itable \in [Inum -> Inode] /\ e.itable[n] = new
      /\ \A j \in Inum \ {n} : e.itable[j] = d.itable[j]
  <2>1. d.itable \in [Inum -> Inode]
    BY <1>1, DiskFields
  <2> QED BY <1>1, <1>4, <1>5, <2>1
<1>7. e \in Disk
  BY <1>1, <1>5, <1>6, DiskFields DEF Disk
<1>8. ASSUME NEW j \in D
      PROVE  /\ e.itable[j] = d.itable[j] /\ Mapped(e, j) /\ BlocksOf(e, j) = BlocksOf(d, j)
             /\ Size(e, j) = Size(d, j)
  <2>1. e.itable[j] = d.itable[j] /\ Mapped(d, j)
    BY <1>1, <1>6 DEF Laid
  <2> QED BY <1>5, <2>1 DEF Mapped, BlocksOf, Size
<1>9. BlocksOf(e, n) = {} /\ Size(e, n) = 0
  BY <1>4, <1>6 DEF BlocksOf, Size
<1>10. Mapped(e, n)
  <2>1. \A a \in Direct : a * DIRENTS_PER_BLOCK \in Nat
    BY Numbers, SMT
  <2>2. \A a \in Direct : ~ (a * DIRENTS_PER_BLOCK < 0)
    BY <2>1
  <2> QED BY <1>4, <1>6, <1>9, <2>2 DEF Mapped
<1>11. Laid(e, D \cup {n})
  BY <1>1, <1>7, <1>8, <1>9, <1>10 DEF Laid
<1>12. Same(d, e, D)
  BY <1>5, <1>8 DEF Same, At, EntryAt
<1> QED BY <1>4, <1>5, <1>6, <1>9, <1>11, <1>12 DEF e, Taken

(* inode written back with k links. *)
WithLinks(d, i, inode, k) ==
  [d EXCEPT !.itable[i] = [inode EXCEPT !.num_links = k]]

(* e is d but for k links of directory i. *)
Recount(d, e, D, i, k) ==
  /\ Laid(e, D) /\ Same(d, e, D) /\ e.ibitmap = d.ibitmap
  /\ \A j \in Inum \ {i} : e.itable[j] = d.itable[j]
  /\ e.itable[i].num_links = k

(* Counting links changes nothing else. *)
LEMMA Recounted ==
  ASSUME NEW d, NEW D, Laid(d, D), NEW i \in D, NEW k \in Nat
  PROVE  Recount(d, WithLinks(d, i, d.itable[i], k), D, i, k)
<1> DEFINE new == [d.itable[i] EXCEPT !.num_links = k]
           e == WithLinks(d, i, d.itable[i], k)
<1>1. d \in Disk /\ D \subseteq Inum /\ i \in Inum
  BY DEF Laid
<1>2. d = [ibitmap |-> d.ibitmap, dbitmap |-> d.dbitmap, itable |-> d.itable,
           dblocks |-> d.dblocks]
  BY <1>1, DiskFields
<1>3. e = [d EXCEPT !.itable = [@ EXCEPT ![i] = new]]
  BY DEF WithLinks
<1>4. new \in Inode /\ new.size = d.itable[i].size /\ new.num_links = k
      /\ new.addrs = d.itable[i].addrs
  <2>1. d.itable[i] \in Inode
    BY <1>1, DiskFields
  <2> QED BY <2>1 DEF Inode
<1> HIDE DEF e, new
<1>5. /\ e.ibitmap = d.ibitmap /\ e.dbitmap = d.dbitmap /\ e.dblocks = d.dblocks
      /\ e.itable = [d.itable EXCEPT ![i] = new]
      /\ e = [ibitmap |-> e.ibitmap, dbitmap |-> e.dbitmap, itable |-> e.itable,
              dblocks |-> e.dblocks]
  BY <1>2, <1>3
<1>6. /\ e.itable \in [Inum -> Inode] /\ e.itable[i] = new
      /\ \A j \in Inum \ {i} : e.itable[j] = d.itable[j]
  <2>1. d.itable \in [Inum -> Inode]
    BY <1>1, DiskFields
  <2> QED BY <1>1, <1>4, <1>5, <2>1
<1>7. e \in Disk
  BY <1>1, <1>5, <1>6, DiskFields DEF Disk
<1>8. ASSUME NEW j \in D
      PROVE  /\ Mapped(e, j) /\ BlocksOf(e, j) = BlocksOf(d, j) /\ Size(e, j) = Size(d, j)
             /\ Offsets(e.itable[j]) = Offsets(d.itable[j])
             /\ \A q \in Offsets(d.itable[j]) : At(e, j, q) = At(d, j, q)
  <2>1. e.itable[j].addrs = d.itable[j].addrs /\ e.itable[j].size = d.itable[j].size /\ Mapped(d, j)
    <3>1. CASE j = i
      BY <1>4, <1>6, <3>1 DEF Laid
    <3>2. CASE j # i
      BY <1>1, <1>6, <3>2 DEF Laid
    <3> QED BY <3>1, <3>2
  <2>2. BlocksOf(e, j) = BlocksOf(d, j) /\ Size(e, j) = Size(d, j)
    BY <2>1 DEF BlocksOf, Size
  <2>3. Mapped(e, j)
    BY <1>5, <2>1, <2>2 DEF Mapped
  <2>4. Offsets(e.itable[j]) = Offsets(d.itable[j])
    BY <2>1 DEF Offsets
  <2>5. ASSUME NEW q PROVE At(e, j, q) = At(d, j, q)
    BY <1>5, <2>1 DEF At, EntryAt
  <2> QED BY <2>2, <2>3, <2>4, <2>5
<1>9. Laid(e, D) /\ Same(d, e, D)
  BY <1>1, <1>7, <1>8 DEF Laid, Same
<1> QED BY <1>4, <1>5, <1>6, <1>9 DEF e, Recount

(* The disk without the inodes in n. *)
WithoutInodes(d, n) == [d EXCEPT !.ibitmap = @ \ n]

(* f is what is returned when directory c is freed. *)
Freed(d, f, D, c, n) ==
  LET e == WithoutInodes(f.disk, n)
  IN  /\ f.ok \in BOOLEAN /\ f.disk = WithoutInodes(f.disk, {})
      /\ Laid(e, D \ {c}) /\ Same(d, e, D \ {c}) /\ e.ibitmap = d.ibitmap \ n
      /\ e.itable = d.itable

(* inode_free and data_free: freeing a directory's blocks, all or some, and *)
(* its inode leaves the others theirs.                                     *)
LEMMA BlocksFreed ==
  ASSUME NEW d, NEW D, Laid(d, D), NEW c \in D, NEW n \in SUBSET {c}
  PROVE  Freed(d, FreeBlocks(d, d.itable[c]), D, c, n)
<1> DEFINE f == FreeBlocks(d, d.itable[c])
           e == WithoutInodes(f.disk, n)
           addrs == d.itable[c].addrs
           fails == {a \in Direct : addrs[a] \notin d.dbitmap}
           freed == {a \in Direct : \A b \in fails : a < b}
           gone == {addrs[a] : a \in freed}
<1>1. d \in Disk /\ D \subseteq Inum /\ c \in Inum
  BY DEF Laid
<1>2. f.ok \in BOOLEAN /\ f.disk = [d EXCEPT !.dbitmap = @ \ gone]
  BY DEF FreeBlocks, Returns
<1>3. gone \subseteq BlocksOf(d, c)
  <2> SUFFICES ASSUME NEW a \in freed PROVE addrs[a] \in BlocksOf(d, c)
    OBVIOUS
  <2>1. a \in Direct /\ a \notin fails
    BY Numbers
  <2>2. addrs[a] \in d.dbitmap /\ addrs[a] # -1
    BY <1>1, <2>1, DiskFields, Numbers
  <2> QED BY <2>1, <2>2 DEF BlocksOf
<1> HIDE DEF gone, f
<1>4. d = [ibitmap |-> d.ibitmap, dbitmap |-> d.dbitmap, itable |-> d.itable,
           dblocks |-> d.dblocks]
  BY <1>1, DiskFields
<1>5. f.disk = [ibitmap |-> d.ibitmap, dbitmap |-> d.dbitmap \ gone, itable |-> d.itable,
                dblocks |-> d.dblocks]
  BY <1>2, <1>4
<1>6. e = [ibitmap |-> d.ibitmap \ n, dbitmap |-> d.dbitmap \ gone, itable |-> d.itable,
           dblocks |-> d.dblocks]
  BY <1>5 DEF WithoutInodes
<1>11. f.disk = WithoutInodes(f.disk, {})
  BY <1>5 DEF WithoutInodes
<1> HIDE DEF e, addrs
<1>7. e \in Disk
  BY <1>1, <1>6, DiskFields DEF Disk
<1>8. ASSUME NEW j \in D, j # c
      PROVE  BlocksOf(e, j) = BlocksOf(d, j) /\ Mapped(e, j)
  <2>1. BlocksOf(e, j) = BlocksOf(d, j) /\ Size(e, j) = Size(d, j)
    BY <1>6 DEF BlocksOf, Size
  <2>2. BlocksOf(e, j) \subseteq e.dbitmap
    BY <1>3, <1>6, <1>8, <2>1 DEF Laid, Mapped
  <2> QED BY <1>6, <2>1, <2>2 DEF Laid, Mapped
<1>9. Laid(e, D \ {c})
  BY <1>1, <1>7, <1>8 DEF Laid
<1>10. Same(d, e, D \ {c})
  BY <1>6 DEF Same, Size, At, EntryAt
<1> QED BY <1>2, <1>6, <1>9, <1>10, <1>11 DEF e, f, Freed

-----------------------------------------------------------------------------
(* The tree: L are the directories that can be reached *)

(* A directory starts with "." and "..", and what is behind them is a      *)
(* child, junk, or a hole that no lookup of a name can take for a child.   *)
Entries(d, i) ==
  /\ Size(d, i) >= 2
  /\ At(d, i, 0) = Entry(DOT, i)
  /\ At(d, i, 1).valid /\ At(d, i, 1).name = DOTDOT
  /\ \A o \in Offsets(d.itable[i]) : o >= 2 =>
       /\ At(d, i, o).valid => At(d, i, o).name \in Name \cup {JUNK}
       /\ ~ At(d, i, o).valid => At(d, i, o).name \notin Name

(* A child is in one place of one directory, which its ".." names.         *)
Child1(d, L, p, o) ==
  /\ Child(d, p, o) \in L /\ Child(d, p, o) # ROOT_INODE
  /\ At(d, Child(d, p, o), 1) = Entry(DOTDOT, p)
  /\ \A q \in Children(d, p) :
       (Child(d, p, q) = Child(d, p, o) \/ At(d, p, q).name = At(d, p, o).name) => q = o

Tied(d, L) ==
  /\ \A p \in L : \A o \in Children(d, p) : Child1(d, L, p, o)
  /\ \A c \in L \ {ROOT_INODE} : \E p \in L : \E o \in Children(d, p) : Child(d, p, o) = c
  /\ At(d, ROOT_INODE, 1) = Entry(DOTDOT, ROOT_INODE)

Owed(d, i) == Cardinality(Children(d, i)) + IF i = ROOT_INODE THEN 0 ELSE 1
Counted(d, i) == d.itable[i].num_links >= Owed(d, i)

(* A set that holds the root and the children of what it holds; and L is   *)
(* in every such set.                                                      *)
Closed(d, S) ==
  ROOT_INODE \in S /\ \A i \in S : \A o \in Children(d, i) : Child(d, i, o) \in S

Least(d, L) == \A S \in SUBSET Inum : Closed(d, S) => L \subseteq S

Sound(d, L) ==
  /\ Laid(d, L) /\ ROOT_INODE \in L /\ L \subseteq d.ibitmap
  /\ \A i \in L : Entries(d, i) /\ Counted(d, i)
  /\ Tied(d, L) /\ Least(d, L)

LEMMA ChildrenAre ==
  ASSUME NEW d \in Disk, NEW i \in Inum, Entries(d, i)
  PROVE  /\ \A o : o \in Children(d, i) <=>
                     o \in Offsets(d.itable[i]) /\ At(d, i, o).valid /\ At(d, i, o).name \in Name
         /\ \A o \in Children(d, i) : o >= 2
         /\ 0 \in Offsets(d.itable[i]) /\ 1 \in Offsets(d.itable[i])
         /\ At(d, i, 0).valid /\ At(d, i, 0).name = DOT /\ At(d, i, 0).inum = i
<1>1. Offsets(d.itable[i]) = 0 .. (Size(d, i) - 1) /\ Size(d, i) \in Nat /\ Size(d, i) >= 2
  BY OffsetsOf DEF Entries
<1>2. At(d, i, 0).valid /\ At(d, i, 0).name = DOT /\ At(d, i, 0).inum = i
  BY DEF Entries, Entry
<1>3. \A o \in Offsets(d.itable[i]) : o = 0 \/ o = 1 \/ o >= 2
  BY <1>1
<1>4. ASSUME NEW o
      PROVE  o \in Children(d, i) <=>
               o \in Offsets(d.itable[i]) /\ At(d, i, o).valid /\ At(d, i, o).name \in Name
  <2>1. o \in Children(d, i) <=>
          /\ o \in Offsets(d.itable[i]) /\ At(d, i, o).valid
          /\ At(d, i, o).name \notin {DOT, DOTDOT, JUNK}
    BY DEF Children, At
  <2> QED BY <1>2, <1>3, <2>1, Names DEF Entries
<1>5. \A o \in Children(d, i) : o >= 2
  BY <1>2, <1>3, <1>4, Names DEF Entries
<1> QED BY <1>1, <1>2, <1>4, <1>5

LEMMA ChildrenFinite ==
  ASSUME NEW d \in Disk, NEW i \in Inum
  PROVE  IsFiniteSet(Children(d, i)) /\ Cardinality(Children(d, i)) \in Nat
<1>1. Children(d, i) \in SUBSET Offsets(d.itable[i])
  BY DEF Children
<1>2. IsFiniteSet(Offsets(d.itable[i]))
  <2>1. Offsets(d.itable[i]) = 0 .. (Size(d, i) - 1) /\ Size(d, i) - 1 \in Int
    BY OffsetsOf
  <2> QED BY <2>1, FS_Interval
<1> QED BY <1>1, <1>2, FS_Subset, FS_CardinalityType

LEMMA SoundParts ==
  ASSUME NEW d, NEW L, Sound(d, L), NEW i \in L
  PROVE  /\ d \in Disk /\ L \subseteq Inum /\ i \in Inum /\ Entries(d, i) /\ Counted(d, i)
         /\ Mapped(d, i) /\ \A o \in Children(d, i) : Child1(d, L, i, o)
BY DEF Sound, Laid, Tied

(* Looking a name up gives the child of that name. *)
LEMMA ChildLookup ==
  ASSUME NEW d, NEW L, Sound(d, L), NEW i \in L, NEW name \in Name
  PROVE  /\ \A o \in Children(d, i) :
              At(d, i, o).name = name => DirLookup(d, i, name) = Child(d, i, o)
         /\ (\A o \in Children(d, i) : At(d, i, o).name # name) => DirLookup(d, i, name) = -1
         /\ DirLookup(d, i, name) \in (L \ {ROOT_INODE}) \cup {-1}
<1>1. d \in Disk /\ i \in Inum /\ Entries(d, i) /\ L \subseteq Inum
      /\ \A o \in Children(d, i) : Child1(d, L, i, o)
  BY SoundParts
<1>2. \A o : o \in Children(d, i) /\ At(d, i, o).name = name <=>
             o \in Offsets(d.itable[i]) /\ Named(d, i, o, name)
  BY <1>1, ChildrenAre DEF Named
<1>3. \A o : Child(d, i, o) = At(d, i, o).inum
  BY DEF Child, At
<1>4. \/ /\ DirLookup(d, i, name) = -1
         /\ \A o \in Children(d, i) : At(d, i, o).name # name
      \/ \E o \in Children(d, i) :
           At(d, i, o).name = name /\ DirLookup(d, i, name) = Child(d, i, o)
  <2>1. \/ /\ DirLookup(d, i, name) = -1
           /\ \A o \in Offsets(d.itable[i]) : ~ Named(d, i, o, name)
        \/ \E o \in Offsets(d.itable[i]) :
             Named(d, i, o, name) /\ DirLookup(d, i, name) = At(d, i, o).inum
    BY <1>1, LookupFinds
  <2> QED BY <1>2, <1>3, <2>1
<1>5. \A o, q \in Children(d, i) : At(d, i, o).name = At(d, i, q).name => o = q
  BY <1>1 DEF Child1
<1>6. \A o \in Children(d, i) : Child(d, i, o) \in L \ {ROOT_INODE}
  BY <1>1 DEF Child1
<1> QED BY <1>4, <1>5, <1>6

(* No directory that can be reached has an entry under a name that was not *)
(* typed, but for "." and "..".                                            *)
LEMMA OddLookup ==
  ASSUME NEW d, NEW L, Sound(d, L), NEW i \in L
  PROVE  DirLookup(d, i, NONAME) = -1 /\ DirLookup(d, i, WILD) = -1
<1>1. d \in Disk /\ i \in Inum /\ Entries(d, i)
  BY SoundParts
<1>2. \A o \in Offsets(d.itable[i]) : ~ Named(d, i, o, NONAME) /\ ~ Named(d, i, o, WILD)
  <2> SUFFICES ASSUME NEW o \in Offsets(d.itable[i]), At(d, i, o).valid
               PROVE  At(d, i, o).name # NONAME /\ At(d, i, o).name # WILD
    BY DEF Named
  <2>1. o = 0 \/ o = 1 \/ o >= 2
    BY <1>1, OffsetsOf
  <2> QED BY <1>1, <2>1, ChildrenAre, Names DEF Entries
<1> QED BY <1>1, <1>2, LookupFinds

(* The children of the directories in L are the same on two disks. *)
SameChildren(d, e, L) ==
  /\ \A i \in L : Children(e, i) = Children(d, i) /\ At(e, i, 1) = At(d, i, 1)
  /\ \A i \in L : \A o \in Children(d, i) : At(e, i, o) = At(d, i, o)

SameLookups(d, e, L) ==
  \A i \in L : \A name \in Name : DirLookup(e, i, name) = DirLookup(d, i, name)

(* A change that leaves the children alone, wherever else it writes, leaves *)
(* the same tree.                                                           *)
LEMMA TreeKept ==
  ASSUME NEW d, NEW e, NEW L, Sound(d, L), Laid(e, L), SameChildren(d, e, L),
         L \subseteq e.ibitmap, \A i \in L : Entries(e, i),
         \A i \in L : e.itable[i].num_links >= d.itable[i].num_links
  PROVE  Sound(e, L) /\ SameLookups(d, e, L)
<1>1. d \in Disk /\ e \in Disk /\ L \subseteq Inum /\ ROOT_INODE \in L
  BY DEF Sound, Laid
<1>2. \A i, o : Child(e, i, o) = At(e, i, o).inum /\ Child(d, i, o) = At(d, i, o).inum
  BY DEF Child, At
<1>3. \A i \in L : \A o \in Children(d, i) : Child(e, i, o) = Child(d, i, o)
  BY <1>2 DEF SameChildren
<1>4. \A i \in L : Children(e, i) = Children(d, i) /\ At(e, i, 1) = At(d, i, 1)
  BY DEF SameChildren
<1>5. ASSUME NEW i \in L PROVE Counted(e, i)
  <2>1. Owed(e, i) = Owed(d, i) /\ Counted(d, i)
    BY <1>4, SoundParts DEF Owed
  <2>2. Owed(d, i) \in Nat /\ e.itable[i].num_links \in Nat /\ d.itable[i].num_links \in Nat
    BY <1>1, ChildrenFinite, DiskFields DEF Owed
  <2> QED BY <2>1, <2>2 DEF Counted
<1>6. ASSUME NEW p \in L, NEW o \in Children(e, p) PROVE Child1(e, L, p, o)
  <2>1. o \in Children(d, p) /\ Child1(d, L, p, o)
    BY <1>4, SoundParts
  <2>2. \A q \in Children(d, p) : At(e, p, q) = At(d, p, q)
    BY DEF SameChildren
  <2> QED BY <1>3, <1>4, <2>1, <2>2 DEF Child1
<1>7. Tied(e, L)
  <2>1. \A c \in L \ {ROOT_INODE} : \E p \in L : \E o \in Children(e, p) : Child(e, p, o) = c
    BY <1>3, <1>4 DEF Sound, Tied
  <2>2. At(e, ROOT_INODE, 1) = Entry(DOTDOT, ROOT_INODE)
    BY <1>1, <1>4 DEF Sound, Tied
  <2> QED BY <1>6, <2>1, <2>2 DEF Tied
<1>8. ASSUME NEW S \in SUBSET Inum, Closed(e, S) PROVE L \subseteq S
  <2> DEFINE T == S \cap L
  <2>1. Closed(d, T)
    <3>1. ASSUME NEW i \in T, NEW o \in Children(d, i) PROVE Child(d, i, o) \in T
      <4>1. Child(d, i, o) \in L
        BY SoundParts DEF Child1
      <4>2. o \in Children(e, i) /\ Child(e, i, o) = Child(d, i, o)
        BY <1>3, <1>4
      <4> QED BY <1>8, <4>1, <4>2 DEF Closed
    <3> QED BY <1>1, <1>8, <3>1 DEF Closed
  <2> QED BY <2>1 DEF Sound, Least
<1>9. Sound(e, L)
  BY <1>1, <1>5, <1>7, <1>8 DEF Sound, Least
<1>10. ASSUME NEW i \in L, NEW name \in Name
       PROVE  DirLookup(e, i, name) = DirLookup(d, i, name)
  <2>1. \A o \in Children(d, i) : At(e, i, o).name = At(d, i, o).name
    BY DEF SameChildren
  <2>2. CASE \E o \in Children(d, i) : At(d, i, o).name = name
    <3>1. PICK o \in Children(d, i) : At(d, i, o).name = name
      BY <2>2
    <3>2. DirLookup(d, i, name) = Child(d, i, o)
      BY <3>1, ChildLookup
    <3>3. o \in Children(e, i) /\ At(e, i, o).name = name
      BY <1>4, <2>1, <3>1
    <3>4. DirLookup(e, i, name) = Child(e, i, o)
      BY <1>9, <3>3, ChildLookup
    <3> QED BY <1>3, <3>2, <3>4
  <2>3. CASE \A o \in Children(d, i) : At(d, i, o).name # name
    <3>1. DirLookup(d, i, name) = -1
      BY <2>3, ChildLookup
    <3>2. \A o \in Children(e, i) : At(e, i, o).name # name
      BY <1>4, <2>1, <2>3
    <3>3. DirLookup(e, i, name) = -1
      BY <1>9, <3>2, ChildLookup
    <3> QED BY <3>1, <3>3
  <2> QED BY <2>2, <2>3
<1> QED BY <1>9, <1>10 DEF SameLookups

(* A change elsewhere on the disk. *)
LEMMA ElsewhereKept ==
  ASSUME NEW d, NEW e, NEW L, Sound(d, L), Laid(e, L), Same(d, e, L), L \subseteq e.ibitmap,
         \A i \in L : e.itable[i].num_links >= d.itable[i].num_links
  PROVE  Sound(e, L) /\ SameLookups(d, e, L) /\ SameChildren(d, e, L)
<1>1. d \in Disk /\ e \in Disk /\ L \subseteq Inum
  BY DEF Sound, Laid
<1>2. ASSUME NEW i \in L
      PROVE  /\ Offsets(e.itable[i]) = Offsets(d.itable[i]) /\ Size(e, i) = Size(d, i)
             /\ \A o \in Offsets(d.itable[i]) : At(e, i, o) = At(d, i, o)
  <2>1. i \in Inum /\ Size(e, i) = Size(d, i)
    BY <1>1 DEF Same
  <2>2. Offsets(e.itable[i]) = Offsets(d.itable[i])
    BY <1>1, <2>1, OffsetsOf
  <2> QED BY <2>1, <2>2 DEF Same
<1>3. ASSUME NEW i \in L PROVE Entries(e, i)
  <2>1. Entries(d, i) /\ i \in Inum
    BY SoundParts
  <2>2. 0 \in Offsets(d.itable[i]) /\ 1 \in Offsets(d.itable[i])
    BY <1>1, <2>1, ChildrenAre
  <2> QED BY <1>2, <2>1, <2>2 DEF Entries
<1>4. ASSUME NEW i \in L PROVE Children(e, i) = Children(d, i) /\ At(e, i, 1) = At(d, i, 1)
  <2>1. i \in Inum /\ Entries(d, i) /\ Entries(e, i)
    BY <1>3, SoundParts
  <2>2. \A o : o \in Children(e, i) <=> o \in Children(d, i)
    BY <1>1, <1>2, <2>1, ChildrenAre
  <2>3. 1 \in Offsets(d.itable[i])
    BY <1>1, <2>1, ChildrenAre
  <2> QED BY <1>2, <2>2, <2>3
<1>5. SameChildren(d, e, L)
  <2>1. \A i \in L : Children(d, i) \subseteq Offsets(d.itable[i])
    BY DEF Children
  <2> QED BY <1>2, <1>4, <2>1 DEF SameChildren
<1> QED BY <1>3, <1>5, TreeKept

(* Junk written into a hole. *)
LEMMA JunkKept ==
  ASSUME NEW d, NEW e, NEW L, NEW D, Sound(d, L), L \subseteq D, NEW i \in L, NEW o, NEW x,
         o \in Offsets(d.itable[i]), ~ At(d, i, o).valid, Put(d, e, D, i, o, x), Laid(e, L),
         x.name = JUNK, L \subseteq e.ibitmap
  PROVE  Sound(e, L) /\ SameLookups(d, e, L)
<1>1. d \in Disk /\ e \in Disk /\ L \subseteq Inum
  BY DEF Sound, Laid
<1>2. /\ \A j \in L : Offsets(e.itable[j]) = Offsets(d.itable[j]) /\ Size(e, j) = Size(d, j)
      /\ \A j \in L : \A q \in Offsets(d.itable[j]) :
           At(e, j, q) = IF j = i /\ q = o THEN x ELSE At(d, j, q)
  BY DEF Put, Size
<1>3. o # 0 /\ o # 1
  BY <1>1, SoundParts, ChildrenAre DEF Entries
<1>4. ASSUME NEW j \in L PROVE Entries(e, j)
  <2>1. Entries(d, j) /\ j \in Inum
    BY SoundParts
  <2>2. 0 \in Offsets(d.itable[j]) /\ 1 \in Offsets(d.itable[j])
    BY <1>1, <2>1, ChildrenAre
  <2>3. At(e, j, 0) = At(d, j, 0) /\ At(e, j, 1) = At(d, j, 1)
    BY <1>2, <1>3, <2>2
  <2>4. ASSUME NEW q \in Offsets(e.itable[j]), q >= 2
        PROVE  /\ At(e, j, q).valid => At(e, j, q).name \in Name \cup {JUNK}
               /\ ~ At(e, j, q).valid => At(e, j, q).name \notin Name
    <3>1. CASE j = i /\ q = o
      BY <1>2, <3>1, Names
    <3>2. CASE ~ (j = i /\ q = o)
      BY <1>2, <2>1, <2>4, <3>2 DEF Entries
    <3> QED BY <3>1, <3>2
  <2> QED BY <1>2, <2>1, <2>3, <2>4 DEF Entries
<1>5. ASSUME NEW j \in L PROVE Children(e, j) = Children(d, j) /\ At(e, j, 1) = At(d, j, 1)
  <2>1. j \in Inum /\ Entries(d, j) /\ Entries(e, j)
    BY <1>4, SoundParts
  <2>2. \A q : q \in Children(e, j) <=>
               q \in Offsets(e.itable[j]) /\ At(e, j, q).valid /\ At(e, j, q).name \in Name
    BY <1>1, <2>1, ChildrenAre
  <2>3. \A q : q \in Children(d, j) <=>
               q \in Offsets(d.itable[j]) /\ At(d, j, q).valid /\ At(d, j, q).name \in Name
    BY <1>1, <2>1, ChildrenAre
  <2>4. \A q : q \in Children(e, j) <=> q \in Children(d, j)
    BY <1>2, <2>2, <2>3, Names
  <2>5. 1 \in Offsets(d.itable[j])
    BY <1>1, <2>1, ChildrenAre
  <2> QED BY <1>2, <1>3, <2>4, <2>5
<1>6. \A j \in L : \A q \in Children(d, j) : At(e, j, q) = At(d, j, q)
  <2> SUFFICES ASSUME NEW j \in L, NEW q \in Children(d, j) PROVE At(e, j, q) = At(d, j, q)
    OBVIOUS
  <2>1. q \in Offsets(d.itable[j]) /\ At(d, j, q).valid
    BY DEF Children, At
  <2> QED BY <1>2, <2>1
<1>7. SameChildren(d, e, L)
  BY <1>5, <1>6 DEF SameChildren
<1>8. \A j \in L : e.itable[j].num_links >= d.itable[j].num_links
  BY <1>1, DiskFields DEF Put
<1> QED BY <1>4, <1>7, <1>8, TreeKept

(* A new directory n, with its own two entries, about to become a child of *)
(* p, and the disk after that.                                             *)
Ready(d, L, n, p, name) ==
  /\ Sound(d, L) /\ n \in Inum \ L /\ Laid(d, L \cup {n})
  /\ Entries(d, n) /\ Size(d, n) = 2 /\ At(d, n, 1) = Entry(DOTDOT, p)
  /\ d.itable[n].num_links >= 1
  /\ p \in L /\ name \in Name /\ DirLookup(d, p, name) = -1
  /\ d.itable[p].num_links >= Owed(d, p) + 1

Gained(d, e, L, n, p, name) ==
  /\ Sound(e, L \cup {n})
  /\ \A j \in L \cup {n} : \A other \in Name :
       DirLookup(e, j, other) = IF j = p /\ other = name THEN n
                                ELSE IF j = n THEN -1 ELSE DirLookup(d, j, other)

LEMMA ChildAdded ==
  ASSUME NEW d, NEW e, NEW L, NEW n, NEW p, NEW name, Ready(d, L, n, p, name),
         Grown(d, e, L \cup {n}, p, Entry(name, n)), L \cup {n} \subseteq e.ibitmap
  PROVE  Gained(d, e, L, n, p, name)
<1> DEFINE D == L \cup {n}
           new == Size(d, p)
<1>1. /\ d \in Disk /\ e \in Disk /\ D \subseteq Inum /\ Laid(e, D) /\ ROOT_INODE \in L
      /\ n \in Inum /\ n \notin L /\ p \in L /\ n # ROOT_INODE /\ n # p /\ p \in Inum
  BY DEF Ready, Sound, Laid, Grown
<1>2. /\ name \in Name /\ Entry(name, n).valid /\ Entry(name, n).name = name
      /\ Entry(name, n).inum = n
  BY DEF Ready, Entry
<1>3. new \in Nat /\ Offsets(d.itable[p]) = 0 .. (new - 1) /\ new \notin Offsets(d.itable[p])
  BY <1>1, OffsetsOf
<1>4. Offsets(e.itable[p]) = Offsets(d.itable[p]) \cup {new} /\ Size(e, p) = new + 1
  <2>1. Size(e, p) = new + 1 /\ Offsets(e.itable[p]) = 0 .. (Size(e, p) - 1)
    BY <1>1, OffsetsOf DEF Grown
  <2> QED BY <1>3, <2>1
<1>5. \A j \in D \ {p} : e.itable[j] = d.itable[j] /\ Offsets(e.itable[j]) = Offsets(d.itable[j])
                         /\ Size(e, j) = Size(d, j)
  BY <1>1 DEF Grown, Size
<1>6. At(e, p, new) = Entry(name, n) /\ \A j \in D : \A q \in Offsets(d.itable[j]) : At(e, j, q) = At(d, j, q)
  BY DEF Grown
<1> HIDE DEF new
<1>7. \A j \in D : Entries(d, j) /\ 0 \in Offsets(d.itable[j]) /\ 1 \in Offsets(d.itable[j])
  <2>1. \A j \in D : Entries(d, j) /\ j \in Inum
    BY <1>1, SoundParts DEF Ready
  <2> QED BY <1>1, <2>1, ChildrenAre
<1>8. ASSUME NEW j \in D PROVE Entries(e, j)
  <2>1. Size(e, j) >= 2
    BY <1>3, <1>4, <1>5, <1>7 DEF Entries, new
  <2>2. At(e, j, 0) = At(d, j, 0) /\ At(e, j, 1) = At(d, j, 1)
    BY <1>6, <1>7
  <2>3. ASSUME NEW q \in Offsets(e.itable[j]), q >= 2
        PROVE  /\ At(e, j, q).valid => At(e, j, q).name \in Name \cup {JUNK}
               /\ ~ At(e, j, q).valid => At(e, j, q).name \notin Name
    <3>1. CASE j = p /\ q = new
      BY <1>2, <1>6, <3>1
    <3>2. CASE ~ (j = p /\ q = new)
      <4>1. q \in Offsets(d.itable[j])
        BY <1>4, <1>5, <3>2
      <4> QED BY <1>6, <1>7, <2>3, <4>1 DEF Entries
    <3> QED BY <3>1, <3>2
  <2> QED BY <1>7, <2>1, <2>2, <2>3 DEF Entries
<1>9. \A j \in D : \A q : q \in Children(e, j) <=>
        q \in Offsets(e.itable[j]) /\ At(e, j, q).valid /\ At(e, j, q).name \in Name
  BY <1>1, <1>8, ChildrenAre
<1>10. \A j \in D : \A q : q \in Children(d, j) <=>
         q \in Offsets(d.itable[j]) /\ At(d, j, q).valid /\ At(d, j, q).name \in Name
  BY <1>1, <1>7, ChildrenAre
<1>11. Children(e, p) = Children(d, p) \cup {new} /\ new \notin Children(d, p)
  BY <1>1, <1>2, <1>3, <1>4, <1>6, <1>9, <1>10
<1>12. \A j \in D \ {p} : Children(e, j) = Children(d, j)
  <2> SUFFICES ASSUME NEW j \in D \ {p} PROVE Children(e, j) = Children(d, j)
    OBVIOUS
  <2>1. \A q : q \in Children(e, j) <=> q \in Children(d, j)
    BY <1>5, <1>6, <1>9, <1>10
  <2> QED BY <2>1
<1>13. Children(d, n) = {}
  <2>1. Offsets(d.itable[n]) = 0 .. (2 - 1)
    BY <1>1, OffsetsOf DEF Ready
  <2>2. \A q \in Children(d, n) : q >= 2 /\ q \in Offsets(d.itable[n])
    BY <1>1, <1>7, <1>10, ChildrenAre
  <2> QED BY <2>1, <2>2
<1>14. \A j \in D : \A q \in Children(d, j) : At(e, j, q) = At(d, j, q) /\ Child(e, j, q) = Child(d, j, q)
  <2>1. \A j, q : Child(e, j, q) = At(e, j, q).inum /\ Child(d, j, q) = At(d, j, q).inum
    BY DEF Child, At
  <2> QED BY <1>6, <1>10, <2>1
<1>15. Child(e, p, new) = n /\ At(e, p, new).name = name
  BY <1>2, <1>6 DEF Child, At
<1>16. \A j \in L : \A q \in Children(d, j) : Child1(d, L, j, q)
  BY SoundParts DEF Ready
<1>17. \A q \in Children(d, p) : At(d, p, q).name # name
  <2> SUFFICES ASSUME NEW q \in Children(d, p), At(d, p, q).name = name PROVE FALSE
    OBVIOUS
  <2>1. DirLookup(d, p, name) = Child(d, p, q)
    BY <1>1, <1>2, ChildLookup DEF Ready
  <2>2. Child(d, p, q) \in Inum
    BY <1>1, <1>16 DEF Child1
  <2> QED BY <2>1, <2>2, Numbers DEF Ready
<1>18. ASSUME NEW j \in D PROVE Counted(e, j)
  <2>0. /\ e.itable[j].num_links = d.itable[j].num_links /\ d.itable[j].num_links \in Nat
        /\ IsFiniteSet(Children(d, j)) /\ Cardinality(Children(d, j)) \in Nat
    BY <1>1, <1>5, DiskFields, ChildrenFinite DEF Grown
  <2>1. CASE j = p
    <3>1. Cardinality(Children(e, p)) = Cardinality(Children(d, p)) + 1
      BY <1>11, <2>0, <2>1, FS_AddElement
    <3>2. Owed(e, p) = Owed(d, p) + 1
      BY <2>0, <2>1, <3>1 DEF Owed
    <3> QED BY <2>0, <2>1, <3>2 DEF Counted, Ready
  <2>2. CASE j = n
    <3>1. Children(e, n) = {}
      BY <1>1, <1>12, <1>13
    <3>2. Owed(e, n) = 1
      BY <1>1, <3>1, FS_EmptySet DEF Owed
    <3> QED BY <2>0, <2>2, <3>2 DEF Counted, Ready
  <2>3. CASE j \in L /\ j # p
    <3>1. Counted(d, j) /\ Owed(e, j) = Owed(d, j)
      BY <1>12, <2>3, SoundParts DEF Owed, Ready
    <3> QED BY <2>0, <3>1 DEF Counted
  <2> QED BY <2>1, <2>2, <2>3
<1>19. At(e, n, 1) = Entry(DOTDOT, p) /\ \A j \in L : At(e, j, 1) = At(d, j, 1)
  BY <1>6, <1>7 DEF Ready
<1>20. ASSUME NEW j \in D, NEW o \in Children(e, j) PROVE Child1(e, D, j, o)
  <2>1. CASE j = p /\ o = new
    <3>1. ASSUME NEW q \in Children(e, p), q # new
          PROVE  Child(e, p, q) # n /\ At(e, p, q).name # name
      <4>1. q \in Children(d, p)
        BY <1>11, <3>1
      <4>2. Child(d, p, q) \in L
        BY <1>1, <1>16, <4>1 DEF Child1
      <4> QED BY <1>1, <1>14, <1>17, <4>1, <4>2
    <3> QED BY <1>1, <1>15, <1>19, <2>1, <3>1 DEF Child1
  <2>2. CASE ~ (j = p /\ o = new)
    <3>1. o \in Children(d, j) /\ j \in L
      BY <1>1, <1>11, <1>12, <1>13, <2>2
    <3>2. Child1(d, L, j, o) /\ Child(e, j, o) = Child(d, j, o) /\ At(e, j, o) = At(d, j, o)
      BY <1>14, <1>16, <3>1
    <3>3. ASSUME NEW q \in Children(e, j),
                 Child(e, j, q) = Child(e, j, o) \/ At(e, j, q).name = At(e, j, o).name
          PROVE  q = o
      <4>1. CASE q \in Children(d, j)
        BY <1>14, <3>2, <3>3, <4>1 DEF Child1
      <4>2. CASE q \notin Children(d, j)
        <5>1. q = new /\ j = p
          BY <1>11, <1>12, <4>2
        <5>2. Child(e, j, q) = n /\ At(e, j, q).name = name
          BY <1>15, <5>1
        <5>3. Child(d, j, o) \in L /\ At(d, j, o).name # name
          BY <1>17, <3>1, <3>2, <5>1 DEF Child1
        <5> QED BY <1>1, <3>2, <3>3, <5>2, <5>3
      <4> QED BY <4>1, <4>2
    <3> QED BY <1>19, <3>2, <3>3 DEF Child1
  <2> QED BY <2>1, <2>2
<1>21. Tied(e, D)
  <2>1. ASSUME NEW c \in D \ {ROOT_INODE}
        PROVE  \E j \in D : \E o \in Children(e, j) : Child(e, j, o) = c
    <3>1. CASE c = n
      BY <1>1, <1>11, <1>15, <3>1
    <3>2. CASE c # n
      <4>1. PICK j \in L : \E o \in Children(d, j) : Child(d, j, o) = c
        BY <3>2 DEF Ready, Sound, Tied
      <4>2. PICK o \in Children(d, j) : Child(d, j, o) = c
        BY <4>1
      <4>3. o \in Children(e, j) /\ Child(e, j, o) = c
        BY <1>11, <1>12, <1>14, <4>2
      <4> QED BY <4>3
    <3> QED BY <3>1, <3>2
  <2>2. At(e, ROOT_INODE, 1) = Entry(DOTDOT, ROOT_INODE)
    BY <1>1, <1>19 DEF Ready, Sound, Tied
  <2> QED BY <1>20, <2>1, <2>2 DEF Tied
<1>22. ASSUME NEW S \in SUBSET Inum, Closed(e, S) PROVE D \subseteq S
  <2> DEFINE T == S \cap L
  <2>1. Closed(d, T)
    <3>1. ASSUME NEW i \in T, NEW o \in Children(d, i) PROVE Child(d, i, o) \in T
      <4>1. Child(d, i, o) \in L
        BY <1>16 DEF Child1
      <4>2. o \in Children(e, i) /\ Child(e, i, o) = Child(d, i, o)
        BY <1>11, <1>12, <1>14
      <4> QED BY <1>22, <4>1, <4>2 DEF Closed
    <3> QED BY <1>1, <1>22, <3>1 DEF Closed
  <2>2. L \subseteq S
    BY <2>1 DEF Ready, Sound, Least
  <2>3. n \in S
    BY <1>1, <1>11, <1>15, <1>22, <2>2 DEF Closed
  <2> QED BY <2>2, <2>3
<1>23. Sound(e, D)
  BY <1>1, <1>8, <1>18, <1>21, <1>22 DEF Sound, Least
<1>24. ASSUME NEW j \in D, NEW other \in Name
       PROVE  DirLookup(e, j, other) = IF j = p /\ other = name THEN n
                                       ELSE IF j = n THEN -1 ELSE DirLookup(d, j, other)
  <2>1. CASE j = p /\ other = name
    BY <1>11, <1>15, <1>23, <2>1, ChildLookup
  <2>2. CASE j = n
    BY <1>1, <1>12, <1>13, <1>23, <2>2, ChildLookup
  <2>3. CASE j # n /\ ~ (j = p /\ other = name)
    <3>0. Sound(d, L) /\ j \in L
      BY <2>3 DEF Ready
    <3>1. CASE \E o \in Children(d, j) : At(d, j, o).name = other
      <4>1. PICK o \in Children(d, j) : At(d, j, o).name = other
        BY <3>1
      <4>2. DirLookup(d, j, other) = Child(d, j, o)
        BY <3>0, <4>1, ChildLookup
      <4>3. o \in Children(e, j) /\ At(e, j, o).name = other /\ Child(e, j, o) = Child(d, j, o)
        BY <1>11, <1>12, <1>14, <4>1
      <4>4. DirLookup(e, j, other) = Child(e, j, o)
        BY <1>23, <4>3, ChildLookup
      <4> QED BY <2>3, <4>2, <4>3, <4>4
    <3>2. CASE \A o \in Children(d, j) : At(d, j, o).name # other
      <4>1. DirLookup(d, j, other) = -1
        BY <3>0, <3>2, ChildLookup
      <4>2. \A o \in Children(e, j) : At(e, j, o).name # other
        BY <1>11, <1>12, <1>14, <1>15, <2>3, <3>2
      <4>3. DirLookup(e, j, other) = -1
        BY <1>23, <4>2, ChildLookup
      <4> QED BY <2>3, <4>1, <4>3
    <3> QED BY <3>1, <3>2
  <2> QED BY <2>1, <2>2, <2>3
<1> QED BY <1>23, <1>24 DEF Gained

LEMMA LaidLess ==
  ASSUME NEW d, NEW D, Laid(d, D), NEW L, L \subseteq D
  PROVE  Laid(d, L)
BY DEF Laid

LEMMA SameLess ==
  ASSUME NEW d, NEW e, NEW D, NEW i, NEW x, Grown(d, e, D, i, x), NEW L, L \subseteq D,
         i \notin L, Laid(d, D)
  PROVE  Same(d, e, L) /\ \A j \in L : e.itable[j] = d.itable[j]
<1>1. \A j \in L : j \in Inum /\ j # i
  BY DEF Laid
<1>2. \A j \in L : e.itable[j] = d.itable[j]
  BY <1>1 DEF Grown
<1> QED BY <1>2 DEF Grown, Same, Size

(* What mkdir may leave of the tree: the one there was, or the one with a  *)
(* new directory n in directory p.                                         *)
Created(d, e, L, p, name) ==
  \/ Sound(e, L) /\ SameLookups(d, e, L)
  \/ /\ p \in L /\ DirLookup(d, p, name) = -1
     /\ \E n \in Inum \ L : Gained(d, e, L, n, p, name)

(* A new inode with no entries, "." in it, and ".." behind that, each step *)
(* leaving the old tree as it was.                                         *)
Begun(d, e, L, n) ==
  /\ Laid(e, L \cup {n}) /\ Sound(e, L) /\ Same(d, e, L) /\ L \cup {n} \subseteq e.ibitmap
  /\ \A j \in L : e.itable[j] = d.itable[j]
  /\ e.itable[n].num_links = 1

LEMMA BegunGrows ==
  ASSUME NEW d, NEW L, NEW n \in Inum \ L, NEW b, Begun(d, b, L, n), Sound(d, L),
         NEW e, NEW x, Grown(b, e, L \cup {n}, n, x)
  PROVE  Begun(d, e, L, n)
<1>1. /\ Same(b, e, L) /\ \A j \in L : e.itable[j] = b.itable[j]
  BY SameLess DEF Begun
<1>2. /\ Laid(e, L \cup {n}) /\ Laid(e, L) /\ e.ibitmap = b.ibitmap
      /\ e.itable[n].num_links = b.itable[n].num_links
  BY LaidLess DEF Grown
<1>3. \A j \in L : e.itable[j] = d.itable[j]
  BY <1>1 DEF Begun
<1>4. Same(d, e, L)
  <2>1. \A j \in L : b.itable[j] = d.itable[j]
    BY DEF Begun
  <2> QED BY <1>1, <2>1 DEF Begun, Same
<1>5. \A j \in L : e.itable[j].num_links >= d.itable[j].num_links
  BY <1>3, DiskFields DEF Sound, Laid
<1>6. L \cup {n} \subseteq e.ibitmap
  BY <1>2 DEF Begun
<1>7. Sound(e, L)
  BY <1>2, <1>4, <1>5, <1>6, ElsewhereKept
<1> QED BY <1>2, <1>3, <1>4, <1>6, <1>7 DEF Begun

LEMMA EntryType ==
  ASSUME NEW name \in Name \cup {DOT, DOTDOT}, NEW n \in Inum
  PROVE  /\ Entry(name, n) \in Dirent /\ Entry(name, n).valid /\ Entry(name, n).name = name
         /\ Entry(name, n).inum = n
BY DEF Entry, Dirent

LEMMA Starts ==
  ASSUME NEW d, NEW L, Sound(d, L), NEW n \in Inum, n \notin d.ibitmap
  PROVE  LET e == InodeAlloc(d, n, 1)
         IN  n \notin L /\ Begun(d, e, L, n) /\ Size(e, n) = 0
<1> DEFINE e == InodeAlloc(d, n, 1)
<1>1. n \notin L /\ Laid(d, L) /\ L \subseteq Inum
  BY DEF Sound, Laid
<1>2. /\ Laid(e, L \cup {n}) /\ Same(d, e, L) /\ e.ibitmap = d.ibitmap \cup {n}
      /\ \A j \in Inum \ {n} : e.itable[j] = d.itable[j]
      /\ Size(e, n) = 0 /\ e.itable[n].num_links = 1
  <2>1. Taken(d, e, L, n, 1)
    BY <1>1, InodeTaken
  <2> HIDE DEF e
  <2> QED BY <2>1 DEF Taken
<1> HIDE DEF e
<1>3. Laid(e, L) /\ L \cup {n} \subseteq e.ibitmap
  BY <1>2, LaidLess DEF Sound
<1>4. \A j \in L : e.itable[j] = d.itable[j]
  BY <1>1, <1>2
<1>5. \A j \in L : e.itable[j].num_links >= d.itable[j].num_links
  BY <1>1, <1>4, DiskFields DEF Laid
<1>6. Sound(e, L)
  BY <1>2, <1>3, <1>5, ElsewhereKept
<1> QED BY <1>1, <1>2, <1>3, <1>4, <1>6 DEF Begun, e

(* dir_add of the first entries of a new directory never meets a hole.     *)
LEMMA FirstAdds ==
  ASSUME NEW d, NEW L, NEW n \in Inum \ L, NEW b, Begun(d, b, L, n), Sound(d, L),
         NEW x \in Dirent, NEW junk \in Dirent,
         \A o \in Offsets(b.itable[n]) : At(b, n, o).valid
  PROVE  LET r == DirAdd(b, n, x, junk)
         IN  /\ r.ok \in BOOLEAN /\ Begun(d, r.disk, L, n)
             /\ r.ok => Grown(b, r.disk, L \cup {n}, n, x)
<1> DEFINE r == DirAdd(b, n, x, junk)
<1>1. Added(b, r, L \cup {n}, n, x, junk)
  BY AddOutcome DEF Begun
<1> HIDE DEF r
<1>2. r.ok \in BOOLEAN /\ (~ r.ok => r.disk = b) /\ (r.ok => Grown(b, r.disk, L \cup {n}, n, x))
  BY <1>1 DEF Added
<1>3. Begun(d, r.disk, L, n)
  BY <1>2, BegunGrows
<1> QED BY <1>2, <1>3 DEF r

(* The parent counts the ".." of the new directory. *)
Awaits(d, b, e, L, n, p) ==
  /\ Laid(e, L \cup {n}) /\ Sound(e, L) /\ SameLookups(d, e, L)
  /\ Same(b, e, {n}) /\ e.itable[n] = b.itable[n] /\ L \cup {n} \subseteq e.ibitmap
  /\ e.itable[p].num_links >= Owed(e, p) + 1

LEMMA Linked ==
  ASSUME NEW d, NEW L, NEW n \in Inum \ L, NEW b, Begun(d, b, L, n), Sound(d, L), NEW p \in L,
         NEW e, e = WithLinks(b, p, d.itable[p], d.itable[p].num_links + 1)
  PROVE  Awaits(d, b, e, L, n, p)
<1> DEFINE k == d.itable[p].num_links + 1
<1>1. d \in Disk /\ L \subseteq Inum /\ p \in Inum /\ p # n
  BY DEF Sound, Laid
<1>2. b.itable[p] = d.itable[p] /\ d.itable[p].num_links \in Nat /\ k \in Nat
  BY <1>1, DiskFields DEF Begun
<1>3. e = WithLinks(b, p, b.itable[p], k)
  BY <1>2
<1> HIDE DEF k
<1>4. /\ Laid(e, L \cup {n}) /\ Same(b, e, L \cup {n}) /\ e.ibitmap = b.ibitmap
      /\ \A j \in Inum \ {p} : e.itable[j] = b.itable[j]
      /\ e.itable[p].num_links = k
  <2> DEFINE D == L \cup {n}
  <2>1. Laid(b, D) /\ p \in D
    BY DEF Begun
  <2> HIDE DEF D
  <2>2. /\ Laid(e, D) /\ Same(b, e, D) /\ e.ibitmap = b.ibitmap
        /\ \A j \in Inum \ {p} : e.itable[j] = b.itable[j]
        /\ e.itable[p].num_links = k
    BY <1>2, <1>3, <2>1, Recounted DEF Recount
  <2> QED BY <2>2 DEF D
<1>5. Laid(e, L) /\ L \subseteq e.ibitmap
  BY <1>4, LaidLess DEF Begun
<1>6. Same(d, e, L)
  <2>1. \A j \in L : b.itable[j] = d.itable[j]
    BY DEF Begun
  <2> QED BY <1>4, <2>1 DEF Begun, Same
<1>7. \A j \in L : e.itable[j].num_links >= d.itable[j].num_links
  <2> SUFFICES ASSUME NEW j \in L PROVE e.itable[j].num_links >= d.itable[j].num_links
    OBVIOUS
  <2>1. d.itable[j].num_links \in Nat /\ j \in Inum
    BY <1>1, DiskFields
  <2>2. CASE j = p
    BY <1>2, <1>4, <2>2 DEF k
  <2>3. CASE j # p
    BY <1>4, <2>1, <2>3 DEF Begun
  <2> QED BY <2>2, <2>3
<1>8. Sound(e, L) /\ SameLookups(d, e, L) /\ SameChildren(d, e, L)
  BY <1>5, <1>6, <1>7, ElsewhereKept
<1>9. e.itable[p].num_links >= Owed(e, p) + 1
  <2>1. Owed(e, p) = Owed(d, p) /\ Counted(d, p)
    BY <1>8, SoundParts DEF Owed, SameChildren
  <2>2. Owed(d, p) \in Nat
    BY <1>1, ChildrenFinite DEF Owed
  <2> QED BY <1>2, <1>4, <2>1, <2>2 DEF k, Counted
<1>10. Same(b, e, {n}) /\ e.itable[n] = b.itable[n]
  BY <1>1, <1>4 DEF Same
<1> QED BY <1>4, <1>8, <1>9, <1>10 DEF Begun, Awaits

(* fs_create, however far it gets, leaves the tree or adds a directory.    *)
LEMMA Creates ==
  ASSUME NEW d, NEW L, Sound(d, L), NEW p \in L \cup {-1}, NEW name \in Name,
         NEW junk \in Junk
  PROVE  LET r == FsCreate(d, p, name, junk)
         IN  r.ok \in BOOLEAN /\ Created(d, r.disk, L, p, name)
<1> DEFINE n == FindFree(d.ibitmap, NUM_INODES)
           b0 == InodeAlloc(d, n, 1)
           dot == DirAdd(b0, n, Entry(DOT, n), junk)
           dotdot == DirAdd(dot.disk, n, Entry(DOTDOT, p), junk)
           linked == [dotdot.disk EXCEPT
                        !.itable[p] = [d.itable[p] EXCEPT !.num_links = @ + 1]]
           added == DirAdd(linked, p, Entry(name, n), junk)
           r == FsCreate(d, p, name, junk)
<1>0. r = CASE p = -1 -> Returns(FALSE, d)
            [] p # -1 /\ DirLookup(d, p, name) # -1 -> Returns(FALSE, d)
            [] p # -1 /\ DirLookup(d, p, name) = -1 /\ n = -1 -> Returns(FALSE, d)
            [] OTHER -> IF ~ dot.ok THEN dot ELSE IF ~ dotdot.ok THEN dotdot ELSE added
  BY DEF FsCreate
<1>1. Created(d, d, L, p, name)
  BY DEF Created, SameLookups
<1>2. CASE p = -1 \/ DirLookup(d, p, name) # -1 \/ n = -1
  <2>1. r = Returns(FALSE, d)
    <3> HIDE DEF r, n, dot, dotdot, added
    <3> QED BY <1>0, <1>2
  <2> QED BY <1>1, <2>1 DEF Returns
<1>3. CASE p # -1 /\ DirLookup(d, p, name) = -1 /\ n # -1
  <2>1. r = IF ~ dot.ok THEN dot ELSE IF ~ dotdot.ok THEN dotdot ELSE added
    <3> HIDE DEF r, n, dot, dotdot, added
    <3> QED BY <1>0, <1>3
  <2> HIDE DEF r, added, linked, dotdot, dot, b0
  <2>2. n \in Inum /\ n \notin d.ibitmap /\ n \in Inum \ L
    <3>1. n \in Inum /\ n \notin d.ibitmap
      BY <1>3, FreePlace, Numbers
    <3> HIDE DEF n
    <3> QED BY <3>1 DEF Sound
  <2> HIDE DEF n
  <2>3. p \in L /\ L \subseteq Inum /\ p \in Inum /\ p # n
    BY <1>3, <2>2 DEF Sound, Laid
  <2>4. junk \in Dirent /\ junk.name = JUNK
    BY DEF Junk, Dirent
  <2>5. Begun(d, b0, L, n) /\ Size(b0, n) = 0
    BY <2>2, Starts DEF b0
  <2>6. /\ dot.ok \in BOOLEAN /\ Begun(d, dot.disk, L, n)
        /\ dot.ok => Grown(b0, dot.disk, L \cup {n}, n, Entry(DOT, n))
    <3>1. \A o \in Offsets(b0.itable[n]) : At(b0, n, o).valid
      BY <2>2, <2>5, OffsetsOf DEF Begun, Laid
    <3>2. Entry(DOT, n) \in Dirent
      BY <2>2, EntryType
    <3> QED BY <2>2, <2>4, <2>5, <3>1, <3>2, FirstAdds DEF dot
  <2>7. CASE ~ dot.ok
    <3>1. Sound(r.disk, L) /\ SameLookups(d, r.disk, L) /\ r.ok \in BOOLEAN
      <4>1. \A j \in L : dot.disk.itable[j].num_links >= d.itable[j].num_links
        BY <2>3, <2>6, DiskFields DEF Begun, Sound, Laid
      <4> QED BY <2>1, <2>6, <2>7, <4>1, ElsewhereKept DEF Begun, Sound
    <3> QED BY <3>1 DEF Created, r
  <2>8. CASE dot.ok
    <3>1. Size(dot.disk, n) = 1 /\ At(dot.disk, n, 0) = Entry(DOT, n)
      BY <2>5, <2>6, <2>8 DEF Grown
    <3>2. /\ dotdot.ok \in BOOLEAN /\ Begun(d, dotdot.disk, L, n)
          /\ dotdot.ok => Grown(dot.disk, dotdot.disk, L \cup {n}, n, Entry(DOTDOT, p))
      <4>1. Offsets(dot.disk.itable[n]) = 0 .. (1 - 1)
        BY <2>2, <2>6, <3>1, OffsetsOf DEF Begun, Laid
      <4>2. \A o \in Offsets(dot.disk.itable[n]) : At(dot.disk, n, o).valid
        <5>1. Entry(DOT, n).valid
          BY <2>2, EntryType
        <5>2. \A o \in Offsets(dot.disk.itable[n]) : o = 0
          BY <4>1
        <5> QED BY <3>1, <5>1, <5>2
      <4>3. Entry(DOTDOT, p) \in Dirent
        BY <2>3, EntryType
      <4> QED BY <2>2, <2>4, <2>6, <4>2, <4>3, FirstAdds DEF dotdot
    <3>3. CASE ~ dotdot.ok
      <4>1. Sound(r.disk, L) /\ SameLookups(d, r.disk, L) /\ r.ok \in BOOLEAN
        <5>1. \A j \in L : dotdot.disk.itable[j].num_links >= d.itable[j].num_links
          BY <2>3, <3>2, DiskFields DEF Begun, Sound, Laid
        <5> QED BY <2>1, <2>8, <3>2, <3>3, <5>1, ElsewhereKept DEF Begun, Sound
      <4> QED BY <4>1 DEF Created, r
    <3>4. CASE dotdot.ok
      <4>1. /\ Size(dotdot.disk, n) = 2 /\ At(dotdot.disk, n, 0) = Entry(DOT, n)
            /\ At(dotdot.disk, n, 1) = Entry(DOTDOT, p)
        <5>1. Grown(dot.disk, dotdot.disk, L \cup {n}, n, Entry(DOTDOT, p))
          BY <3>2, <3>4
        <5>2. 0 \in Offsets(dot.disk.itable[n])
          BY <3>1 DEF Offsets, Size
        <5> QED BY <3>1, <5>1, <5>2 DEF Grown
      <4>2. /\ Laid(linked, L \cup {n}) /\ Sound(linked, L) /\ SameLookups(d, linked, L)
            /\ Same(dotdot.disk, linked, {n}) /\ linked.itable[n] = dotdot.disk.itable[n]
            /\ L \cup {n} \subseteq linked.ibitmap
            /\ linked.itable[p].num_links >= Owed(linked, p) + 1
        <5> DEFINE b == dotdot.disk
        <5>1. Begun(d, b, L, n) /\ linked = WithLinks(b, p, d.itable[p], d.itable[p].num_links + 1)
          BY <3>2 DEF linked, WithLinks
        <5> HIDE DEF b
        <5>2. Awaits(d, b, linked, L, n, p)
          BY <2>2, <2>3, <5>1, Linked
        <5> QED BY <5>2 DEF b, Awaits
      <4>3. /\ Size(linked, n) = 2 /\ At(linked, n, 0) = Entry(DOT, n)
            /\ At(linked, n, 1) = Entry(DOTDOT, p)
        <5>1. 0 \in Offsets(dotdot.disk.itable[n]) /\ 1 \in Offsets(dotdot.disk.itable[n])
          BY <4>1 DEF Offsets, Size
        <5> QED BY <4>1, <4>2, <5>1 DEF Same
      <4>4. Entries(linked, n)
        <5>1. Offsets(linked.itable[n]) = 0 .. (2 - 1)
          BY <2>2, <4>2, <4>3, OffsetsOf DEF Laid
        <5> QED BY <2>3, <4>3, <5>1, EntryType DEF Entries
      <4>5. Ready(linked, L, n, p, name)
        <5>1. linked.itable[n].num_links >= 1
          BY <3>2, <4>2 DEF Begun
        <5>2. DirLookup(linked, p, name) = -1
          BY <1>3, <2>3, <4>2 DEF SameLookups
        <5> QED BY <2>2, <2>3, <4>2, <4>3, <4>4, <5>1, <5>2 DEF Ready
      <4>6. Entry(name, n) \in Dirent /\ Entry(name, n).name = name
        BY <2>2, EntryType
      <4>7. Added(linked, added, L \cup {n}, p, Entry(name, n), junk)
        BY <2>3, <2>4, <4>2, <4>6, AddOutcome DEF added
      <4>8. r = added
        BY <2>1, <2>8, <3>4
      <4>9. r.ok \in BOOLEAN
        BY <4>7, <4>8 DEF Added
      <4>10. CASE ~ added.ok
        <5>1. added.disk = linked
          BY <4>7, <4>10 DEF Added
        <5> QED BY <4>2, <4>8, <4>9, <5>1 DEF Created, r
      <4>11. CASE added.ok /\ \E o \in Offsets(linked.itable[p]) :
                     ~ At(linked, p, o).valid /\ Put(linked, added.disk, L \cup {n}, p, o, junk)
        <5>1. PICK o \in Offsets(linked.itable[p]) :
                     ~ At(linked, p, o).valid /\ Put(linked, added.disk, L \cup {n}, p, o, junk)
          BY <4>11
        <5>2. Laid(added.disk, L) /\ L \subseteq added.disk.ibitmap
          BY <4>2, <5>1, LaidLess DEF Put
        <5>3. Sound(added.disk, L) /\ SameLookups(linked, added.disk, L)
          BY <2>3, <2>4, <4>2, <5>1, <5>2, JunkKept
        <5>4. SameLookups(d, added.disk, L)
          BY <4>2, <5>3 DEF SameLookups
        <5> QED BY <4>8, <4>9, <5>3, <5>4 DEF Created, r
      <4>12. CASE added.ok /\ Grown(linked, added.disk, L \cup {n}, p, Entry(name, n))
        <5>1. L \cup {n} \subseteq added.disk.ibitmap
          BY <4>2, <4>12 DEF Grown
        <5>2. Gained(linked, added.disk, L, n, p, name)
          BY <4>5, <4>12, <5>1, ChildAdded
        <5>3. Gained(d, added.disk, L, n, p, name)
          <6> SUFFICES ASSUME NEW j \in L \cup {n}, NEW other \in Name
                       PROVE  DirLookup(added.disk, j, other) =
                                IF j = p /\ other = name THEN n
                                ELSE IF j = n THEN -1 ELSE DirLookup(d, j, other)
            BY <5>2 DEF Gained
          <6>1. j # n => DirLookup(linked, j, other) = DirLookup(d, j, other)
            BY <4>2 DEF SameLookups
          <6> QED BY <5>2, <6>1 DEF Gained
        <5> QED BY <1>3, <2>2, <2>3, <4>8, <4>9, <5>3 DEF Created, r
      <4> QED BY <4>7, <4>10, <4>11, <4>12 DEF Added
    <3> QED BY <3>2, <3>3, <3>4
  <2> QED BY <2>6, <2>7, <2>8
<1> QED BY <1>2, <1>3

(* Directory c, the child at o of p, is empty, and the disk once that entry *)
(* is zeroed, the parent's link is uncounted and c is freed.               *)
Leaf(d, L, p, o, c) ==
  /\ Sound(d, L) /\ p \in L /\ o \in Children(d, p) /\ Child(d, p, o) = c /\ Children(d, c) = {}

Unlinked(d, e, L, p, o, c) ==
  /\ Laid(e, L \ {c}) /\ L \ {c} \subseteq e.ibitmap
  /\ \A j \in L \ {c} :
       /\ Size(e, j) = Size(d, j)
       /\ e.itable[j].num_links = d.itable[j].num_links - IF j = p THEN 1 ELSE 0
       /\ \A q \in Offsets(d.itable[j]) :
            At(e, j, q) = IF j = p /\ q = o THEN ZeroEntry ELSE At(d, j, q)

Pruned(d, e, L, c) ==
  /\ Sound(e, L \ {c})
  /\ \A j \in L \ {c} : \A name \in Name :
       DirLookup(e, j, name) = IF DirLookup(d, j, name) = c THEN -1 ELSE DirLookup(d, j, name)

LEMMA ChildRemoved ==
  ASSUME NEW d, NEW e, NEW L, NEW p, NEW o, NEW c, Leaf(d, L, p, o, c),
         Unlinked(d, e, L, p, o, c)
  PROVE  Pruned(d, e, L, c)
<1> DEFINE M == L \ {c}
<1>1. /\ d \in Disk /\ e \in Disk /\ L \subseteq Inum /\ ROOT_INODE \in L /\ Sound(d, L)
      /\ p \in L /\ Laid(e, M)
  BY DEF Leaf, Sound, Laid, Unlinked
<1>2. \A j \in L : \A q \in Children(d, j) : Child1(d, L, j, q)
  BY <1>1, SoundParts
<1>3. c \in L /\ c # ROOT_INODE /\ At(d, c, 1) = Entry(DOTDOT, p) /\ c # p /\ p \in M
      /\ ROOT_INODE \in M
  <2>1. Child1(d, L, p, o)
    BY <1>2 DEF Leaf
  <2> QED BY <1>1, <2>1 DEF Leaf, Child1
<1>4. \A j \in L : \A q \in Children(d, j) : Child(d, j, q) = c => j = p /\ q = o
  <2> SUFFICES ASSUME NEW j \in L, NEW q \in Children(d, j), Child(d, j, q) = c
               PROVE  j = p /\ q = o
    OBVIOUS
  <2>1. At(d, c, 1) = Entry(DOTDOT, j)
    BY <1>2 DEF Child1
  <2>2. j = p
    <3>1. Entry(DOTDOT, j).inum = j /\ Entry(DOTDOT, p).inum = p
      BY DEF Entry
    <3> QED BY <1>3, <2>1, <3>1
  <2> QED BY <1>2, <2>2 DEF Leaf, Child1
<1>5. /\ \A j \in M : j \in Inum /\ Offsets(e.itable[j]) = Offsets(d.itable[j]) /\ Size(e, j) = Size(d, j)
      /\ \A j \in M : \A q \in Offsets(d.itable[j]) :
           At(e, j, q) = IF j = p /\ q = o THEN ZeroEntry ELSE At(d, j, q)
  <2>1. \A j \in M : j \in Inum /\ Size(e, j) = Size(d, j)
    BY <1>1 DEF Unlinked
  <2>2. \A j \in M : Offsets(e.itable[j]) = Offsets(d.itable[j])
    BY <1>1, <2>1, OffsetsOf
  <2> QED BY <2>1, <2>2 DEF Unlinked
<1>6. \A j \in L : /\ Entries(d, j) /\ 0 \in Offsets(d.itable[j]) /\ 1 \in Offsets(d.itable[j])
                   /\ \A q \in Children(d, j) : q >= 2
  <2>1. \A j \in L : Entries(d, j) /\ j \in Inum
    BY <1>1, SoundParts
  <2> QED BY <1>1, <2>1, ChildrenAre
<1>7. o # 0 /\ o # 1
  BY <1>6 DEF Leaf
<1>8. ~ ZeroEntry.valid /\ ZeroEntry.name \notin Name
  BY Names DEF ZeroEntry
<1>9. \A j \in M : At(e, j, 0) = At(d, j, 0) /\ At(e, j, 1) = At(d, j, 1)
  BY <1>5, <1>6, <1>7
<1>10. ASSUME NEW j \in M PROVE Entries(e, j)
  <2>1. ASSUME NEW q \in Offsets(e.itable[j]), q >= 2
        PROVE  /\ At(e, j, q).valid => At(e, j, q).name \in Name \cup {JUNK}
               /\ ~ At(e, j, q).valid => At(e, j, q).name \notin Name
    <3>1. CASE j = p /\ q = o
      BY <1>5, <1>8, <3>1
    <3>2. CASE ~ (j = p /\ q = o)
      BY <1>5, <1>6, <2>1, <3>2 DEF Entries
    <3> QED BY <3>1, <3>2
  <2> QED BY <1>5, <1>6, <1>9, <2>1 DEF Entries
<1>11. \A j \in M : \A q : q \in Children(e, j) <=>
         q \in Offsets(e.itable[j]) /\ At(e, j, q).valid /\ At(e, j, q).name \in Name
  BY <1>1, <1>5, <1>10, ChildrenAre
<1>12. \A j \in M : \A q : q \in Children(d, j) <=>
         q \in Offsets(d.itable[j]) /\ At(d, j, q).valid /\ At(d, j, q).name \in Name
  BY <1>1, <1>5, <1>6, ChildrenAre
<1>13. \A j \in M : \A q : q \in Children(e, j) <=> q \in Children(d, j) /\ ~ (j = p /\ q = o)
  <2> SUFFICES ASSUME NEW j \in M, NEW q
               PROVE  q \in Children(e, j) <=> q \in Children(d, j) /\ ~ (j = p /\ q = o)
    OBVIOUS
  <2>1. CASE j = p /\ q = o
    BY <1>5, <1>8, <1>11, <1>12, <2>1
  <2>2. CASE ~ (j = p /\ q = o)
    BY <1>5, <1>11, <1>12, <2>2
  <2> QED BY <2>1, <2>2
<1>14. \A j \in M : \A q \in Children(e, j) : At(e, j, q) = At(d, j, q) /\ Child(e, j, q) = Child(d, j, q)
  <2>1. \A j, q : Child(e, j, q) = At(e, j, q).inum /\ Child(d, j, q) = At(d, j, q).inum
    BY DEF Child, At
  <2> QED BY <1>5, <1>12, <1>13, <2>1
<1>15. \A j \in M : \A q \in Children(e, j) : Child(d, j, q) \in M
  <2> SUFFICES ASSUME NEW j \in M, NEW q \in Children(e, j) PROVE Child(d, j, q) \in M
    OBVIOUS
  <2>1. q \in Children(d, j) /\ ~ (j = p /\ q = o)
    BY <1>13
  <2> QED BY <1>2, <1>4, <2>1 DEF Child1
<1>16. ASSUME NEW j \in M, NEW q \in Children(e, j) PROVE Child1(e, M, j, q)
  <2>1. q \in Children(d, j) /\ Child1(d, L, j, q) /\ Child(d, j, q) \in M
    BY <1>2, <1>13, <1>15
  <2>2. Child(e, j, q) = Child(d, j, q) /\ At(e, j, q) = At(d, j, q)
    BY <1>14
  <2>3. \A k \in Children(e, j) :
          (Child(e, j, k) = Child(e, j, q) \/ At(e, j, k).name = At(e, j, q).name) => k = q
    BY <1>13, <1>14, <2>1 DEF Child1
  <2> QED BY <1>9, <2>1, <2>2, <2>3 DEF Child1
<1>17. ASSUME NEW k \in M \ {ROOT_INODE}
       PROVE  \E j \in M : \E q \in Children(e, j) : Child(e, j, q) = k
  <2>1. PICK j \in L : \E q \in Children(d, j) : Child(d, j, q) = k
    BY <1>1 DEF Sound, Tied
  <2>2. PICK q \in Children(d, j) : Child(d, j, q) = k
    BY <2>1
  <2>3. j \in M /\ ~ (j = p /\ q = o)
    BY <2>2 DEF Leaf
  <2>4. q \in Children(e, j) /\ Child(e, j, q) = k
    BY <1>13, <1>14, <2>2, <2>3
  <2> QED BY <2>3, <2>4
<1>18. Tied(e, M)
  <2>1. At(e, ROOT_INODE, 1) = Entry(DOTDOT, ROOT_INODE)
    BY <1>1, <1>3, <1>9 DEF Sound, Tied
  <2> QED BY <1>16, <1>17, <2>1 DEF Tied
<1>19. ASSUME NEW j \in M PROVE Counted(e, j)
  <2>1. /\ j \in L /\ Counted(d, j) /\ IsFiniteSet(Children(d, j))
        /\ Cardinality(Children(d, j)) \in Nat /\ d.itable[j].num_links \in Nat
    BY <1>1, <1>5, SoundParts, ChildrenFinite, DiskFields
  <2>2. e.itable[j].num_links = d.itable[j].num_links - IF j = p THEN 1 ELSE 0
    BY DEF Unlinked
  <2>3. CASE j = p
    <3>1. Children(e, p) = Children(d, p) \ {o}
      BY <1>3, <1>13
    <3>2. Cardinality(Children(e, p)) = Cardinality(Children(d, p)) - 1
      BY <2>1, <2>3, <3>1, FS_RemoveElement DEF Leaf
    <3>3. Owed(e, p) = Owed(d, p) - 1 /\ Owed(d, p) \in Nat
      BY <2>1, <2>3, <3>2 DEF Owed
    <3> QED BY <2>1, <2>2, <2>3, <3>3 DEF Counted
  <2>4. CASE j # p
    <3>1. Children(e, j) = Children(d, j)
      BY <1>13, <2>4
    <3>2. Owed(e, j) = Owed(d, j)
      BY <3>1 DEF Owed
    <3> QED BY <2>1, <2>2, <2>4, <3>2 DEF Counted
  <2> QED BY <2>3, <2>4
<1>20. ASSUME NEW S \in SUBSET Inum, Closed(e, S) PROVE M \subseteq S
  <2> DEFINE T == (S \cap M) \cup {c}
  <2>1. ASSUME NEW i \in T, NEW q \in Children(d, i) PROVE Child(d, i, q) \in T
    <3>1. i \in S \cap M
      BY <2>1 DEF Leaf
    <3>2. CASE i = p /\ q = o
      BY <3>2 DEF Leaf
    <3>3. CASE ~ (i = p /\ q = o)
      <4>1. q \in Children(e, i)
        BY <1>13, <3>1, <3>3
      <4>2. Child(e, i, q) = Child(d, i, q) /\ Child(d, i, q) \in M
        BY <1>14, <1>15, <3>1, <4>1
      <4> QED BY <1>20, <3>1, <4>1, <4>2 DEF Closed
    <3> QED BY <3>2, <3>3
  <2>2. Closed(d, T) /\ T \in SUBSET Inum
    BY <1>1, <1>3, <1>20, <2>1 DEF Closed
  <2>3. L \subseteq T
    BY <1>1, <2>2 DEF Sound, Least
  <2> QED BY <2>3
<1>21. Sound(e, M)
  <2>1. M \subseteq e.ibitmap
    BY DEF Unlinked
  <2> QED BY <1>1, <1>3, <1>10, <1>18, <1>19, <1>20, <2>1 DEF Sound, Least
<1>22. ASSUME NEW j \in M, NEW name \in Name
       PROVE  DirLookup(e, j, name) = IF DirLookup(d, j, name) = c THEN -1
                                      ELSE DirLookup(d, j, name)
  <2>1. CASE \E q \in Children(d, j) : At(d, j, q).name = name
    <3>1. PICK q \in Children(d, j) : At(d, j, q).name = name
      BY <2>1
    <3>2. DirLookup(d, j, name) = Child(d, j, q) /\ Child1(d, L, j, q)
      BY <1>1, <1>2, <3>1, ChildLookup
    <3>3. CASE j = p /\ q = o
      <4>1. \A k \in Children(e, j) : At(e, j, k).name # name
        BY <1>13, <1>14, <3>1, <3>2, <3>3 DEF Child1
      <4>2. DirLookup(e, j, name) = -1
        BY <1>21, <4>1, ChildLookup
      <4> QED BY <3>2, <3>3, <4>2 DEF Leaf
    <3>4. CASE ~ (j = p /\ q = o)
      <4>1. q \in Children(e, j)
        BY <1>13, <3>4
      <4>2. DirLookup(e, j, name) = Child(d, j, q) /\ Child(d, j, q) # c
        BY <1>14, <1>15, <1>21, <3>1, <4>1, ChildLookup
      <4> QED BY <3>2, <4>2
    <3> QED BY <3>3, <3>4
  <2>2. CASE \A q \in Children(d, j) : At(d, j, q).name # name
    <3>1. DirLookup(d, j, name) = -1
      BY <1>1, <2>2, ChildLookup
    <3>2. \A k \in Children(e, j) : At(e, j, k).name # name
      BY <1>13, <1>14, <2>2
    <3>3. DirLookup(e, j, name) = -1
      BY <1>21, <3>2, ChildLookup
    <3> QED BY <3>1, <3>3
  <2> QED BY <2>1, <2>2
<1> HIDE DEF M
<1>23. M = L \ {c}
  BY DEF M
<1> QED BY <1>21, <1>22, <1>23 DEF Pruned

(* What rmdir may leave of the tree: the one there was, or the one without *)
(* a directory that had no other in it.                                    *)
Removed(d, e, L, p, name) ==
  \/ e = d
  \/ /\ p \in L /\ name \in Name
     /\ \E c \in L \ {ROOT_INODE} :
          /\ DirLookup(d, p, name) = c /\ Children(d, c) = {} /\ Pruned(d, e, L, c)

(* dir_remove of an entry that a lookup finds zeroes that one.             *)
LEMMA EntryRemoved ==
  ASSUME NEW d, NEW L, Sound(d, L), NEW p \in L, NEW o \in Children(d, p),
         NEW name \in Name, At(d, p, o).name = name
  PROVE  LET r == DirRemove(d, p, name)
         IN  r.ok /\ Put(d, r.disk, L, p, o, ZeroEntry)
<1> DEFINE found == {q \in Offsets(d.itable[p]) : At(d, p, q).name = name}
<1>1. d \in Disk /\ p \in Inum /\ Entries(d, p) /\ Child1(d, L, p, o)
  BY SoundParts
<1>2. o \in Offsets(d.itable[p])
  BY <1>1, ChildrenAre
<1>3. ASSUME NEW q \in found PROVE q = o
  <2>1. CASE At(d, p, q).valid
    <3>1. q \in Children(d, p)
      BY <1>1, <2>1, ChildrenAre
    <3> QED BY <1>1, <3>1 DEF Child1
  <2>2. CASE ~ At(d, p, q).valid
    <3>1. q # 0 /\ q # 1
      BY <1>1, <2>2, ChildrenAre DEF Entries
    <3>2. q >= 2
      BY <1>1, <3>1, OffsetsOf
    <3> QED BY <1>1, <2>2, <3>2 DEF Entries
  <2> QED BY <2>1, <2>2
<1>4. found = {o}
  BY <1>2, <1>3
<1>5. FirstOf(found) = o
  <2>1. {o} \in SUBSET Nat
    BY <1>1, <1>2, OffsetsOf
  <2> HIDE DEF found
  <2> QED BY <1>4, <2>1, FirstIsOne
<1>6. name \notin {DOT, DOTDOT}
  BY Names
<1>7. DirRemove(d, p, name) = [ok |-> TRUE, disk |-> WriteAt(d, d.itable[p], o, ZeroEntry)]
  <2>1. DirRemove(d, p, name) =
          IF name \in {DOT, DOTDOT} \/ found = {} THEN Returns(FALSE, d)
          ELSE Returns(TRUE, WriteAt(d, d.itable[p], FirstOf(found), ZeroEntry))
    BY DEF DirRemove, At
  <2> HIDE DEF found
  <2> QED BY <1>4, <1>5, <1>6, <2>1 DEF Returns
<1>8. ZeroEntry \in Dirent
  BY Numbers DEF ZeroEntry, Dirent
<1>9. Put(d, WriteAt(d, d.itable[p], o, ZeroEntry), L, p, o, ZeroEntry)
  BY <1>2, <1>8, WritePuts DEF Sound
<1> QED BY <1>7, <1>9

(* What fs_delete does with the child at o of p once it is known empty.    *)
LEMMA LeafDeleted ==
  ASSUME NEW d, NEW L, NEW p, NEW o, NEW c, Leaf(d, L, p, o, c),
         NEW b, Put(d, b, L, p, o, ZeroEntry),
         NEW u, u = WithLinks(b, p, d.itable[p], d.itable[p].num_links - 1),
         NEW n \in SUBSET {c}
  PROVE  LET f == FreeBlocks(u, d.itable[c])
             e == WithoutInodes(f.disk, n)
         IN  /\ f.ok \in BOOLEAN /\ f.disk = WithoutInodes(f.disk, {})
             /\ Pruned(d, e, L, c)
<1> DEFINE k == d.itable[p].num_links - 1
           f == FreeBlocks(u, d.itable[c])
           e == WithoutInodes(f.disk, n)
<1>1. /\ d \in Disk /\ L \subseteq Inum /\ L \subseteq d.ibitmap /\ p \in L /\ p \in Inum
      /\ Laid(b, L) /\ b.itable = d.itable /\ b.ibitmap = d.ibitmap
  BY DEF Leaf, Sound, Laid, Put
<1>2. c \in L /\ c # p
  <2>1. Child1(d, L, p, o)
    BY SoundParts DEF Leaf
  <2> QED BY <2>1 DEF Leaf, Child1
<1>3. k \in Nat
  <2>1. Counted(d, p) /\ IsFiniteSet(Children(d, p)) /\ Cardinality(Children(d, p)) \in Nat
        /\ d.itable[p].num_links \in Nat
    BY <1>1, SoundParts, ChildrenFinite, DiskFields DEF Leaf
  <2>2. Cardinality(Children(d, p)) # 0
    BY <2>1, FS_EmptySet DEF Leaf
  <2>3. Owed(d, p) \in Nat /\ Owed(d, p) >= 1
    BY <2>1, <2>2 DEF Owed
  <2> QED BY <2>1, <2>3 DEF Counted
<1> HIDE DEF k
<1>4. /\ Laid(u, L) /\ Same(b, u, L) /\ u.ibitmap = b.ibitmap
      /\ \A j \in Inum \ {p} : u.itable[j] = b.itable[j]
      /\ u.itable[p].num_links = k
  <2>1. u = WithLinks(b, p, b.itable[p], k)
    BY <1>1 DEF k
  <2> QED BY <1>1, <1>3, <2>1, Recounted DEF Recount
<1>5. u.itable[c] = d.itable[c]
  BY <1>1, <1>2, <1>4
<1>6. /\ f.ok \in BOOLEAN /\ f.disk = WithoutInodes(f.disk, {})
      /\ Laid(e, L \ {c}) /\ Same(u, e, L \ {c}) /\ e.ibitmap = u.ibitmap \ n
      /\ e.itable = u.itable
  <2>1. f = FreeBlocks(u, u.itable[c]) /\ Laid(u, L) /\ c \in L
    BY <1>2, <1>4, <1>5
  <2> HIDE DEF f
  <2>2. Freed(u, f, L, c, n)
    BY <2>1, BlocksFreed
  <2> QED BY <2>2 DEF Freed
<1> HIDE DEF e, f
<1>7. ASSUME NEW j \in L \ {c}
      PROVE  /\ Size(e, j) = Size(d, j)
             /\ e.itable[j].num_links = d.itable[j].num_links - IF j = p THEN 1 ELSE 0
             /\ \A q \in Offsets(d.itable[j]) :
                  At(e, j, q) = IF j = p /\ q = o THEN ZeroEntry ELSE At(d, j, q)
  <2>1. Size(b, j) = Size(d, j) /\ Offsets(b.itable[j]) = Offsets(d.itable[j])
    BY <1>1 DEF Size
  <2>2. Size(u, j) = Size(b, j) /\ Size(e, j) = Size(u, j)
    BY <1>4, <1>6 DEF Same
  <2>3. Offsets(u.itable[j]) = Offsets(b.itable[j])
    BY <2>2 DEF Offsets, Size
  <2>4. \A q \in Offsets(d.itable[j]) : At(e, j, q) = At(b, j, q)
    BY <1>4, <1>6, <2>1, <2>3 DEF Same
  <2>5. \A q \in Offsets(d.itable[j]) :
          At(b, j, q) = IF j = p /\ q = o THEN ZeroEntry ELSE At(d, j, q)
    BY DEF Put
  <2>6. e.itable[j].num_links = d.itable[j].num_links - IF j = p THEN 1 ELSE 0
    <3>1. d.itable[j].num_links \in Nat /\ j \in Inum
      BY <1>1, DiskFields
    <3>2. CASE j = p
      BY <1>4, <1>6, <3>2 DEF k
    <3>3. CASE j # p
      BY <1>1, <1>4, <1>6, <3>1, <3>3
    <3> QED BY <3>2, <3>3
  <2> QED BY <2>1, <2>2, <2>4, <2>5, <2>6
<1>8. L \ {c} \subseteq e.ibitmap
  BY <1>1, <1>4, <1>6
<1>9. Unlinked(d, e, L, p, o, c)
  BY <1>6, <1>7, <1>8 DEF Unlinked
<1>10. Pruned(d, e, L, c)
  BY <1>9, ChildRemoved
<1> QED BY <1>6, <1>10 DEF e, f

(* fs_delete leaves the tree or takes an empty directory from it.          *)
LEMMA Deletes ==
  ASSUME NEW d, NEW L, Sound(d, L), NEW p \in L \cup {-1},
         NEW name \in Name \cup {DOT, DOTDOT, NONAME, WILD}
  PROVE  LET r == FsDelete(d, p, name)
         IN  r.ok \in BOOLEAN /\ Removed(d, r.disk, L, p, name)
<1> DEFINE c == DirLookup(d, p, name)
           b == DirRemove(d, p, name)
           u == [b.disk EXCEPT
                   !.itable[p] = [d.itable[p] EXCEPT !.num_links = @ - 1]]
           f == FreeBlocks(u, d.itable[c])
           r == FsDelete(d, p, name)
<1>0. r = IF p = -1 THEN Returns(FALSE, d)
          ELSE IF c = -1 THEN Returns(FALSE, d)
          ELSE IF ~ DirEmpty(d, c) THEN Returns(FALSE, d)
          ELSE IF ~ b.ok THEN b
          ELSE IF ~ f.ok THEN f
          ELSE Returns(TRUE, WithoutInodes(f.disk, {c}))
  BY DEF FsDelete, WithoutInodes
<1>1. CASE p = -1 \/ c = -1 \/ ~ DirEmpty(d, c)
  <2>1. r = Returns(FALSE, d)
    <3> HIDE DEF r, c, b, f
    <3> QED BY <1>0, <1>1
  <2> QED BY <2>1 DEF Returns, Removed
<1>2. CASE p # -1 /\ c # -1 /\ DirEmpty(d, c) /\ name \in {DOT, DOTDOT}
  <2>1. b = Returns(FALSE, d)
    BY <1>2 DEF DirRemove
  <2>2. b.ok = FALSE /\ b.disk = d
    BY <2>1 DEF Returns
  <2>3. r = b
    <3> HIDE DEF r, c, b, f
    <3> QED BY <1>0, <1>2, <2>2
  <2> QED BY <2>2, <2>3 DEF Removed
<1>3. CASE p # -1 /\ c # -1 /\ DirEmpty(d, c) /\ name \notin {DOT, DOTDOT}
  <2>1. p \in L
    BY <1>3
  <2>2. name \in Name
    BY <1>3, <2>1, OddLookup
  <2>3. PICK o \in Children(d, p) : At(d, p, o).name = name /\ Child(d, p, o) = c
    BY <1>3, <2>1, <2>2, ChildLookup
  <2> HIDE DEF c
  <2>4. c \in L \ {ROOT_INODE} /\ c \in Inum /\ d \in Disk
    BY <2>1, <2>3, SoundParts DEF Child1
  <2>5. Children(d, c) = {}
    <3> SUFFICES ASSUME NEW q \in Children(d, c) PROVE FALSE
      OBVIOUS
    <3>1. q \in Offsets(d.itable[c]) /\ At(d, c, q).valid /\ At(d, c, q).name \in Name
      BY <2>4, SoundParts, ChildrenAre
    <3>2. At(d, c, q).name \in {DOT, DOTDOT}
      BY <1>3, <3>1 DEF DirEmpty, At
    <3> QED BY <3>1, <3>2, Names
  <2>6. Leaf(d, L, p, o, c)
    BY <2>1, <2>3, <2>5 DEF Leaf
  <2>7. b.ok /\ Put(d, b.disk, L, p, o, ZeroEntry)
    BY <2>1, <2>2, <2>3, EntryRemoved
  <2>8. u = WithLinks(b.disk, p, d.itable[p], d.itable[p].num_links - 1)
    BY DEF WithLinks
  <2> DEFINE w == b.disk
             z == u
  <2>9. Put(d, w, L, p, o, ZeroEntry) /\ z = WithLinks(w, p, d.itable[p], d.itable[p].num_links - 1)
        /\ f = FreeBlocks(z, d.itable[c])
    BY <2>7, <2>8
  <2> HIDE DEF w, z, f
  <2>10. /\ f.ok \in BOOLEAN /\ f.disk = WithoutInodes(f.disk, {})
         /\ Pruned(d, WithoutInodes(f.disk, {}), L, c)
    <3>1. {} \in SUBSET {c}
      OBVIOUS
    <3> QED BY <2>6, <2>9, <3>1, LeafDeleted
  <2>11. Pruned(d, WithoutInodes(f.disk, {c}), L, c)
    <3>1. {c} \in SUBSET {c}
      OBVIOUS
    <3> QED BY <2>6, <2>9, <3>1, LeafDeleted
  <2> HIDE DEF r, b
  <2>12. r = IF ~ f.ok THEN f ELSE Returns(TRUE, WithoutInodes(f.disk, {c}))
    BY <1>0, <1>3, <2>7
  <2>13. r.ok \in BOOLEAN /\ Pruned(d, r.disk, L, c)
    <3>1. CASE f.ok
      BY <2>11, <2>12, <3>1 DEF Returns
    <3>2. CASE ~ f.ok
      BY <2>10, <2>12, <3>2
    <3> QED BY <3>1, <3>2
  <2> QED BY <2>1, <2>2, <2>4, <2>5, <2>13 DEF Removed, c, r
<1> QED BY <1>1, <1>2, <1>3

-----------------------------------------------------------------------------
(* The disk root_init makes *)

(* An entry finds room behind the others when its block is there or when a *)
(* block is free.                                                          *)
LEMMA AppendFits ==
  ASSUME NEW d, NEW i, NEW x, Size(d, i) \div DIRENTS_PER_BLOCK \in Direct,
         \/ d.itable[i].addrs[Size(d, i) \div DIRENTS_PER_BLOCK] # -1
         \/ \E b \in Dnum : b \notin d.dbitmap
  PROVE  AppendEntry(d, i, x).ok
<1> DEFINE inode == d.itable[i]
           addr == inode.size \div DIRENTS_PER_BLOCK
           fresh == FindFree(d.dbitmap, NUM_DATA_BLOCKS)
           mapped == addr \in Direct /\ inode.addrs[addr] # -1
           grown == [inode EXCEPT !.size = @ + 1, !.addrs[addr] = IF mapped THEN @ ELSE fresh]
           base == IF mapped THEN d ELSE DataAlloc(d, fresh)
           e == [WriteAt(base, grown, inode.size, x) EXCEPT !.itable[i] = grown]
           fails == addr \notin Direct \/ (~ mapped /\ fresh = -1)
<1>1. AppendEntry(d, i, x) = IF fails THEN Returns(FALSE, d) ELSE Returns(TRUE, e)
  BY DEF AppendEntry
<1>2. addr \in Direct /\ (mapped \/ fresh # -1)
  <2>1. addr \in Direct /\ (inode.addrs[addr] # -1 \/ \E b \in Dnum : b \notin d.dbitmap)
    BY DEF Size
  <2>2. fresh = -1 => Dnum \subseteq d.dbitmap
    BY FreePlace, Numbers
  <2> HIDE DEF fresh, addr
  <2> QED BY <2>1, <2>2
<1>3. ~ fails
  BY <1>2
<1> HIDE DEF fails, e
<1> QED BY <1>1, <1>3 DEF Returns

LEMMA AddFits ==
  ASSUME NEW d, NEW D, Laid(d, D), NEW i \in D, NEW x \in Dirent, NEW junk \in Dirent,
         \A o \in Offsets(d.itable[i]) : At(d, i, o).valid /\ At(d, i, o).name # x.name,
         Size(d, i) \div DIRENTS_PER_BLOCK \in Direct,
         \/ d.itable[i].addrs[Size(d, i) \div DIRENTS_PER_BLOCK] # -1
         \/ \E b \in Dnum : b \notin d.dbitmap
  PROVE  Grown(d, DirAdd(d, i, x, junk).disk, D, i, x)
<1>1. DirLookup(d, i, x.name) = -1
  BY LookupFinds DEF Laid, Named
<1>2. DirAdd(d, i, x, junk) = AppendEntry(d, i, x)
  BY <1>1 DEF DirAdd, At
<1>3. AppendEntry(d, i, x).ok
  BY AppendFits
<1>4. Appended(d, AppendEntry(d, i, x), D, i, x)
  BY AppendGrows
<1> QED BY <1>2, <1>3, <1>4 DEF Appended

(* The first two entries find their blocks. *)
LEMMA RootFits ==
  /\ 0 \div DIRENTS_PER_BLOCK = 0 /\ 0 \in Direct
  /\ 1 \div DIRENTS_PER_BLOCK \in Direct
  /\ 1 \div DIRENTS_PER_BLOCK = 0 \/ \A b : \E c \in Dnum : c # b
  /\ \E b \in Dnum : TRUE
<1>1. /\ DIRENTS_PER_BLOCK \in Nat \ {0} /\ NDIRECT \in Nat \ {0} /\ NUM_DATA_BLOCKS \in Nat \ {0}
      /\ Direct = 0 .. (NDIRECT - 1) /\ Dnum = 0 .. (NUM_DATA_BLOCKS - 1)
  BY Numbers
<1>2. CASE DIRENTS_PER_BLOCK = 1
  <2>1. NDIRECT >= 2 /\ NUM_DATA_BLOCKS >= 2
    <3>1. NDIRECT * DIRENTS_PER_BLOCK = NDIRECT
          /\ NUM_DATA_BLOCKS * DIRENTS_PER_BLOCK = NUM_DATA_BLOCKS
      BY <1>1, <1>2, SMT
    <3> QED BY <3>1, FileSystemAssumption
  <2>2. 0 \div DIRENTS_PER_BLOCK = 0 /\ 1 \div DIRENTS_PER_BLOCK = 1
    BY <1>2, SMT
  <2>3. 0 \in Dnum /\ 1 \in Dnum /\ 0 \in Direct /\ 1 \in Direct
    BY <1>1, <2>1
  <2> QED BY <2>2, <2>3
<1>3. CASE DIRENTS_PER_BLOCK # 1
  <2>1. 0 \div DIRENTS_PER_BLOCK = 0 /\ 1 \div DIRENTS_PER_BLOCK = 0
    <3>1. DIRENTS_PER_BLOCK > 1
      BY <1>1, <1>3
    <3> QED BY <1>1, <3>1, SMT
  <2>2. 0 \in Dnum /\ 0 \in Direct
    BY <1>1
  <2> QED BY <2>1, <2>2
<1> QED BY <1>2, <1>3

LEMMA RootAlone ==
  Sound(InitialDisk, {ROOT_INODE})
<1> DEFINE empty == [ibitmap |-> {}, dbitmap |-> {},
                     itable |-> [i \in Inum |-> [size |-> 0, num_links |-> 0,
                                                 addrs |-> [a \in Direct |-> 0]]],
                     dblocks |-> [b \in Dnum |-> ZeroBlock]]
           r == ROOT_INODE
           root == InodeAlloc(empty, r, 0)
           dot == DirAdd(root, r, Entry(DOT, r), ZeroEntry)
           d == InitialDisk
<1>1. r \in Inum /\ r = 0 /\ 0 \in Dnum
  BY Numbers
<1>2. Laid(empty, {})
  <2>1. [size |-> 0, num_links |-> 0, addrs |-> [a \in Direct |-> 0]] \in Inode
    <3>1. NDIRECT * DIRENTS_PER_BLOCK \in Nat
      BY Numbers, SMT
    <3>2. 0 \in 0 .. (NDIRECT * DIRENTS_PER_BLOCK)
      BY <3>1
    <3> QED BY <1>1, <3>2 DEF Inode
  <2>2. ZeroBlock \in [Slot -> Dirent]
    BY Numbers DEF ZeroBlock, ZeroEntry, Dirent
  <2>3. empty \in Disk
    BY <2>1, <2>2 DEF Disk
  <2> QED BY <2>3 DEF Laid
<1>3. /\ Laid(root, {r}) /\ root.ibitmap = {r} /\ root.dbitmap = {}
      /\ Size(root, r) = 0 /\ root.itable[r].num_links = 0
  <2>1. empty.ibitmap = {} /\ empty.dbitmap = {}
    OBVIOUS
  <2> HIDE DEF empty
  <2>2. /\ Laid(root, {} \cup {r}) /\ root.ibitmap = empty.ibitmap \cup {r}
        /\ root.dbitmap = empty.dbitmap
        /\ Size(root, r) = 0 /\ root.itable[r].num_links = 0
    <3>1. r \notin {}
      OBVIOUS
    <3> QED BY <1>1, <1>2, <3>1, InodeTaken DEF Taken
  <2>3. {} \cup {r} = {r}
    OBVIOUS
  <2> QED BY <2>1, <2>2, <2>3
<1>4. d = DirAdd(dot.disk, r, Entry(DOTDOT, r), ZeroEntry).disk
  BY DEF InitialDisk
<1> HIDE DEF d, dot, root, r
<1>5. /\ Entry(DOT, r) \in Dirent /\ Entry(DOT, r).valid /\ Entry(DOT, r).name = DOT
      /\ Entry(DOTDOT, r) \in Dirent /\ Entry(DOTDOT, r).valid /\ Entry(DOTDOT, r).name = DOTDOT
      /\ ZeroEntry \in Dirent /\ DOT # DOTDOT
  <2>1. ZeroEntry \in Dirent
    BY Numbers DEF ZeroEntry, Dirent
  <2> QED BY <1>1, <2>1, EntryType, Names
<1>6. Grown(root, dot.disk, {r}, r, Entry(DOT, r))
  <2>1. Offsets(root.itable[r]) = {}
    BY <1>1, <1>3, OffsetsOf DEF Laid
  <2>2. Size(root, r) \div DIRENTS_PER_BLOCK \in Direct /\ \E b \in Dnum : b \notin root.dbitmap
    BY <1>3, RootFits
  <2> QED BY <1>3, <1>5, <2>1, <2>2, AddFits DEF dot
<1>7. Size(dot.disk, r) = 1 /\ At(dot.disk, r, 0) = Entry(DOT, r) /\ Laid(dot.disk, {r})
  BY <1>3, <1>6 DEF Grown
<1>8. Grown(dot.disk, d, {r}, r, Entry(DOTDOT, r))
  <2>1. Offsets(dot.disk.itable[r]) = 0 .. (1 - 1)
    BY <1>1, <1>7, OffsetsOf DEF Laid
  <2>2. \A o \in Offsets(dot.disk.itable[r]) : o = 0
    BY <2>1
  <2>3. \A o \in Offsets(dot.disk.itable[r]) :
          At(dot.disk, r, o).valid /\ At(dot.disk, r, o).name # Entry(DOTDOT, r).name
    BY <1>5, <1>7, <2>2
  <2>4. \/ dot.disk.itable[r].addrs[1 \div DIRENTS_PER_BLOCK] # -1
        \/ \E b \in Dnum : b \notin dot.disk.dbitmap
    <3>1. CASE 1 \div DIRENTS_PER_BLOCK = 0
      <4>1. Mapped(dot.disk, r) /\ 0 \in Direct /\ 0 * DIRENTS_PER_BLOCK = 0
        BY <1>7, Numbers, RootFits DEF Laid
      <4>2. dot.disk.itable[r].addrs[0] # -1
        BY <1>7, <4>1 DEF Mapped
      <4> QED BY <3>1, <4>2
    <3>2. CASE \A b : \E c \in Dnum : c # b
      <4>1. PICK b : dot.disk.dbitmap = root.dbitmap \cup {b}
        BY <1>6 DEF Grown
      <4>2. PICK c \in Dnum : c # b
        BY <3>2
      <4> QED BY <1>3, <4>1, <4>2
    <3> QED BY <3>1, <3>2, RootFits
  <2>5. Size(dot.disk, r) \div DIRENTS_PER_BLOCK \in Direct
    BY <1>7, RootFits
  <2> QED BY <1>4, <1>5, <1>7, <2>3, <2>4, <2>5, AddFits
<1>9. /\ Size(d, r) = 2 /\ At(d, r, 0) = Entry(DOT, r) /\ At(d, r, 1) = Entry(DOTDOT, r)
      /\ Laid(d, {r}) /\ d.itable[r].num_links = 0 /\ d.ibitmap = {r}
  <2>1. 0 \in Offsets(dot.disk.itable[r])
    BY <1>7 DEF Offsets, Size
  <2>2. At(d, r, 0) = Entry(DOT, r) /\ At(d, r, 1) = Entry(DOTDOT, r) /\ Size(d, r) = 2
    BY <1>7, <1>8, <2>1 DEF Grown
  <2> QED BY <1>3, <1>6, <1>8, <2>2 DEF Grown
<1>10. Offsets(d.itable[r]) = 0 .. (2 - 1) /\ d \in Disk
  BY <1>1, <1>9, OffsetsOf DEF Laid
<1>11. Entries(d, r)
  BY <1>5, <1>9, <1>10 DEF Entries
<1>12. Children(d, r) = {}
  <2>1. \A o \in Children(d, r) : o >= 2 /\ o \in Offsets(d.itable[r])
    BY <1>1, <1>10, <1>11, ChildrenAre
  <2> QED BY <1>10, <2>1
<1>13. Counted(d, r)
  BY <1>9, <1>12, FS_EmptySet DEF Counted, Owed, r
<1>14. Tied(d, {r})
  BY <1>9, <1>12 DEF Tied, r
<1>15. Least(d, {r})
  BY DEF Least, Closed, r
<1>16. Sound(d, {r})
  BY <1>9, <1>11, <1>13, <1>14, <1>15 DEF Sound, r
<1> QED BY <1>16 DEF d, r

-----------------------------------------------------------------------------
(* Functions defined by recursion on a number *)

(* Induction over a set: the numbers up to n are in S when 0 is and each   *)
(* brings the next.                                                        *)
LEMMA Induction ==
  ASSUME NEW n \in Nat, NEW S, 0 \in S,
         \A i \in 0 .. n : i \in S /\ i < n => i + 1 \in S
  PROVE  0 .. n \subseteq S
<1> DEFINE Missing == (0 .. n) \ S
<1> SUFFICES ASSUME Missing # {} PROVE FALSE
  OBVIOUS
<1>1. PICK i \in Missing : \A j \in Missing : i <= j
  <2>1. Missing \in SUBSET Nat
    OBVIOUS
  <2> HIDE DEF Missing
  <2> QED BY <2>1, LeastExists
<1>2. i - 1 \in 0 .. n /\ i - 1 \notin Missing
  BY <1>1
<1> QED BY <1>1, <1>2

(* f starts with start, and step i leads from f[i - 1] to f[i]. *)
Follows(f, start, step, n) ==
  f[0] = start /\ \A i \in 1 .. n : f[i] = step[i][f[i - 1]]

LEMMA Recursion ==
  ASSUME NEW V, NEW start \in V, NEW N \in Nat, NEW step \in [1 .. N -> [V -> V]]
  PROVE  \E f \in [0 .. N -> V] : Follows(f, start, step, N)
<1> DEFINE Good(n) == \E f \in [0 .. n -> V] : Follows(f, start, step, n)
           S == {n \in 0 .. N : Good(n)}
<1>1. 0 \in S
  <2> DEFINE f == [i \in 0 .. 0 |-> start]
  <2>1. f \in [0 .. 0 -> V] /\ Follows(f, start, step, 0)
    BY DEF Follows
  <2> QED BY <2>1
<1>2. ASSUME NEW n \in 0 .. N, n \in S, n < N PROVE n + 1 \in S
  <2>1. PICK f \in [0 .. n -> V] : Follows(f, start, step, n)
    BY <1>2
  <2> DEFINE g == [i \in 0 .. (n + 1) |-> IF i = n + 1 THEN step[n + 1][f[n]] ELSE f[i]]
  <2>2. n + 1 \in 1 .. N /\ f[n] \in V
    BY <1>2
  <2>3. step[n + 1][f[n]] \in V
    BY <2>2
  <2>4. g \in [0 .. (n + 1) -> V]
    BY <1>2, <2>3
  <2>5. g[0] = start
    BY <1>2, <2>1 DEF Follows
  <2>6. ASSUME NEW i \in 1 .. (n + 1) PROVE g[i] = step[i][g[i - 1]]
    <3>1. i - 1 \in 0 .. n /\ i - 1 # n + 1 /\ i \in 0 .. (n + 1)
      BY <1>2
    <3>2. g[i - 1] = f[i - 1]
      BY <1>2, <3>1
    <3>3. CASE i = n + 1
      <4>1. i - 1 = n
        BY <1>2, <3>3
      <4> QED BY <3>1, <3>2, <3>3, <4>1
    <3>4. CASE i # n + 1
      <4>1. i \in 1 .. n
        BY <1>2, <3>4
      <4>2. g[i] = f[i] /\ f[i] = step[i][f[i - 1]]
        BY <2>1, <3>1, <3>4, <4>1 DEF Follows
      <4> QED BY <3>2, <4>2
    <3> QED BY <3>3, <3>4
  <2> HIDE DEF g
  <2>7. Good(n + 1)
    BY <2>4, <2>5, <2>6 DEF Follows
  <2> QED BY <2>2, <2>7
<1> HIDE DEF Good
<1>3. 0 .. N \subseteq S
  <2> HIDE DEF S
  <2> QED BY <1>1, <1>2, Induction
<1>4. Good(N)
  BY <1>3
<1> QED BY <1>4 DEF Good

-----------------------------------------------------------------------------
(* What can be reached *)

Next1(d, found) ==
  found \cup UNION {{Child(d, i, o) : o \in Children(d, i)} : i \in found}

(* L is what is found when the children of what was found are added as     *)
(* often as there are inodes.                                              *)
LEMMA LiveIs ==
  ASSUME NEW d, NEW L, Sound(d, L)
  PROVE  LiveIn(d) = L
<1> DEFINE N == NUM_INODES
           V == SUBSET L
           Rule(f, n) == IF n = 0 THEN {ROOT_INODE} ELSE Next1(d, f[n - 1])
           Obeys(f) == f = [n \in 0 .. N |-> Rule(f, n)]
           up == CHOOSE f : Obeys(f)
<1>1. LiveIn(d) = up[N]
  BY DEF LiveIn, Next1
<1>2. d \in Disk /\ L \subseteq Inum /\ ROOT_INODE \in L /\ Least(d, L)
      /\ N \in Nat \ {0} /\ Inum = 0 .. (N - 1)
  BY Numbers DEF Sound, Laid
<1>3. ASSUME NEW found \in V PROVE Next1(d, found) \in V
  <2>1. \A i \in found : \A o \in Children(d, i) : Child(d, i, o) \in L
    BY SoundParts DEF Child1
  <2> QED BY <2>1 DEF Next1
<1>4. \E f : Obeys(f)
  <2> DEFINE step == [i \in 1 .. N |-> [found \in V |-> Next1(d, found)]]
  <2>1. step \in [1 .. N -> [V -> V]] /\ {ROOT_INODE} \in V
    BY <1>2, <1>3
  <2>2. \A i \in 1 .. N : \A found \in V : step[i][found] = Next1(d, found)
    OBVIOUS
  <2> HIDE DEF step, V, N
  <2>3. PICK f \in [0 .. N -> V] : Follows(f, {ROOT_INODE}, step, N)
    BY <1>2, <2>1, Recursion
  <2>4. ASSUME NEW n \in 0 .. N PROVE f[n] = Rule(f, n)
    <3>1. CASE n = 0
      BY <2>3, <3>1 DEF Follows
    <3>2. CASE n # 0
      <4>1. n \in 1 .. N /\ n - 1 \in 0 .. N
        BY <1>2, <3>2
      <4>2. f[n] = step[n][f[n - 1]]
        BY <2>3, <4>1 DEF Follows
      <4> QED BY <2>2, <3>2, <4>1, <4>2
    <3> QED BY <3>1, <3>2
  <2> HIDE DEF Rule
  <2> QED BY <2>4
<1>5. Obeys(up)
  <2> HIDE DEF Obeys
  <2> QED BY <1>4
<1>6. \A n \in 0 .. N : up[n] = Rule(up, n)
  <2> HIDE DEF up, Rule
  <2> QED BY <1>5
<1> HIDE DEF up, N
<1>7. up[0] = {ROOT_INODE} /\ \A n \in 0 .. N : n < N => up[n + 1] = Next1(d, up[n])
  BY <1>2, <1>6
<1> HIDE DEF Rule
<1>8. \A n \in 0 .. N : up[n] \in V /\ ROOT_INODE \in up[n]
  <2> DEFINE S == {n \in 0 .. N : up[n] \in V /\ ROOT_INODE \in up[n]}
  <2>1. 0 \in S
    BY <1>2, <1>7
  <2>2. ASSUME NEW n \in 0 .. N, n \in S, n < N PROVE n + 1 \in S
    <3>1. up[n + 1] = Next1(d, up[n]) /\ up[n] \in V /\ n + 1 \in 0 .. N
      BY <1>2, <1>7, <2>2
    <3>2. up[n + 1] \in V
      BY <1>3, <3>1
    <3>3. ROOT_INODE \in up[n + 1]
      BY <2>2, <3>1 DEF Next1
    <3> QED BY <3>1, <3>2, <3>3
  <2>3. 0 .. N \subseteq S
    <3> HIDE DEF S
    <3> QED BY <1>2, <2>1, <2>2, Induction
  <2> QED BY <2>3
<1>9. /\ IsFiniteSet(Inum) /\ Cardinality(Inum) = N
      /\ \A n \in 0 .. N : /\ IsFiniteSet(up[n]) /\ Cardinality(up[n]) \in Nat
                           /\ Cardinality(up[n]) <= N
  <2>1. IsFiniteSet(Inum) /\ Cardinality(Inum) = N
    BY <1>2, FS_Interval
  <2>2. \A n \in 0 .. N : up[n] \in SUBSET Inum
    BY <1>2, <1>8
  <2> QED BY <2>1, <2>2, FS_Subset, FS_CardinalityType
<1> DEFINE Enough(n) == Cardinality(up[n]) >= n + 1 \/ Closed(d, up[n])
<1>10. \A n \in 0 .. N : Enough(n)
  <2> DEFINE S == {n \in 0 .. N : Enough(n)}
  <2>1. 0 \in S
    <3>1. Cardinality({ROOT_INODE}) = 1
      BY FS_Singleton
    <3>2. 0 \in 0 .. N /\ Cardinality(up[0]) >= 0 + 1
      BY <1>2, <1>7, <3>1
    <3> QED BY <3>2
  <2>2. ASSUME NEW n \in 0 .. N, n \in S, n < N PROVE n + 1 \in S
    <3>1. up[n + 1] = Next1(d, up[n]) /\ n + 1 \in 0 .. N
      BY <1>2, <1>7, <2>2
    <3>2. CASE Closed(d, up[n])
      <4>1. up[n + 1] = up[n]
        BY <3>1, <3>2 DEF Next1, Closed
      <4> QED BY <3>1, <3>2, <4>1
    <3>3. CASE ~ Closed(d, up[n]) /\ Cardinality(up[n]) >= n + 1
      <4>1. PICK i \in up[n] : \E o \in Children(d, i) : Child(d, i, o) \notin up[n]
        BY <1>8, <3>3 DEF Closed
      <4>2. PICK o \in Children(d, i) : Child(d, i, o) \notin up[n]
        BY <4>1
      <4> DEFINE c == Child(d, i, o)
                 T == up[n] \cup {c}
      <4>3. T \in SUBSET up[n + 1]
        BY <3>1 DEF Next1
      <4>4. c \notin up[n]
        BY <4>2
      <4> HIDE DEF c
      <4>5. IsFiniteSet(T) /\ Cardinality(T) = Cardinality(up[n]) + 1
        BY <1>9, <4>4, FS_AddElement
      <4> HIDE DEF T
      <4>6. Cardinality(T) <= Cardinality(up[n + 1])
        BY <1>9, <3>1, <4>3, FS_Subset
      <4>7. Cardinality(up[n + 1]) >= (n + 1) + 1
        BY <1>2, <1>9, <3>1, <3>3, <4>5, <4>6
      <4> QED BY <3>1, <4>7
    <3> QED BY <2>2, <3>2, <3>3
  <2> HIDE DEF Enough
  <2>3. 0 .. N \subseteq S
    <3> HIDE DEF S
    <3> QED BY <1>2, <2>1, <2>2, Induction
  <2> QED BY <2>3
<1>11. Closed(d, up[N])
  <2>1. N \in 0 .. N
    BY <1>2
  <2>2. ~ (Cardinality(up[N]) >= N + 1)
    BY <1>2, <1>9, <2>1
  <2> QED BY <1>10, <2>1, <2>2
<1>12. L \subseteq up[N]
  BY <1>2, <1>8, <1>11 DEF Least
<1>13. up[N] \subseteq L
  BY <1>2, <1>8
<1> QED BY <1>1, <1>12, <1>13

-----------------------------------------------------------------------------
(* Paths *)

Step(d, curr, name) == IF curr = -1 THEN -1 ELSE DirLookup(d, curr, name)

(* f is where the names lead, one after the other. *)
Leads(d, names, f) ==
  f[0] = ROOT_INODE /\ \A i \in 1 .. Len(names) : f[i] = Step(d, f[i - 1], names[i])

LEMMA WalkIs ==
  ASSUME NEW d, NEW names \in Seq(Name), NEW f, f = [i \in 0 .. Len(names) |-> f[i]],
         Leads(d, names, f)
  PROVE  Walk(d, names) = f[Len(names)]
<1> DEFINE N == Len(names)
           Rule(g, i) == IF i = 0 THEN ROOT_INODE ELSE Step(d, g[i - 1], names[i])
           Obeys(g) == g = [i \in 0 .. N |-> Rule(g, i)]
           at == CHOOSE g : Obeys(g)
<1>1. Walk(d, names) = at[N]
  BY DEF Walk, Step
<1>2. N \in Nat
  OBVIOUS
<1> HIDE DEF N
<1>3. Obeys(f)
  <2>1. f = [i \in 0 .. N |-> f[i]]
    BY DEF N
  <2>2. \A i \in 0 .. N : f[i] = Rule(f, i)
    <3> SUFFICES ASSUME NEW i \in 0 .. N PROVE f[i] = Rule(f, i)
      OBVIOUS
    <3>1. CASE i = 0
      BY <3>1 DEF Leads
    <3>2. CASE i # 0
      <4>1. i \in 1 .. N
        BY <1>2, <3>2
      <4> QED BY <3>2, <4>1 DEF Leads, N
    <3> QED BY <3>1, <3>2
  <2> HIDE DEF Rule
  <2>3. [i \in 0 .. N |-> f[i]] = [i \in 0 .. N |-> Rule(f, i)]
    BY <2>2, Zenon
  <2> QED BY <2>1, <2>3
<1>4. ASSUME NEW g, Obeys(g) PROVE g = f
  <2> DEFINE S == {i \in 0 .. N : g[i] = f[i]}
  <2>0. \A i \in 0 .. N : g[i] = Rule(g, i) /\ f[i] = Rule(f, i)
    <3> HIDE DEF Rule
    <3> QED BY <1>3, <1>4
  <2>1. 0 \in S
    BY <1>2, <2>0
  <2>2. ASSUME NEW i \in 0 .. N, i \in S, i < N PROVE i + 1 \in S
    <3>1. i + 1 \in 0 .. N /\ i + 1 # 0 /\ (i + 1) - 1 = i
      BY <1>2, <2>2
    <3>2. g[i + 1] = Step(d, g[i], names[i + 1]) /\ f[i + 1] = Step(d, f[i], names[i + 1])
      BY <2>0, <3>1
    <3> QED BY <2>2, <3>1, <3>2
  <2>3. 0 .. N \subseteq S
    <3> HIDE DEF S
    <3> QED BY <1>2, <2>1, <2>2, Induction
  <2>4. \A i \in 0 .. N : g[i] = f[i]
    BY <2>3
  <2> HIDE DEF Rule, S
  <2>5. [i \in 0 .. N |-> Rule(g, i)] = [i \in 0 .. N |-> Rule(f, i)]
    BY <2>0, <2>4
  <2> QED BY <1>3, <1>4, <2>5
<1> HIDE DEF Obeys
<1>5. at = f
  BY <1>3, <1>4
<1> QED BY <1>1, <1>5 DEF N

LEMMA WalkLeads ==
  ASSUME NEW d, NEW L, Sound(d, L), NEW names \in Seq(Name)
  PROVE  \E f \in [0 .. Len(names) -> L \cup {-1}] :
           Leads(d, names, f) /\ Walk(d, names) = f[Len(names)]
<1> DEFINE N == Len(names)
           V == L \cup {-1}
           step == [i \in 1 .. N |-> [curr \in V |-> Step(d, curr, names[i])]]
<1>1. N \in Nat /\ \A i \in 1 .. N : names[i] \in Name
  OBVIOUS
<1>2. \A curr \in V, name \in Name : Step(d, curr, name) \in V
  BY ChildLookup DEF Step
<1>3. ROOT_INODE \in V
  BY DEF Sound
<1> HIDE DEF N, V
<1>4. step \in [1 .. N -> [V -> V]]
  BY <1>1, <1>2
<1>5. \A i \in 1 .. N : \A curr \in V : step[i][curr] = Step(d, curr, names[i])
  OBVIOUS
<1> HIDE DEF step
<1>6. PICK f \in [0 .. N -> V] : Follows(f, ROOT_INODE, step, N)
  BY <1>1, <1>3, <1>4, Recursion
<1>7. Leads(d, names, f)
  <2>1. ASSUME NEW i \in 1 .. N PROVE f[i] = Step(d, f[i - 1], names[i])
    <3>1. i - 1 \in 0 .. N
      BY <1>1
    <3>2. f[i - 1] \in V /\ f[i] = step[i][f[i - 1]]
      BY <1>6, <3>1 DEF Follows
    <3> QED BY <1>5, <3>2
  <2> QED BY <1>6, <2>1 DEF Leads, Follows, N
<1>8. Walk(d, names) = f[N]
  <2>1. f = [i \in 0 .. Len(names) |-> f[i]]
    BY DEF N
  <2> QED BY <1>7, <2>1, WalkIs DEF N
<1> QED BY <1>7, <1>8 DEF N, V

(* Where a path leads is where its last name leads from its parent.        *)
LEMMA WalkStep ==
  ASSUME NEW d, NEW L, Sound(d, L), NEW names \in Seq(Name), NEW name \in Name
  PROVE  Walk(d, Append(names, name)) = Step(d, Walk(d, names), name)
<1> DEFINE N == Len(names)
           more == Append(names, name)
<1>1. PICK f \in [0 .. N -> L \cup {-1}] : Leads(d, names, f) /\ Walk(d, names) = f[N]
  BY WalkLeads
<1>2. N \in Nat /\ more \in Seq(Name) /\ Len(more) = N + 1 /\ more[N + 1] = name
      /\ \A i \in 1 .. N : more[i] = names[i]
  OBVIOUS
<1> HIDE DEF more
<1> DEFINE g == [i \in 0 .. Len(more) |-> IF i = N + 1 THEN Step(d, f[N], name) ELSE f[i]]
<1>3. Leads(d, more, g)
  <2>1. g[0] = ROOT_INODE
    BY <1>1, <1>2 DEF Leads
  <2>2. ASSUME NEW i \in 1 .. Len(more) PROVE g[i] = Step(d, g[i - 1], more[i])
    <3>1. i - 1 \in 0 .. Len(more) /\ i - 1 # N + 1 /\ i \in 0 .. Len(more)
      BY <1>2
    <3>2. g[i - 1] = f[i - 1]
      BY <3>1
    <3>3. CASE i = N + 1
      <4>1. i - 1 = N
        BY <1>2, <3>3
      <4> QED BY <1>2, <3>1, <3>2, <3>3, <4>1
    <3>4. CASE i # N + 1
      <4>1. i \in 1 .. N
        BY <1>2, <3>4
      <4>2. g[i] = f[i] /\ f[i] = Step(d, f[i - 1], names[i])
        BY <1>1, <3>1, <3>4, <4>1 DEF Leads
      <4> QED BY <1>2, <3>2, <4>1, <4>2
    <3> QED BY <3>3, <3>4
  <2> QED BY <2>1, <2>2 DEF Leads
<1>4. g[N + 1] = Step(d, f[N], name)
  BY <1>2
<1>5. g = [i \in 0 .. Len(more) |-> g[i]]
  OBVIOUS
<1> HIDE DEF g, N
<1>6. Walk(d, more) = g[Len(more)]
  BY <1>2, <1>3, <1>5, WalkIs
<1> QED BY <1>1, <1>2, <1>4, <1>6 DEF N, more

LEMMA WalkType ==
  ASSUME NEW d, NEW L, Sound(d, L), NEW names \in Seq(Name)
  PROVE  /\ Walk(d, names) \in L \cup {-1}
         /\ names = <<>> => Walk(d, names) = ROOT_INODE
         /\ names # <<>> => Walk(d, names) # ROOT_INODE
<1>1. PICK f \in [0 .. Len(names) -> L \cup {-1}] :
           Leads(d, names, f) /\ Walk(d, names) = f[Len(names)]
  BY WalkLeads
<1>2. Len(names) \in Nat /\ (names = <<>> <=> Len(names) = 0)
  OBVIOUS
<1>3. ASSUME names # <<>> PROVE Walk(d, names) # ROOT_INODE
  <2> DEFINE n == Len(names)
  <2>1. n \in 1 .. n /\ n - 1 \in 0 .. n /\ names[n] \in Name
    BY <1>2, <1>3
  <2>2. f[n] = Step(d, f[n - 1], names[n]) /\ f[n - 1] \in L \cup {-1}
    BY <1>1, <2>1 DEF Leads
  <2>3. f[n] \in (L \ {ROOT_INODE}) \cup {-1}
    BY <2>1, <2>2, ChildLookup DEF Step
  <2> QED BY <1>1, <2>3, Numbers
<1> QED BY <1>1, <1>2, <1>3 DEF Leads

LEMMA Prefix ==
  ASSUME NEW names \in Seq(Name), NEW k \in 0 .. Len(names)
  PROVE  /\ SubSeq(names, 1, k) \in Seq(Name) /\ Len(SubSeq(names, 1, k)) = k
         /\ \A i \in 1 .. k : SubSeq(names, 1, k)[i] = names[i] /\ i \in 1 .. Len(names)
<1>1. k \in Nat /\ \A i \in 1 .. k : names[i] \in Name /\ i \in 1 .. Len(names)
  OBVIOUS
<1>2. /\ SubSeq(names, 1, k) \in Seq(Name)
      /\ Len(SubSeq(names, 1, k)) = IF 1 <= k THEN (k - 1) + 1 ELSE 0
      /\ \A i \in 1 .. ((k - 1) + 1) : SubSeq(names, 1, k)[i] = names[(1 + i) - 1]
  <2>1. 1 \in Int /\ k \in Int
    BY <1>1
  <2> QED BY <1>1, <2>1, SubSeqProperties
<1>3. \A i \in 1 .. k : i \in 1 .. ((k - 1) + 1) /\ (1 + i) - 1 = i
  BY <1>1
<1>4. Len(SubSeq(names, 1, k)) = k
  BY <1>1, <1>2
<1>5. \A i \in 1 .. k : SubSeq(names, 1, k)[i] = names[i]
  <2> SUFFICES ASSUME NEW i \in 1 .. k PROVE SubSeq(names, 1, k)[i] = names[i]
    OBVIOUS
  <2>1. SubSeq(names, 1, k)[i] = names[(1 + i) - 1]
    BY <1>2, <1>3
  <2> QED BY <1>3, <2>1
<1> QED BY <1>1, <1>2, <1>4, <1>5

(* A path that is not empty is its parent's path and a last name.          *)
LEMMA LastName ==
  ASSUME NEW names \in Seq(Name), names # <<>>
  PROVE  /\ Len(names) \in Nat \ {0}
         /\ SubSeq(names, 1, Len(names) - 1) \in Seq(Name)
         /\ Len(SubSeq(names, 1, Len(names) - 1)) = Len(names) - 1
         /\ names[Len(names)] \in Name
         /\ names = Append(SubSeq(names, 1, Len(names) - 1), names[Len(names)])
<1> DEFINE n == Len(names)
           front == SubSeq(names, 1, n - 1)
           whole == Append(front, names[n])
<1>1. n \in Nat \ {0} /\ names[n] \in Name
  OBVIOUS
<1>2. front \in Seq(Name) /\ Len(front) = n - 1 /\ \A i \in 1 .. (n - 1) : front[i] = names[i]
  <2>1. n - 1 \in 0 .. Len(names)
    BY <1>1
  <2> QED BY <2>1, Prefix
<1>3. whole \in Seq(Name) /\ Len(whole) = n /\ whole[n] = names[n]
      /\ \A i \in 1 .. (n - 1) : whole[i] = front[i]
  <2> HIDE DEF front, n
  <2> QED BY <1>1, <1>2
<1>4. \A i \in 1 .. n : whole[i] = names[i]
  <2> HIDE DEF front, whole, n
  <2> QED BY <1>1, <1>2, <1>3
<1>5. names = whole
  <2> HIDE DEF whole
  <2> QED BY <1>3, <1>4, SeqEqual
<1> QED BY <1>1, <1>2, <1>5

(* Every path is in a set that holds the empty one and, with a path, those *)
(* with one name more.                                                     *)
LEMMA PathInduction ==
  ASSUME NEW S, <<>> \in S,
         \A names \in Seq(Name), name \in Name : names \in S => Append(names, name) \in S
  PROVE  Seq(Name) \subseteq S
<1> SUFFICES ASSUME NEW whole \in Seq(Name) PROVE whole \in S
  OBVIOUS
<1> DEFINE T == {k \in 0 .. Len(whole) : SubSeq(whole, 1, k) \in S}
<1>1. Len(whole) \in Nat
  OBVIOUS
<1>2. 0 \in T
  <2>1. 0 \in 0 .. Len(whole)
    BY <1>1
  <2>2. SubSeq(whole, 1, 0) \in Seq(Name) /\ Len(SubSeq(whole, 1, 0)) = 0
    BY <2>1, Prefix
  <2>3. SubSeq(whole, 1, 0) = <<>>
    BY <2>2, EmptySeq
  <2> QED BY <2>1, <2>3
<1>3. ASSUME NEW k \in 0 .. Len(whole), k \in T, k < Len(whole) PROVE k + 1 \in T
  <2> DEFINE more == SubSeq(whole, 1, k + 1)
             p == SubSeq(whole, 1, k)
             m == whole[k + 1]
             q == Append(p, m)
  <2>1. k + 1 \in 0 .. Len(whole) /\ k \in Nat
    BY <1>1, <1>3
  <2>2. /\ more \in Seq(Name) /\ Len(more) = k + 1 /\ p \in Seq(Name) /\ Len(p) = k
        /\ \A i \in 1 .. (k + 1) : more[i] = whole[i]
        /\ \A i \in 1 .. k : p[i] = whole[i]
    BY <2>1, Prefix
  <2>3. m \in Name
    BY <2>1
  <2> HIDE DEF p, m, more
  <2>4. q \in S /\ q \in Seq(Name) /\ Len(q) = k + 1 /\ q[k + 1] = m
        /\ \A i \in 1 .. k : q[i] = p[i]
    <3>1. p \in S
      BY <1>3 DEF p
    <3>2. q \in S
      BY <2>2, <2>3, <3>1
    <3> QED BY <2>1, <2>2, <2>3, <3>2
  <2>5. \A i \in 1 .. (k + 1) : q[i] = more[i]
    <3> HIDE DEF q
    <3> QED BY <2>1, <2>2, <2>4 DEF m
  <2>6. q = more
    <3> HIDE DEF q
    <3> QED BY <2>2, <2>4, <2>5, SeqEqual
  <2> QED BY <2>1, <2>4, <2>6 DEF more
<1>4. 0 .. Len(whole) \subseteq T
  <2> HIDE DEF T
  <2> QED BY <1>1, <1>2, <1>3, Induction
<1>5. SubSeq(whole, 1, Len(whole)) = whole
  <2> DEFINE q == SubSeq(whole, 1, Len(whole))
  <2>1. Len(whole) \in 0 .. Len(whole)
    BY <1>1
  <2>2. q \in Seq(Name) /\ Len(q) = Len(whole) /\ \A i \in 1 .. Len(whole) : q[i] = whole[i]
    BY <2>1, Prefix
  <2> HIDE DEF q
  <2>3. q = whole
    BY <2>2, SeqEqual
  <2> QED BY <2>3 DEF q
<1>6. SubSeq(whole, 1, Len(whole)) \in S
  BY <1>1, <1>4
<1> QED BY <1>5, <1>6

(* A directory has one place and one name. *)
LEMMA OneParent ==
  ASSUME NEW d, NEW L, Sound(d, L), NEW j \in L, NEW k \in L, NEW m \in Name, NEW n \in Name,
         DirLookup(d, j, m) = DirLookup(d, k, n), DirLookup(d, j, m) # -1
  PROVE  j = k /\ m = n
<1>1. PICK o \in Children(d, j) : At(d, j, o).name = m /\ DirLookup(d, j, m) = Child(d, j, o)
  BY ChildLookup
<1>2. PICK q \in Children(d, k) : At(d, k, q).name = n /\ DirLookup(d, k, n) = Child(d, k, q)
  BY ChildLookup
<1>3. Child1(d, L, j, o) /\ Child1(d, L, k, q)
  BY SoundParts
<1>4. Child(d, j, o) = Child(d, k, q)
  BY <1>1, <1>2
<1>5. Entry(DOTDOT, j) = Entry(DOTDOT, k)
  BY <1>3, <1>4 DEF Child1
<1>6. j = k
  BY <1>5 DEF Entry
<1>7. o = q
  BY <1>3, <1>4, <1>6 DEF Child1
<1> QED BY <1>1, <1>2, <1>6, <1>7

(* No two paths lead to one directory. *)
LEMMA OnePath ==
  ASSUME NEW d, NEW L, Sound(d, L), NEW q \in Seq(Name), NEW r \in Seq(Name),
         Walk(d, q) = Walk(d, r), Walk(d, q) # -1
  PROVE  q = r
<1> DEFINE Alone(names) == \A other \in Seq(Name) :
             (Walk(d, names) = Walk(d, other) /\ Walk(d, names) # -1) => names = other
           S == {names \in Seq(Name) : Alone(names)}
<1>0. <<>> \in Seq(Name)
  OBVIOUS
<1>1. <<>> \in S
  <2>1. \A other \in Seq(Name) : Walk(d, <<>>) = Walk(d, other) => <<>> = other
    BY <1>0, WalkType
  <2> QED BY <1>0, <2>1
<1>2. ASSUME NEW names \in Seq(Name), NEW name \in Name, names \in S
      PROVE  Append(names, name) \in S
  <2> DEFINE more == Append(names, name)
  <2>1. more \in Seq(Name) /\ more # <<>>
    <3>1. more \in Seq(Name) /\ Len(more) = Len(names) + 1 /\ Len(names) \in Nat
      OBVIOUS
    <3> HIDE DEF more
    <3> QED BY <3>1
  <2>2. ASSUME NEW other \in Seq(Name), Walk(d, more) = Walk(d, other), Walk(d, more) # -1
        PROVE  more = other
    <3>1. other # <<>>
      BY <1>0, <2>1, <2>2, WalkType
    <3> DEFINE front == SubSeq(other, 1, Len(other) - 1)
               last == other[Len(other)]
    <3>2. front \in Seq(Name) /\ last \in Name /\ other = Append(front, last)
      BY <3>1, LastName
    <3> HIDE DEF front, last
    <3>3. Walk(d, more) = Step(d, Walk(d, names), name)
          /\ Walk(d, other) = Step(d, Walk(d, front), last)
      BY <3>2, WalkStep
    <3>4. Walk(d, names) \in L /\ Walk(d, front) \in L
      BY <2>2, <3>2, <3>3, WalkType DEF Step
    <3>5. Walk(d, names) = Walk(d, front) /\ name = last
      <4>1. Walk(d, names) # -1 /\ Walk(d, front) # -1
        BY <2>2, <3>3 DEF Step
      <4>2. DirLookup(d, Walk(d, names), name) = DirLookup(d, Walk(d, front), last)
            /\ DirLookup(d, Walk(d, names), name) # -1
        BY <2>2, <3>3, <4>1 DEF Step
      <4> QED BY <3>2, <3>4, <4>2, OneParent
    <3>6. names = front
      <4>1. Walk(d, names) # -1
        BY <2>2, <3>3 DEF Step
      <4> QED BY <1>2, <3>2, <3>5, <4>1
    <3> QED BY <3>2, <3>5, <3>6
  <2> QED BY <2>1, <2>2
<1>3. Seq(Name) \subseteq S
  <2> HIDE DEF S
  <2> QED BY <1>1, <1>2, PathInduction
<1> QED BY <1>3

(* A path goes through as many directories as it has names, all different. *)
LEMMA DepthBounded ==
  ASSUME NEW d, NEW L, Sound(d, L), NEW names \in Seq(Name), Walk(d, names) # -1
  PROVE  Len(names) \in 0 .. (NUM_INODES - 1)
<1> DEFINE N == Len(names)
<1>1. PICK f \in [0 .. N -> L \cup {-1}] : Leads(d, names, f) /\ Walk(d, names) = f[N]
  BY WalkLeads
<1>2. N \in Nat /\ L \subseteq Inum /\ NUM_INODES \in Nat \ {0} /\ Inum = 0 .. (NUM_INODES - 1)
  BY Numbers DEF Sound, Laid
<1>3. \A i \in 0 .. N : f[i] # -1
  <2> DEFINE S == {i \in 0 .. N : f[N - i] # -1}
  <2>1. 0 \in S
    BY <1>1, <1>2
  <2>2. ASSUME NEW i \in 0 .. N, i \in S, i < N PROVE i + 1 \in S
    <3>1. i + 1 \in 0 .. N /\ N - i \in 1 .. N /\ (N - i) - 1 = N - (i + 1)
      BY <1>2, <2>2
    <3>2. f[N - i] = Step(d, f[(N - i) - 1], names[N - i])
      BY <1>1, <3>1 DEF Leads
    <3>3. f[N - (i + 1)] # -1
      BY <2>2, <3>1, <3>2 DEF Step
    <3> QED BY <3>1, <3>3
  <2>3. 0 .. N \subseteq S
    <3> HIDE DEF S, N
    <3> QED BY <1>2, <2>1, <2>2, Induction
  <2> SUFFICES ASSUME NEW i \in 0 .. N PROVE f[i] # -1
    OBVIOUS
  <2>4. N - i \in 0 .. N /\ N - (N - i) = i
    BY <1>2
  <2>5. N - i \in S
    BY <2>3, <2>4
  <2> QED BY <2>4, <2>5
<1>4. ASSUME NEW k \in 0 .. N PROVE Walk(d, SubSeq(names, 1, k)) = f[k]
  <2> DEFINE q == SubSeq(names, 1, k)
             g == [i \in 0 .. Len(q) |-> f[i]]
  <2>1. q \in Seq(Name) /\ Len(q) = k /\ \A i \in 1 .. k : q[i] = names[i] /\ i \in 1 .. N
    BY Prefix
  <2>2. k \in Nat
    BY <1>2
  <2> HIDE DEF q, N
  <2>3. Leads(d, q, g)
    <3>1. g[0] = ROOT_INODE
      BY <1>1, <2>1, <2>2 DEF Leads
    <3>2. ASSUME NEW i \in 1 .. Len(q) PROVE g[i] = Step(d, g[i - 1], q[i])
      <4>1. i \in 0 .. Len(q) /\ i - 1 \in 0 .. Len(q) /\ i \in 1 .. k
        BY <2>1, <2>2
      <4>2. f[i] = Step(d, f[i - 1], names[i]) /\ q[i] = names[i]
        BY <1>1, <2>1, <4>1 DEF Leads, N
      <4> QED BY <4>1, <4>2
    <3> QED BY <3>1, <3>2 DEF Leads
  <2>4. g = [i \in 0 .. Len(q) |-> g[i]] /\ g[k] = f[k]
    BY <2>1, <2>2
  <2> HIDE DEF g
  <2>5. Walk(d, q) = g[Len(q)]
    BY <2>1, <2>3, <2>4, WalkIs
  <2> QED BY <2>1, <2>4, <2>5 DEF q
<1>5. ASSUME NEW x \in 0 .. N, NEW y \in 0 .. N, f[x] = f[y] PROVE x = y
  <2>1. /\ SubSeq(names, 1, x) \in Seq(Name) /\ Len(SubSeq(names, 1, x)) = x
        /\ SubSeq(names, 1, y) \in Seq(Name) /\ Len(SubSeq(names, 1, y)) = y
    BY Prefix
  <2>2. SubSeq(names, 1, x) = SubSeq(names, 1, y)
    BY <1>3, <1>4, <1>5, <2>1, OnePath
  <2> QED BY <2>1, <2>2
<1> HIDE DEF N
<1>6. f \in [0 .. N -> Inum]
  BY <1>2, <1>3
<1>7. N <= NUM_INODES - 1
  <2> SUFFICES ASSUME N >= NUM_INODES PROVE FALSE
    BY <1>2
  <2>1. IsFiniteSet(0 .. N) /\ Cardinality(0 .. N) = N + 1
    BY <1>2, FS_Interval
  <2>2. IsFiniteSet(Inum) /\ Cardinality(Inum) = NUM_INODES
    BY <1>2, FS_Interval
  <2>3. Cardinality(Inum) < Cardinality(0 .. N)
    BY <1>2, <2>1, <2>2
  <2>4. PICK x, y \in 0 .. N : x # y /\ f[x] = f[y]
    BY <1>6, <2>1, <2>2, <2>3, FS_PigeonHole
  <2> QED BY <1>5, <2>4
<1> QED BY <1>2, <1>7 DEF N

(* The paths that lead to a directory. *)
Paths(d) == {q \in Seq(Name) : Walk(d, q) # -1}

(* The tree that is found level by level is all of them. *)
LEMMA TreeIs ==
  ASSUME NEW d, NEW L, Sound(d, L)
  PROVE  TreeIn(d) = Paths(d)
<1> DEFINE N == NUM_INODES - 1
           Below(found) == {below \in {<<Append(dir[1], name), DirLookup(d, dir[2], name)>> :
                                       dir \in found, name \in Name} : below[2] # -1}
           Rule(g, n) == IF n = 0 THEN {<< <<>>, ROOT_INODE >>} ELSE Below(g[n - 1])
           Obeys(g) == g = [n \in 0 .. N |-> Rule(g, n)]
           level == CHOOSE g : Obeys(g)
           At1(n) == {<<q, Walk(d, q)>> : q \in {r \in Paths(d) : Len(r) = n}}
           lev == [n \in 0 .. N |-> At1(n)]
<1>1. TreeIn(d) = UNION {{dir[1] : dir \in level[n]} : n \in 0 .. N}
  BY DEF TreeIn
<1>2. N \in Nat
  BY Numbers
<1>3. At1(0) = {<< <<>>, ROOT_INODE >>}
  <2>1. <<>> \in Seq(Name) /\ Len(<<>>) = 0 /\ \A q \in Seq(Name) : Len(q) = 0 => q = <<>>
    BY EmptySeq
  <2>2. Walk(d, <<>>) = ROOT_INODE /\ ROOT_INODE # -1
    BY <2>1, WalkType, Numbers
  <2> QED BY <2>1, <2>2 DEF Paths
<1>4. ASSUME NEW n \in Nat PROVE At1(n + 1) = Below(At1(n))
  <2>1. ASSUME NEW q \in Paths(d), Len(q) = n + 1
        PROVE  <<q, Walk(d, q)>> \in Below(At1(n))
    <3> DEFINE front == SubSeq(q, 1, Len(q) - 1)
               last == q[Len(q)]
    <3>1. q \in Seq(Name) /\ q # <<>>
      BY <2>1 DEF Paths
    <3>2. front \in Seq(Name) /\ last \in Name /\ q = Append(front, last) /\ Len(front) = n
      <4>1. Len(q) - 1 = n
        BY <2>1
      <4> QED BY <3>1, <4>1, LastName
    <3> HIDE DEF front, last
    <3>3. Walk(d, q) = Step(d, Walk(d, front), last)
      BY <3>2, WalkStep
    <3>4. Walk(d, front) # -1 /\ Walk(d, q) = DirLookup(d, Walk(d, front), last) /\ Walk(d, q) # -1
      BY <2>1, <3>3 DEF Step, Paths
    <3> DEFINE dir == <<front, Walk(d, front)>>
    <3>5. dir \in At1(n) /\ dir[1] = front /\ dir[2] = Walk(d, front)
      BY <3>2, <3>4 DEF Paths
    <3> HIDE DEF dir, At1
    <3>6. <<q, Walk(d, q)>> = <<Append(dir[1], last), DirLookup(d, dir[2], last)>>
          /\ <<q, Walk(d, q)>>[2] # -1
      BY <3>2, <3>4, <3>5
    <3> QED BY <3>2, <3>5, <3>6
  <2>2. ASSUME NEW front \in Paths(d), Len(front) = n, NEW last \in Name,
               DirLookup(d, Walk(d, front), last) # -1
        PROVE  <<Append(front, last), DirLookup(d, Walk(d, front), last)>> \in At1(n + 1)
    <3>1. /\ Append(front, last) \in Seq(Name) /\ Len(Append(front, last)) = n + 1
          /\ front \in Seq(Name) /\ Walk(d, front) # -1
      BY <2>2 DEF Paths
    <3>2. Walk(d, Append(front, last)) = DirLookup(d, Walk(d, front), last)
      BY <3>1, WalkStep DEF Step
    <3>3. Append(front, last) \in Paths(d)
      BY <2>2, <3>1, <3>2 DEF Paths
    <3> DEFINE q == Append(front, last)
    <3>4. q \in {r \in Paths(d) : Len(r) = n + 1} /\ Walk(d, q) = DirLookup(d, Walk(d, front), last)
      BY <3>1, <3>2, <3>3
    <3> HIDE DEF q
    <3>5. <<q, DirLookup(d, Walk(d, front), last)>> \in At1(n + 1)
      BY <3>4
    <3> QED BY <3>5 DEF q
  <2>3. At1(n + 1) \subseteq Below(At1(n))
    <3> HIDE DEF Below
    <3> QED BY <2>1
  <2>4. Below(At1(n)) \subseteq At1(n + 1)
    <3> SUFFICES ASSUME NEW dir \in At1(n), NEW last \in Name,
                        <<Append(dir[1], last), DirLookup(d, dir[2], last)>>[2] # -1
                 PROVE  <<Append(dir[1], last), DirLookup(d, dir[2], last)>> \in At1(n + 1)
      <4> HIDE DEF At1
      <4> QED OBVIOUS
    <3>1. PICK front \in Paths(d) : Len(front) = n /\ dir = <<front, Walk(d, front)>>
      OBVIOUS
    <3>2. dir[1] = front /\ dir[2] = Walk(d, front)
      BY <3>1
    <3> HIDE DEF At1
    <3>3. DirLookup(d, Walk(d, front), last) # -1
      BY <3>2
    <3> QED BY <2>2, <3>1, <3>2, <3>3
  <2> QED BY <2>3, <2>4
<1> HIDE DEF At1, Below, N
<1>5. Obeys(lev)
  <2>1. \A n \in 0 .. N : lev[n] = Rule(lev, n)
    <3> SUFFICES ASSUME NEW n \in 0 .. N PROVE lev[n] = Rule(lev, n)
      OBVIOUS
    <3>1. CASE n = 0
      BY <1>2, <1>3, <3>1
    <3>2. CASE n # 0
      <4>1. n - 1 \in Nat /\ n - 1 \in 0 .. N /\ (n - 1) + 1 = n
        BY <1>2, <3>2
      <4>2. At1((n - 1) + 1) = Below(At1(n - 1))
        BY <1>4, <4>1
      <4> QED BY <3>2, <4>1, <4>2
    <3> QED BY <3>1, <3>2
  <2>2. lev = [n \in 0 .. N |-> lev[n]]
    OBVIOUS
  <2> HIDE DEF lev, Rule
  <2>3. [n \in 0 .. N |-> lev[n]] = [n \in 0 .. N |-> Rule(lev, n)]
    BY <2>1, Zenon
  <2> QED BY <2>2, <2>3
<1>6. ASSUME NEW g, Obeys(g) PROVE g = lev
  <2> DEFINE S == {n \in 0 .. N : g[n] = lev[n]}
  <2>0. \A n \in 0 .. N : g[n] = Rule(g, n) /\ lev[n] = Rule(lev, n)
    <3> HIDE DEF Rule, lev
    <3> QED BY <1>5, <1>6
  <2> HIDE DEF lev
  <2>1. 0 \in S
    BY <1>2, <2>0
  <2>2. ASSUME NEW n \in 0 .. N, n \in S, n < N PROVE n + 1 \in S
    <3>1. n + 1 \in 0 .. N /\ n + 1 # 0 /\ (n + 1) - 1 = n
      BY <1>2, <2>2
    <3>2. g[n + 1] = Below(g[n]) /\ lev[n + 1] = Below(lev[n])
      BY <2>0, <3>1
    <3> QED BY <2>2, <3>1, <3>2
  <2>3. 0 .. N \subseteq S
    <3> HIDE DEF S
    <3> QED BY <1>2, <2>1, <2>2, Induction
  <2>4. \A n \in 0 .. N : g[n] = lev[n]
    BY <2>3
  <2>5. \A n \in 0 .. N : Rule(g, n) = Rule(lev, n)
    BY <2>0, <2>4
  <2> HIDE DEF Rule, S
  <2>6. [n \in 0 .. N |-> Rule(g, n)] = [n \in 0 .. N |-> Rule(lev, n)]
    BY <2>5
  <2> QED BY <1>5, <1>6, <2>6
<1>7. level = lev
  <2> HIDE DEF Obeys, lev
  <2> QED BY <1>5, <1>6
<1>8. \A n \in 0 .. N : {dir[1] : dir \in lev[n]} = {q \in Paths(d) : Len(q) = n}
  <2> SUFFICES ASSUME NEW n \in 0 .. N
               PROVE  {dir[1] : dir \in At1(n)} = {q \in Paths(d) : Len(q) = n}
    OBVIOUS
  <2>1. \A q \in Paths(d) : <<q, Walk(d, q)>>[1] = q
    OBVIOUS
  <2> QED BY <2>1 DEF At1
<1>9. \A q \in Paths(d) : Len(q) \in 0 .. N
  BY DepthBounded DEF Paths, N
<1> HIDE DEF level, lev
<1>10. TreeIn(d) = UNION {{q \in Paths(d) : Len(q) = n} : n \in 0 .. N}
  BY <1>1, <1>7, <1>8
<1> QED BY <1>9, <1>10

(* The same lookups, the same paths. *)
LEMMA PathsKept ==
  ASSUME NEW d, NEW e, NEW L, Sound(d, L), Sound(e, L), SameLookups(d, e, L)
  PROVE  Paths(e) = Paths(d)
<1> DEFINE S == {q \in Seq(Name) : Walk(e, q) = Walk(d, q)}
<1>1. <<>> \in S
  <2>1. <<>> \in Seq(Name)
    OBVIOUS
  <2> QED BY <2>1, WalkType
<1>2. ASSUME NEW names \in Seq(Name), NEW name \in Name, names \in S
      PROVE  Append(names, name) \in S
  <2>1. Walk(d, names) \in L \cup {-1} /\ Walk(e, names) = Walk(d, names)
    BY <1>2, WalkType
  <2>2. Walk(d, Append(names, name)) = Step(d, Walk(d, names), name)
        /\ Walk(e, Append(names, name)) = Step(e, Walk(e, names), name)
    BY WalkStep
  <2>3. Step(e, Walk(d, names), name) = Step(d, Walk(d, names), name)
    BY <2>1 DEF Step, SameLookups
  <2>4. Append(names, name) \in Seq(Name)
    OBVIOUS
  <2> QED BY <2>1, <2>2, <2>3, <2>4
<1>3. Seq(Name) \subseteq S
  <2> HIDE DEF S
  <2> QED BY <1>1, <1>2, PathInduction
<1>4. \A q \in Seq(Name) : Walk(e, q) = Walk(d, q)
  BY <1>3
<1> QED BY <1>4 DEF Paths

LEMMA AppendsDiffer ==
  ASSUME NEW q \in Seq(Name), NEW m \in Name, NEW r \in Seq(Name), NEW n \in Name
  PROVE  /\ Append(q, m) \in Seq(Name) /\ Append(q, m) # <<>>
         /\ Append(q, m) = Append(r, n) <=> q = r /\ m = n
         /\ SubSeq(Append(q, m), 1, Len(Append(q, m)) - 1) = q
<1> DEFINE a == Append(q, m)
           b == Append(r, n)
           front == SubSeq(a, 1, Len(a) - 1)
<1>1. /\ a \in Seq(Name) /\ Len(a) = Len(q) + 1 /\ a[Len(q) + 1] = m
      /\ \A i \in 1 .. Len(q) : a[i] = q[i]
  OBVIOUS
<1>2. /\ b \in Seq(Name) /\ Len(b) = Len(r) + 1 /\ b[Len(r) + 1] = n
      /\ \A i \in 1 .. Len(r) : b[i] = r[i]
  OBVIOUS
<1>3. Len(q) \in Nat /\ Len(r) \in Nat
  OBVIOUS
<1>4. ASSUME a = b PROVE q = r /\ m = n
  <2> HIDE DEF a, b
  <2>1. Len(q) = Len(r)
    BY <1>1, <1>2, <1>3, <1>4
  <2>2. m = n /\ \A i \in 1 .. Len(q) : q[i] = r[i]
    BY <1>1, <1>2, <1>4, <2>1
  <2> QED BY <2>1, <2>2, SeqEqual
<1>5. a # <<>>
  <2> HIDE DEF a
  <2> QED BY <1>1, <1>3
<1>6. front = q
  <2> HIDE DEF a
  <2>1. Len(a) - 1 = Len(q) /\ Len(q) \in 0 .. Len(a)
    BY <1>1, <1>3
  <2>2. front \in Seq(Name) /\ Len(front) = Len(q) /\ \A i \in 1 .. Len(q) : front[i] = a[i]
    BY <1>1, <2>1, Prefix
  <2>3. \A i \in 1 .. Len(front) : front[i] = q[i]
    BY <1>1, <2>2
  <2> HIDE DEF front
  <2> QED BY <2>2, <2>3, SeqEqual
<1> QED BY <1>1, <1>4, <1>5, <1>6

(* A new child of the directory a path leads to adds one path.             *)
LEMMA PathAdded ==
  ASSUME NEW d, NEW e, NEW L, NEW n \in Inum \ L, NEW p \in L, NEW name \in Name, Sound(d, L),
         Gained(d, e, L, n, p, name), DirLookup(d, p, name) = -1,
         NEW P \in Seq(Name), Walk(d, P) = p
  PROVE  /\ P \in Paths(d) /\ Append(P, name) \notin Paths(d)
         /\ Paths(e) = Paths(d) \cup {Append(P, name)}
<1> DEFINE new == Append(P, name)
           Is(q) == Walk(e, q) = IF Walk(d, q) # -1 THEN Walk(d, q)
                                 ELSE IF q = new THEN n ELSE -1
           S == {q \in Seq(Name) : Is(q)}
<1>1. /\ L \subseteq Inum /\ Sound(e, L \cup {n}) /\ ROOT_INODE \in L
      /\ \A k \in L \cup {n} : k # -1
      /\ \A j \in L \cup {n} : \A other \in Name :
           DirLookup(e, j, other) = IF j = p /\ other = name THEN n
                                    ELSE IF j = n THEN -1 ELSE DirLookup(d, j, other)
  BY Numbers DEF Sound, Laid, Gained
<1>2. new \in Seq(Name) /\ new # <<>>
  BY AppendsDiffer
<1>3. Walk(d, new) = -1
  BY <1>1, WalkStep DEF Step
<1>4. <<>> \in S
  <2>1. <<>> \in Seq(Name)
    OBVIOUS
  <2>2. Walk(d, <<>>) = ROOT_INODE /\ Walk(e, <<>>) = ROOT_INODE
    BY <1>1, <2>1, WalkType
  <2> QED BY <1>1, <2>1, <2>2
<1>5. ASSUME NEW q \in Seq(Name), NEW m \in Name, q \in S PROVE Append(q, m) \in S
  <2> DEFINE more == Append(q, m)
             j == Walk(d, q)
  <2>1. more \in Seq(Name) /\ (more = new <=> q = P /\ m = name)
    BY AppendsDiffer
  <2>2. Walk(d, more) = Step(d, j, m) /\ Walk(e, more) = Step(e, Walk(e, q), m)
    BY <1>1, WalkStep
  <2>3. j \in L \cup {-1} /\ Is(q)
    BY <1>5, WalkType
  <2> HIDE DEF more
  <2>4. CASE j # -1
    <3>1. Walk(e, q) = j /\ j \in L /\ j # n
      BY <2>3, <2>4
    <3>2. Walk(e, more) = DirLookup(e, j, m) /\ Walk(d, more) = DirLookup(d, j, m)
      BY <2>2, <2>4, <3>1 DEF Step
    <3>3. j = p <=> q = P
      <4>1. ASSUME j = p PROVE q = P
        BY <1>1, <2>4, <4>1, OnePath
      <4> QED BY <4>1
    <3>4. CASE q = P /\ m = name
      <4>1. Walk(e, more) = n /\ Walk(d, more) = -1
        BY <1>1, <3>1, <3>2, <3>3, <3>4
      <4> QED BY <2>1, <3>4, <4>1 DEF more
    <3>5. CASE ~ (q = P /\ m = name)
      <4>1. Walk(e, more) = Walk(d, more)
        BY <1>1, <3>1, <3>2, <3>3, <3>5
      <4> QED BY <2>1, <3>5, <4>1 DEF more
    <3> QED BY <3>4, <3>5
  <2>5. CASE j = -1
    <3>1. Walk(d, more) = -1
      BY <2>2, <2>5 DEF Step
    <3>2. more # new
      BY <1>1, <2>1, <2>5
    <3>3. Walk(e, q) = n \/ Walk(e, q) = -1
      BY <2>3, <2>5
    <3>4. Walk(e, more) = -1
      <4>1. n # p
        OBVIOUS
      <4>2. DirLookup(e, n, m) = -1
        BY <1>1, <4>1
      <4> QED BY <2>2, <3>3, <4>2 DEF Step
    <3> QED BY <2>1, <3>1, <3>2, <3>4 DEF more
  <2> QED BY <2>4, <2>5
<1>6. Seq(Name) \subseteq S
  <2> HIDE DEF S
  <2> QED BY <1>4, <1>5, PathInduction
<1>7. \A q \in Seq(Name) : Is(q)
  BY <1>6
<1> HIDE DEF S, new
<1>8. \A q \in Seq(Name) : Walk(e, q) # -1 <=> (Walk(d, q) # -1 \/ q = new)
  BY <1>1, <1>7
<1>9. Paths(e) = Paths(d) \cup {new}
  BY <1>2, <1>8 DEF Paths
<1>10. P \in Paths(d) /\ new \notin Paths(d)
  BY <1>1, <1>3 DEF Paths
<1> QED BY <1>9, <1>10 DEF new

(* An empty directory that is removed takes its path with it.              *)
LEMMA PathRemoved ==
  ASSUME NEW d, NEW e, NEW L, NEW c \in L \ {ROOT_INODE}, NEW p \in L, NEW name \in Name,
         Sound(d, L), Pruned(d, e, L, c), DirLookup(d, p, name) = c, Children(d, c) = {},
         NEW P \in Seq(Name), Walk(d, P) = p
  PROVE  /\ Append(P, name) \in Paths(d)
         /\ \A q \in Seq(Name), m \in Name : Append(q, m) \in Paths(d) => q # Append(P, name)
         /\ Paths(e) = Paths(d) \ {Append(P, name)}
<1> DEFINE gone == Append(P, name)
           Is(q) == Walk(e, q) = IF Walk(d, q) = c THEN -1 ELSE Walk(d, q)
           S == {q \in Seq(Name) : Is(q)}
<1>1. /\ L \subseteq Inum /\ Sound(e, L \ {c}) /\ ROOT_INODE \in L
      /\ \A k \in L : k # -1
      /\ \A j \in L \ {c} : \A other \in Name :
           DirLookup(e, j, other) = IF DirLookup(d, j, other) = c THEN -1
                                    ELSE DirLookup(d, j, other)
  BY Numbers DEF Sound, Laid, Pruned
<1>2. gone \in Seq(Name) /\ Walk(d, gone) = c
  BY <1>1, AppendsDiffer, WalkStep DEF Step
<1>3. \A m \in Name : DirLookup(d, c, m) = -1
  BY ChildLookup
<1>4. <<>> \in S
  <2>1. <<>> \in Seq(Name)
    OBVIOUS
  <2>2. Walk(d, <<>>) = ROOT_INODE /\ Walk(e, <<>>) = ROOT_INODE
    BY <1>1, <2>1, WalkType
  <2> QED BY <1>1, <2>1, <2>2
<1>5. ASSUME NEW q \in Seq(Name), NEW m \in Name, q \in S PROVE Append(q, m) \in S
  <2> DEFINE more == Append(q, m)
             j == Walk(d, q)
  <2>1. more \in Seq(Name)
    BY AppendsDiffer
  <2>2. Walk(d, more) = Step(d, j, m) /\ Walk(e, more) = Step(e, Walk(e, q), m)
    BY <1>1, WalkStep
  <2>3. j \in L \cup {-1} /\ Is(q)
    BY <1>5, WalkType
  <2> HIDE DEF more
  <2>4. CASE j = c
    BY <1>1, <1>3, <2>1, <2>2, <2>3, <2>4 DEF Step, more
  <2>5. CASE j = -1
    BY <1>1, <2>1, <2>2, <2>3, <2>5 DEF Step, more
  <2>6. CASE j \in L \ {c}
    BY <1>1, <2>1, <2>2, <2>3, <2>6 DEF Step, more
  <2> QED BY <2>3, <2>4, <2>5, <2>6
<1>6. Seq(Name) \subseteq S
  <2> HIDE DEF S
  <2> QED BY <1>4, <1>5, PathInduction
<1>7. \A q \in Seq(Name) : Is(q)
  BY <1>6
<1> HIDE DEF S, gone
<1>8. \A q \in Seq(Name) : Walk(d, q) = c <=> q = gone
  BY <1>1, <1>2, OnePath
<1>9. \A q \in Seq(Name) : Walk(e, q) # -1 <=> (Walk(d, q) # -1 /\ q # gone)
  BY <1>1, <1>7, <1>8
<1>10. Paths(e) = Paths(d) \ {gone}
  BY <1>9 DEF Paths
<1>11. gone \in Paths(d)
  BY <1>1, <1>2 DEF Paths
<1>12. ASSUME NEW q \in Seq(Name), NEW m \in Name, Append(q, m) \in Paths(d), q = gone
       PROVE  FALSE
  <2>1. Walk(d, Append(q, m)) = DirLookup(d, c, m)
    BY <1>1, <1>2, <1>12, WalkStep DEF Step
  <2> QED BY <1>3, <1>12, <2>1 DEF Paths
<1> QED BY <1>10, <1>11, <1>12 DEF gone

-----------------------------------------------------------------------------
(* What a command does to the tree *)

(* A path that is new, below one that was there.                           *)
Gains(old, new, path) ==
  /\ path # <<>> /\ path \notin old /\ SubSeq(path, 1, Len(path) - 1) \in old
  /\ new = old \cup {path}

(* A path with nothing below it that is gone.                              *)
Loses(old, new, path) ==
  /\ path \in old \ {<<>>}
  /\ \A below \in old : below # <<>> => SubSeq(below, 1, Len(below) - 1) # path
  /\ new = old \ {path}

(* r is what a command returns on disk d. *)
Evolves(d, r) ==
  /\ r.ok \in BOOLEAN
  /\ \E M : Sound(r.disk, M)
  /\ \/ Paths(r.disk) = Paths(d)
     \/ \E path : Gains(Paths(d), Paths(r.disk), path) \/ Loses(Paths(d), Paths(r.disk), path)

LEMMA Unchanged ==
  ASSUME NEW d, NEW L, Sound(d, L)
  PROVE  Evolves(d, Returns(FALSE, d))
BY DEF Evolves, Returns

(* The parent that a path names is the directory of a path, or none.       *)
LEMMA ParentFound ==
  ASSUME NEW d, NEW L, Sound(d, L), NEW path \in PathType
  PROVE  /\ LookupParent(d, path) \in L \cup {-1}
         /\ LookupParent(d, path) # -1 =>
              \E P \in Seq(Name) : Walk(d, P) = LookupParent(d, path)
         /\ path.kind = "relative" => LookupParent(d, path) = -1
         /\ path.names # <<>> => \A name \in LastNames(path) : name \in Name
         /\ LastNames(path) \subseteq Name \cup {DOT, DOTDOT, NONAME, WILD}
<1>1. path.names \in Seq(Name)
  BY DEF PathType
<1>2. path.names # <<>> => path.names[Len(path.names)] \in Name
  BY <1>1, LastName
<1>3. path.kind = "relative" => LookupParent(d, path) = -1
  BY DEF LookupParent
<1>4. /\ LookupParent(d, path) \in L \cup {-1}
      /\ LookupParent(d, path) # -1 =>
              \E P \in Seq(Name) : Walk(d, P) = LookupParent(d, path)
  <2>1. CASE path.kind = "relative"
    BY <1>3, <2>1
  <2>2. CASE path.kind # "relative" /\ path.names = <<>>
    <3>1. <<>> \in Seq(Name) /\ LookupParent(d, path) = ROOT_INODE
      BY <2>2 DEF LookupParent
    <3>2. Walk(d, <<>>) = ROOT_INODE /\ ROOT_INODE \in L
      BY <3>1, WalkType DEF Sound
    <3> QED BY <3>1, <3>2
  <2>3. CASE path.kind # "relative" /\ path.names # <<>>
    <3> DEFINE P == SubSeq(path.names, 1, Len(path.names) - 1)
    <3>1. LookupParent(d, path) = Walk(d, P)
      BY <2>3 DEF LookupParent
    <3>2. P \in Seq(Name)
      BY <1>1, <2>3, LastName
    <3> HIDE DEF P
    <3> QED BY <3>1, <3>2, WalkType
  <2> QED BY <2>1, <2>2, <2>3
<1> QED BY <1>2, <1>3, <1>4 DEF LastNames

LEMMA MkdirEvolves ==
  ASSUME NEW d, NEW L, Sound(d, L), NEW path \in PathType,
         path.kind = "relative" \/ path.names # <<>>,
         NEW name \in LastNames(path), NEW junk \in Junk
  PROVE  Evolves(d, FsCreate(d, LookupParent(d, path), name, junk))
<1> DEFINE p == LookupParent(d, path)
           r == FsCreate(d, p, name, junk)
<1>1. CASE p = -1
  <2>1. r = Returns(FALSE, d)
    BY <1>1 DEF FsCreate
  <2> HIDE DEF r, p
  <2>2. Evolves(d, r)
    BY <2>1, Unchanged
  <2> QED BY <2>2 DEF r, p
<1>2. CASE p # -1
  <2>1. p \in L /\ name \in Name
    BY <1>2, ParentFound
  <2>2. PICK P \in Seq(Name) : Walk(d, P) = p
    BY <1>2, ParentFound
  <2> HIDE DEF p
  <2>3. r.ok \in BOOLEAN /\ Created(d, r.disk, L, p, name)
    BY <2>1, Creates
  <2> DEFINE e == r.disk
  <2> HIDE DEF e
  <2>4. CASE Sound(e, L) /\ SameLookups(d, e, L)
    <3>1. Paths(e) = Paths(d)
      BY <2>4, PathsKept
    <3>2. Evolves(d, r)
      BY <2>3, <2>4, <3>1 DEF Evolves, e
    <3> QED BY <3>2 DEF p
  <2>5. CASE /\ p \in L /\ DirLookup(d, p, name) = -1
             /\ \E n \in Inum \ L : Gained(d, e, L, n, p, name)
    <3>1. PICK n \in Inum \ L : Gained(d, e, L, n, p, name)
      BY <2>5
    <3> DEFINE new == Append(P, name)
    <3>2. P \in Paths(d) /\ new \notin Paths(d) /\ Paths(e) = Paths(d) \cup {new}
      BY <2>1, <2>2, <2>5, <3>1, PathAdded
    <3>3. new # <<>> /\ SubSeq(new, 1, Len(new) - 1) = P
      BY <2>1, AppendsDiffer
    <3> HIDE DEF new
    <3>4. Gains(Paths(d), Paths(e), new)
      BY <3>2, <3>3 DEF Gains
    <3>5. \E M : Sound(e, M)
      BY <3>1 DEF Gained
    <3>6. Evolves(d, r)
      BY <2>3, <3>4, <3>5 DEF Evolves, e
    <3> QED BY <3>6 DEF p
  <2> QED BY <2>3, <2>4, <2>5 DEF Created, e
<1> QED BY <1>1, <1>2

LEMMA RmdirEvolves ==
  ASSUME NEW d, NEW L, Sound(d, L), NEW path \in PathType, NEW name \in LastNames(path)
  PROVE  Evolves(d, FsDelete(d, LookupParent(d, path), name))
<1> DEFINE p == LookupParent(d, path)
           r == FsDelete(d, p, name)
<1>1. p \in L \cup {-1} /\ name \in Name \cup {DOT, DOTDOT, NONAME, WILD}
      /\ (p # -1 => \E P \in Seq(Name) : Walk(d, P) = p)
  BY ParentFound
<1> HIDE DEF p
<1>2. r.ok \in BOOLEAN /\ Removed(d, r.disk, L, p, name)
  BY <1>1, Deletes
<1> DEFINE e == r.disk
<1> HIDE DEF e
<1>3. CASE e = d
  <2>1. Evolves(d, r)
    BY <1>2, <1>3 DEF Evolves, e
  <2> QED BY <2>1 DEF p
<1>4. CASE /\ p \in L /\ name \in Name
           /\ \E c \in L \ {ROOT_INODE} :
                /\ DirLookup(d, p, name) = c /\ Children(d, c) = {} /\ Pruned(d, e, L, c)
  <2>1. PICK c \in L \ {ROOT_INODE} :
           DirLookup(d, p, name) = c /\ Children(d, c) = {} /\ Pruned(d, e, L, c)
    BY <1>4
  <2>2. p # -1
    BY <1>4, Numbers DEF Sound, Laid
  <2>3. PICK P \in Seq(Name) : Walk(d, P) = p
    BY <1>1, <2>2
  <2> DEFINE gone == Append(P, name)
  <2>4. /\ gone \in Paths(d) /\ Paths(e) = Paths(d) \ {gone}
        /\ \A q \in Seq(Name), m \in Name : Append(q, m) \in Paths(d) => q # gone
    BY <1>4, <2>1, <2>3, PathRemoved
  <2>5. gone # <<>>
    BY <1>4, AppendsDiffer
  <2> HIDE DEF gone
  <2>6. ASSUME NEW below \in Paths(d), below # <<>>
        PROVE  SubSeq(below, 1, Len(below) - 1) # gone
    <3> DEFINE front == SubSeq(below, 1, Len(below) - 1)
               last == below[Len(below)]
    <3>1. front \in Seq(Name) /\ last \in Name /\ below = Append(front, last)
      BY <2>6, LastName DEF Paths
    <3> HIDE DEF front, last
    <3>2. front # gone
      BY <2>4, <3>1
    <3> QED BY <3>2 DEF front
  <2>7. Loses(Paths(d), Paths(e), gone)
    BY <2>4, <2>5, <2>6 DEF Loses
  <2>8. \E M : Sound(e, M)
    BY <2>1 DEF Pruned
  <2>9. Evolves(d, r)
    BY <1>2, <2>7, <2>8 DEF Evolves, e
  <2> QED BY <2>9 DEF p
<1> QED BY <1>2, <1>3, <1>4 DEF Removed, e

-----------------------------------------------------------------------------
(* The theorems *)

(* Every path given to mkdir names something: "/" and "//" have no last    *)
(* name, and fs_create takes what is on the stack for one.                 *)
MkdirNamed == \A path \in MkdirPaths : path.kind = "relative" \/ path.names # <<>>

(* What holds in every state: some directories make a sound tree.          *)
Inv ==
  /\ \E L : Sound(disk, L)
  /\ cwd \in Inum \cup {-1}
  /\ result \in [op : {"none", "mkdir", "rmdir", "cd"}, ok : BOOLEAN]

LEMMA InitInv ==
  Init => Inv
<1> SUFFICES ASSUME Init PROVE Inv
  OBVIOUS
<1>1. Sound(disk, {ROOT_INODE})
  BY RootAlone DEF Init
<1> QED BY <1>1, Numbers DEF Init, Inv

LEMMA GivenPaths ==
  MkdirPaths \subseteq PathType /\ RmdirPaths \subseteq PathType /\ CdPaths \subseteq PathType
BY FileSystemAssumption

(* A command's step on the disk and the paths. *)
Moves ==
  /\ \E M : Sound(disk', M)
  /\ \/ Paths(disk') = Paths(disk)
     \/ \E path : Gains(Paths(disk), Paths(disk'), path) \/ Loses(Paths(disk), Paths(disk'), path)

LEMMA NextMoves ==
  ASSUME MkdirNamed, Inv, Next
  PROVE  Inv' /\ Moves
<1>1. PICK L : Sound(disk, L)
  BY DEF Inv
<1>2. ASSUME NEW r, NEW op \in {"mkdir", "rmdir"}, Evolves(disk, r), Finish(op, r), UNCHANGED cwd
      PROVE  Inv' /\ Moves
  BY <1>2 DEF Evolves, Finish, Inv, Moves
<1>3. ASSUME NEW path \in MkdirPaths, mkdir(path) PROVE Inv' /\ Moves
  <2>1. path \in PathType /\ (path.kind = "relative" \/ path.names # <<>>)
    BY GivenPaths DEF MkdirNamed
  <2>2. PICK name \in LastNames(path), junk \in Junk :
          Finish("mkdir", FsCreate(disk, LookupParent(disk, path), name, junk))
    BY <1>3 DEF mkdir
  <2>3. Evolves(disk, FsCreate(disk, LookupParent(disk, path), name, junk))
    BY <1>1, <2>1, MkdirEvolves
  <2> QED BY <1>2, <1>3, <2>2, <2>3 DEF mkdir
<1>4. ASSUME NEW path \in RmdirPaths, rmdir(path) PROVE Inv' /\ Moves
  <2>1. path \in PathType
    BY GivenPaths
  <2>2. CASE path.kind = "slash"
    <3>1. Evolves(disk, Returns(FALSE, disk)) /\ Finish("rmdir", Returns(FALSE, disk))
      BY <1>1, <1>4, <2>2, Unchanged DEF rmdir
    <3> QED BY <1>2, <1>4, <3>1 DEF rmdir
  <2>3. CASE path.kind # "slash"
    <3>1. PICK name \in LastNames(path) :
            Finish("rmdir", FsDelete(disk, LookupParent(disk, path), name))
      BY <1>4, <2>3 DEF rmdir
    <3>2. Evolves(disk, FsDelete(disk, LookupParent(disk, path), name))
      BY <1>1, <2>1, RmdirEvolves
    <3> QED BY <1>2, <1>4, <3>1, <3>2 DEF rmdir
  <2> QED BY <2>2, <2>3
<1>5. ASSUME NEW path \in CdPaths, cd(path) PROVE Inv' /\ Moves
  <2>1. path \in PathType
    BY GivenPaths
  <2>2. Lookup(disk, path) \in Inum \cup {-1}
    <3>1. path.names \in Seq(Name)
      BY <2>1 DEF PathType
    <3>2. Walk(disk, path.names) \in L \cup {-1} /\ L \subseteq Inum
      BY <1>1, <3>1, WalkType DEF Sound, Laid
    <3> QED BY <3>2 DEF Lookup
  <2>3. disk' = disk
    BY <1>5 DEF cd
  <2>4. cwd' \in Inum \cup {-1} /\ result' \in [op : {"none", "mkdir", "rmdir", "cd"}, ok : BOOLEAN]
    <3> DEFINE found == Lookup(disk, path)
    <3>1. found \in Inum \cup {-1}
      BY <2>2
    <3>2. cwd' = found \/ cwd' = cwd
      BY <1>5 DEF cd
    <3>3. result' = [op |-> "cd", ok |-> TRUE] \/ result' = [op |-> "cd", ok |-> FALSE]
      BY <1>5 DEF cd
    <3> HIDE DEF found
    <3>4. cwd' \in Inum \cup {-1}
      BY <3>1, <3>2 DEF Inv
    <3>5. result' \in [op : {"none", "mkdir", "rmdir", "cd"}, ok : BOOLEAN]
      <4>1. ASSUME NEW ok \in BOOLEAN
            PROVE  [op |-> "cd", ok |-> ok] \in [op : {"none", "mkdir", "rmdir", "cd"}, ok : BOOLEAN]
        OBVIOUS
      <4> QED BY <3>3, <4>1, Zenon
    <3> QED BY <3>4, <3>5
  <2> QED BY <1>1, <2>3, <2>4 DEF Inv, Moves
<1> QED BY <1>3, <1>4, <1>5 DEF Next

(* Some directories make a sound tree in every state: they have their      *)
(* blocks to themselves, every one but the root is in one directory, under *)
(* a name that no other has there, and is counted by it.                   *)
THEOREM Invariance ==
  ASSUME MkdirNamed
  PROVE  Spec => []Inv
<1>1. Inv /\ [Next]_vars => Inv'
  <2>1. Inv /\ Next => Inv'
    BY NextMoves
  <2>2. Inv /\ UNCHANGED vars => Inv'
    BY DEF Inv, vars
  <2> QED BY <2>1, <2>2
<1> QED BY <1>1, InitInv, PTL DEF Spec

(* TypeOK: no number of links falls below zero, and every number stored    *)
(* names an inode or a block that exists.                                  *)
THEOREM TypeCorrect ==
  ASSUME MkdirNamed
  PROVE  Spec => []TypeOK
<1>1. Inv => TypeOK
  BY DEF Inv, TypeOK, Sound, Laid, Disk
<1> QED BY <1>1, Invariance, PTL

(* BlocksOwnedOnce: what rmdir frees of a directory and the next mkdir     *)
(* takes was nobody else's.                                                *)
LEMMA InvBlocks ==
  Inv => BlocksOwnedOnce
<1> SUFFICES ASSUME Inv PROVE BlocksOwnedOnce
  OBVIOUS
<1>1. PICK L : Sound(disk, L)
  BY DEF Inv
<1>2. Live = L
  BY <1>1, LiveIs DEF Live
<1>3. L \subseteq disk.ibitmap
  BY <1>1 DEF Sound
<1>4. ASSUME NEW i \in L
      PROVE  /\ BlocksOf(disk, i) \subseteq disk.dbitmap
             /\ \A a \in Direct : disk.itable[i].addrs[a] # -1 <=>
                                  a * DIRENTS_PER_BLOCK < disk.itable[i].size
             /\ \A a, b \in Direct : (a # b /\ disk.itable[i].addrs[a] # -1) =>
                                     disk.itable[i].addrs[a] # disk.itable[i].addrs[b]
  BY <1>1 DEF Sound, Laid, Mapped, Size
<1>5. ASSUME NEW i \in L, NEW j \in L \ {i}
      PROVE  BlocksOf(disk, i) \cap BlocksOf(disk, j) = {}
  BY <1>1 DEF Sound, Laid
<1> QED BY <1>2, <1>3, <1>4, <1>5 DEF BlocksOwnedOnce

(* BlocksOwnedOnce holds in every state: no block that rmdir frees, and    *)
(* none that the next mkdir takes, is another directory's.                 *)
THEOREM BlocksStayOwned ==
  ASSUME MkdirNamed
  PROVE  Spec => []BlocksOwnedOnce
BY InvBlocks, Invariance, PTL

LEMMA InvTree ==
  Inv => TreeSound
<1> SUFFICES ASSUME Inv PROVE TreeSound
  OBVIOUS
<1>1. PICK L : Sound(disk, L)
  BY DEF Inv
<1>2. Live = L /\ L \subseteq Inum /\ disk \in Disk /\ ROOT_INODE \in L
  BY <1>1, LiveIs DEF Live, Sound, Laid
<1> DEFINE Places(i, p) == {c \in Children(disk, p) : Child(disk, p, c) = i}
           LinksTo(i) == UNION {{<<p, o>> : o \in Places(i, p)} : p \in L}
<1>3. ASSUME NEW p \in L, NEW o \in Children(disk, p)
      PROVE  Child1(disk, L, p, o)
  BY <1>1, <1>3 DEF Sound, Tied
<1>4. LinksTo(ROOT_INODE) = {}
  BY <1>3 DEF Child1
<1>5. ASSUME NEW i \in L \ {ROOT_INODE}
      PROVE  \E p \in L : /\ At(disk, i, 1) = Entry(DOTDOT, p)
                          /\ \E o \in Children(disk, p) : LinksTo(i) = {<<p, o>>}
  <2>1. PICK p \in L : \E o \in Children(disk, p) : Child(disk, p, o) = i
    BY <1>1 DEF Sound, Tied
  <2>2. PICK o \in Children(disk, p) : Child(disk, p, o) = i
    BY <2>1
  <2>3. At(disk, i, 1) = Entry(DOTDOT, p)
    BY <1>3, <2>2 DEF Child1
  <2>4. ASSUME NEW q \in L, NEW c \in Children(disk, q), Child(disk, q, c) = i
        PROVE  q = p /\ c = o
    <3>1. At(disk, i, 1) = Entry(DOTDOT, q)
      BY <1>3, <2>4 DEF Child1
    <3>2. q = p
      BY <2>3, <3>1 DEF Entry
    <3> QED BY <1>3, <2>2, <2>4, <3>2 DEF Child1
  <2>5. LinksTo(i) = {<<p, o>>}
    BY <2>2, <2>4
  <2> QED BY <2>3, <2>5
<1>6. ASSUME NEW i \in L
      PROVE  /\ Size(disk, i) >= 2 /\ At(disk, i, 0) = Entry(DOT, i)
             /\ \A o, q \in Children(disk, i) : At(disk, i, o).name = At(disk, i, q).name => o = q
  BY <1>1, <1>3 DEF Sound, Entries, Child1
<1>7. At(disk, ROOT_INODE, 1) = Entry(DOTDOT, ROOT_INODE)
  BY <1>1 DEF Sound, Tied
<1>8. ASSUME NEW i \in L
      PROVE  \E p \in L : /\ At(disk, i, 1) = Entry(DOTDOT, p)
                          /\ IF i = ROOT_INODE THEN p = i /\ LinksTo(i) = {}
                             ELSE \E o \in Children(disk, p) : LinksTo(i) = {<<p, o>>}
  <2>1. CASE i = ROOT_INODE
    BY <1>4, <1>7, <2>1
  <2>2. CASE i # ROOT_INODE
    BY <1>5, <2>2
  <2> QED BY <2>1, <2>2
<1> QED BY <1>2, <1>6, <1>8 DEF TreeSound, Size, At

(* TreeSound holds in every state: each directory starts with "." and      *)
(* "..", and ".." names the one directory that has an entry for it.        *)
THEOREM TreeStaysSound ==
  ASSUME MkdirNamed
  PROVE  Spec => []TreeSound
BY InvTree, Invariance, PTL

(* LinksCover holds in every state: num_links counts at least the entry of *)
(* a directory in its parent and the ".." of each of its children.         *)
THEOREM LinksStayCovered ==
  ASSUME MkdirNamed
  PROVE  Spec => []LinksCover
<1>1. Inv => LinksCover
  <2> SUFFICES ASSUME Inv, NEW i \in Live
               PROVE  disk.itable[i].num_links >= Owed(disk, i)
    BY DEF LinksCover, Owed
  <2>1. PICK L : Sound(disk, L)
    BY DEF Inv
  <2> QED BY <2>1, LiveIs DEF Live, Sound, Counted
<1> QED BY <1>1, Invariance, PTL

(* Every directory below another has a name that a command can give.       *)
OnlyTypedNames ==
  \A i \in Live : \A o \in Children(disk, i) : EntryAt(disk, disk.itable[i], o).name \in Name

(* OnlyTypedNames holds in every state when every path that mkdir is given *)
(* names something: no directory has a name that no command can give.      *)
THEOREM NamesCanBeTyped ==
  ASSUME MkdirNamed
  PROVE  Spec => []OnlyTypedNames
<1>1. Inv => OnlyTypedNames
  <2> SUFFICES ASSUME Inv, NEW i \in Live, NEW o \in Children(disk, i)
               PROVE  At(disk, i, o).name \in Name
    BY DEF OnlyTypedNames, At
  <2>1. PICK L : Sound(disk, L)
    BY DEF Inv
  <2>2. disk \in Disk /\ i \in Inum /\ Entries(disk, i)
    BY <2>1, LiveIs DEF Live, Sound, Laid
  <2> QED BY <2>2, ChildrenAre
<1> QED BY <1>1, Invariance, PTL

-----------------------------------------------------------------------------
(* The abstract tree *)

(* At the start only the root is there, and only the path without names    *)
(* leads to it.                                                            *)
LEMMA TreeStarts ==
  Init => Tree = {<<>>}
<1> SUFFICES ASSUME Init PROVE Tree = {<<>>}
  OBVIOUS
<1>1. Sound(disk, {ROOT_INODE})
  BY RootAlone DEF Init
<1>2. Tree = Paths(disk)
  BY <1>1, TreeIs DEF Tree
<1>3. \A q \in Seq(Name) : /\ Walk(disk, q) \in {ROOT_INODE, -1}
                           /\ q # <<>> => Walk(disk, q) # ROOT_INODE
  BY <1>1, WalkType
<1>4. <<>> \in Seq(Name)
  OBVIOUS
<1>5. Walk(disk, <<>>) = ROOT_INODE
  BY <1>1, <1>4, WalkType, Zenon
<1>6. ROOT_INODE # -1
  BY DEF ROOT_INODE
<1>7. \A q : q \in Paths(disk) <=> q \in Seq(Name) /\ Walk(disk, q) # -1
  BY DEF Paths
<1>8. \A q : q \in Paths(disk) <=> q = <<>>
  BY <1>3, <1>4, <1>5, <1>6, <1>7, Zenon
<1> QED BY <1>2, <1>8, Zenon

(* A step of the commands is a step of the abstract tree, or leaves it.    *)
LEMMA TreeSteps ==
  ASSUME Inv, Inv', Moves
  PROVE  Abstract!Next \/ UNCHANGED Tree
<1>1. PICK L : Sound(disk, L)
  BY DEF Inv
<1>2. PICK M : Sound(disk', M)
  BY DEF Moves
<1>3. Tree = Paths(disk)
  BY <1>1, TreeIs DEF Tree
<1>4. Tree' = Paths(disk')
  BY <1>2, TreeIs DEF Tree
<1>5. ASSUME NEW path, Gains(Tree, Tree', path) PROVE Abstract!Next
  <2>1. Abstract!MakeDirectory(path)
    BY <1>5 DEF Gains, Abstract!MakeDirectory, Abstract!Parent
  <2>2. path \in Tree' \ Tree
    BY <1>5 DEF Gains
  <2> QED BY <2>1, <2>2 DEF Abstract!Next
<1>6. ASSUME NEW path, Loses(Tree, Tree', path) PROVE Abstract!Next
  <2>1. Abstract!RemoveDirectory(path)
    BY <1>6 DEF Loses, Abstract!RemoveDirectory, Abstract!Parent
  <2>2. path \in Tree \ Tree'
    BY <1>6 DEF Loses
  <2> QED BY <2>1, <2>2 DEF Abstract!Next
<1>7. \/ Tree' = Tree
      \/ \E path : Gains(Tree, Tree', path) \/ Loses(Tree, Tree', path)
  BY <1>3, <1>4 DEF Moves
<1> QED BY <1>5, <1>6, <1>7

(* ImplementsDirTree: what paths lead to changes as a tree, whatever the   *)
(* commands and their failures half way leave on the disk.                 *)
THEOREM Refinement ==
  ASSUME MkdirNamed
  PROVE  Spec => ImplementsDirTree
<1>1. Init => Abstract!Init
  BY TreeStarts DEF Abstract!Init
<1>2. Inv /\ Inv' /\ [Next]_vars => [Abstract!Next]_Tree
  <2>1. ASSUME Inv, Inv', Next PROVE Abstract!Next \/ UNCHANGED Tree
    BY <2>1, NextMoves, TreeSteps
  <2>2. ASSUME UNCHANGED vars PROVE UNCHANGED Tree
    BY <2>2 DEF vars, Tree
  <2> QED BY <2>1, <2>2
<1> QED BY <1>1, <1>2, Invariance, PTL DEF Spec, ImplementsDirTree, Abstract!Spec

=============================================================================
