----------------------------- MODULE FileSystem -----------------------------
(***************************************************************************)
(* The file system of src/fs behind mkdir, rmdir and cd: fs.c, pathname.c, *)
(* directory.c, file.c, inode.c, data.c and bitmap.c on the array that     *)
(* disk.c calls the disk.  The commands only handle directories.           *)
(*                                                                         *)
(* The disk is a record d:                                                 *)
(*   d.ibitmap, d.dbitmap   the inodes and data blocks that are taken      *)
(*   d.itable               the inode table                                *)
(*   d.dblocks              the data region, a block being the directory   *)
(*                          entries it holds (a struct dirent is 64 bytes  *)
(*                          and never crosses a block)                     *)
(* Sizes and offsets count directory entries.  An operation that returns   *)
(* -1 half way has written what it has written: operations give the disk   *)
(* and whether they returned 0.                                            *)
(***************************************************************************)
EXTENDS Integers, Sequences, FiniteSets

CONSTANTS
  NUM_INODES, NUM_DATA_BLOCKS, NDIRECT,   \* inode.h, fs.h
  DIRENTS_PER_BLOCK,                      \* BLOCK_SIZE / sizeof(struct dirent)
  Name,         \* names that can be typed: is_valid_path excludes "." and ".."
  DOT, DOTDOT,  \* the entries "." and ".."
  NONAME,       \* the name in an entry of zeros
  WILD,         \* bytes nobody wrote, taken for a name
  JUNK,         \* the name in an entry that dir_add wrote into a hole
  MkdirPaths, RmdirPaths, CdPaths   \* the paths that are given to each command

(* "/" alone is told apart by fs_delete; "//" is absolute with no names.   *)
PathType == [kind : {"relative", "slash", "absolute"}, names : Seq(Name)]

ASSUME FileSystemAssumption ==
  /\ NUM_INODES \in Nat \ {0} /\ NUM_DATA_BLOCKS \in Nat \ {0}
  /\ NDIRECT \in Nat \ {0} /\ DIRENTS_PER_BLOCK \in Nat \ {0}
  \* room for the root's two entries
  /\ NDIRECT * DIRENTS_PER_BLOCK >= 2 /\ NUM_DATA_BLOCKS * DIRENTS_PER_BLOCK >= 2
  /\ {DOT, DOTDOT, NONAME, WILD, JUNK} \cap Name = {}
  /\ Cardinality({DOT, DOTDOT, NONAME, WILD, JUNK}) = 5
  /\ MkdirPaths \cup RmdirPaths \cup CdPaths \subseteq PathType

VARIABLES
  disk,
  cwd,      \* the inode number in the cwd inode, -1 for bytes nobody wrote
  result    \* the last command and whether it returned 0

vars == <<disk, cwd, result>>

ROOT_INODE == 0
Inum == 0 .. (NUM_INODES - 1)
Dnum == 0 .. (NUM_DATA_BLOCKS - 1)
Direct == 0 .. (NDIRECT - 1)
Slot == 0 .. (DIRENTS_PER_BLOCK - 1)

Dirent == [valid : BOOLEAN, name : Name \cup {DOT, DOTDOT, NONAME, WILD, JUNK},
           inum : Inum \cup {-1}]
Inode == [size : 0 .. (NDIRECT * DIRENTS_PER_BLOCK), num_links : Nat,
          addrs : [Direct -> Dnum \cup {-1}]]

Entry(name, inum) == [valid |-> TRUE, name |-> name, inum |-> inum]
ZeroEntry == [valid |-> FALSE, name |-> NONAME, inum |-> 0]
ZeroBlock == [s \in Slot |-> ZeroEntry]

Returns(ok, d) == [ok |-> ok, disk |-> d]

-----------------------------------------------------------------------------
(* bitmap.c, data.c, inode.c *)

(* bitmap_find_free: the lowest that is not taken, or -1. *)
FindFree(bitmap, limit) ==
  LET free == (0 .. (limit - 1)) \ bitmap
  IN  IF free = {} THEN -1 ELSE CHOOSE n \in free : \A m \in free : n <= m

BrokenUnmarked(d, dnum) == [d EXCEPT !.dblocks[dnum] = ZeroBlock]

(* data_alloc: the block is zeroed before it is taken. *)
DataAlloc(d, dnum) ==
  [d EXCEPT !.dblocks[dnum] = ZeroBlock, !.dbitmap = @ \cup {dnum}]

BrokenInodeAlloc(d, inum, links) ==
  [d EXCEPT !.itable[inum] = [size |-> 0, num_links |-> links,
                              addrs |-> [i \in Direct |-> -1]]]

InodeAlloc(d, inum, links) ==
  [d EXCEPT !.ibitmap = @ \cup {inum},
            !.itable[inum] = [size |-> 0, num_links |-> links,
                              addrs |-> [i \in Direct |-> -1]]]

-----------------------------------------------------------------------------
(* file.c and directory.c *)

(* file_read of one entry below the directory's size. *)
EntryAt(d, inode, offset) ==
  d.dblocks[inode.addrs[offset \div DIRENTS_PER_BLOCK]][offset % DIRENTS_PER_BLOCK]

WriteAt(d, inode, offset, entry) ==
  [d EXCEPT !.dblocks[inode.addrs[offset \div DIRENTS_PER_BLOCK]]
                     [offset % DIRENTS_PER_BLOCK] = entry]

Offsets(inode) == 0 .. (inode.size - 1)
FirstOf(offsets) == CHOOSE o \in offsets : \A p \in offsets : o <= p

DirLookup(d, inum, name) ==
  LET inode == d.itable[inum]
      found == {o \in Offsets(inode) : /\ EntryAt(d, inode, o).valid
                                       /\ EntryAt(d, inode, o).name = name}
  IN  IF found = {} THEN -1 ELSE EntryAt(d, inode, FirstOf(found)).inum

(* Stops at the first hole. *)
BrokenDirEmpty(d, inum) ==
  LET inode == d.itable[inum]
      holes == {o \in Offsets(inode) : ~ EntryAt(d, inode, o).valid}
  IN  \A o \in Offsets(inode) :
        (\A h \in holes : o < h) => EntryAt(d, inode, o).name \in {DOT, DOTDOT}

DirEmpty(d, inum) ==
  LET inode == d.itable[inum]
  IN  \A o \in Offsets(inode) :
        EntryAt(d, inode, o).valid => EntryAt(d, inode, o).name \in {DOT, DOTDOT}

(* file_write of an entry at the end of the directory. *)
AppendEntry(d, inum, entry) ==
  LET inode == d.itable[inum]
      addr  == inode.size \div DIRENTS_PER_BLOCK
      fresh == FindFree(d.dbitmap, NUM_DATA_BLOCKS)
      mapped == addr \in Direct /\ inode.addrs[addr] # -1
      grown == [inode EXCEPT !.size = @ + 1,
                             !.addrs[addr] = IF mapped THEN @ ELSE fresh]
      base  == IF mapped THEN d ELSE DataAlloc(d, fresh)
  IN  IF addr \notin Direct \/ (~ mapped /\ fresh = -1) THEN Returns(FALSE, d)
      ELSE Returns(TRUE, [WriteAt(base, grown, inode.size, entry)
                            EXCEPT !.itable[inum] = grown])

(* dir_add.  In a hole it writes the bytes at the address of its own       *)
(* parameter, not the entry: junk is what they read as.                    *)
DirAdd(d, inum, entry, junk) ==
  LET inode == d.itable[inum]
      holes == {o \in Offsets(inode) : ~ EntryAt(d, inode, o).valid}
  IN  CASE DirLookup(d, inum, entry.name) # -1 -> Returns(FALSE, d)
        [] DirLookup(d, inum, entry.name) = -1 /\ holes # {} ->
             Returns(TRUE, WriteAt(d, inode, FirstOf(holes), junk))
        [] OTHER -> AppendEntry(d, inum, entry)

(* dir_remove of an entry that is there. *)
DirRemove(d, inum, name) ==
  LET inode == d.itable[inum]
      found == {o \in Offsets(inode) : EntryAt(d, inode, o).name = name}
  IN  IF name \in {DOT, DOTDOT} \/ found = {} THEN Returns(FALSE, d)
      ELSE Returns(TRUE, WriteAt(d, inode, FirstOf(found), ZeroEntry))

-----------------------------------------------------------------------------
(* pathname.c *)

(* resolve: the directory the names lead to from the root, or -1. *)
Walk(d, names) ==
  LET at[i \in 0 .. Len(names)] ==
        IF i = 0 THEN ROOT_INODE
        ELSE LET curr == at[i - 1]
             IN  IF curr = -1 THEN -1 ELSE DirLookup(d, curr, names[i])
  IN  at[Len(names)]

Lookup(d, path) == IF path.kind = "relative" THEN -1 ELSE Walk(d, path.names)

(* path_lookup_parent.  When the path has no names the parent is the root  *)
(* and name is left as the stack held it.                                  *)
LookupParent(d, path) ==
  CASE path.kind = "relative" -> -1
    [] path.kind # "relative" /\ path.names = <<>> -> ROOT_INODE
    [] OTHER -> Walk(d, SubSeq(path.names, 1, Len(path.names) - 1))

LastNames(path) ==
  IF path.names = <<>> THEN Name \cup {DOT, DOTDOT, NONAME, WILD}
  ELSE {path.names[Len(path.names)]}

-----------------------------------------------------------------------------
(* fs.c *)

(* The link of the child's ".." entry is not counted. *)
BrokenFsCreate(d, parent, name, junk) ==
  LET inum   == FindFree(d.ibitmap, NUM_INODES)
      dot    == DirAdd(InodeAlloc(d, inum, 1), inum, Entry(DOT, inum), junk)
      dotdot == DirAdd(dot.disk, inum, Entry(DOTDOT, parent), junk)
  IN  IF parent = -1 THEN Returns(FALSE, d)
      ELSE IF DirLookup(d, parent, name) # -1 \/ inum = -1 THEN Returns(FALSE, d)
      ELSE DirAdd(dotdot.disk, parent, Entry(name, inum), junk)

(* fs_create writes back, with one link more, the parent's inode as it was *)
(* read at the start; dir_add then reads it again.                         *)
FsCreate(d, parent, name, junk) ==
  LET inum   == FindFree(d.ibitmap, NUM_INODES)
      dot    == DirAdd(InodeAlloc(d, inum, 1), inum, Entry(DOT, inum), junk)
      dotdot == DirAdd(dot.disk, inum, Entry(DOTDOT, parent), junk)
      linked == [dotdot.disk EXCEPT
                   !.itable[parent] = [d.itable[parent] EXCEPT !.num_links = @ + 1]]
  IN  CASE parent = -1 -> Returns(FALSE, d)
        [] parent # -1 /\ DirLookup(d, parent, name) # -1 -> Returns(FALSE, d)
        [] parent # -1 /\ DirLookup(d, parent, name) = -1 /\ inum = -1 ->
             Returns(FALSE, d)
        [] OTHER -> IF ~ dot.ok THEN dot ELSE IF ~ dotdot.ok THEN dotdot
                    ELSE DirAdd(linked, parent, Entry(name, inum), junk)

(* data_free of the direct pointers in turn, up to the first that fails: a *)
(* pointer that is not in use is -1, which data_free refuses.              *)
FreeBlocks(d, inode) ==
  LET fails == {i \in Direct : inode.addrs[i] \notin d.dbitmap}
      freed == {i \in Direct : \A f \in fails : i < f}
  IN  Returns(fails = {},
              [d EXCEPT !.dbitmap = @ \ {inode.addrs[i] : i \in freed}])

(* The parent loses a link before the directory is known to be empty. *)
BrokenFsDelete(d, parent, name) ==
  LET inum     == DirLookup(d, parent, name)
      unlinked == [d EXCEPT !.itable[parent].num_links = @ - 1]
      removed  == DirRemove(unlinked, parent, name)
      freed    == FreeBlocks(removed.disk, d.itable[inum])
  IN  IF parent = -1 THEN Returns(FALSE, d)
      ELSE IF inum = -1 THEN Returns(FALSE, d)
      ELSE IF ~ DirEmpty(d, inum) THEN Returns(FALSE, unlinked)
      ELSE IF ~ removed.ok THEN removed
      ELSE IF ~ freed.ok THEN freed
      ELSE Returns(TRUE, [freed.disk EXCEPT !.ibitmap = @ \ {inum}])

FsDelete(d, parent, name) ==
  LET inum     == DirLookup(d, parent, name)
      removed  == DirRemove(d, parent, name)
      unlinked == [removed.disk EXCEPT
                     !.itable[parent] = [d.itable[parent] EXCEPT !.num_links = @ - 1]]
      freed    == FreeBlocks(unlinked, d.itable[inum])
  IN  IF parent = -1 THEN Returns(FALSE, d)
      ELSE IF inum = -1 THEN Returns(FALSE, d)
      ELSE IF ~ DirEmpty(d, inum) THEN Returns(FALSE, d)
      ELSE IF ~ removed.ok THEN removed
      ELSE IF ~ freed.ok THEN freed
      ELSE Returns(TRUE, [freed.disk EXCEPT !.ibitmap = @ \ {inum}])

(* root_init: no entry refers to the root, so it starts with no link. *)
InitialDisk ==
  LET empty == [ibitmap |-> {}, dbitmap |-> {},
                itable |-> [i \in Inum |-> [size |-> 0, num_links |-> 0,
                                            addrs |-> [a \in Direct |-> 0]]],
                dblocks |-> [b \in Dnum |-> ZeroBlock]]
      root  == InodeAlloc(empty, ROOT_INODE, 0)
      dot   == DirAdd(root, ROOT_INODE, Entry(DOT, ROOT_INODE), ZeroEntry)
  IN  DirAdd(dot.disk, ROOT_INODE, Entry(DOTDOT, ROOT_INODE), ZeroEntry).disk

Init ==
  /\ disk = InitialDisk
  /\ cwd = ROOT_INODE
  /\ result = [op |-> "none", ok |-> TRUE]

(* What the bytes that dir_add writes into a hole read as. *)
Junk == [valid : BOOLEAN, name : {JUNK}, inum : {-1}]

Finish(op, returned) ==
  /\ disk' = returned.disk
  /\ result' = [op |-> op, ok |-> returned.ok]

mkdir(path) ==
  /\ \E name \in LastNames(path), junk \in Junk :
       Finish("mkdir", FsCreate(disk, LookupParent(disk, path), name, junk))
  /\ UNCHANGED cwd

rmdir(path) ==
  /\ IF path.kind = "slash" THEN Finish("rmdir", Returns(FALSE, disk))
     ELSE \E name \in LastNames(path) :
            Finish("rmdir", FsDelete(disk, LookupParent(disk, path), name))
  /\ UNCHANGED cwd

(* fs_chdir does not look at what path_lookup returns: when the path leads *)
(* nowhere it tests an inode nobody wrote, and takes it (cwd is then -1)   *)
(* or not.                                                                 *)
cd(path) ==
  /\ \/ /\ cwd' = Lookup(disk, path)
        /\ result' = [op |-> "cd", ok |-> TRUE]
     \/ /\ Lookup(disk, path) = -1 /\ UNCHANGED cwd
        /\ result' = [op |-> "cd", ok |-> FALSE]
  /\ UNCHANGED disk

Next ==
  \/ \E path \in MkdirPaths : mkdir(path)
  \/ \E path \in RmdirPaths : rmdir(path)
  \/ \E path \in CdPaths : cd(path)

Spec == Init /\ [][Next]_vars

-----------------------------------------------------------------------------
(* Properties *)

(* Types: a number of links never falls below zero, and every number that  *)
(* is stored names an inode or a block that exists.                        *)
TypeOK ==
  /\ disk \in [ibitmap : SUBSET Inum, dbitmap : SUBSET Dnum, itable : [Inum -> Inode],
              dblocks : [Dnum -> [Slot -> Dirent]]]
  /\ cwd \in Inum \cup {-1}
  /\ result \in [op : {"none", "mkdir", "rmdir", "cd"}, ok : BOOLEAN]

(* The offsets of the entries of directory i that name a child of it. *)
Children(d, i) ==
  {o \in Offsets(d.itable[i]) :
     /\ EntryAt(d, d.itable[i], o).valid
     /\ EntryAt(d, d.itable[i], o).name \notin {DOT, DOTDOT, JUNK}}

Child(d, i, o) == EntryAt(d, d.itable[i], o).inum

(* The directories that entries lead to from the root. *)
LiveIn(d) ==
  LET upto[n \in 0 .. NUM_INODES] ==
        IF n = 0 THEN {ROOT_INODE}
        ELSE LET found == upto[n - 1]
             IN  found \cup UNION {{Child(d, i, o) : o \in Children(d, i)} : i \in found}
  IN  upto[NUM_INODES]

Live == LiveIn(disk)

(* The data blocks that directory i points to. *)
BlocksOf(d, i) == {d.itable[i].addrs[a] : a \in Direct} \ {-1}

(* Every directory that can be reached holds an inode and blocks that are  *)
(* marked as taken, a block for every entry below its size, and shares no  *)
(* block with another: what rmdir frees of a directory and the next mkdir  *)
(* takes was nobody else's.                                                *)
BlocksOwnedOnce ==
  LET live == Live IN
  /\ live \subseteq disk.ibitmap
  /\ \A i \in live :
       /\ BlocksOf(disk, i) \subseteq disk.dbitmap
       /\ \A a \in Direct : disk.itable[i].addrs[a] # -1 <=>
                            a * DIRENTS_PER_BLOCK < disk.itable[i].size
       /\ \A a, b \in Direct : (a # b /\ disk.itable[i].addrs[a] # -1) =>
                               disk.itable[i].addrs[a] # disk.itable[i].addrs[b]
       /\ \A j \in live \ {i} : BlocksOf(disk, i) \cap BlocksOf(disk, j) = {}

(* The directories that can be reached form a tree: each starts with "."   *)
(* naming itself and ".." naming the one directory that has an entry for   *)
(* it, the root itself with no entry but its own, and the names in a       *)
(* directory differ.                                                       *)
TreeSound ==
  LET live == Live
      LinksTo(i) == UNION {{<<p, o>> : o \in {c \in Children(disk, p) : Child(disk, p, c) = i}} : p \in live}
  IN  \A i \in live :
        LET inode == disk.itable[i]
        IN  /\ inode.size >= 2
            /\ EntryAt(disk, inode, 0) = Entry(DOT, i)
            /\ \E p \in live :
                 /\ EntryAt(disk, inode, 1) = Entry(DOTDOT, p)
                 /\ IF i = ROOT_INODE THEN p = i /\ LinksTo(i) = {}
                    ELSE \E o \in Children(disk, p) : LinksTo(i) = {<<p, o>>}
            /\ \A o, q \in Children(disk, i) :
                 EntryAt(disk, inode, o).name = EntryAt(disk, inode, q).name => o = q

(* A directory counts at least its entry in its parent and the ".." of     *)
(* each child in its num_links; more when an entry was lost in a hole.     *)
LinksCover ==
  \A i \in Live : disk.itable[i].num_links >=
    Cardinality(Children(disk, i)) + IF i = ROOT_INODE THEN 0 ELSE 1

(* The tree of paths with names that can be typed, found level by level    *)
(* with the directory each leads to.                                       *)
TreeIn(d) ==
  LET level[n \in 0 .. (NUM_INODES - 1)] ==
        IF n = 0 THEN {<< <<>>, ROOT_INODE >>}
        ELSE {below \in {<<Append(dir[1], name), DirLookup(d, dir[2], name)>> :
                           dir \in level[n - 1], name \in Name} : below[2] # -1}
  IN  UNION {{dir[1] : dir \in level[n]} : n \in 0 .. (NUM_INODES - 1)}

Tree == TreeIn(disk)

Abstract == INSTANCE DirTree WITH tree <- Tree

(* Whatever the commands and their failures leave on the disk, what paths  *)
(* lead to changes as a tree: one path is added below one that was there,  *)
(* or one with nothing below it is taken away.                             *)
ImplementsDirTree == Abstract!Spec

(* mkdir says that it made a directory when and only when a new path leads *)
(* to one.                                                                 *)
MkdirTells ==
  [][result'.op = "mkdir" => (result'.ok <=> \E path \in Tree' : path \notin Tree)]_vars

(* rmdir says that it removed a directory when and only when a path no      *)
(* longer leads to one.                                                    *)
RmdirTells ==
  [][result'.op = "rmdir" => (result'.ok <=> \E path \in Tree : path \notin Tree')]_vars

=============================================================================
