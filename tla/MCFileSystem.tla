---------------------------- MODULE MCFileSystem ----------------------------
(***************************************************************************)
(* Values for FileSystem's constants.  An inode is never given back, so    *)
(* NUM_INODES bounds the directories that can be made in all.  As in fs.h  *)
(* (80 inodes, 120 blocks, 12 pointers to blocks of 16 entries) inodes run *)
(* out before the blocks and before the entries of one directory.          *)
(***************************************************************************)
EXTENDS FileSystem, TLC

CONSTANTS a, b

absolute(names) == [kind |-> "absolute", names |-> names]

MCName == {a, b}

Root == { [kind |-> "slash", names |-> <<>>] }
Bare == { absolute(<<>>) }                     \* "//"
Relative == { [kind |-> "relative", names |-> <<a>>] }

(* Names at the root, below one and two below.  Where cd goes does not      *)
(* matter to the disk: the root and nowhere are enough.                    *)
Top == { absolute(<<n>>) : n \in MCName }
Below == { absolute(<<n, m>>) : n \in MCName, m \in MCName }
Deep == { absolute(<<n, n, n>>) : n \in MCName }

Made == Top \cup Below \cup Deep \cup Relative
Removed == Made \cup Root \cup Bare
Entered == Bare \cup Relative

NameSymmetry == Permutations(MCName)

=============================================================================
