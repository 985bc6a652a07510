------------------------------- MODULE DirTree ------------------------------
(***************************************************************************)
(* What the file system promises its commands: a tree of directories, as   *)
(* the set of the paths in it.  mkdir adds a path under one that is there, *)
(* rmdir takes away one that has nothing below it, and nothing else        *)
(* happens to it.                                                          *)
(***************************************************************************)
EXTENDS Sequences, Integers

VARIABLE tree

Parent(path) == SubSeq(path, 1, Len(path) - 1)

Init == tree = {<<>>}

MakeDirectory(path) ==
  /\ path # <<>> /\ path \notin tree /\ Parent(path) \in tree
  /\ tree' = tree \cup {path}

RemoveDirectory(path) ==
  /\ path \in tree \ {<<>>} /\ \A below \in tree : below # <<>> => Parent(below) # path
  /\ tree' = tree \ {path}

(* path is the one that is there before or after the step, not both.       *)
Next ==
  \E path \in (tree' \ tree) \cup (tree \ tree') :
    MakeDirectory(path) \/ RemoveDirectory(path)

Spec == Init /\ [][Next]_tree

=============================================================================
