------------------------------ MODULE MCFileIO ------------------------------
(***************************************************************************)
(* Values for FileIO's constants: two files of at most three blocks of two *)
(* bytes on a disk with three data blocks, so that the disk is full before *)
(* two files are, and one file may have every pointer in use.              *)
(***************************************************************************)
EXTENDS FileIO

CONSTANTS m1, m2

MCMark == {m1, m2}

(* Nothing, within a block, over two blocks, over two or three. *)
MCMarks == { <<>>, <<m1>>, <<m2, m1, m2>>, <<m1, m1, m2, m2>> }
=============================================================================
