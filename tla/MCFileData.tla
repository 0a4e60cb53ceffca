------------------------------ MODULE MCFileData -------------------------------
(***************************************************************************)
(* TLC instance of FileData: the files are interchangeable.  The buffers   *)
(* end inside a block, in the second block, in the second one behind the   *)
(* direct blocks and in the block behind an indirect block's last pointer. *)
(* Their cells can be read as the numbers of blocks in use and of the last *)
(* free one, 7.                                                            *)
(***************************************************************************)
EXTENDS FileData, TLC

MCBuffers ==
  {<<1>>, <<1, 2, 3, 4>>, <<1, 2, 3, 4, 7, 5, 6, 1, 2, 3>>,
   <<1, 2, 3, 4, 0, 5, 6, 1, 2, 3, 4, 5, 2>>}

Symmetry == Permutations(File)
================================================================================
