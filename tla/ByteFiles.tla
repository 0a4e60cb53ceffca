------------------------------- MODULE ByteFiles -------------------------------
(***************************************************************************)
(* What f_open and f_write promise of the bytes of regular files: a write  *)
(* adds its bytes behind those that are there, all of them and in order,   *)
(* and touches no other file.  The code keeps that promise for some calls  *)
(* only (FileData!InOrder); Spoil stands for the others, after which       *)
(* nothing is promised of the files they may have written to.              *)
(***************************************************************************)
EXTENDS Integers, Sequences

CONSTANTS
  File,
  Buffers             \* what a write may be given

VARIABLES
  content,            \* the bytes of each file; <<>> for a spoiled one
  spoiled             \* files of which nothing is promised

vars == <<content, spoiled>>

Init ==
  /\ content = [f \in File |-> <<>>]
  /\ spoiled = {}

Write(f, data) ==
  /\ f \notin spoiled
  /\ content' = [content EXCEPT ![f] = @ \o data]
  /\ UNCHANGED spoiled

Spoil(S) ==
  /\ spoiled' = spoiled \cup S
  /\ content' = [f \in File |-> IF f \in S THEN <<>> ELSE content[f]]

Next ==
  \/ \E f \in File, data \in Buffers : Write(f, data)
  \/ \E S \in SUBSET File : Spoil(S)

Spec == Init /\ [][Next]_vars
================================================================================
