---- MODULE MCHeap ----
(***************************************************************************)
(* Heap of at most three pages of eight bytes, with headers of two: a page *)
(* is one block of six, and two pages taken at once are a block of         *)
(* fourteen, which a request may split. Two owners write their marks, and  *)
(* any number ask for zeroed memory.                                       *)
(***************************************************************************)
EXTENDS Heap
====
