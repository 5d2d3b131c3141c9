------------------------------- MODULE MCHeap -------------------------------
(* The instance of Heap that TLC checks. *)
EXTENDS Heap, Sequences

MCCounted == {<<0, 1>>, <<8, 0>>, <<8, 2>>, <<127, 4>>}
=============================================================================
