---------------------------- MODULE MCPointQueue ----------------------------
(* Small instances of PointQueue.  Requests are interchangeable.             *)
EXTENDS PointQueue, TLC

Interchangeable == Permutations(Request)
=============================================================================
