---------------------------- MODULE MCTraceStore ----------------------------
(***************************************************************************)
(* Bounds for TraceStore: three traces, two of one session and one of      *)
(* another, with room for two; the files of t1 may be spoilt.              *)
(***************************************************************************)
EXTENDS TraceStore, TLC

CONSTANTS t1, t2, t3, s1, s2

OwnSession == (t1 :> s1) @@ (t2 :> s1) @@ (t3 :> s2)

WriterSymmetry == Permutations(Writers)
=============================================================================
