---------------------------- MODULE MCSessionStore ----------------------------
(***************************************************************************)
(* Bounds for SessionStore: actors are interchangeable, sessions are not   *)
(* (their path order decides ties).                                        *)
(***************************************************************************)
EXTENDS SessionStore, TLC

ActorSymmetry == Permutations(Actors)
=============================================================================
