----------------------------- MODULE MCBackend -----------------------------
(* Four threads: a request of each kind while two callers close. *)
EXTENDS Backend

CONSTANTS t1, t2, t3, t4
=============================================================================
