----------------------------- MODULE MCFileLock -----------------------------
(***************************************************************************)
(* Two threads of a server and one of a CLI process.                       *)
(***************************************************************************)
EXTENDS FileLock, TLC

CONSTANTS s1, s2, c1, server, cli

MCProcess == (s1 :> server) @@ (s2 :> server) @@ (c1 :> cli)
=============================================================================
