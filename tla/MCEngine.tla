------------------------------ MODULE MCEngine ------------------------------
(* Two threads of the server and one CLI process on one session. *)
EXTENDS Engine, TLC

CONSTANTS s1, s2, c1, server, cli, vars_, init_, k1

MCProcess == [t \in Threads |-> IF t = c1 THEN cli ELSE server]

\* A session of an earlier version, with these turns.
Left(status, answers, feedback) ==
  [contract |-> Unset, roots |-> Unset, context |-> "some", status |-> status,
   question |-> IF status = "clarification_required" THEN Former ELSE NoTrace,
   kind |-> "", history |-> <<>>, code |-> NoTrace, traces |-> <<>>,
   legacy |-> TRUE, answers |-> answers, feedback |-> feedback]

\* It asks, after a revision; it was asked and revised, in an unknown order; it
\* has more turns than are allowed.
MCInherited ==
  {Left("clarification_required", <<>>, <<Feedback>>),
   Left("failed", <<Former>>, <<Feedback>>),
   Left("completed", <<Former, Former, Former>>, <<>>)}

\* One root, and both of them in either order.
MCRootLists == {<<vars_>>, <<vars_, init_>>, <<init_, vars_>>}

EngineSymmetry == Permutations({s1, s2})
=============================================================================
