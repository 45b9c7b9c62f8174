---------------------------- MODULE MCCandidate ----------------------------
(***************************************************************************)
(* The statements, contexts and tasks of a small instance of Candidate.    *)
(***************************************************************************)
EXTENDS Candidate

MCNames == {"wf", "vars", "initVariables", "n", "list", "box", "a", "b", "item", "x", "insert", "array",
            "markAsArray"} \cup AllowedGlobals \cup ForbiddenGlobals \cup Range(Position)

\* Expressions.
Read(path) == [op |-> "read", path |-> path]
Pack(path) == [op |-> "pack", path |-> path]
Marked(path) == [op |-> "mark", path |-> path]
Zero  == [op |-> "zero", path |-> <<>>]
Fresh == [op |-> "empty", path |-> <<>>]

Vars == <<"wf", "vars">>
List == <<"wf", "vars", "list">>
Num  == <<"wf", "vars", "n">>
InitNum == <<"wf", "initVariables", "n">>
A == <<"a">>
B == <<"b">>
AN == <<"a", "n">>
Item == <<"item">>

\* Statements.
Plain(do, at, exp) == [in |-> "plain", over |-> <<>>, do |-> do, at |-> at, exp |-> exp]
Block(in, over, do, at, exp) == [in |-> in, over |-> over, do |-> do, at |-> at, exp |-> exp]
Return(exp) == Plain("return", <<>>, exp)

Written ==
  {Plain("local", A, e) : e \in {Read(<<"wf">>), Read(Vars), Read(List), Read(InitNum), Fresh}} \cup
  {Plain("local", B, e) : e \in {Read(A), Read(AN), Pack(A), Marked(A)}} \cup
  {Plain("assign", A, e) : e \in {Read(Vars), Fresh, Read(B)}} \cup
  {Plain("assign", AN, e) : e \in {Zero, Read(A), Read(Num)}} \cup
  {Plain("local", A, Read(<<"table">>)), Plain("local", <<"table">>, Read(<<"table">>)),
   Plain("assign", Append(Num, "x"), Zero), Plain("assign", <<"b", "n">>, Zero),
   Plain("insert", A, Zero), Plain("insert", List, Zero),
   Plain("local", <<"wf">>, Fresh),
   Plain("local", A, Read(<<"io">>)), Plain("goto", <<>>, Zero),
   Block("taken", <<>>, "assign", A, Read(List)), Block("skipped", <<>>, "assign", A, Fresh),
   Block("taken", <<>>, "local", A, Fresh),
   Block("guarded", <<>>, "assign", AN, Zero), Block("guarded", <<>>, "insert", B, Zero),
   Block("each", <<"wf">>, "assign", A, Read(<<"item", "n">>)),
   Block("each", A, "insert", Item, Zero), Block("each", A, "assign", B, Read(Item)),
   Block("called", A, "assign", <<"item", "n">>, Zero)}

Endings ==
  {Return(e) : e \in {Read(<<"wf">>), Read(Num), Read(List), Read(InitNum), Read(<<"wf", "vars", "box">>),
                      Read(A), Read(B), Fresh, Pack(A), Pack(Num), Marked(List), Marked(B)}}

MCStatements == Written \cup Endings

\* Contexts: the scalars of wf.vars begin with v, those of wf.initVariables with i.
Doc(leaves) == leaves @@ (<<>> :> "object") @@ (<<"vars">> :> "object")

Both  == Doc((<<"initVariables">> :> "object") @@ (<<"vars", "n">> :> "v1") @@
             (<<"vars", "list">> :> "array") @@ (<<"vars", "list", "#1">> :> "v2") @@
             (<<"vars", "box">> :> "object") @@ (<<"initVariables", "n">> :> "i1"))
Empty == Doc((<<"vars", "list">> :> "array") @@ (<<"vars", "n">> :> "v3") @@
             (<<"initVariables">> :> "object") @@ (<<"initVariables", "n">> :> "i3"))
Lone  == Doc((<<"vars", "n">> :> "v4") @@ (<<"vars", "box">> :> "object"))
Null  == Doc(<<"vars", "n">> :> "null")

Scalar(x) == <<>> :> x
ListOf(x) == (<<>> :> "array") @@ (<<"#1">> :> x)
NoItems   == <<>> :> "array"

\* Tasks.
Example(context, expected) == [context |-> context, expected |-> expected]

MCTasks ==
  {[envelope |-> FALSE, shape |-> "scalar", nullable |-> FALSE, roots |-> Roots, context |-> Both,
    cases |-> <<Example(Empty, Scalar("v3")), Example(Lone, Scalar("v4"))>>, companion |-> <<>>],
   [envelope |-> FALSE, shape |-> "scalar", nullable |-> TRUE, roots |-> {"initVariables"},
    context |-> Both, cases |-> <<Example(Empty, Scalar("i3"))>>, companion |-> <<>>],
   [envelope |-> FALSE, shape |-> "array", nullable |-> FALSE, roots |-> {"vars"},
    context |-> Empty, cases |-> <<Example(Both, ListOf("v2"))>>, companion |-> <<>>],
   [envelope |-> FALSE, shape |-> "array", nullable |-> FALSE, roots |-> Roots,
    context |-> Lone, cases |-> <<>>, companion |-> <<>>],
   [envelope |-> FALSE, shape |-> "object", nullable |-> FALSE, roots |-> {"vars"},
    context |-> Both, cases |-> <<>>, companion |-> <<>>],
   [envelope |-> TRUE, shape |-> "object", nullable |-> FALSE, roots |-> {"initVariables"},
    context |-> Both, cases |-> <<>>, companion |-> <<Return(Read(InitNum))>>],
   [envelope |-> FALSE, shape |-> "scalar", nullable |-> TRUE, roots |-> Roots,
    context |-> Null, cases |-> <<Example(Lone, Scalar("v4"))>>, companion |-> <<>>]}

\* The items of an array come in their order, the keys of an object in any.
MCOrders ==
  {Position \o <<"array", "insert", "markAsArray", "vars", "initVariables", "n", "list", "box">>,
   Position \o <<"box", "list", "n", "initVariables", "vars", "markAsArray", "insert", "array">>}
=============================================================================
