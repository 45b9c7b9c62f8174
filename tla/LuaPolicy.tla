----------------------------- MODULE LuaPolicy -----------------------------
(***************************************************************************)
(* app/validation/lua_ast.py: one pass over the syntax tree of a chunk,    *)
(* with a stack of scopes that knows of every local whether it was last    *)
(* bound to a part of the workflow input.                                  *)
(*                                                                         *)
(* A chunk is a sequence of statements.  A statement is plain or the only  *)
(* one of a block: the branch of an if that is taken or skipped, the body  *)
(* of a function given to pcall (guarded), of for _, item in pairs(over)   *)
(* (each) or of (function(item) ... end)(over) (called).  A path is a name *)
(* and the fields behind it.                                               *)
(*                                                                         *)
(*   [in |-> "plain" | "taken" | "skipped" | "guarded" | "each" | "called",*)
(*    over |-> path,                                                       *)
(*    do |-> "local" | "assign" | "insert" | "return" | "goto",            *)
(*    at |-> path, exp |-> expression]                                     *)
(*                                                                         *)
(* An expression reads a path, packs it into a table { n = path }, marks   *)
(* it with _utils.array.markAsArray(path), or is 0 or {}.                  *)
(*                                                                         *)
(*   [op |-> "read" | "pack" | "mark" | "zero" | "empty", path |-> path]   *)
(***************************************************************************)
EXTENDS Naturals, Sequences, FiniteSets, SequencesExt

CONSTANT Names      \* of globals, locals and keys

\* Of the allowed globals the ones a chunk here can name, table and _utils for all the libraries;
\* of the forbidden ones one.  The others are no names here.
AllowedGlobals   == {"wf", "_utils", "table", "pairs", "pcall"}
OtherGlobals     == {"math", "string", "tonumber", "tostring", "type", "ipairs", "select", "assert",
                     "error", "xpcall", "utf8"}
ForbiddenGlobals == {"io"}

ASSUME NamesAssumption ==
  /\ AllowedGlobals \cup {"insert", "array", "markAsArray", "item", "n", "#1", "#2", "#3", "#4", "#5"}
       \subseteq Names
  /\ Names \cap OtherGlobals = {}

\* Blocks with a variable of their own, the item of a loop or the parameter of a function.
Binding == {"each", "called"}

Expression ==
  {e \in [op : {"read", "pack", "mark", "zero", "empty"}, path : Seq(Names)] :
     e.op \in {"read", "pack", "mark"} => e.path # <<>>}

\* A return is no block's; a chunk has one at its end or none.  No table is given another function
\* under the name of one that is called.
Statement ==
  {s \in [in : {"plain", "taken", "skipped", "guarded"} \cup Binding, over : Seq(Names),
          do : {"local", "assign", "insert", "return", "goto"}, at : Seq(Names), exp : Expression] :
     /\ s.in \in Binding => s.over # <<>>
     /\ s.do = "local" => Len(s.at) = 1
     /\ s.do \in {"assign", "insert"} => s.at # <<>>
     /\ s.do = "assign" => Last(s.at) \notin {"insert", "markAsArray"}
     /\ s.do = "return" => s.in = "plain"}

\* The innermost scope that declares x, 0 when none does.
Owner(scopes, x) == Max({0} \cup {i \in DOMAIN scopes : x \in DOMAIN scopes[i]})

AliasesWf(scopes, x) == Owner(scopes, x) # 0 /\ scopes[Owner(scopes, x)][x]

\* Only a path keeps the root it starts from; a call or a constructor has none.
IsWfValue(scopes, e) == e.op = "read" /\ (e.path[1] = "wf" \/ AliasesWf(scopes, e.path[1]))

CheckReference(scopes, x) ==
  IF Owner(scopes, x) # 0 \/ x \in AllowedGlobals THEN {}
  ELSE IF x \in ForbiddenGlobals THEN {"dangerous_stdlib_io_forbidden"}
  ELSE {"lua_global_not_allowed"}

\* Visiting an expression: its operands are paths, of a path only the name is a reference.
References(scopes, e) ==
  IF e.op \in {"read", "pack", "mark"} THEN CheckReference(scopes, e.path[1]) ELSE {}

VisitTarget(scopes, at) ==
  IF Len(at) = 1
  THEN IF Owner(scopes, at[1]) = 0 THEN {"lua_global_assignment_forbidden"} ELSE {}
  ELSE CheckReference(scopes, at[1]) \cup
       IF at[1] = "wf" \/ AliasesWf(scopes, at[1]) THEN {"lua_wf_mutation_forbidden"}
       ELSE IF Owner(scopes, at[1]) = 0 THEN {"lua_global_assignment_forbidden"}
       ELSE {}

\* A table or a scope with one entry set.
With(f, x, value) == [y \in DOMAIN f \cup {x} |-> IF y = x THEN value ELSE f[y]]

Declare(scopes, x, aliases) == [scopes EXCEPT ![Len(scopes)] = With(@, x, aliases)]

\* (mutant) an assignment from a block leaves the flags of the locals around it alone.
AssignAliasHere(scopes, at, aliases) ==
  IF Len(at) = 1 /\ Owner(scopes, at[1]) = Len(scopes)
  THEN [scopes EXCEPT ![Len(scopes)][at[1]] = aliases]
  ELSE scopes

\* The flag of a local that is assigned to follows the value, wherever it was declared.
AssignAlias(scopes, at, aliases) ==
  IF Len(at) = 1 /\ Owner(scopes, at[1]) # 0
  THEN [scopes EXCEPT ![Owner(scopes, at[1])][at[1]] = aliases]
  ELSE scopes

\* The finding of table.insert on a value that is known to be part of the input.
MutatorFindings(scopes, at) ==
  CheckReference(scopes, at[1]) \cup
  IF Owner(scopes, "table") = 0 /\ IsWfValue(scopes, [op |-> "read", path |-> at])
  THEN {"lua_wf_mutation_forbidden"}
  ELSE {}

\* One statement, in the scopes that are open where it stands.
Visit(a, s) ==
  LET aliases == IsWfValue(a.scopes, s.exp)
      found   == a.findings \cup References(a.scopes, s.exp)
  IN CASE s.do = "local"  -> [scopes   |-> Declare(a.scopes, s.at[1], aliases),
                              findings |-> found \cup IF s.at[1] = "wf"
                                                      THEN {"lua_reserved_identifier_shadowed"}
                                                      ELSE {}]
       [] s.do = "assign" -> [scopes   |-> AssignAlias(a.scopes, s.at, aliases),
                              findings |-> found \cup VisitTarget(a.scopes, s.at)]
       [] s.do = "insert" -> [a EXCEPT !.findings = found \cup MutatorFindings(a.scopes, s.at)]
       [] s.do = "goto"   -> [a EXCEPT !.findings = found \cup {"lua_construct_forbidden"}]
       [] OTHER           -> [a EXCEPT !.findings = found]

\* A block opens a scope and closes it; what it binds is never known to be part of the input.
VisitBlock(a, s) ==
  IF s.in = "plain" THEN Visit(a, s)
  ELSE LET over   == IF s.in \in Binding THEN CheckReference(a.scopes, s.over[1]) ELSE {}
           inner  == IF s.in \in Binding THEN [item |-> FALSE] ELSE <<>>
           inside == Visit([scopes   |-> Append(a.scopes, inner),
                            findings |-> a.findings \cup over], s)
       IN [inside EXCEPT !.scopes = Front(@)]

\* What is open and what is found after each statement of a chunk.
Analysis(chunk) ==
  LET after[n \in 0..Len(chunk)] ==
        IF n = 0 THEN [scopes |-> << <<>> >>, findings |-> {}] ELSE VisitBlock(after[n - 1], chunk[n])
  IN after

\* analyze_lua_chunk(): what is wrong with a chunk that luac accepts.
Findings(chunk) == Analysis(chunk)[Len(chunk)].findings
=============================================================================
