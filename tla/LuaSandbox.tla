----------------------------- MODULE LuaSandbox -----------------------------
(***************************************************************************)
(* app/validation/runtime_executor.py: what a chunk (LuaPolicy) computes   *)
(* in the restricted runtime.  The context becomes Lua tables behind       *)
(* read-only proxies that note which workflow roots are read; what the     *)
(* chunk returns becomes JSON again.                                       *)
(*                                                                         *)
(* A JSON document is a function from the paths in it to what is there:    *)
(* "object", "array", "null" or a scalar; the items of an array are under  *)
(* "#1", "#2", ...  A context stands for its "wf" alone.  A Lua value is   *)
(* a scalar or a function [val |-> name], a table outside of the input     *)
(* [own |-> address], or a proxy of the input [input |-> path].            *)
(***************************************************************************)
EXTENDS LuaPolicy

CONSTANTS
  MaxDepth,         \* the depth of a context and of a result, 16 in the code
  MaxSize           \* the size of a result, 64 KiB in the code; here its number of nodes

Roots    == {"vars", "initVariables"}

ASSUME RootsAssumption == Roots \subseteq Names

Position == <<"#1", "#2", "#3", "#4", "#5">>
Nil      == [val |-> "nil"]

Functions == {"pairs", "pcall", "insert", "markAsArray"}

\* The tables a run starts with: table, _utils and _utils.array.
Library == <<[mark |-> "table", items |-> [insert |-> [val |-> "insert"]]],
             [mark |-> "table", items |-> [array |-> [own |-> 3]]],
             [mark |-> "table", items |-> [markAsArray |-> [val |-> "markAsArray"]]]>>

\* What is under a path of a document.
Keys(doc, path) == {Last(p) : p \in {q \in DOMAIN doc : q # <<>> /\ Front(q) = path}}

\* The wf of a context, if it has one: an object, of which the items of arrays are counted and
\* scalars are not the names this model uses.
Document(doc) ==
  /\ DOMAIN doc \subseteq Seq(Names)
  /\ <<>> \in DOMAIN doc => doc[<<>>] = "object"
  /\ \A p \in DOMAIN doc \ {<<>>} :
       Front(p) \in DOMAIN doc /\ doc[Front(p)] \in {"object", "array"}
  /\ \A p \in DOMAIN doc :
       /\ doc[p] \notin {"table", "nil"} \cup Functions
       /\ doc[p] = "object" => Keys(doc, p) \cap Range(Position) = {}
       /\ doc[p] = "array" => \E n \in 0..Len(Position) : Keys(doc, p) = {Position[i] : i \in 1..n}

\* _serialize_to_lua(): nulls inside a context and contexts too deep are refused; the container of
\* wf is a level of its own.
Serializable(context) ==
  /\ \A p \in DOMAIN context : context[p] # "null" /\ Len(p) + 1 <= MaxDepth

\* raw_wf: roots that the context lacks are tables with no kind of their own.
RawWf(context) ==
  [p \in DOMAIN context \cup {<<>>, <<"vars">>, <<"initVariables">>} |->
     IF p \in DOMAIN context THEN context[p] ELSE "table"]

\* _ls_child_root(): the roots noted when key is read of the input table at path.  Below wf itself
\* what is not a root keeps the root "wf", so a table may be taken for a root of the same name.
Noted(path, key) == IF key \in Roots /\ Range(path) \cap Roots = {} THEN {key} ELSE {}

(***************************************************************************)
(* The state of a run: the scopes with the values of the locals, the       *)
(* tables of the library and of the chunk, the input, the roots read so    *)
(* far, the value of the expression evaluated last, the error raised.      *)
(***************************************************************************)
Started(context) ==
  [env |-> << <<>> >>, heap |-> Library, input |-> RawWf(context), reads |-> {}, acc |-> Nil,
   error |-> ""]

Error(r, e) == [r EXCEPT !.error = e, !.acc = Nil]

Own(v)   == "own" \in DOMAIN v
IsIn(v)  == "input" \in DOMAIN v
Table(v) == Own(v) \/ IsIn(v)

\* The proxies of _ls_readonly(): those of the input and those of the library.
ReadOnly(v) == IsIn(v) \/ (Own(v) /\ v.own <= Len(Library))

InputValue(r, path) ==
  IF r.input[path] \in {"object", "array", "table"} THEN [input |-> path] ELSE [val |-> r.input[path]]

\* What a table holds, key by key.
Content(r, v) ==
  IF Own(v) THEN r.heap[v.own].items
  ELSE [k \in Keys(r.input, v.input) |-> InputValue(r, Append(v.input, k))]

\* "object" and "array" are the marks of the metatables.
Mark(r, v) == IF Own(v) THEN r.heap[v.own].mark ELSE r.input[v.input]

Border(items) == Max({0} \cup {n \in DOMAIN Position : \A i \in 1..n : Position[i] \in DOMAIN items})

New(r, mark, items) ==
  [r EXCEPT !.heap = Append(@, [mark |-> mark, items |-> items]),
            !.acc  = [own |-> Len(r.heap) + 1]]

\* __index of a proxy, a raw read of the chunk's own table, an error for anything else.
Index(r, key) ==
  IF r.error # "" THEN r
  ELSE IF ~Table(r.acc) THEN Error(r, "lua_runtime_error")
  ELSE [r EXCEPT !.acc   = IF key \in DOMAIN Content(r, @) THEN Content(r, @)[key] ELSE Nil,
                 !.reads = @ \cup IF IsIn(r.acc) THEN Noted(r.acc.input, key) ELSE {}]

\* Behind the value in acc, one key after the other.
Walk(r, keys) ==
  LET at[n \in 0..Len(keys)] == IF n = 0 THEN r ELSE Index(at[n - 1], keys[n])
  IN at

\* safe_env; what is not in it is nil.
Global(x) ==
  IF x = "wf" THEN [input |-> <<>>]
  ELSE IF x = "table" THEN [own |-> 1]
  ELSE IF x = "_utils" THEN [own |-> 2]
  ELSE IF x \in {"pairs", "pcall"} THEN [val |-> x] ELSE Nil

Named(r, x) == IF Owner(r.env, x) # 0 THEN r.env[Owner(r.env, x)][x] ELSE Global(x)

Path(r, path) == Walk([r EXCEPT !.acc = Named(r, path[1])], Tail(path))[Len(path) - 1]

\* A call of the function at path f, up to the evaluation of its argument; what a local has put in
\* its place fails after that, or where the path breaks.
Calling(r, f, path) ==
  LET q == Path(Path(r, f), path)
  IN IF Path(r, f).acc = [val |-> Last(f)] THEN q ELSE Error(q, "lua_runtime_error")

Listed(items) == [k \in {Position[i] : i \in 1..Border(items)} |-> items[k]]

\* _ls_array(): a proxy is copied, as far as ipairs goes; a table of the chunk's own is marked.
MarkAsArray(r) ==
  IF r.error # "" THEN r
  ELSE IF r.acc = Nil THEN New(r, "array", <<>>)
  ELSE IF ReadOnly(r.acc) THEN New(r, "array", Listed(Content(r, r.acc)))
  ELSE IF Own(r.acc) THEN [r EXCEPT !.heap[r.acc.own].mark = "array"]
  ELSE Error(r, "lua_runtime_error")

Packed(q) ==
  IF q.error # "" THEN q ELSE New(q, "table", IF q.acc = Nil THEN <<>> ELSE [n |-> q.acc])

Evaluate(r, e) ==
  CASE e.op = "zero"  -> [r EXCEPT !.acc = [val |-> "0"]]
    [] e.op = "empty" -> New(r, "table", <<>>)
    [] e.op = "read"  -> Path(r, e.path)
    [] e.op = "mark"  -> MarkAsArray(Calling(r, <<"_utils", "array", "markAsArray">>, e.path))
    [] e.op = "pack"  -> Packed(Path(r, e.path))

\* A write of value to a key of the table in acc: __newindex of a proxy refuses, a nil removes.
Store(r, key, value) ==
  IF r.error # "" THEN r
  ELSE IF ReadOnly(r.acc) THEN Error(r, "workflow input is read-only")
  ELSE IF ~Own(r.acc) THEN Error(r, "lua_runtime_error")
  ELSE [r EXCEPT !.heap[r.acc.own].items =
          IF value = Nil THEN [k \in DOMAIN @ \ {key} |-> @[k]] ELSE With(@, key, value)]

\* table.insert(acc, 0), which reads and writes through the metamethods; a list holds no more items
\* than Position names, a bound.
Insert(r) ==
  IF r.error # "" \/ ~Table(r.acc) \/ Border(Content(r, r.acc)) = Len(Position)
  THEN Error(r, "lua_runtime_error")
  ELSE Store(r, Position[Border(Content(r, r.acc)) + 1], [val |-> "0"])

Bind(r, x) ==
  IF Owner(r.env, x) = 0 THEN r ELSE [r EXCEPT !.env[Owner(r.env, x)][x] = r.acc]

\* What a statement does with the value of its expression; return leaves it in acc.
Effect(r, s) ==
  IF r.error # "" THEN r
  ELSE CASE s.do = "local"  -> [r EXCEPT !.env[Len(r.env)] = With(@, s.at[1], r.acc)]
         [] s.do = "assign" -> IF Len(s.at) = 1 THEN Bind(r, s.at[1])
                               ELSE Store(Path(r, Front(s.at)), Last(s.at), r.acc)
         [] s.do = "insert" -> Insert(Calling(r, <<"table", "insert">>, s.at))
         [] OTHER           -> r

Do(r, s) == Effect(Evaluate(r, s.exp), s)

\* A block is left with its scope, also by an error.
Inside(r, scope, s) == [Do([r EXCEPT !.env = Append(@, scope)], s) EXCEPT !.env = Front(@)]

\* (mutant) a loop reads values without noting their roots.
TurnUnnoted(r, s, table, key) ==
  IF r.error # "" \/ key \notin DOMAIN Content(r, table) THEN r
  ELSE Inside(r, [item |-> Content(r, table)[key]], s)

\* One turn of for _, item in pairs(table): __pairs notes the key as __index does.  What an earlier
\* turn removed is not visited.
Turn(r, s, table, key) ==
  IF r.error # "" \/ key \notin DOMAIN Content(r, table) THEN r
  ELSE Inside([r EXCEPT !.reads = @ \cup IF IsIn(table) THEN Noted(table.input, key) ELSE {}],
              [item |-> Content(r, table)[key]], s)

\* The order in which pairs visits the keys is not determined: order is that of all keys.
Turns(r, s, table, order) ==
  LET after[n \in 0..Len(order)] ==
        IF n = 0 THEN r
        ELSE IF order[n] \in DOMAIN Content(r, table) THEN Turn(after[n - 1], s, table, order[n])
        ELSE after[n - 1]
  IN after

Loop(r, s, order) ==
  IF r.error # "" \/ ~Table(r.acc) THEN Error(r, "lua_runtime_error")
  ELSE Turns(r, s, r.acc, order)[Len(order)]

Call(r, s) == IF r.error # "" THEN r ELSE Inside(r, [item |-> r.acc], s)

Execute(r, s, order) ==
  IF r.error # "" THEN r
  ELSE CASE s.in = "skipped" -> r
         [] s.in = "plain"   -> Do(r, s)
         [] s.in = "taken"   -> Inside(r, <<>>, s)
         [] s.in = "guarded" -> IF Named(r, "pcall") # [val |-> "pcall"]
                              THEN Error(r, "lua_runtime_error")
                              ELSE [Inside(r, <<>>, s) EXCEPT !.error = ""]
         [] s.in = "called"  -> Call(Path(r, s.over), s)
         [] s.in = "each"    -> Loop(Calling(r, <<"pairs">>, s.over), s, order)

IsArray(r, v) ==
  /\ Mark(r, v) # "object"
  /\ LET keys == DOMAIN Content(r, v)
     IN IF keys = {} THEN Mark(r, v) = "array" ELSE keys = {Position[i] : i \in 1..Cardinality(keys)}

Tables(r) == {[own |-> i] : i \in DOMAIN r.heap} \cup {[input |-> p] : p \in DOMAIN r.input}

Refused(error) == [doc |-> <<>>, reads |-> {}, error |-> error]

Leaf(v) ==
  IF v.val \in Functions THEN Refused("unsupported_json_result_type")
  ELSE [doc |-> [p \in {<<>>} |-> IF v = Nil THEN "null" ELSE v.val], reads |-> {}, error |-> ""]

\* An item of the tables in active, which are being written, n levels above the deepest allowed.
Part(v, active, n, deeper) ==
  IF n = 0 THEN Refused("result_too_deep")
  ELSE IF ~Table(v) THEN Leaf(v)
  ELSE IF v \in active THEN Refused("cyclic_result")
  ELSE deeper[<<v, active>>]

\* The document of table t of those of its items, under their keys.
Joined(r, t, parts) ==
  LET keys  == DOMAIN parts
      mixed == ~IsArray(r, t) /\ keys \cap Range(Position) # {}
      wrong == {parts[k].error : k \in keys} \ {""}
  IN [doc   |-> [p \in {<<>>} \cup UNION {{<<k>> \o q : q \in DOMAIN parts[k].doc} : k \in keys} |->
                   IF p # <<>> THEN parts[p[1]].doc[Tail(p)]
                   ELSE IF IsArray(r, t) THEN "array" ELSE "object"],
      reads |-> UNION ({parts[k].reads : k \in keys} \cup
                       {Noted(t.input, k) : k \in IF IsIn(t) THEN keys ELSE {}}),
      error |-> IF mixed THEN "mixed_keys" ELSE IF wrong = {} THEN "" ELSE CHOOSE e \in wrong : TRUE]

\* One level of tables, each in all places where it may stand.
Level(r, n, deeper) ==
  [x \in Tables(r) \X SUBSET Tables(r) |->
     Joined(r, x[1], [k \in DOMAIN Content(r, x[1]) |->
                        Part(Content(r, x[1])[k], x[2] \cup {x[1]}, n, deeper)])]

\* _ls_to_json(): the documents of all tables, and the roots that writing them reads; pairs and the
\* proxies' index note them.
Json(r) ==
  LET level[n \in 0..MaxDepth] == Level(r, n, IF n = 0 THEN <<>> ELSE level[n - 1])
  IN level

ToJson(r, v) == IF Table(v) THEN Json(r)[MaxDepth][<<v, {}>>] ELSE Leaf(v)

\* (mutant) every empty table becomes an array.
DeclaredAnyEmpty(r, shape) ==
  IF shape = "array" /\ Table(r.acc) /\ DOMAIN Content(r, r.acc) = {} THEN MarkAsArray(r) ELSE r

\* An empty table that is no JSON object becomes an array when the contract declares one.
Declared(r, shape) ==
  IF shape = "array" /\ Table(r.acc) /\ DOMAIN Content(r, r.acc) = {} /\ Mark(r, r.acc) # "object"
  THEN MarkAsArray(r)
  ELSE r

Result(code, doc, reads) == [code |-> code, doc |-> doc, reads |-> reads]

Encoded(r, json) ==
  IF json.error # "" THEN Result("lua_result_serialization_error", <<>>, r.reads)
  ELSE IF Cardinality(DOMAIN json.doc) > MaxSize
  THEN Result("lua_result_too_large", <<>>, r.reads \cup json.reads)
  ELSE Result("", json.doc, r.reads \cup json.reads)

Returned(r) == Encoded(r, ToJson(r, r.acc))

Ended(r, returns, shape) ==
  IF r.error # "" THEN Result(r.error, <<>>, r.reads)
  ELSE Returned(IF returns THEN Declared(r, shape) ELSE [r EXCEPT !.acc = Nil])

\* The run after each statement of a chunk.
Run(chunk, context, order) ==
  LET after[n \in 0..Len(chunk)] ==
        IF n = 0 THEN Started(context) ELSE Execute(after[n - 1], chunk[n], order)
  IN after

\* The runner of one chunk on one context, when its process ends by itself.
RunChunk(chunk, context, shape, order) ==
  IF ~Serializable(context) THEN Result("unsupported_json_context", <<>>, {})
  ELSE Ended(Run(chunk, context, order)[Len(chunk)],
             chunk # <<>> /\ Last(chunk).do = "return", shape)

\* The object of the results of an envelope's chunks, the i-th under "#i".
Enveloped(ran) ==
  [p \in {<<>>} \cup UNION {{<<Position[i]>> \o q : q \in DOMAIN ran[i].doc} : i \in DOMAIN ran} |->
     IF p = <<>> THEN "object"
     ELSE ran[CHOOSE i \in DOMAIN ran : Position[i] = p[1]].doc[Tail(p)]]

\* The chunks of an envelope run one after the other until one fails.
Together(ran) ==
  LET failed == SelectInSeq(ran, LAMBDA x : x.code # "")
  IN IF failed # 0 THEN ran[failed]
     ELSE IF Cardinality(DOMAIN Enveloped(ran)) > MaxSize THEN Result("lua_result_too_large", <<>>, {})
     ELSE Result("", Enveloped(ran), UNION {ran[i].reads : i \in DOMAIN ran})

\* execute_output(): raw Lua is one chunk; the chunks of an envelope run without the contract's
\* shape, which is the object's.
Output(chunks, envelope, context, shape, order) ==
  IF envelope THEN Together([i \in DOMAIN chunks |-> RunChunk(chunks[i], context, "", order)])
  ELSE RunChunk(chunks[1], context, shape, order)
=============================================================================
