------------------------------ MODULE Assembly ------------------------------
(***************************************************************************)
(* build_runtime (serving/app.py): the resources a project's runtime opens *)
(* and closes, and the tools every agent of its tree is compiled with.     *)
(* At an await the other projects of the process may go on.  External:     *)
(* AsyncExitStack runs every callback, the last one first, and raises in   *)
(* the end what one of them has raised.                                    *)
(***************************************************************************)
EXTENDS Loader, SequencesExt

CONSTANTS
    Nodes,       \* the agents of all projects: roots and subagents
    Tree,        \* a project's nodes in the order of walk()
    NodeName,    \* the directory name of a node, siblings differ in it
    Sandboxed,   \* nodes declared with sandbox=True
    Connections  \* a node's connections: their name and their operations

ASSUME TreeAssumption ==
    /\ Tree \in [Projects -> Seq(Nodes)]
    /\ \A p \in Projects : Tree[p] # <<>> /\ IsInjective(Tree[p])
    /\ \A p, q \in Projects : p # q => Range(Tree[p]) \cap Range(Tree[q]) = {}
    /\ Sandboxed \subseteq Nodes
    /\ Nodes \cap {"checkpointer", "store"} = {} /\ None \notin Nodes

\* get_2 is base get with the suffix 2; the loader refuses a second connection
\* of a name (_collect_named).
ASSUME ConnectionsAssumption ==
    \A n \in Nodes :
        /\ IsInjective([c \in DOMAIN Connections[n] |-> Connections[n][c].name])
        /\ \A c \in DOMAIN Connections[n] :
              Connections[n][c].operations \in Seq([base : Names, suffixes : Seq(Nat)])

Backends == {"checkpointer", "store"}
Resources == Backends \cup Nodes \* a node stands for its sandbox

VARIABLES
    open,   \* resources of a project that are open
    stack,  \* its exit stack
    walked, \* how many nodes have their tools
    extra,  \* the mapping of _resolve_extra_tools
    graph,  \* what each node's graph is compiled with
    busy,   \* a turn is running
    raised  \* an exception is on its way out of build_runtime

resourceVars == <<open, stack, walked, extra, graph, busy, raised>>
vars == <<loaderVars, pc, resourceVars>>

AssemblyInit ==
    /\ Init
    /\ open = [p \in Projects |-> {}]
    /\ stack = [p \in Projects |-> <<>>]
    /\ walked = [p \in Projects |-> 0]
    /\ extra = [p \in Projects |-> <<>>]
    /\ graph = [p \in Projects |-> <<>>]
    /\ busy = [p \in Projects |-> FALSE]
    /\ raised = [p \in Projects |-> FALSE]

-----------------------------------------------------------------------------
(* Names of the tools of a connection: base_2_3 has the suffixes 2 and 3 *)

Suffixed(name, k) == [name EXCEPT !.suffixes = Append(@, k)]

\* Mutant of Deduped: the second tool of a name becomes name_2, as does the third.
DedupedOnce(name, seen) == IF name \in seen THEN Suffixed(name, 2) ELSE name

\* _dedupe: the first suffix that is free.
Deduped(name, seen) ==
    IF name \notin seen THEN name
    ELSE Suffixed(name, CHOOSE k \in 2 .. (Cardinality(seen) + 2) :
                            /\ Suffixed(name, k) \notin seen
                            /\ \A j \in 2 .. (k - 1) : Suffixed(name, j) \in seen)

\* build_openapi_tools: an operation sees the names given before it.
OpenApiNames(operations) ==
    LET names[i \in DOMAIN operations] ==
            Deduped(operations[i], {names[j] : j \in 1 .. (i - 1)})
    IN  names

Namespaced(name, prefix) == <<prefix, name>>

\* discover_tools: the tool of an operation of a connection.
ToolNames(n) ==
    LET specs == Connections[n]
        names == [c \in DOMAIN specs |-> OpenApiNames(specs[c].operations)]
    IN  [t \in UNION {{c} \X DOMAIN names[c] : c \in DOMAIN specs} |->
            Namespaced(names[t[1]][t[2]], specs[t[1]].name)]

-----------------------------------------------------------------------------
(* build_runtime *)

Stay == UNCHANGED loaderVars
Forgets(p) ==
    Forget(p) /\ UNCHANGED <<disk, exported, env, config, counter, mounted, modules, mode>>

\* The exception leaves the async with block.
Raise(p) == raised' = [raised EXCEPT ![p] = TRUE] /\ Goto(p, "unwinding")

NextBackend(p) == IF stack[p] = <<>> THEN "checkpointer" ELSE "store"

\* open_checkpointer and open_store connect.  A backend in memory has nothing
\* to connect and awaits nothing, so it cannot fail.
Connect(p) ==
    /\ Quiet
    /\ pc[p] = "loaded" /\ mode[p] # "build"
    /\ open' = [open EXCEPT ![p] = @ \cup {NextBackend(p)}]
    /\ Goto(p, "connected")
    /\ Stay /\ UNCHANGED <<stack, walked, extra, graph, busy, raised>>

ConnectFails(p) ==
    /\ Quiet
    /\ pc[p] = "loaded" /\ mode[p] # "build" /\ config[p] # "memory"
    /\ Raise(p)
    /\ Stay /\ UNCHANGED <<open, stack, walked, extra, graph, busy>>

\* setup() returns and the context is entered.
SetUp(p) ==
    /\ Quiet
    /\ pc[p] = "connected"
    /\ stack' = [stack EXCEPT ![p] = Append(@, NextBackend(p))]
    /\ Goto(p, IF NextBackend(p) = "store" THEN "walking" ELSE "loaded")
    /\ Stay /\ UNCHANGED <<open, walked, extra, graph, busy, raised>>

\* Mutant of AfterFailedSetUp: the connection is not a context of its own.
AfterUnguardedSetUp(p) == open[p]

AfterFailedSetUp(p) == open[p] \ {NextBackend(p)}

\* setup() raises, or the start is cancelled: the connection is closed by its
\* own async with.
SetUpFails(p) ==
    /\ Quiet
    /\ pc[p] = "connected" /\ config[p] # "memory"
    /\ open' = [open EXCEPT ![p] = AfterFailedSetUp(p)]
    /\ Raise(p)
    /\ Stay /\ UNCHANGED <<stack, walked, extra, graph, busy>>

Walking(p) == Quiet /\ pc[p] = "walking" /\ walked[p] < Len(Tree[p])
NextNode(p) == Tree[p][walked[p] + 1]

\* Mutants of ToolKey and Pushed.
ToolKeyByName(n) == NodeName[n]
PushedNothing(p, n) == stack[p]

\* The mapping is keyed by the identity of the node.
ToolKey(n) == n

\* push_async_callback(sandbox.close).
Pushed(p, n) == IF n \in Sandboxed THEN Append(stack[p], n) ELSE stack[p]

ToolsOf(n) == [box |-> IF n \in Sandboxed THEN n ELSE None, names |-> ToolNames(n)]

\* walk: the connections of a node, then its sandbox.
WalkNode(p) ==
    /\ Walking(p)
    /\ LET n == NextNode(p)
       IN  /\ open' = [open EXCEPT ![p] = @ \cup ({n} \cap Sandboxed)]
           /\ stack' = [stack EXCEPT ![p] = Pushed(p, n)]
           /\ extra' = [extra EXCEPT ![p] =
                  [k \in DOMAIN @ \cup {ToolKey(n)} |-> IF k = ToolKey(n) THEN ToolsOf(n) ELSE @[k]]]
    /\ walked' = [walked EXCEPT ![p] = @ + 1]
    /\ Stay /\ UNCHANGED <<pc, graph, busy, raised>>

\* A connection cannot be discovered, or the adapter is not implemented.
WalkFails(p) ==
    /\ Walking(p)
    /\ Raise(p)
    /\ Stay /\ UNCHANGED <<open, stack, walked, extra, graph, busy>>

Walked(p) == Quiet /\ pc[p] = "walking" /\ walked[p] = Len(Tree[p])

\* build_graph recurses into the subagents, and create_broker.
Compile(p) ==
    /\ Walked(p)
    /\ graph' = [graph EXCEPT ![p] = [n \in Range(Tree[p]) |-> extra[p][ToolKey(n)]]]
    /\ Goto(p, "serving")
    /\ Stay /\ UNCHANGED <<open, stack, walked, extra, busy, raised>>

CompileFails(p) ==
    /\ Walked(p)
    /\ Raise(p)
    /\ Stay /\ UNCHANGED <<open, stack, walked, extra, graph, busy>>

\* inspect_project compiles without the tools of the runtime, and returns.
Inspect(p) ==
    /\ Quiet
    /\ pc[p] = "loaded" /\ mode[p] = "build"
    /\ \E where \in {"off", "failed"} : Goto(p, where)
    /\ Forgets(p) /\ UNCHANGED resourceVars

-----------------------------------------------------------------------------
(* The life of a runtime *)

BeginTurn(p) ==
    /\ Quiet
    /\ pc[p] = "serving" /\ ~busy[p]
    /\ busy' = [busy EXCEPT ![p] = TRUE]
    /\ Stay /\ UNCHANGED <<pc, open, stack, walked, extra, graph, raised>>

EndTurn(p) ==
    /\ Quiet
    /\ pc[p] = "serving" /\ busy[p]
    /\ busy' = [busy EXCEPT ![p] = FALSE]
    /\ Stay /\ UNCHANGED <<pc, open, stack, walked, extra, graph, raised>>

\* Mutant of AfterServing: the lifespan leaves its runtime at once.
AfterServingAtOnce(p) == "unwinding"

AfterServing(p) == IF mode[p] = "serve" THEN "draining" ELSE "unwinding"

\* The lifespan ends at any time, an eval when its turns are over.
Stop(p) ==
    /\ Quiet
    /\ pc[p] = "serving"
    /\ mode[p] # "serve" => ~busy[p]
    /\ Goto(p, AfterServing(p))
    /\ Stay /\ UNCHANGED resourceVars

\* SessionManager.shutdown has cancelled and awaited the turns.
Drain(p) ==
    /\ Quiet
    /\ pc[p] = "draining"
    /\ busy' = [busy EXCEPT ![p] = FALSE]
    /\ Goto(p, "unwinding")
    /\ Stay /\ UNCHANGED <<open, stack, walked, extra, graph, raised>>

\* Mutant of Newest: callbacks in the order they were pushed.
Oldest(p) == 1

Newest(p) == Len(stack[p])

\* One callback of the exit stack; it may raise, and is taken to have let go of
\* its resource all the same (stop() of a machine, close() of a connection).
Unwind(p) ==
    /\ Quiet
    /\ pc[p] = "unwinding" /\ stack[p] # <<>>
    /\ open' = [open EXCEPT ![p] = @ \ {stack[p][Newest(p)]}]
    /\ stack' = [stack EXCEPT ![p] = RemoveAt(@, Newest(p))]
    /\ \E fails \in BOOLEAN : raised' = [raised EXCEPT ![p] = @ \/ fails]
    /\ Stay /\ UNCHANGED <<pc, walked, extra, graph, busy>>

\* run_evals goes on with the next eval unless the runtime has raised.
Unwound(p) ==
    /\ Quiet
    /\ pc[p] = "unwinding" /\ stack[p] = <<>>
    /\ \E where \in {"off", "failed", "configured"} :
          /\ where = "failed" <=> raised[p]
          /\ where = "configured" => mode[p] = "eval"
          /\ Goto(p, where)
    /\ walked' = [walked EXCEPT ![p] = 0]
    /\ extra' = [extra EXCEPT ![p] = <<>>]
    /\ graph' = [graph EXCEPT ![p] = <<>>]
    /\ raised' = [raised EXCEPT ![p] = FALSE]
    /\ Forgets(p) /\ UNCHANGED <<open, stack, busy>>

RuntimeStep(p) ==
    \/ Connect(p) \/ ConnectFails(p) \/ SetUp(p) \/ SetUpFails(p)
    \/ WalkNode(p) \/ WalkFails(p) \/ Compile(p) \/ CompileFails(p) \/ Inspect(p)
    \/ BeginTurn(p) \/ EndTurn(p) \/ Stop(p) \/ Drain(p) \/ Unwind(p) \/ Unwound(p)

Next ==
    \/ LoaderStep /\ UNCHANGED resourceVars
    \/ \E p \in Projects : RuntimeStep(p)

Spec == AssemblyInit /\ [][Next]_vars

-----------------------------------------------------------------------------
(* Properties *)

Stages == {"off", "failed", "configured", "loading", "app", "loaded", "connected", "walking",
           "serving", "draining", "unwinding"}

TypeOK ==
    /\ counter \in Nat /\ mounted \in [Projects -> Nat]
    /\ disk \in [Projects -> [Files \cup Libs -> Nat]]
    /\ \A m \in modules : m.project \in Projects /\ m.file \in Files \cup Libs /\ m.version \in Nat
    /\ pc \in [Projects -> Stages]
    /\ open \in [Projects -> SUBSET Resources]
    /\ stack \in [Projects -> Seq(Resources)]
    /\ walked \in [Projects -> Nat]
    /\ busy \in [Projects -> BOOLEAN] /\ raised \in [Projects -> BOOLEAN]

HasRuntime(p) ==
    pc[p] \in {"loaded", "connected", "walking", "serving", "draining", "unwinding"}

\* Whatever fails, at whichever point of the start or of the end, everything
\* that was opened is closed when the runtime is gone (build_runtime).
NothingLeaks == \A p \in Projects : ~HasRuntime(p) => open[p] = {}

\* A turn never runs, and a sandbox is never open, on backends that are closed,
\* whether its project has a sandbox or not; nor does a turn run with a sandbox
\* of its agents closed (the lifespan drains before the exit stack unwinds).
UsersGoFirst ==
    \A p \in Projects :
        /\ open[p] # {} => "checkpointer" \in open[p]
        /\ open[p] \cap Nodes # {} => "store" \in open[p]
        /\ busy[p] => Backends \cup (Range(Tree[p]) \cap Sandboxed) \subseteq open[p]

\* Every agent of the tree is compiled with its own sandbox and connections,
\* also when agents at different places of the tree have one name.
AgentsHaveTheirTools ==
    \A p \in Projects : graph[p] # <<>> =>
        \A n \in Range(Tree[p]) : graph[p][n] = ToolsOf(n)

\* No two connection tools of an agent have one name, whatever names its API
\* documents give to their operations (_dedupe, namespaced).
ToolNamesDiffer ==
    \A p \in Projects : graph[p] # <<>> =>
        \A n \in Range(Tree[p]) : IsInjective(graph[p][n].names)
=============================================================================
