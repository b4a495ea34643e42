------------------------------ MODULE Identity ------------------------------
(***************************************************************************)
(* Whose permissions a tool call works with: the principal a surface puts  *)
(* into a turn's context, the context variable each tool call binds it to  *)
(* (PrincipalMiddleware, core/middleware.py), subagents that inherit it    *)
(* (core/subagents.py), and the credentials it is exchanged for            *)
(* (security/auth.py, security/credentials.py, connections/__init__.py).   *)
(*                                                                         *)
(* A run is a turn's graph run or the run of the subagent a call delegates *)
(* to.  External: asyncio gives every task a copy of the variables of the  *)
(* task that created it; LangGraph runs each tool call as a task, fails    *)
(* the run when a tool raises, and re-runs paused calls on a resume.  One  *)
(* audience is modelled, the key's third part keeps audiences apart.       *)
(***************************************************************************)
EXTENDS Naturals, Sequences

CONSTANTS
    Turns, Calls,
    Sessions,       \* thread ids of HTTP sessions and channel conversations
    Tenants, Subjects,
    ClaimKeys, ClaimItems,
    Configs,        \* the projects: their broker and their connection's auth
    Requests,       \* the claims tools narrow to
    ChannelCallers, \* what channel adapters parse: principals, or None
    App,            \* the principal app_principal makes for a schedule
    Anonymous,      \* the principal of every HTTP request
    None

ASSUME NamesAssumption ==
    Turns \cap Calls = {} /\ Turns \cap Sessions = {} /\ Calls \cap Sessions = {}

\* A claim holds a list of items or one scalar.
ClaimValue == [list : {TRUE}, items : SUBSET ClaimItems]
              \cup [list : {FALSE}, items : {{i} : i \in ClaimItems}]
ClaimMap == UNION {[D -> ClaimValue] : D \in SUBSET ClaimKeys}

\* broker: a credential broker is attached; exchanged: it holds a token of its own.
Principal == [tenant : Tenants, subject : Subjects, claims : ClaimMap,
              broker : BOOLEAN, exchanged : BOOLEAN]
Caller == Principal \cup {None}

ASSUME PrincipalAssumption ==
    /\ None \notin Principal /\ None \notin Turns \cup Calls
    /\ App \in Principal /\ Anonymous \in Principal
    /\ ChannelCallers \subseteq Caller
    /\ Requests \subseteq ClaimMap

ASSUME ConfigAssumption ==
    Configs \subseteq [broker : {"static", "oauth_store", "token_exchange"},
                       auth : {"none", "shared", "get_token", "declarative"}]

Runs == Turns \cup Calls

\* A credential: whose it is, <<>> when it is not a caller's.
Owner == (Tenants \X Subjects) \cup {<<>>}
Credential == [owner : Owner, form : {"token", "object"}]

VARIABLES
    config,   \* the configured broker, and the auth of the project's connection
    origin,   \* the surface a turn came from
    ran,      \* state of each turn
    context,  \* the principal in each run's LeveContext
    thread,   \* the checkpoint thread of each run
    parent,   \* the run each call belongs to
    root,     \* the turn it works for, through any number of delegations
    pc,       \* where each call stands
    variable, \* the value of leve_principal in each call's task
    held,     \* the principal a tool's code has in its hands
    used,     \* the credential a call in its handler has used last
    reply,    \* what a delegation returned to its parent's model
    store     \* tokens of the OAuth store, by key

turnVars == <<origin, ran>>
runVars == <<context, thread>>
callVars == <<parent, root, pc, variable, held, used, reply>>
vars == <<config, turnVars, runVars, callVars, store>>

Init ==
    /\ config \in Configs
    /\ origin = [t \in Turns |-> "none"]
    /\ ran = [t \in Turns |-> "idle"]
    /\ context = [r \in Runs |-> None]
    /\ thread = [r \in Runs |-> <<>>]
    /\ parent = [c \in Calls |-> None]
    /\ root = [c \in Calls |-> None]
    /\ pc = [c \in Calls |-> "none"]
    /\ variable = [c \in Calls |-> None]
    /\ held = [c \in Calls |-> None]
    /\ used = [c \in Calls |-> None]
    /\ reply = [c \in Calls |-> "none"]
    /\ store = {}

-----------------------------------------------------------------------------
(* Principals and credentials *)

\* with_broker: nothing to attach to for no principal.
WithBroker(p) == IF p = None THEN None ELSE [p EXCEPT !.broker = TRUE]

\* Mutant of NarrowClaims: list values are taken from the request.
NarrowToRequest(claims, request) ==
    [k \in {k \in DOMAIN claims \cap DOMAIN request :
                \/ claims[k].list /\ request[k].list
                \/ request[k] = claims[k]} |-> request[k]]

\* Principal.narrow: lists are intersected, scalars kept when they are equal,
\* anything else is dropped; nothing comes from the request but a filter.
NarrowClaims(claims, request) ==
    [k \in {k \in DOMAIN claims \cap DOMAIN request :
                \/ claims[k].list /\ request[k].list
                \/ request[k] = claims[k]} |->
        [claims[k] EXCEPT !.items = @ \cap request[k].items]]

AtMost(a, b) ==
    /\ DOMAIN a \subseteq DOMAIN b
    /\ \A k \in DOMAIN a : a[k].list = b[k].list /\ a[k].items \subseteq b[k].items

\* Mutant of Key: callers of other tenants share a subject.
KeyBySubject(p) == <<p.subject>>

\* OAuthStoreBroker.key, the provider left out.
Key(p) == <<p.tenant, p.subject>>

Result(kind, owner) == [kind |-> kind, owner |-> owner]

Raises == Result("raises", <<>>)

\* OAuthStoreBroker.resolve: the stored token, or NeedsConsent.
StoredToken(p) ==
    IF \E e \in store : e.key = Key(p)
    THEN Result("token", (CHOOSE e \in store : e.key = Key(p)).owner)
    ELSE Result("consent", <<>>)

\* TokenExchangeBroker.resolve.
ExchangedToken(p) ==
    IF p.exchanged THEN Result("token", <<p.tenant, p.subject>>) ELSE Raises

\* Principal.credential through the configured broker; the static one has a
\* fixed secret.
Resolve(p) ==
    IF ~p.broker THEN Raises
    ELSE IF config.broker = "static" THEN Result("token", <<>>)
    ELSE IF config.broker = "token_exchange" THEN ExchangedToken(p)
    ELSE StoredToken(p)

\* The documented get_token awaits the caller's Credential; the header is then
\* made of the object itself.
CustomHeaders(p) ==
    IF p = None THEN Raises
    ELSE IF Resolve(p).kind = "token" THEN Result("object", Resolve(p).owner)
    ELSE Resolve(p)

\* _resolve_headers.
Headers(p) ==
    IF config.auth = "shared" THEN Result("token", <<>>)
    ELSE IF config.auth = "get_token" THEN CustomHeaders(p)
    ELSE IF config.auth = "declarative" /\ p # None THEN Resolve(p)
    ELSE Result("nothing", <<>>)

-----------------------------------------------------------------------------
(* Turns *)

Live(t) == ran[t] = "running"

\* A new input on a thread abandons what a paused turn on it waited for.
Begin(t, surface, id, p) ==
    /\ ran[t] = "idle"
    /\ \A u \in Turns : thread[u] = <<id>> => ~Live(u)
    /\ origin' = [origin EXCEPT ![t] = surface]
    /\ ran' = [u \in Turns |-> IF u = t THEN "running"
                               ELSE IF ran[u] = "paused" /\ thread[u] = <<id>> THEN "over"
                               ELSE ran[u]]
    /\ context' = [context EXCEPT ![t] = p]
    /\ thread' = [thread EXCEPT ![t] = <<id>>]
    /\ UNCHANGED <<config, callVars, store>>

\* POST message: every HTTP caller is the anonymous one.
HttpTurn(t, s) == Begin(t, "http", s, WithBroker(Anonymous))

\* run_channel_turn: whoever the adapter says has written.
ChannelTurn(t, s, p) == Begin(t, "channel", s, WithBroker(p))

\* run_schedule and ScheduleContext.receive: a fresh thread, the app's
\* identity unless the handler passes another one, which gets no broker.
ScheduleTurn(t) == \E p \in {WithBroker(App), App} : Begin(t, "schedule", t, p)

CallsOf(r) == {c \in Calls : parent[c] = r}
Settled(r) == \A c \in CallsOf(r) : pc[c] \in {"done", "paused"}
HasPaused(r) == \E c \in CallsOf(r) : pc[c] = "paused"

TurnEnds(t) ==
    /\ Live(t)
    /\ Settled(t)
    /\ ran' = [ran EXCEPT ![t] = IF HasPaused(t) THEN "paused" ELSE "over"]
    /\ UNCHANGED <<config, origin, runVars, callVars, store>>

\* A tool raised, or the turn's task was cancelled.
TurnFails(t) ==
    /\ Live(t)
    /\ ran' = [ran EXCEPT ![t] = "over"]
    /\ pc' = [c \in Calls |-> IF root[c] = t /\ pc[c] # "done" THEN "dropped" ELSE pc[c]]
    /\ held' = [c \in Calls |-> IF root[c] = t THEN None ELSE held[c]]
    /\ used' = [c \in Calls |-> IF root[c] = t THEN None ELSE used[c]]
    /\ UNCHANGED <<config, origin, runVars, parent, root, variable, reply, store>>

\* POST resume, for threads that are HTTP sessions; contexts are not
\* checkpointed, the request supplies the principal anew.
Resume(t) ==
    /\ ran[t] = "paused" /\ origin[t] = "http"
    /\ ran' = [ran EXCEPT ![t] = "running"]
    /\ context' = [context EXCEPT ![t] = WithBroker(Anonymous)]
    /\ pc' = [c \in Calls |-> IF parent[c] = t /\ pc[c] = "paused" THEN "created" ELSE pc[c]]
    /\ UNCHANGED <<config, origin, thread, parent, root, variable, held, used, reply, store>>

\* The OAuth callback stores the token of the user who has consented.
Put(p) ==
    /\ store' = {e \in store : e.key # Key(p)}
                \cup {[key |-> Key(p), owner |-> <<p.tenant, p.subject>>]}
    /\ UNCHANGED <<config, turnVars, runVars, callVars>>

Consents(t) == ran[t] # "idle" /\ context[t] # None /\ Put(context[t])

-----------------------------------------------------------------------------
(* Tool calls *)

Running(r) == IF r \in Turns THEN Live(r) ELSE pc[r] = "delegating"
RootOf(r) == IF r \in Turns THEN r ELSE root[r]
\* The variable's value in the task that runs r.
Inherited(r) == IF r \in Turns THEN None ELSE variable[r]

\* The run's model answers with a tool call: a task of its own.
Spawn(r, c) ==
    /\ Running(r)
    /\ pc[c] = "none"
    /\ pc' = [pc EXCEPT ![c] = "created"]
    /\ parent' = [parent EXCEPT ![c] = r]
    /\ root' = [root EXCEPT ![c] = RootOf(r)]
    /\ variable' = [variable EXCEPT ![c] = Inherited(r)]
    /\ UNCHANGED <<config, turnVars, runVars, held, used, reply, store>>

\* Mutant of Bind: a module variable instead of a context variable.
BindGlobally(c) == variable' = [d \in Calls |-> context[parent[c]]]

Bind(c) == variable' = [variable EXCEPT ![c] = context[parent[c]]]

\* PrincipalMiddleware.awrap_tool_call, up to the handler.
Enter(c) ==
    /\ pc[c] = "created"
    /\ pc' = [pc EXCEPT ![c] = "inside"]
    /\ Bind(c)
    /\ UNCHANGED <<config, turnVars, runVars, parent, root, held, used, reply, store>>

\* The wrapper of a tool with an InjectedPrincipal parameter.
Inject(c) ==
    /\ pc[c] = "inside"
    /\ pc' = [pc EXCEPT ![c] = "working"]
    /\ held' = [held EXCEPT ![c] = variable[c]]
    /\ UNCHANGED <<config, turnVars, runVars, parent, root, variable, used, reply, store>>

\* The tool goes on with a narrowed principal.
Narrow(c) ==
    /\ pc[c] = "working" /\ held[c] # None
    /\ \E request \in Requests :
          held' = [held EXCEPT ![c].claims = NarrowClaims(@, request)]
    /\ UNCHANGED <<config, turnVars, runVars, parent, root, pc, variable, used, reply, store>>

\* The finally clause gives the variable the value it had; locals are gone.
Leave(c) ==
    /\ variable' = [variable EXCEPT ![c] = Inherited(parent[c])]
    /\ held' = [held EXCEPT ![c] = None]
    /\ used' = [used EXCEPT ![c] = None]

Spend(c, result) ==
    /\ result.kind \in {"token", "object"}
    /\ used' = [used EXCEPT ![c] = [owner |-> result.owner, form |-> result.kind]]
    /\ UNCHANGED <<config, turnVars, runVars, parent, root, pc, variable, held, reply, store>>

\* NeedsConsent becomes an interrupt of the run the call belongs to.
Pause(c, result) ==
    /\ result.kind = "consent"
    /\ pc' = [pc EXCEPT ![c] = "paused"]
    /\ Leave(c)
    /\ UNCHANGED <<config, turnVars, runVars, parent, root, reply, store>>

\* principal.credential(); a credential that is refused raises (TurnFails).
UseCredential(c) ==
    /\ pc[c] = "working" /\ held[c] # None
    /\ Spend(c, Resolve(held[c])) \/ Pause(c, Resolve(held[c]))

\* A tool generated from an OpenAPI document resolves its headers per call.
CallApi(c) ==
    /\ pc[c] = "inside"
    /\ Spend(c, Headers(variable[c])) \/ Pause(c, Headers(variable[c]))

\* An MCP client has the headers it was built with, when there was no caller.
McpHeaders == Headers(None)

CallMcp(c) == pc[c] = "inside" /\ Spend(c, McpHeaders)

Return(c) ==
    /\ pc[c] \in {"inside", "working"}
    /\ pc' = [pc EXCEPT ![c] = "done"]
    /\ Leave(c)
    /\ UNCHANGED <<config, turnVars, runVars, parent, root, reply, store>>

-----------------------------------------------------------------------------
(* Subagents: delegate() of core/subagents.py *)

\* Mutant of ChildThread: one child thread for each parent thread.
SharedChildThread(c) == Append(thread[parent[c]], "researcher")

\* parent::name::uuid; the call stands for the uuid, it delegates once.
ChildThread(c) == Append(thread[parent[c]], c)

\* Mutant of ChildContext: the child starts without a context.
EmptyChildContext(c) == None

ChildContext(c) == variable[c]

Delegate(c) ==
    /\ pc[c] = "inside"
    /\ pc' = [pc EXCEPT ![c] = "delegating"]
    /\ context' = [context EXCEPT ![c] = ChildContext(c)]
    /\ thread' = [thread EXCEPT ![c] = ChildThread(c)]
    /\ UNCHANGED <<config, turnVars, parent, root, variable, held, used, reply, store>>

\* Mutant of ReplyOf: the last message is returned, paused or not.
ReplyOfLastMessage(c) == "answer"

ReplyOf(c) == IF HasPaused(c) THEN "paused" ELSE "answer"

\* The child's run is over or paused; its calls are not resumed.
DelegateReturns(c) ==
    /\ pc[c] = "delegating"
    /\ Settled(c)
    /\ reply' = [reply EXCEPT ![c] = ReplyOf(c)]
    /\ pc' = [pc EXCEPT ![c] = "done"]
    /\ Leave(c)
    /\ UNCHANGED <<config, turnVars, runVars, parent, root, store>>

-----------------------------------------------------------------------------
TurnStep(t) ==
    \/ \E s \in Sessions : HttpTurn(t, s)
    \/ \E s \in Sessions, p \in ChannelCallers : ChannelTurn(t, s, p)
    \/ ScheduleTurn(t)
    \/ TurnEnds(t)
    \/ TurnFails(t)
    \/ Resume(t)
    \/ Consents(t)

CallStep(c) ==
    \/ \E r \in Runs : Spawn(r, c)
    \/ Enter(c)
    \/ Inject(c)
    \/ Narrow(c)
    \/ UseCredential(c)
    \/ CallApi(c)
    \/ CallMcp(c)
    \/ Return(c)
    \/ Delegate(c)
    \/ DelegateReturns(c)

Next == (\E t \in Turns : TurnStep(t)) \/ (\E c \in Calls : CallStep(c))

Spec == Init /\ [][Next]_vars

-----------------------------------------------------------------------------
(* Properties *)

TypeOK ==
    /\ config \in Configs
    /\ origin \in [Turns -> {"none", "http", "channel", "schedule"}]
    /\ ran \in [Turns -> {"idle", "running", "paused", "over"}]
    /\ context \in [Runs -> Caller]
    /\ parent \in [Calls -> Runs \cup {None}]
    /\ root \in [Calls -> Turns \cup {None}]
    /\ pc \in [Calls -> {"none", "created", "inside", "working", "delegating",
                         "paused", "done", "dropped"}]
    /\ variable \in [Calls -> Caller]
    /\ held \in [Calls -> Caller]
    /\ used \in [Calls -> Credential \cup {None}]
    /\ reply \in [Calls -> {"none", "answer", "paused"}]
    /\ store \subseteq [key : Tenants \X Subjects, owner : Tenants \X Subjects]

Identity(p) == <<p.tenant, p.subject>>

\* At any depth of delegation and with calls of other callers in flight, a
\* call sees the principal of the turn it works for, and what its code holds
\* is that identity (PrincipalMiddleware, delegate(), the injection wrapper).
ActsForCaller ==
    \A c \in Calls :
        /\ pc[c] \in {"inside", "working", "delegating"} => variable[c] = context[root[c]]
        /\ pc[c] = "working" =>
              /\ held[c] = None <=> context[root[c]] = None
              /\ held[c] # None => Identity(held[c]) = Identity(context[root[c]])

\* No delegation and no sequence of narrow() calls gives a tool a claim, or an
\* item of a claim, that the caller of its turn does not have.
ClaimsNeverWiden ==
    \A c \in Calls : held[c] # None =>
        context[root[c]] # None /\ AtMost(held[c].claims, context[root[c]].claims)

\* Whatever credential a call uses belongs to the caller of its turn, or to
\* nobody in particular because the project is configured to share one
\* (OAuthStoreBroker.key, headers resolved per call and not at build).
CredentialsAreTheCallers ==
    \A c \in Calls : used[c] # None =>
        IF used[c].owner = <<>> THEN config.broker = "static" \/ config.auth = "shared"
        ELSE context[root[c]] # None /\ used[c].owner = Identity(context[root[c]])

\* Every delegation has a thread of its own: only turns of one session or
\* conversation meet on a thread (delegate(), ScheduleContext.receive).
ThreadsAreSeparate ==
    \A r, s \in Runs :
        r # s /\ thread[r] # <<>> /\ thread[r] = thread[s] => {r, s} \subseteq Turns

\* A parent is never given the last message of a subagent that paused
\* (delegate(), the __interrupt__ branch).
PausesAreReported == \A c \in Calls : reply[c] = "answer" => ~HasPaused(c)
=============================================================================
