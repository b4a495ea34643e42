--------------------------- MODULE IdentityProofs ---------------------------
(***************************************************************************)
(* For any turns, calls and callers: types, a call acts for the caller of  *)
(* its turn, narrowing never widens, credentials are the caller's,         *)
(* delegations have their own thread and do not hide a pause.              *)
(***************************************************************************)
EXTENDS Identity, TLAPS

USE NamesAssumption, PrincipalAssumption, ConfigAssumption
    DEF NamesAssumption, PrincipalAssumption, ConfigAssumption, Runs

Acting == {"inside", "working", "delegating"}

\* A call that was made belongs to a run, and its turn has begun.
Placed ==
    \A c \in Calls :
        /\ pc[c] = "none" => parent[c] = None /\ root[c] = None
        /\ pc[c] # "none" => parent[c] \in Runs /\ root[c] \in Turns
        /\ parent[c] \in Turns => root[c] = parent[c]
        /\ parent[c] \in Calls =>
              /\ pc[parent[c]] \in {"delegating", "done", "dropped"}
              /\ root[c] = root[parent[c]]

Begun ==
    /\ \A c \in Calls : root[c] # None => ran[root[c]] # "idle"
    /\ \A t \in Turns : origin[t] = "http" => context[t] = WithBroker(Anonymous)

\* The context of a subagent's run is that of the turn.
Inherits ==
    \A c \in Calls :
        /\ pc[c] = "delegating" => context[c] = context[root[c]]
        /\ parent[c] \in Calls => context[parent[c]] = context[root[c]]

Bound == \A c \in Calls : pc[c] \in Acting => variable[c] = context[root[c]]

\* A principal in a tool's hands is the caller's, with no more claims.
Holding ==
    \A c \in Calls :
        /\ pc[c] = "working" => (held[c] = None <=> context[root[c]] = None)
        /\ held[c] # None =>
              /\ pc[c] = "working"
              /\ context[root[c]] # None
              /\ Identity(held[c]) = Identity(context[root[c]])
              /\ AtMost(held[c].claims, context[root[c]].claims)

Using == (\A c \in Calls : used[c] # None => pc[c] # "none") /\ CredentialsAreTheCallers

StoreKeyed == \A e \in store : e.owner = e.key

IInv == TypeOK /\ Placed /\ Begun /\ Inherits /\ Bound /\ Holding /\ Using /\ StoreKeyed

-----------------------------------------------------------------------------
(* Principals and credentials *)

\* Attaching a broker changes neither identity nor claims.
LEMMA WithBrokerKeeps ==
    ASSUME NEW p \in Caller
    PROVE  /\ WithBroker(p) \in Caller
           /\ p # None => /\ WithBroker(p) # None
                          /\ Identity(WithBroker(p)) = Identity(p)
                          /\ WithBroker(p).claims = p.claims
<1>1. CASE p = None
      BY <1>1 DEF WithBroker, Caller
<1>2. CASE p # None
  <2>1. p \in Principal
        BY <1>2 DEF Caller
  <2>2. WithBroker(p) = [p EXCEPT !.broker = TRUE]
        BY <1>2 DEF WithBroker
  <2>3. WithBroker(p) \in Principal
        BY <2>1, <2>2 DEF Principal
  <2>4. /\ WithBroker(p).tenant = p.tenant
        /\ WithBroker(p).subject = p.subject
        /\ WithBroker(p).claims = p.claims
        BY <2>1, <2>2 DEF Principal
  <2> QED BY <1>2, <2>3, <2>4 DEF Identity, Caller
<1> QED BY <1>1, <1>2

\* narrow() returns claims that are at most the held ones, whatever is asked.
LEMMA NarrowShrinks ==
    ASSUME NEW claims \in ClaimMap, NEW request \in ClaimMap
    PROVE  /\ NarrowClaims(claims, request) \in ClaimMap
           /\ AtMost(NarrowClaims(claims, request), claims)
<1> DEFINE kept == {k \in DOMAIN claims \cap DOMAIN request :
                        \/ claims[k].list /\ request[k].list
                        \/ request[k] = claims[k]}
           narrowed == NarrowClaims(claims, request)
<1>1. PICK D \in SUBSET ClaimKeys : claims \in [D -> ClaimValue]
      BY DEF ClaimMap
<1>2. PICK E \in SUBSET ClaimKeys : request \in [E -> ClaimValue]
      BY DEF ClaimMap
<1>3. kept \in SUBSET ClaimKeys /\ kept \subseteq DOMAIN claims /\ kept \subseteq DOMAIN request
      BY <1>1
<1>4. /\ DOMAIN narrowed = kept
      /\ \A k \in kept : narrowed[k] = [claims[k] EXCEPT !.items = @ \cap request[k].items]
      BY DEF NarrowClaims
<1> HIDE DEF narrowed
<1>5. ASSUME NEW k \in kept
      PROVE  /\ narrowed[k] \in ClaimValue
             /\ narrowed[k].list = claims[k].list
             /\ narrowed[k].items \subseteq claims[k].items
  <2>1. claims[k] \in ClaimValue /\ request[k] \in ClaimValue
        BY <1>1, <1>2, <1>3
  <2>2. narrowed[k] = [claims[k] EXCEPT !.items = @ \cap request[k].items]
        BY <1>4
  <2>3. CASE claims[k].list
    <3>1. claims[k] \in [list : {TRUE}, items : SUBSET ClaimItems]
          BY <2>1, <2>3 DEF ClaimValue
    <3> QED BY <2>2, <3>1 DEF ClaimValue
  <2>4. CASE ~claims[k].list
    <3>1. request[k] = claims[k]
          BY <2>4
    <3>2. claims[k] \in [list : {FALSE}, items : {{i} : i \in ClaimItems}]
          BY <2>1, <2>4 DEF ClaimValue
    <3>3. claims[k].items \cap claims[k].items = claims[k].items
          OBVIOUS
    <3>4. narrowed[k] = [claims[k] EXCEPT !.items = claims[k].items]
          BY <2>2, <3>1, <3>3
    <3>5. narrowed[k] = claims[k]
          BY <3>2, <3>4
    <3> QED BY <2>1, <3>5
  <2> QED BY <2>3, <2>4
<1>6. narrowed = [k \in kept |-> narrowed[k]]
      BY DEF narrowed, NarrowClaims
<1>7. narrowed \in [kept -> ClaimValue]
      BY <1>5, <1>6
<1>8. narrowed \in ClaimMap
      BY <1>3, <1>7 DEF ClaimMap
<1>9. AtMost(narrowed, claims)
      BY <1>3, <1>4, <1>5 DEF AtMost
<1> QED BY <1>8, <1>9 DEF narrowed

\* A list of no more of no more is no more.
LEMMA AtMostTransitive ==
    ASSUME NEW a, NEW b, NEW c, AtMost(a, b), AtMost(b, c)
    PROVE  AtMost(a, c)
BY DEF AtMost

\* A broker gives a caller nobody else's token, and a shared one only when it
\* is the static broker.
LEMMA ResolveIsTheCallers ==
    ASSUME TypeOK, StoreKeyed, NEW p \in Principal
    PROVE  /\ Resolve(p).kind \in {"token", "consent", "raises"}
           /\ Resolve(p).owner \in {<<>>, Identity(p)}
           /\ Resolve(p).kind = "token" /\ Resolve(p).owner = <<>> => config.broker = "static"
<1>1. <<p.tenant, p.subject>> # <<>> /\ Identity(p) = <<p.tenant, p.subject>>
      BY DEF Identity
<1>2. ASSUME NEW e \in store, e.key = Key(p)
      PROVE  e.owner = Identity(p)
      BY <1>2 DEF StoreKeyed, Key, Identity
<1>3. /\ StoredToken(p).kind \in {"token", "consent"}
      /\ StoredToken(p).owner \in {<<>>, Identity(p)}
      /\ StoredToken(p).kind = "token" => StoredToken(p).owner = Identity(p)
  <2>1. CASE \E e \in store : e.key = Key(p)
    <3> DEFINE found == CHOOSE e \in store : e.key = Key(p)
    <3>1. found \in store /\ found.key = Key(p)
          BY <2>1
    <3>2. found.owner = Identity(p)
          BY <1>2, <3>1
    <3>3. StoredToken(p) = Result("token", found.owner)
          BY <2>1 DEF StoredToken
    <3> HIDE DEF found
    <3> QED BY <3>2, <3>3 DEF Result
  <2>2. CASE ~\E e \in store : e.key = Key(p)
        BY <2>2 DEF StoredToken, Result
  <2> QED BY <2>1, <2>2
<1>4. /\ ExchangedToken(p).kind \in {"token", "raises"}
      /\ ExchangedToken(p).owner \in {<<>>, Identity(p)}
      /\ ExchangedToken(p).kind = "token" => ExchangedToken(p).owner = Identity(p)
      BY <1>1 DEF ExchangedToken, Result, Raises
<1> QED BY <1>1, <1>3, <1>4 DEF Resolve, Result, Raises

\* The same of the headers of a connection.
LEMMA HeadersAreTheCallers ==
    ASSUME TypeOK, StoreKeyed, NEW p \in Caller, Headers(p).kind \in {"token", "object"}
    PROVE  \/ Headers(p).owner = <<>> /\ (config.broker = "static" \/ config.auth = "shared")
           \/ p # None /\ Headers(p).owner = Identity(p)
<1>1. p # None => p \in Principal
      BY DEF Caller
<1>2. CASE config.auth = "get_token" /\ p # None
      BY <1>1, <1>2, ResolveIsTheCallers DEF Headers, CustomHeaders, Result
<1>3. CASE config.auth = "declarative" /\ p # None
      BY <1>1, <1>3, ResolveIsTheCallers DEF Headers
<1>4. CASE ~(config.auth \in {"get_token", "declarative"} /\ p # None)
      BY <1>4 DEF Headers, CustomHeaders, Result, Raises
<1> QED BY <1>2, <1>3, <1>4
-----------------------------------------------------------------------------
(* Every step keeps the invariant *)

\* A new turn: no call belongs to it yet.
LEMMA BeginKeeps ==
    ASSUME IInv, NEW t \in Turns, NEW surface \in {"http", "channel", "schedule"}, NEW id,
           NEW p \in Caller, surface = "http" => p = WithBroker(Anonymous),
           Begin(t, surface, id, p)
    PROVE  IInv'
<1> USE DEF IInv, Begin, callVars
<1>0. \A c \in Calls : root[c] # t
      BY DEF Placed, Begun
<1>1. TypeOK'
      BY <1>0 DEF TypeOK
<1>2. Placed'
      BY <1>0 DEF TypeOK, Placed
<1>3. Begun'
      BY <1>0 DEF TypeOK, Placed, Begun
<1>4. Inherits'
      BY <1>0 DEF TypeOK, Placed, Begun, Inherits, Bound, Acting
<1>5. Bound'
      BY <1>0 DEF TypeOK, Placed, Begun, Inherits, Bound, Acting
<1>6. Holding'
      BY <1>0 DEF TypeOK, Placed, Begun, Bound, Acting, Holding
<1>7. Using'
      BY <1>0 DEF TypeOK, Placed, Begun, Using, CredentialsAreTheCallers
<1>8. StoreKeyed'
      BY <1>0 DEF TypeOK, StoreKeyed
<1> QED BY <1>1, <1>2, <1>3, <1>4, <1>5, <1>6, <1>7, <1>8

\* The end of a turn changes no identity.
LEMMA TurnEndsKeeps ==
    ASSUME IInv, NEW t \in Turns, TurnEnds(t)
    PROVE  IInv'
<1> USE DEF IInv, TurnEnds, callVars, runVars
<1>1. TypeOK'
  <2>1. \E end \in {"paused", "over"} : ran' = [ran EXCEPT ![t] = end]
        OBVIOUS
  <2> QED BY <2>1 DEF TypeOK
<1>2. Placed'
      BY DEF TypeOK, Placed
<1>3. Begun'
      BY DEF TypeOK, Placed, Begun
<1>4. Inherits'
      BY DEF TypeOK, Placed, Begun, Inherits, Bound, Acting
<1>5. Bound'
      BY DEF TypeOK, Placed, Begun, Inherits, Bound, Acting
<1>6. Holding'
      BY DEF TypeOK, Placed, Begun, Bound, Acting, Holding
<1>7. Using'
      BY DEF TypeOK, Placed, Begun, Using, CredentialsAreTheCallers
<1>8. StoreKeyed'
      BY DEF TypeOK, StoreKeyed
<1> QED BY <1>1, <1>2, <1>3, <1>4, <1>5, <1>6, <1>7, <1>8

\* A failed turn drops its calls.
LEMMA TurnFailsKeeps ==
    ASSUME IInv, NEW t \in Turns, TurnFails(t)
    PROVE  IInv'
<1> USE DEF IInv, TurnFails, runVars
<1>1. TypeOK'
  <2>1. /\ ran' \in [Turns -> {"idle", "running", "paused", "over"}]
        /\ held' \in [Calls -> Caller]
        BY DEF TypeOK, Caller
  <2>2. used' \in [Calls -> Credential \cup {None}]
        BY DEF TypeOK
  <2>3. pc' \in [Calls -> {"none", "created", "inside", "working", "delegating",
                          "paused", "done", "dropped"}]
        BY DEF TypeOK
  <2> QED BY <2>1, <2>2, <2>3 DEF TypeOK
<1>2. Placed'
      BY DEF TypeOK, Placed
<1>3. Begun'
      BY DEF TypeOK, Placed, Begun
<1>4. Inherits'
      BY DEF TypeOK, Placed, Begun, Inherits, Bound, Acting
<1>5. Bound'
      BY DEF TypeOK, Placed, Begun, Inherits, Bound, Acting
<1>6. Holding'
      BY DEF TypeOK, Placed, Begun, Bound, Acting, Holding
<1>7. Using'
      BY DEF TypeOK, Placed, Begun, Using, CredentialsAreTheCallers
<1>8. StoreKeyed'
      BY DEF TypeOK, StoreKeyed
<1> QED BY <1>1, <1>2, <1>3, <1>4, <1>5, <1>6, <1>7, <1>8

\* A resumed HTTP session has the caller it had.
LEMMA ResumeKeeps ==
    ASSUME IInv, NEW t \in Turns, Resume(t)
    PROVE  IInv'
<1> USE DEF IInv, Resume, runVars
<1>0. context' = context
      BY DEF TypeOK, Begun, Resume
<1>1. TypeOK'
      BY <1>0 DEF TypeOK
<1>2. Placed'
      BY <1>0 DEF TypeOK, Placed
<1>3. Begun'
      BY <1>0 DEF TypeOK, Placed, Begun
<1>4. Inherits'
      BY <1>0 DEF TypeOK, Placed, Begun, Inherits, Bound, Acting
<1>5. Bound'
      BY <1>0 DEF TypeOK, Placed, Begun, Inherits, Bound, Acting
<1>6. Holding'
      BY <1>0 DEF TypeOK, Placed, Begun, Bound, Acting, Holding
<1>7. Using'
      BY <1>0 DEF TypeOK, Placed, Begun, Using, CredentialsAreTheCallers
<1>8. StoreKeyed'
      BY <1>0 DEF TypeOK, StoreKeyed
<1> QED BY <1>1, <1>2, <1>3, <1>4, <1>5, <1>6, <1>7, <1>8

\* The OAuth callback stores a token under its owner's key.
LEMMA ConsentsKeeps ==
    ASSUME IInv, NEW t \in Turns, Consents(t)
    PROVE  IInv'
<1> USE DEF IInv, Consents, Put, callVars, runVars, turnVars, Key
<1>0. context[t] \in Principal
      BY DEF TypeOK, Caller, Consents
<1>a. Key(context[t]) \in Tenants \X Subjects
      BY <1>0 DEF Principal
<1>1. TypeOK'
      BY <1>0, <1>a DEF TypeOK
<1>2. Placed'
      BY <1>0, <1>a DEF TypeOK, Placed
<1>3. Begun'
      BY <1>0, <1>a DEF TypeOK, Placed, Begun
<1>4. Inherits'
      BY <1>0, <1>a DEF TypeOK, Placed, Begun, Inherits, Bound, Acting
<1>5. Bound'
      BY <1>0, <1>a DEF TypeOK, Placed, Begun, Inherits, Bound, Acting
<1>6. Holding'
      BY <1>0, <1>a DEF TypeOK, Placed, Begun, Bound, Acting, Holding
<1>7. Using'
      BY <1>0, <1>a DEF TypeOK, Placed, Begun, Using, CredentialsAreTheCallers
<1>8. StoreKeyed'
      BY <1>0, <1>a DEF TypeOK, StoreKeyed
<1> QED BY <1>1, <1>2, <1>3, <1>4, <1>5, <1>6, <1>7, <1>8

\* A new call belongs to the turn of its run.
LEMMA SpawnKeeps ==
    ASSUME IInv, NEW r \in Runs, NEW c \in Calls, Spawn(r, c)
    PROVE  IInv'
<1> USE DEF IInv, Spawn, Running, RootOf, Inherited, runVars, turnVars, Live
<1>1. TypeOK'
  <2>1. Inherited(r) \in Caller /\ RootOf(r) \in Turns
        BY DEF TypeOK, Placed, Caller
  <2> HIDE DEF Inherited, RootOf
  <2> QED BY <2>1 DEF TypeOK
<1>2. Placed'
      BY DEF TypeOK, Placed
<1>3. Begun'
      BY DEF TypeOK, Placed, Begun
<1>4. Inherits'
      BY DEF TypeOK, Placed, Begun, Inherits, Bound, Acting
<1>5. Bound'
      BY DEF TypeOK, Placed, Begun, Inherits, Bound, Acting
<1>6. Holding'
      BY DEF TypeOK, Placed, Begun, Bound, Acting, Holding
<1>7. Using'
      BY DEF TypeOK, Placed, Begun, Using, CredentialsAreTheCallers
<1>8. StoreKeyed'
      BY DEF TypeOK, StoreKeyed
<1> QED BY <1>1, <1>2, <1>3, <1>4, <1>5, <1>6, <1>7, <1>8

\* The middleware binds the principal of the turn.
LEMMA EnterKeeps ==
    ASSUME IInv, NEW c \in Calls, Enter(c)
    PROVE  IInv'
<1> USE DEF IInv, Enter, Bind, runVars, turnVars
<1>1. TypeOK'
  <2>1. context[parent[c]] \in Caller
        BY DEF TypeOK, Placed
  <2> QED BY <2>1 DEF TypeOK
<1>2. Placed'
      BY DEF TypeOK, Placed
<1>3. Begun'
      BY DEF TypeOK, Placed, Begun
<1>4. Inherits'
      BY DEF TypeOK, Placed, Begun, Inherits, Bound, Acting
<1>5. Bound'
      BY DEF TypeOK, Placed, Begun, Inherits, Bound, Acting
<1>6. Holding'
      BY DEF TypeOK, Placed, Begun, Bound, Acting, Holding
<1>7. Using'
      BY DEF TypeOK, Placed, Begun, Using, CredentialsAreTheCallers
<1>8. StoreKeyed'
      BY DEF TypeOK, StoreKeyed
<1> QED BY <1>1, <1>2, <1>3, <1>4, <1>5, <1>6, <1>7, <1>8

\* The injected principal is the bound one.
LEMMA InjectKeeps ==
    ASSUME IInv, NEW c \in Calls, Inject(c)
    PROVE  IInv'
<1> USE DEF IInv, Inject, runVars, turnVars
<1>1. TypeOK'
      BY DEF TypeOK
<1>2. Placed'
      BY DEF TypeOK, Placed
<1>3. Begun'
      BY DEF TypeOK, Placed, Begun
<1>4. Inherits'
      BY DEF TypeOK, Placed, Begun, Inherits, Bound, Acting
<1>5. Bound'
      BY DEF TypeOK, Placed, Begun, Inherits, Bound, Acting
<1>a. variable[c] = context[root[c]] /\ variable[c] \in Caller
      BY DEF TypeOK, Bound, Acting
<1>b. variable[c] # None => AtMost(variable[c].claims, variable[c].claims)
      BY DEF AtMost
<1>6. Holding'
      BY <1>a, <1>b DEF TypeOK, Holding
<1>7. Using'
      BY DEF TypeOK, Placed, Begun, Using, CredentialsAreTheCallers
<1>8. StoreKeyed'
      BY DEF TypeOK, StoreKeyed
<1> QED BY <1>1, <1>2, <1>3, <1>4, <1>5, <1>6, <1>7, <1>8

\* Narrowing leaves the identity and shrinks the claims.
LEMMA NarrowKeeps ==
    ASSUME IInv, NEW c \in Calls, Narrow(c)
    PROVE  IInv'
<1> USE DEF IInv, Narrow, runVars, turnVars
<1>a. held[c] \in Principal
      BY DEF TypeOK, Caller
<1>b. PICK request \in Requests :
          held' = [held EXCEPT ![c].claims = NarrowClaims(@, request)]
      OBVIOUS
<1>c. held[c].claims \in ClaimMap /\ request \in ClaimMap
      BY <1>a DEF Principal
<1> DEFINE shrunk == NarrowClaims(held[c].claims, request)
<1>d. shrunk \in ClaimMap /\ AtMost(shrunk, held[c].claims)
      BY <1>c, NarrowShrinks
<1>e. held' = [held EXCEPT ![c] = [held[c] EXCEPT !.claims = shrunk]]
      BY <1>b
<1> HIDE DEF shrunk
<1>f. /\ [held[c] EXCEPT !.claims = shrunk] \in Principal
      /\ [held[c] EXCEPT !.claims = shrunk].claims = shrunk
      /\ Identity([held[c] EXCEPT !.claims = shrunk]) = Identity(held[c])
      BY <1>a, <1>d DEF Principal, Identity
<1>g. /\ held' \in [Calls -> Caller]
      /\ held'[c] = [held[c] EXCEPT !.claims = shrunk] /\ held'[c] # None
      /\ \A d \in Calls \ {c} : held'[d] = held[d]
      BY <1>e, <1>f DEF TypeOK, Caller
<1>h. AtMost(held[c].claims, context[root[c]].claims)
      BY DEF Holding
<1>i. AtMost(shrunk, context[root[c]].claims)
      BY <1>d, <1>h, AtMostTransitive
<1>1. TypeOK'
      BY <1>g DEF TypeOK
<1>2. Placed'
      BY DEF TypeOK, Placed
<1>3. Begun'
      BY DEF TypeOK, Placed, Begun
<1>4. Inherits'
      BY DEF TypeOK, Placed, Begun, Inherits, Bound, Acting
<1>5. Bound'
      BY DEF TypeOK, Placed, Begun, Inherits, Bound, Acting
<1>j. /\ Identity(held'[c]) = Identity(held[c])
      /\ AtMost(held'[c].claims, context[root[c]].claims)
      BY <1>f, <1>g, <1>i
<1>k. pc[c] = "working" /\ held[c] # None /\ UNCHANGED <<pc, root, context>>
      OBVIOUS
<1>6. Holding'
  <2> SUFFICES ASSUME NEW d \in Calls
               PROVE  (/\ pc[d] = "working" => (held[d] = None <=> context[root[d]] = None)
                       /\ held[d] # None =>
                             /\ pc[d] = "working"
                             /\ context[root[d]] # None
                             /\ Identity(held[d]) = Identity(context[root[d]])
                             /\ AtMost(held[d].claims, context[root[d]].claims))'
      BY DEF Holding
  <2>1. CASE d = c
        BY <1>g, <1>j, <1>k, <2>1 DEF Holding, Identity
  <2>2. CASE d # c
    <3>1. held'[d] = held[d]
          BY <1>g, <2>2
    <3> QED BY <1>k, <3>1 DEF Holding
  <2> QED BY <2>1, <2>2
<1>7. Using'
      BY DEF TypeOK, Placed, Begun, Using, CredentialsAreTheCallers
<1>8. StoreKeyed'
      BY DEF TypeOK, StoreKeyed
<1> QED BY <1>1, <1>2, <1>3, <1>4, <1>5, <1>6, <1>7, <1>8

\* A credential that is nobody else's may be used.
LEMMA SpendKeeps ==
    ASSUME IInv, NEW c \in Calls, NEW result, pc[c] # "none", Spend(c, result),
           \/ result.owner = <<>> /\ (config.broker = "static" \/ config.auth = "shared")
           \/ /\ context[root[c]] # None /\ result.owner = Identity(context[root[c]])
              /\ result.owner \in Tenants \X Subjects
    PROVE  IInv'
<1> USE DEF IInv, Spend, runVars, turnVars
<1>0. [owner |-> result.owner, form |-> result.kind] \in Credential
      BY DEF Credential, Owner
<1>a. <<>> \notin Tenants \X Subjects
      OBVIOUS
<1>1. TypeOK'
      BY <1>0, <1>a DEF TypeOK
<1>2. Placed'
      BY <1>0, <1>a DEF TypeOK, Placed
<1>3. Begun'
      BY <1>0, <1>a DEF TypeOK, Placed, Begun
<1>4. Inherits'
      BY <1>0, <1>a DEF TypeOK, Placed, Begun, Inherits, Bound, Acting
<1>5. Bound'
      BY <1>0, <1>a DEF TypeOK, Placed, Begun, Inherits, Bound, Acting
<1>6. Holding'
      BY <1>0, <1>a DEF TypeOK, Placed, Begun, Bound, Acting, Holding
<1>b. /\ used'[c] = [owner |-> result.owner, form |-> result.kind]
      /\ \A d \in Calls \ {c} : used'[d] = used[d]
      BY DEF TypeOK
<1>c. used'[c].owner = result.owner
      BY <1>b
<1>d. IF result.owner = <<>> THEN config.broker = "static" \/ config.auth = "shared"
      ELSE context[root[c]] # None /\ result.owner = Identity(context[root[c]])
      BY <1>a
<1>7. Using'
  <2>1. \A d \in Calls : used'[d] # None => pc'[d] # "none"
        BY <1>b DEF Using
  <2>2. CredentialsAreTheCallers'
        BY <1>b, <1>c, <1>d DEF Using, CredentialsAreTheCallers, Identity
  <2> QED BY <2>1, <2>2 DEF Using
<1>8. StoreKeyed'
      BY <1>0, <1>a DEF TypeOK, StoreKeyed
<1> QED BY <1>1, <1>2, <1>3, <1>4, <1>5, <1>6, <1>7, <1>8

\* A call that leaves its handler is bound to nothing and holds nothing.
LEMMA LeaveKeeps ==
    ASSUME IInv, NEW c \in Calls, NEW end \in {"paused", "done"}, pc[c] # "none",
           end = "paused" => pc[c] # "delegating" /\ pc[c] # "done" /\ pc[c] # "dropped",
           pc' = [pc EXCEPT ![c] = end], Leave(c), reply' \in [Calls -> {"none", "answer", "paused"}],
           UNCHANGED <<config, turnVars, runVars, parent, root, store>>
    PROVE  IInv'
<1> USE DEF IInv, Leave, runVars, turnVars
<1>0. Inherited(parent[c]) \in Caller
      BY DEF TypeOK, Placed, Caller, Inherited
<1>a. /\ held'[c] = None /\ used'[c] = None /\ pc'[c] = end
      /\ \A d \in Calls \ {c} : /\ held'[d] = held[d] /\ used'[d] = used[d]
                               /\ pc'[d] = pc[d] /\ variable'[d] = variable[d]
      BY DEF TypeOK
<1> HIDE DEF Inherited
<1>1. TypeOK'
  <2>1. held' \in [Calls -> Caller] /\ used' \in [Calls -> Credential \cup {None}]
        BY DEF TypeOK, Caller
  <2>2. variable' \in [Calls -> Caller]
        BY <1>0 DEF TypeOK
  <2> QED BY <2>1, <2>2 DEF TypeOK
<1>2. Placed'
      BY <1>0, <1>a DEF TypeOK, Placed
<1>3. Begun'
      BY <1>0, <1>a DEF TypeOK, Placed, Begun
<1>4. Inherits'
      BY <1>0, <1>a DEF TypeOK, Placed, Begun, Inherits, Bound, Acting
<1>5. Bound'
      BY <1>0, <1>a DEF TypeOK, Placed, Begun, Inherits, Bound, Acting
<1>6. Holding'
      BY <1>0, <1>a DEF TypeOK, Placed, Begun, Bound, Acting, Holding
<1>7. Using'
      BY <1>0, <1>a DEF TypeOK, Placed, Begun, Using, CredentialsAreTheCallers
<1>8. StoreKeyed'
      BY <1>0, <1>a DEF TypeOK, StoreKeyed
<1> QED BY <1>1, <1>2, <1>3, <1>4, <1>5, <1>6, <1>7, <1>8

\* A subagent's run gets the principal the call is bound to.
LEMMA DelegateKeeps ==
    ASSUME IInv, NEW c \in Calls, Delegate(c)
    PROVE  IInv'
<1> USE DEF IInv, Delegate, ChildContext, runVars, turnVars
<1>0. variable[c] = context[root[c]] /\ variable[c] \in Caller
      BY DEF TypeOK, Bound, Acting
<1>1. TypeOK'
      BY <1>0 DEF TypeOK
<1>2. Placed'
      BY <1>0 DEF TypeOK, Placed
<1>3. Begun'
      BY <1>0 DEF TypeOK, Placed, Begun
<1>4. Inherits'
      BY <1>0 DEF TypeOK, Placed, Begun, Inherits, Bound, Acting
<1>5. Bound'
      BY <1>0 DEF TypeOK, Placed, Begun, Inherits, Bound, Acting
<1>6. Holding'
      BY <1>0 DEF TypeOK, Placed, Begun, Bound, Acting, Holding
<1>7. Using'
      BY <1>0 DEF TypeOK, Placed, Begun, Using, CredentialsAreTheCallers
<1>8. StoreKeyed'
      BY <1>0 DEF TypeOK, StoreKeyed
<1> QED BY <1>1, <1>2, <1>3, <1>4, <1>5, <1>6, <1>7, <1>8

\* principal.credential() of what a tool holds.
LEMMA UseCredentialKeeps ==
    ASSUME IInv, NEW c \in Calls, UseCredential(c)
    PROVE  IInv'
<1>1. /\ pc[c] = "working" /\ held[c] \in Principal
      /\ context[root[c]] # None
      /\ Identity(held[c]) = Identity(context[root[c]])
      BY DEF IInv, TypeOK, Caller, Holding, UseCredential
<1>2. Identity(held[c]) \in Tenants \X Subjects
      BY <1>1 DEF Principal, Identity
<1> DEFINE result == Resolve(held[c])
<1>3. /\ result.kind \in {"token", "consent", "raises"}
      /\ result.owner \in {<<>>, Identity(held[c])}
      /\ result.kind = "token" /\ result.owner = <<>> => config.broker = "static"
      BY <1>1, ResolveIsTheCallers DEF IInv
<1>4. Spend(c, result) \/ Pause(c, result)
      BY DEF UseCredential
<1> HIDE DEF result
<1>5. CASE Spend(c, result)
  <2>1. result.kind = "token"
        BY <1>3, <1>5 DEF Spend
  <2> QED BY <1>1, <1>2, <1>3, <1>5, <2>1, SpendKeeps
<1>6. CASE Pause(c, result)
  <2>1. /\ pc' = [pc EXCEPT ![c] = "paused"] /\ Leave(c)
        /\ UNCHANGED <<config, turnVars, runVars, parent, root, reply, store>>
        BY <1>6 DEF Pause
  <2>2. reply' \in [Calls -> {"none", "answer", "paused"}]
        BY <2>1 DEF IInv, TypeOK
  <2>3. UNCHANGED <<config, turnVars, runVars, parent, root, store>>
        BY <2>1
  <2> QED BY <1>1, <2>1, <2>2, <2>3, LeaveKeeps
<1> QED BY <1>4, <1>5, <1>6

\* A connection's call with the headers of the principal it is bound to, or of none.
LEMMA HeadersKeep ==
    ASSUME IInv, NEW c \in Calls, pc[c] = "inside", NEW p \in {None, variable[c]},
           Spend(c, Headers(p)) \/ Pause(c, Headers(p))
    PROVE  IInv'
<1>1. p \in Caller /\ p \in {None, context[root[c]]}
      BY DEF IInv, TypeOK, Bound, Acting, Caller
<1>2. p # None => Identity(p) \in Tenants \X Subjects
      BY <1>1 DEF Principal, Caller, Identity
<1> DEFINE result == Headers(p)
<1>3. result.kind \in {"token", "object"} =>
         \/ result.owner = <<>> /\ (config.broker = "static" \/ config.auth = "shared")
         \/ p # None /\ result.owner = Identity(p)
      BY <1>1, HeadersAreTheCallers DEF IInv
<1>4. Spend(c, result) \/ Pause(c, result)
      OBVIOUS
<1> HIDE DEF result
<1>5. CASE Spend(c, result)
  <2>1. result.kind \in {"token", "object"}
        BY <1>5 DEF Spend
  <2>2. \/ result.owner = <<>> /\ (config.broker = "static" \/ config.auth = "shared")
        \/ /\ context[root[c]] # None /\ result.owner = Identity(context[root[c]])
           /\ result.owner \in Tenants \X Subjects
        BY <1>1, <1>2, <1>3, <2>1
  <2> QED BY <1>5, <2>2, SpendKeeps
<1>6. CASE Pause(c, result)
  <2>1. /\ pc' = [pc EXCEPT ![c] = "paused"] /\ Leave(c)
        /\ UNCHANGED <<config, turnVars, runVars, parent, root, reply, store>>
        BY <1>6 DEF Pause
  <2>2. reply' \in [Calls -> {"none", "answer", "paused"}]
        BY <2>1 DEF IInv, TypeOK
  <2>3. UNCHANGED <<config, turnVars, runVars, parent, root, store>>
        BY <2>1
  <2> QED BY <2>1, <2>2, <2>3, LeaveKeeps
<1> QED BY <1>4, <1>5, <1>6

\* A call that returns, or whose subagent has.
LEMMA ReturnKeeps ==
    ASSUME IInv, NEW c \in Calls, Return(c) \/ DelegateReturns(c)
    PROVE  IInv'
<1>1. /\ pc[c] # "none" /\ pc' = [pc EXCEPT ![c] = "done"] /\ Leave(c)
      /\ UNCHANGED <<config, turnVars, runVars, parent, root, store>>
      BY DEF Return, DelegateReturns
<1>2. reply' \in [Calls -> {"none", "answer", "paused"}]
  <2>1. CASE Return(c)
        BY <2>1 DEF Return, IInv, TypeOK
  <2>2. CASE DelegateReturns(c)
    <3>1. ReplyOf(c) \in {"answer", "paused"}
          BY DEF ReplyOf
    <3> QED BY <2>2, <3>1 DEF DelegateReturns, IInv, TypeOK
  <2> QED BY <2>1, <2>2
<1> QED BY <1>1, <1>2, LeaveKeeps

-----------------------------------------------------------------------------
(* The theorems *)

LEMMA InitIInv == Init => IInv
<1> SUFFICES ASSUME Init PROVE IInv
    OBVIOUS
<1>1. TypeOK
      BY DEF Init, TypeOK, Caller
<1>2. Placed /\ Begun /\ Inherits /\ Bound
      BY DEF Init, Placed, Begun, Inherits, Bound, Acting
<1>3. Holding /\ Using /\ StoreKeyed
      BY DEF Init, Holding, Using, CredentialsAreTheCallers, StoreKeyed
<1> QED BY <1>1, <1>2, <1>3 DEF IInv

LEMMA StepIInv == IInv /\ [Next]_vars => IInv'
<1> SUFFICES ASSUME IInv, [Next]_vars PROVE IInv'
    OBVIOUS
<1>1. ASSUME NEW t \in Turns, NEW s \in Sessions, HttpTurn(t, s) PROVE IInv'
  <2>1. WithBroker(Anonymous) \in Caller
        BY WithBrokerKeeps DEF Caller
  <2> QED BY <1>1, <2>1, BeginKeeps DEF HttpTurn
<1>2. ASSUME NEW t \in Turns, NEW s \in Sessions, NEW p \in ChannelCallers, ChannelTurn(t, s, p)
      PROVE  IInv'
  <2>1. WithBroker(p) \in Caller
        BY WithBrokerKeeps
  <2> QED BY <1>2, <2>1, BeginKeeps DEF ChannelTurn
<1>3. ASSUME NEW t \in Turns, ScheduleTurn(t) PROVE IInv'
  <2>1. WithBroker(App) \in Caller /\ App \in Caller
        BY WithBrokerKeeps DEF Caller
  <2> QED BY <1>3, <2>1, BeginKeeps DEF ScheduleTurn
<1>4. ASSUME NEW t \in Turns, TurnStep(t) PROVE IInv'
      BY <1>1, <1>2, <1>3, <1>4, TurnEndsKeeps, TurnFailsKeeps, ResumeKeeps, ConsentsKeeps DEF TurnStep
<1>5. ASSUME NEW c \in Calls, CallApi(c) \/ CallMcp(c) PROVE IInv'
  <2>1. pc[c] = "inside" /\ \E p \in {None, variable[c]} :
            Spend(c, Headers(p)) \/ Pause(c, Headers(p))
        BY <1>5 DEF CallApi, CallMcp, McpHeaders
  <2> QED BY <2>1, HeadersKeep
<1>6. ASSUME NEW c \in Calls, CallStep(c) PROVE IInv'
      BY <1>5, <1>6, SpawnKeeps, EnterKeeps, InjectKeeps, NarrowKeeps, UseCredentialKeeps,
         ReturnKeeps, DelegateKeeps DEF CallStep
<1>7. CASE UNCHANGED vars
      BY <1>7 DEF vars, turnVars, runVars, callVars, IInv, TypeOK, Placed, Begun, Inherits, Bound,
         Holding, Using, CredentialsAreTheCallers, StoreKeyed
<1> QED BY <1>4, <1>6, <1>7 DEF Next

LEMMA Invariance == Spec => []IInv
BY InitIInv, StepIInv, PTL DEF Spec

\* The model is well typed for any turns, calls and callers.
THEOREM TypeCorrect == Spec => []TypeOK
<1>1. IInv => TypeOK
      BY DEF IInv
<1> QED BY <1>1, Invariance, PTL

\* Through any nesting of delegations and any interleaving with the calls of
\* other callers, a tool call sees the principal of its own turn and its code
\* holds that identity (PrincipalMiddleware, delegate, the injection wrapper).
THEOREM CallsActForTheirCaller == Spec => []ActsForCaller
<1>1. IInv => ActsForCaller
      BY DEF IInv, Bound, Holding, Acting, ActsForCaller
<1> QED BY <1>1, Invariance, PTL

\* No sequence of narrow() calls along any chain of delegations gives a tool a
\* claim its caller does not have (Principal.narrow).
THEOREM DelegationOnlyNarrows == Spec => []ClaimsNeverWiden
<1>1. IInv => ClaimsNeverWiden
      BY DEF IInv, Holding, ClaimsNeverWiden
<1> QED BY <1>1, Invariance, PTL

\* A call never uses the credential of another caller, whichever broker and
\* whichever connection auth is configured (the brokers, _resolve_headers).
THEOREM CredentialsStayWithCallers == Spec => []CredentialsAreTheCallers
<1>1. IInv => CredentialsAreTheCallers
      BY DEF IInv, Using
<1> QED BY <1>1, Invariance, PTL

-----------------------------------------------------------------------------
(* Threads *)

\* The last part of a thread's name tells a delegation from every other run.
ThreadNames ==
    /\ thread \in [Runs -> Seq(Runs \cup Sessions)]
    /\ \A r \in Runs : thread[r] # <<>> =>
          thread[r][Len(thread[r])] \in (IF r \in Calls THEN {r} ELSE Sessions \cup {r})

LEMMA BeginNames ==
    ASSUME ThreadNames, NEW t \in Turns, NEW surface, NEW id \in Sessions \cup {t}, NEW p,
           Begin(t, surface, id, p)
    PROVE  ThreadNames'
<1>1. thread' = [thread EXCEPT ![t] = <<id>>]
      BY DEF Begin
<1>2. <<id>> \in Seq(Runs \cup Sessions) /\ <<id>>[Len(<<id>>)] = id
      OBVIOUS
<1>3. thread' \in [Runs -> Seq(Runs \cup Sessions)]
      BY <1>1, <1>2 DEF ThreadNames
<1>4. thread'[t] = <<id>> /\ \A r \in Runs \ {t} : thread'[r] = thread[r]
      BY <1>1 DEF ThreadNames
<1>5. t \notin Calls
      BY NamesAssumption DEF NamesAssumption
<1>6. ASSUME NEW r \in Runs, thread'[r] # <<>>
      PROVE  thread'[r][Len(thread'[r])] \in (IF r \in Calls THEN {r} ELSE Sessions \cup {r})
  <2>1. CASE r = t
        BY <1>2, <1>4, <1>5, <2>1
  <2>2. CASE r # t
        BY <1>4, <1>6, <2>2 DEF ThreadNames
  <2> QED BY <2>1, <2>2
<1> QED BY <1>3, <1>6 DEF ThreadNames

LEMMA DelegateNames ==
    ASSUME IInv, ThreadNames, NEW c \in Calls, Delegate(c)
    PROVE  ThreadNames'
<1>1. parent[c] \in Runs
      BY DEF IInv, Placed, Delegate
<1> DEFINE above == thread[parent[c]]
<1>2. above \in Seq(Runs \cup Sessions)
      BY <1>1 DEF ThreadNames
<1>3. thread' = [thread EXCEPT ![c] = Append(above, c)]
      BY DEF Delegate, ChildThread
<1> HIDE DEF above
<1>4. Append(above, c) \in Seq(Runs \cup Sessions)
      BY <1>2
<1>5. Append(above, c)[Len(Append(above, c))] = c
      BY <1>2
<1>6. thread' \in [Runs -> Seq(Runs \cup Sessions)]
      BY <1>3, <1>4 DEF ThreadNames
<1>7. thread'[c] = Append(above, c) /\ \A r \in Runs \ {c} : thread'[r] = thread[r]
      BY <1>3 DEF ThreadNames
<1> QED BY <1>5, <1>6, <1>7 DEF ThreadNames

LEMMA StepThreadNames == IInv /\ ThreadNames /\ [Next]_vars => ThreadNames'
<1> SUFFICES ASSUME IInv, ThreadNames, [Next]_vars PROVE ThreadNames'
    OBVIOUS
<1>1. CASE UNCHANGED thread
      BY <1>1 DEF ThreadNames
<1>2. ASSUME NEW t \in Turns, TurnStep(t) PROVE ThreadNames'
  <2>1. \/ UNCHANGED thread
        \/ \E surface \in {"http", "channel", "schedule"}, id \in Sessions \cup {t}, p \in Caller :
              Begin(t, surface, id, p)
    <3>1. /\ WithBroker(Anonymous) \in Caller /\ WithBroker(App) \in Caller /\ App \in Caller
          BY WithBrokerKeeps DEF Caller
    <3>a. \A p \in ChannelCallers : WithBroker(p) \in Caller
          BY WithBrokerKeeps
    <3>2. CASE \E s \in Sessions : HttpTurn(t, s)
          BY <3>1, <3>2 DEF HttpTurn
    <3>3. CASE \E s \in Sessions, p \in ChannelCallers : ChannelTurn(t, s, p)
          BY <3>a, <3>3 DEF ChannelTurn
    <3>4. CASE ScheduleTurn(t)
          BY <3>1, <3>4 DEF ScheduleTurn
    <3>5. CASE TurnEnds(t) \/ TurnFails(t) \/ Resume(t) \/ Consents(t)
          BY <3>5 DEF TurnEnds, TurnFails, Resume, Consents, Put, runVars
    <3> QED BY <1>2, <3>2, <3>3, <3>4, <3>5 DEF TurnStep
  <2> QED BY <1>1, <2>1, BeginNames
<1>3. ASSUME NEW c \in Calls, CallStep(c) PROVE ThreadNames'
  <2>1. Delegate(c) \/ UNCHANGED thread
        BY <1>3 DEF CallStep, Spawn, Enter, Inject, Narrow, UseCredential, CallApi, CallMcp, Spend,
           Pause, Return, DelegateReturns, runVars
  <2> QED BY <1>1, <2>1, DelegateNames
<1> QED BY <1>1, <1>2, <1>3 DEF Next, vars, runVars

\* A delegation never shares a thread with another run, so a subagent starts
\* without anyone's history (delegate, ScheduleContext.receive).
THEOREM DelegationsHaveTheirThread == Spec => []ThreadsAreSeparate
<1>1. Init => ThreadNames
  <2>1. <<>> \in Seq(Runs \cup Sessions)
        OBVIOUS
  <2> QED BY <2>1 DEF Init, ThreadNames
<1>2. ThreadNames => ThreadsAreSeparate
  <2> SUFFICES ASSUME ThreadNames, NEW r \in Runs, NEW s \in Runs, r # s, thread[r] # <<>>,
                      thread[r] = thread[s]
               PROVE  {r, s} \subseteq Turns
      BY DEF ThreadsAreSeparate
  <2> DEFINE last == thread[r][Len(thread[r])]
  <2>1. /\ last \in (IF r \in Calls THEN {r} ELSE Sessions \cup {r})
        /\ last \in (IF s \in Calls THEN {s} ELSE Sessions \cup {s})
        BY DEF ThreadNames
  <2> HIDE DEF last
  <2> QED BY <2>1
<1> QED BY <1>1, <1>2, StepThreadNames, Invariance, PTL DEF Spec

-----------------------------------------------------------------------------
(* What a parent is told *)

\* A delegation that answered is over, and every call of its run is.
Reported(c) ==
    reply[c] = "answer" =>
        pc[c] = "done" /\ \A d \in Calls : parent[d] = c => pc[d] = "done"

ReportInv == \A c \in Calls : Reported(c)

\* Nothing but a return of the delegation changes what a parent was told.
LEMMA KeepsReports ==
    ASSUME IInv, ReportInv, UNCHANGED reply,
           \A d \in Calls : pc[d] = "done" => pc'[d] = "done",
           \A d \in Calls :
              parent'[d] # parent[d] /\ parent'[d] \in Calls => pc[parent'[d]] # "done"
    PROVE  ReportInv'
<1> SUFFICES ASSUME NEW c \in Calls, reply[c] = "answer"
             PROVE  pc'[c] = "done" /\ \A d \in Calls : parent'[d] = c => pc'[d] = "done"
    BY DEF ReportInv, Reported
<1>1. pc[c] = "done" /\ \A d \in Calls : parent[d] = c => pc[d] = "done"
      BY DEF ReportInv, Reported
<1> QED BY <1>1

\* An answer is returned only when no call of the subagent has paused.
LEMMA ReturnReports ==
    ASSUME IInv, ReportInv, NEW c \in Calls, DelegateReturns(c)
    PROVE  ReportInv'
<1>1. /\ pc' = [pc EXCEPT ![c] = "done"]
      /\ reply' = [reply EXCEPT ![c] = ReplyOf(c)]
      /\ parent' = parent
      /\ \A d \in Calls : parent[d] = c => pc[d] \in {"done", "paused"}
      BY DEF DelegateReturns, Settled, CallsOf, runVars, turnVars
<1>2. ReplyOf(c) = "answer" => \A d \in Calls : parent[d] = c => pc[d] = "done"
      BY <1>1 DEF ReplyOf, HasPaused, CallsOf
<1>3. pc'[c] = "done" /\ \A d \in Calls \ {c} : pc'[d] = pc[d] /\ reply'[d] = reply[d]
      BY <1>1 DEF IInv, TypeOK
<1>4. reply'[c] = ReplyOf(c)
      BY <1>1 DEF IInv, TypeOK
<1>5. ASSUME NEW e \in Calls, reply'[e] = "answer"
      PROVE  pc'[e] = "done" /\ \A d \in Calls : parent'[d] = e => pc'[d] = "done"
  <2>1. CASE e = c
        BY <1>1, <1>2, <1>3, <1>4, <1>5, <2>1
  <2>2. CASE e # c
        BY <1>1, <1>3, <1>5, <2>2 DEF ReportInv, Reported
  <2> QED BY <2>1, <2>2
<1> QED BY <1>5 DEF ReportInv, Reported

LEMMA StepReports == IInv /\ ReportInv /\ [Next]_vars => ReportInv'
<1> SUFFICES ASSUME IInv, ReportInv, [Next]_vars PROVE ReportInv'
    OBVIOUS
<1>1. CASE UNCHANGED <<pc, parent, reply>>
      BY <1>1, KeepsReports
<1>2. ASSUME NEW t \in Turns, TurnStep(t) PROVE ReportInv'
  <2>1. CASE UNCHANGED <<pc, parent, reply>>
        BY <1>1, <2>1
  <2>2. CASE TurnFails(t)
        BY <2>2, KeepsReports DEF TurnFails, runVars
  <2>3. CASE Resume(t)
        BY <2>3, KeepsReports DEF Resume, runVars
  <2>4. TurnFails(t) \/ Resume(t) \/ UNCHANGED <<pc, parent, reply>>
        BY <1>2 DEF TurnStep, HttpTurn, ChannelTurn, ScheduleTurn, Begin, TurnEnds, Consents,
           Put, callVars
  <2> QED BY <2>1, <2>2, <2>3, <2>4
<1>3. ASSUME NEW c \in Calls, CallStep(c) PROVE ReportInv'
  <2>1. ASSUME NEW r \in Runs, Spawn(r, c) PROVE ReportInv'
    <3>1. /\ pc[c] = "none" /\ pc' = [pc EXCEPT ![c] = "created"]
          /\ parent' = [parent EXCEPT ![c] = r] /\ UNCHANGED reply
          /\ r \in Calls => pc[r] = "delegating"
          BY <2>1 DEF Spawn, Running, runVars, turnVars
    <3> QED BY <3>1, KeepsReports DEF IInv, TypeOK
  <2>2. CASE DelegateReturns(c)
        BY <2>2, ReturnReports
  <2>3. CASE /\ UNCHANGED <<parent, reply>>
             /\ \A d \in Calls : pc[d] = "done" => pc'[d] = "done"
        BY <2>3, KeepsReports
  <2>4. CASE Enter(c) \/ Inject(c) \/ Delegate(c) \/ Return(c)
        BY <2>3, <2>4 DEF Enter, Inject, Delegate, Return, turnVars, runVars, IInv, TypeOK
  <2>5. CASE Narrow(c) \/ CallMcp(c)
        BY <1>1, <2>5 DEF Narrow, CallMcp, Spend, turnVars, runVars
  <2>6. ASSUME NEW result, Spend(c, result) PROVE ReportInv'
        BY <1>1, <2>6 DEF Spend, turnVars, runVars
  <2>7. ASSUME NEW result, Pause(c, result), pc[c] # "done" PROVE ReportInv'
        BY <2>3, <2>7 DEF Pause, turnVars, runVars, IInv, TypeOK
  <2>8. CASE UseCredential(c)
        BY <2>6, <2>7, <2>8 DEF UseCredential
  <2>9. CASE CallApi(c)
        BY <2>6, <2>7, <2>9 DEF CallApi
  <2> QED BY <1>3, <2>1, <2>2, <2>4, <2>5, <2>8, <2>9 DEF CallStep
<1> QED BY <1>1, <1>2, <1>3 DEF Next, vars, callVars

\* A parent that is given an answer of its subagent has been given all of it:
\* none of the subagent's calls is waiting for a consent, then or later
\* (delegate, the __interrupt__ branch).
THEOREM PausesReachTheParent == Spec => []PausesAreReported
<1>1. Init => ReportInv
      BY DEF Init, ReportInv, Reported
<1>2. ReportInv => PausesAreReported
      BY DEF ReportInv, Reported, PausesAreReported, HasPaused, CallsOf
<1> QED BY <1>1, <1>2, StepReports, Invariance, PTL DEF Spec
=============================================================================
