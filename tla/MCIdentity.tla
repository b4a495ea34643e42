----------------------------- MODULE MCIdentity -----------------------------
\* Two turns and three tool calls; callers of two tenants with one subject, a
\* channel without principals, a schedule and the anonymous HTTP caller.
EXTENDS Identity, TLC

CONSTANTS t1, t2, c1, c2, c3, s1

User(tenant, exchanged, claims) ==
    [tenant |-> tenant, exchanged |-> exchanged, claims |-> claims,
     subject |-> "user", broker |-> FALSE]

Roles(S) == [list |-> TRUE, items |-> S]
Scalar(i) == [list |-> FALSE, items |-> {i}]

FirstUser == User("one", TRUE, "roles" :> Roles({"reader", "writer"}) @@ "tier" :> Scalar("reader"))
SecondUser == User("two", FALSE, "roles" :> Roles({"reader"}))

MCRequests ==
    {"roles" :> Roles({"reader", "admin"}),
     "tier" :> Scalar("admin") @@ "roles" :> Roles({"writer"})}
MCApp == [User("none", FALSE, "roles" :> Roles({})) EXCEPT !.subject = "app"]
MCAnonymous == [User("none", FALSE, << >>) EXCEPT !.subject = "anonymous"]
MCChannelCallers == {FirstUser, SecondUser, None}
MCConfigs ==
    {[broker |-> "oauth_store", auth |-> "declarative"],
     [broker |-> "token_exchange", auth |-> "get_token"],
     [broker |-> "static", auth |-> "shared"]}
NameSymmetry == Permutations(Calls) \cup Permutations(Turns)
=============================================================================
