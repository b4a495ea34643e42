----------------------------- MODULE MCAssembly -----------------------------
\* A project with two subagents of one name and a shared library, and a second
\* project in the same process, mounted as the tenth.
EXTENDS Assembly

CONSTANTS p, q, agent, first, second, linear, lib, root, left, right, other

Defines(names, uses) == [names |-> names, uses |-> uses, valid |-> TRUE]
Broken == [names |-> {}, uses |-> {}, valid |-> FALSE]

MCOrder == [x \in Projects |-> IF x = p THEN <<agent, first, second>> ELSE <<agent, linear>>]
MCDirectory == [f \in Files |-> CASE f = agent -> "agent" [] f = linear -> "connections"
                                  [] OTHER -> "tools"]
\* An edit breaks the first file, gives the second its neighbour's name, and
\* changes the library; two specs of linear.py would have one name.
MCEdits(f) ==
    CASE f = agent -> <<Defines({"agent"}, {})>>
      [] f = first -> <<Defines({"search"}, {lib}), Broken>>
      [] f = second -> <<Defines({"post"}, {lib}), Defines({"search"}, {lib})>>
      [] f = linear -> <<Defines({"api"}, {}), Defines({"api", "linear"}, {})>>
      [] f = lib -> <<Defines({}, {}), Defines({}, {})>>
\* Files a project has not got are not edited.
MCSource ==
    [x \in Projects |-> [f \in Files \cup Libs |->
        IF (x = p) <=> (f # linear) THEN MCEdits(f) ELSE <<Head(MCEdits(f))>>]]
MCDotenv == [x \in Projects |-> IF x = p THEN "sqlite" ELSE None]
MCToml == [x \in Projects |-> IF x = p THEN "memory" ELSE "unknown"]
\* Runtimes share nothing: the second project is loaded beside the first.
MCModes == [x \in Projects |-> IF x = p THEN {"serve", "eval"} ELSE {"build"}]
MCTree == [x \in Projects |-> IF x = p THEN <<root, left, right>> ELSE <<other>>]
MCNodeName == [n \in Nodes |-> IF n \in {left, right} THEN "helper" ELSE "agent"]
Get(suffixes) == [base |-> "get", suffixes |-> suffixes]
MCConnections ==
    [n \in Nodes |-> IF n = root THEN
        <<[name |-> "api", operations |-> <<Get(<<>>), Get(<<2>>), Get(<<>>), Get(<<2>>), Get(<<>>)>>],
          [name |-> "linear", operations |-> <<Get(<<>>)>>]>>
     ELSE <<>>]
=============================================================================
