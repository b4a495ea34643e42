SPECIFICATION Spec
CONSTANTS
    p = p
    q = q
    agent = agent
    first = first
    second = second
    linear = linear
    lib = lib
    root = root
    left = left
    right = right
    other = other
    None = None
    Projects = {p, q}
    Files = {agent, first, second, linear}
    Names = {"agent", "search", "post", "api", "linear", "get"}
    Libs = {lib}
    Order <- MCOrder
    Directory <- MCDirectory
    Agents = {agent}
    Named = {linear}
    Source <- MCSource
    Dotenv <- MCDotenv
    Toml <- MCToml
    Exports = {None, "memory"}
    Kinds = {"memory", "sqlite"}
    Modes <- MCModes
    MaxRoot = 10
    Elsewhere = {9}
    Nodes = {root, left, right, other}
    Tree <- MCTree
    NodeName <- MCNodeName
    Sandboxed = {left}
    Connections <- MCConnections
INVARIANTS
    LoadsAreFresh
    LoadsAreCoherent
    ProjectsStayApart
    ExportedWins
    NothingLeaks
    UsersGoFirst
    AgentsHaveTheirTools
    ToolNamesDiffer
CHECK_DEADLOCK FALSE
