--------------------------- MODULE AssemblyProofs ---------------------------
(* Loads and runtimes, for any projects, files, edits and agent trees, and   *)
(* the names of the tools their agents get.                                  *)
EXTENDS Assembly, FiniteSetTheorems, WellFoundedInduction, TLAPS

(* The names of connection tools.                                            *)
OpNames == [base : Names, suffixes : Seq(Nat)]

\* Every nonempty set of naturals has a least member.
LEMMA Least ==
  ASSUME NEW T \in SUBSET Nat, T # {}
  PROVE  \E n \in T : \A m \in T : n <= m
<1> DEFINE R == {ss \in Nat \X Nat : ss[1] < ss[2]}
<1>1. IsWellFoundedOn(R, Nat)
  BY NatLessThanWellFounded DEF OpToRel
<1>2. \A x, y \in Nat : y < x => <<y, x>> \in R
  OBVIOUS
<1> HIDE DEF R
<1>3. PICK x \in T : \A y \in T : ~ (<<y, x>> \in R)
  BY <1>1, WFMin
<1>4. \A m \in T : ~ (m < x)
  BY <1>2, <1>3
<1>5. \A m \in T : x <= m
  BY <1>4
<1> QED
  BY <1>5

\* Names with different suffixes differ.
LEMMA SuffixesDiffer ==
  ASSUME NEW name \in OpNames, NEW j \in Nat, NEW k \in Nat
  PROVE  /\ Suffixed(name, k) \in OpNames
         /\ Suffixed(name, j) = Suffixed(name, k) => j = k
<1>1. name.suffixes \in Seq(Nat) /\ \A i : Suffixed(name, i).suffixes = Append(name.suffixes, i)
  BY DEF OpNames, Suffixed
<1>2. \A i \in Nat : /\ Append(name.suffixes, i) \in Seq(Nat)
                     /\ Append(name.suffixes, i)[Len(name.suffixes) + 1] = i
  BY <1>1
<1>3. Suffixed(name, k) \in OpNames
  BY <1>1, <1>2 DEF OpNames, Suffixed
<1> QED
  BY <1>1, <1>2, <1>3

\* Of one suffix more than there are names, one is free.
LEMMA SomeSuffixIsFree ==
  ASSUME NEW name \in OpNames, NEW seen, IsFiniteSet(seen)
  PROVE  \E k \in 2 .. (Cardinality(seen) + 2) : Suffixed(name, k) \notin seen
<1> DEFINE n == Cardinality(seen)
           S == 2 .. (n + 2)
           f == [k \in S |-> Suffixed(name, k)]
<1>1. n \in Nat
  BY FS_CardinalityType
<1> HIDE DEF n
<1>2. IsFiniteSet(S) /\ Cardinality(S) = n + 1 /\ S \subseteq Nat
  BY <1>1, FS_Interval
<1> SUFFICES ASSUME \A k \in S : Suffixed(name, k) \in seen PROVE FALSE
  BY DEF n
<1>3. f \in [S -> seen]
  OBVIOUS
<1>4. n < Cardinality(S)
  BY <1>1, <1>2
<1> HIDE DEF f, S
<1>5. PICK j, k \in S : j # k /\ f[j] = f[k]
  BY <1>2, <1>3, <1>4, FS_PigeonHole DEF n
<1>6. f[j] = Suffixed(name, j) /\ f[k] = Suffixed(name, k) /\ j \in Nat /\ k \in Nat
  BY <1>2, <1>5 DEF f
<1> QED
  BY <1>5, <1>6, SuffixesDiffer

\* The loop of _dedupe ends, and what it ends with is new.
LEMMA DedupedIsNew ==
  ASSUME NEW name \in OpNames, NEW seen, IsFiniteSet(seen)
  PROVE  Deduped(name, seen) \notin seen /\ Deduped(name, seen) \in OpNames
<1>1. CASE name \notin seen
  BY <1>1 DEF Deduped
<1>2. CASE name \in seen
  <2> DEFINE S == 2 .. (Cardinality(seen) + 2)
             First(k) == /\ Suffixed(name, k) \notin seen
                         /\ \A j \in 2 .. (k - 1) : Suffixed(name, j) \in seen
             T == {k \in S : Suffixed(name, k) \notin seen}
  <2>1. Cardinality(seen) \in Nat
    BY FS_CardinalityType
  <2>2. T # {} /\ T \in SUBSET Nat
    BY <2>1, SomeSuffixIsFree
  <2>3. PICK k \in T : \A m \in T : k <= m
    <3> HIDE DEF T
    <3> QED
      BY <2>2, Least
  <2>4. k \in S /\ First(k)
    <3>1. ASSUME NEW j \in 2 .. (k - 1) PROVE Suffixed(name, j) \in seen
      <4>1. j \in S /\ ~ (k <= j)
        BY <2>1, <2>3
      <4> QED
        BY <2>3, <4>1
    <3> QED
      BY <2>3, <3>1
  <2> DEFINE c == CHOOSE i \in S : First(i)
  <2>5. Deduped(name, seen) = Suffixed(name, c)
    BY <1>2 DEF Deduped
  <2>6. c \in S /\ First(c)
    <3> HIDE DEF S, First
    <3> QED
      BY <2>4
  <2>7. c \in Nat
    BY <2>1, <2>6
  <2> QED
    BY <2>5, <2>6, <2>7, SuffixesDiffer
<1> QED
  BY <1>1, <1>2

\* The equation that the names of the first n operations solve.
NamesSolve(g, operations, n) ==
  g = [i \in 1 .. n |-> Deduped(operations[i], {g[j] : j \in 1 .. (i - 1)})]

\* It can be solved: an operation looks only at those before it.
LEMMA NamesExist ==
  ASSUME NEW operations
  PROVE  \A n \in Nat : \E g : NamesSolve(g, operations, n)
<1> DEFINE T == {n \in Nat : \E g : NamesSolve(g, operations, n)}
<1>1. 0 \in T
  <2> DEFINE g == [i \in {} |-> 0]
  <2>1. g = [i \in 1 .. 0 |-> Deduped(operations[i], {g[j] : j \in 1 .. (i - 1)})]
    OBVIOUS
  <2> QED
    BY <2>1 DEF NamesSolve
<1>2. ASSUME NEW n \in Nat, n \in T PROVE n + 1 \in T
  <2>1. PICK g : NamesSolve(g, operations, n)
    BY <1>2
  <2> DEFINE all == {g[j] : j \in 1 .. n}
             h == [i \in 1 .. (n + 1) |-> IF i = n + 1 THEN Deduped(operations[i], all) ELSE g[i]]
  <2>2. \A i \in 1 .. n : h[i] = g[i]
    OBVIOUS
  <2>3. \A i \in 1 .. (n + 1) : {h[j] : j \in 1 .. (i - 1)} = {g[j] : j \in 1 .. (i - 1)}
    <3>1. \A i \in 1 .. (n + 1) : 1 .. (i - 1) \subseteq 1 .. n
      OBVIOUS
    <3> HIDE DEF h
    <3> QED
      BY <2>2, <3>1
  <2>4. h[n + 1] = Deduped(operations[n + 1], {g[j] : j \in 1 .. ((n + 1) - 1)})
    OBVIOUS
  <2>5. \A i \in 1 .. n : g[i] = Deduped(operations[i], {g[j] : j \in 1 .. (i - 1)})
    BY <2>1 DEF NamesSolve
  <2>6. h = [i \in 1 .. (n + 1) |-> h[i]]
    OBVIOUS
  <2> HIDE DEF h
  <2>7. \A i \in 1 .. (n + 1) : h[i] = Deduped(operations[i], {h[j] : j \in 1 .. (i - 1)})
    <3>1. \A i \in 1 .. (n + 1) : i \in 1 .. n \/ i = n + 1
      OBVIOUS
    <3> QED
      BY <2>2, <2>3, <2>4, <2>5, <3>1
  <2>8. NamesSolve(h, operations, n + 1)
    BY <2>6, <2>7 DEF NamesSolve
  <2> QED
    BY <2>8
<1> HIDE DEF T
<1>3. \A n \in Nat : n \in T
  <2> SUFFICES ASSUME Nat \ T # {} PROVE FALSE
    OBVIOUS
  <2>1. PICK n \in Nat \ T : \A m \in Nat \ T : n <= m
    BY Least
  <2>2. n # 0 /\ n - 1 \in Nat
    BY <1>1
  <2>3. n - 1 \in T
    BY <2>1, <2>2
  <2> QED
    BY <1>2, <2>2, <2>3
<1> QED
  BY <1>3 DEF T

\* Finitely many names.
LEMMA FiniteImage ==
  ASSUME NEW g, NEW S, IsFiniteSet(S)
  PROVE  IsFiniteSet({g[k] : k \in S})
<1> DEFINE T == {g[k] : k \in S}
           f == [k \in S |-> g[k]]
<1>1. f \in [S -> T]
  OBVIOUS
<1>2. \A x \in T : \E k \in S : f[k] = x
  OBVIOUS
<1> HIDE DEF f, T
<1>3. f \in Surjection(S, T)
  BY <1>1, <1>2 DEF Surjection
<1>4. IsFiniteSet(T)
  BY <1>3, FS_Surjection
<1> QED
  BY <1>4 DEF T

\* No two operations of a connection get one name.
LEMMA OperationsDiffer ==
  ASSUME NEW operations \in Seq(OpNames)
  PROVE  /\ DOMAIN OpenApiNames(operations) = DOMAIN operations
         /\ IsInjective(OpenApiNames(operations))
<1> DEFINE names == OpenApiNames(operations)
           n == Len(operations)
<1>1. n \in Nat /\ DOMAIN operations = 1 .. n
  OBVIOUS
<1>2. names = CHOOSE g : g = [i \in DOMAIN operations |-> Deduped(operations[i], {g[j] : j \in 1 .. (i - 1)})]
  BY DEF OpenApiNames
<1>3. names = CHOOSE g : NamesSolve(g, operations, n)
  BY <1>1, <1>2 DEF NamesSolve
<1> HIDE DEF names, n
<1>4. NamesSolve(names, operations, n)
  BY <1>1, <1>3, NamesExist
<1>5. DOMAIN names = 1 .. n
  BY <1>4 DEF NamesSolve
<1>6. \A i \in 1 .. n : names[i] = Deduped(operations[i], {names[j] : j \in 1 .. (i - 1)})
  BY <1>4 DEF NamesSolve
<1>7. ASSUME NEW i \in 1 .. n, NEW j \in 1 .. n, j < i PROVE names[i] # names[j]
  <2> DEFINE S == 1 .. (i - 1)
             seen == {names[k] : k \in S}
  <2>1. i \in Nat /\ j \in Nat /\ j \in S
    BY <1>1, <1>7
  <2>2. IsFiniteSet(S)
    BY <2>1, FS_Interval
  <2>5. names[i] = Deduped(operations[i], seen)
    BY <1>6
  <2> HIDE DEF S
  <2>3. IsFiniteSet(seen)
    BY <2>2, FiniteImage
  <2>4. operations[i] \in OpNames
    BY <1>1
  <2>6. names[j] \in seen
    BY <2>1
  <2> HIDE DEF seen
  <2> QED
    BY <2>3, <2>4, <2>5, <2>6, DedupedIsNew
<1>8. ASSUME NEW i \in 1 .. n, NEW j \in 1 .. n, names[i] = names[j] PROVE i = j
  <2>1. i \in Nat /\ j \in Nat
    BY <1>1
  <2> QED
    BY <1>7, <1>8, <2>1
<1> QED
  BY <1>1, <1>5, <1>8 DEF IsInjective, names

\* No two tools of a node get one name.
LEMMA NamesDiffer ==
  ASSUME NEW n \in Nodes
  PROVE  IsInjective(ToolNames(n))
<1> DEFINE specs == Connections[n]
           names == [c \in DOMAIN specs |-> OpenApiNames(specs[c].operations)]
           tools == UNION {{c} \X DOMAIN names[c] : c \in DOMAIN specs}
<1>1. \A c, d \in DOMAIN specs : specs[c].name = specs[d].name => c = d
  BY ConnectionsAssumption DEF ConnectionsAssumption, IsInjective
<1>2. \A c \in DOMAIN specs : IsInjective(names[c])
  BY ConnectionsAssumption, OperationsDiffer DEF ConnectionsAssumption, OpNames
<1>3. ToolNames(n) = [t \in tools |-> <<specs[t[1]].name, names[t[1]][t[2]]>>]
  BY DEF ToolNames, Namespaced
<1> HIDE DEF specs, names
<1>4. ASSUME NEW t \in tools, NEW u \in tools, ToolNames(n)[t] = ToolNames(n)[u] PROVE t = u
  <2>1. /\ t[1] \in DOMAIN specs /\ t[2] \in DOMAIN names[t[1]] /\ t = <<t[1], t[2]>>
        /\ u[1] \in DOMAIN specs /\ u[2] \in DOMAIN names[u[1]] /\ u = <<u[1], u[2]>>
    OBVIOUS
  <2> HIDE DEF tools
  <2>2. specs[t[1]].name = specs[u[1]].name /\ names[t[1]][t[2]] = names[u[1]][u[2]]
    BY <1>3, <1>4
  <2>3. t[1] = u[1]
    BY <1>1, <2>1, <2>2
  <2>4. t[2] = u[2]
    BY <1>2, <2>1, <2>2, <2>3 DEF IsInjective
  <2> QED
    BY <2>1, <2>3, <2>4
<1> HIDE DEF tools
<1> QED
  BY <1>3, <1>4 DEF IsInjective

USE OrderAssumption, TreeAssumption DEF OrderAssumption, TreeAssumption

(* The loader: what is known of sys.modules is by root and file.             *)
Active(p) == pc[p] \notin {"off", "failed", "configured"}

LoaderTypes ==
    /\ disk \in [Projects -> [Files \cup Libs -> Nat]]
    /\ counter \in Nat
    /\ mounted \in [Projects -> Nat]
    /\ \A p \in Projects : \A x \in Files \cup Libs : disk[p][x] \in DOMAIN Source[p][x]
    /\ at \in [Projects -> Nat \ {0}]
    /\ DOMAIN pc = Projects /\ DOMAIN began = Projects
    /\ DOMAIN loaded = Projects /\ DOMAIN surfaces = Projects /\ DOMAIN config = Projects

RootsDiffer ==
    /\ \A p \in Projects : mounted[p] <= counter
    /\ \A p, q \in Projects : mounted[p] # 0 /\ mounted[p] = mounted[q] => p = q
    /\ \A p \in Projects : Active(p) => mounted[p] # 0

ModulesAreOwned ==
    \A m \in modules : /\ m.project \in Projects
                       /\ m.root = mounted[m.project] /\ m.root # 0
                       /\ m.file \in Files \cup Libs /\ m.version \in Nat

OneCopyPerFile == \A m, n \in modules : m.root = n.root /\ m.file = n.file => m = n

BoundAreModules == \A m \in modules : \A b \in m.bound : b \in modules /\ b.root = m.root

LoadedAreModules ==
    \A p \in Projects : \A s \in loaded[p] :
        s.module \in modules /\ s.module.root = mounted[p]

ModulesAreFresh ==
    \A p \in Projects : Active(p) =>
        /\ began[p] \in [Files \cup Libs -> Nat]
        /\ \A x \in Files \cup Libs : began[p][x] <= disk[p][x]
        /\ \A m \in modules : m.root = mounted[p] => began[p][m.file] <= m.version

LoaderInv ==
    /\ LoaderTypes /\ RootsDiffer /\ ModulesAreOwned /\ OneCopyPerFile
    /\ BoundAreModules /\ LoadedAreModules /\ ModulesAreFresh

EnvInv ==
    exported # None => env = exported /\ \A p \in Projects : config[p] \in {None, exported}

(* The runtime: the exit stack is the two backends, then sandboxes.          *)
NodesWalked(p) == {Tree[p][i] : i \in 1 .. walked[p]}

RuntimeTypes ==
    /\ DOMAIN pc = Projects /\ DOMAIN extra = Projects /\ DOMAIN graph = Projects
    /\ open \in [Projects -> SUBSET Resources]
    /\ stack \in [Projects -> Seq(Resources)]
    /\ walked \in [Projects -> Nat]
    /\ busy \in [Projects -> BOOLEAN]

StackOrder(s) ==
    /\ Len(s) >= 1 => s[1] = "checkpointer"
    /\ Len(s) >= 2 => s[2] = "store"
    /\ \A i \in 3 .. Len(s) : s[i] \in Nodes
    /\ \A i, j \in 1 .. Len(s) : s[i] = s[j] => i = j

Starting(p) == pc[p] \in {"loaded", "connected"}
Complete(p) == pc[p] \in {"walking", "serving", "draining"}

RuntimeOf(p) ==
    /\ StackOrder(stack[p])
    /\ open[p] = Range(stack[p]) \cup (IF pc[p] = "connected" THEN {NextBackend(p)} ELSE {})
    /\ ~HasRuntime(p) => stack[p] = <<>>
    /\ Starting(p) => Len(stack[p]) <= 1
    /\ Starting(p) /\ mode[p] = "build" => pc[p] = "loaded" /\ stack[p] = <<>>
    /\ ~(Complete(p) \/ pc[p] = "unwinding") => walked[p] = 0
    /\ Complete(p) =>
          /\ Len(stack[p]) >= 2
          /\ walked[p] <= Len(Tree[p])
          /\ NodesWalked(p) \cap Sandboxed \subseteq Range(stack[p])
          /\ \A i \in 3 .. Len(stack[p]) : stack[p][i] \in NodesWalked(p)
    /\ pc[p] \in {"serving", "draining"} => walked[p] = Len(Tree[p])
    /\ busy[p] => pc[p] \in {"serving", "draining"}

RuntimeInv == RuntimeTypes /\ \A p \in Projects : RuntimeOf(p)

(* The tools: what walk() has put into the mapping.                          *)
ToolsInv ==
    /\ DOMAIN extra = Projects /\ DOMAIN graph = Projects
    /\ \A p \in Projects :
          /\ pc[p] = "walking" => \A n \in NodesWalked(p) :
                n \in DOMAIN extra[p] /\ extra[p][n] = ToolsOf(n)
          /\ graph[p] # <<>> => \A n \in Range(Tree[p]) : graph[p][n] = ToolsOf(n)
-----------------------------------------------------------------------------
LEMMA LoaderInit == Init => LoaderInv /\ EnvInv
<1> SUFFICES ASSUME Init PROVE LoaderInv /\ EnvInv
  OBVIOUS
<1>1. \A p \in Projects : \A x \in Files \cup Libs : disk[p][x] = 1 /\ disk[p][x] \in DOMAIN Source[p][x]
  <2> SUFFICES ASSUME NEW p \in Projects, NEW x \in Files \cup Libs
               PROVE  1 \in DOMAIN Source[p][x]
    BY DEF Init
  <2> DEFINE S == [names : SUBSET Names, uses : SUBSET Libs, valid : BOOLEAN]
  <2>1. Source[p][x] \in Seq(S) /\ Source[p][x] # <<>>
    BY SourceAssumption DEF SourceAssumption
  <2> HIDE DEF S
  <2> QED
    BY <2>1
<1>2. LoaderTypes
  BY <1>1 DEF Init, LoaderTypes
<1>3. RootsDiffer /\ ModulesAreOwned /\ OneCopyPerFile /\ BoundAreModules
  BY DEF Init, RootsDiffer, Active, ModulesAreOwned, OneCopyPerFile, BoundAreModules
<1>4. LoadedAreModules /\ ModulesAreFresh
  BY DEF Init, LoadedAreModules, ModulesAreFresh, Active
<1>5. EnvInv
  BY DEF Init, EnvInv
<1> QED
  BY <1>2, <1>3, <1>4, <1>5 DEF LoaderInv

\* A load_config keeps what the environment has.
LEMMA ConfigureLoader ==
    ASSUME LoaderInv, EnvInv, NEW p \in Projects, Configure(p)
    PROVE  LoaderInv' /\ EnvInv'
<1>1. /\ pc' = [pc EXCEPT ![p] = IF config'[p] \in Kinds THEN "configured" ELSE "failed"]
      /\ DOMAIN pc = Projects /\ DOMAIN config = Projects
  BY DEF Configure, Goto, LoaderInv, LoaderTypes
<1>2. \A q \in Projects : Active(q)' => Active(q)
  BY <1>1 DEF Active
<1>3. LoaderTypes'
  BY <1>1 DEF Configure, LoaderInv, LoaderTypes
<1>4. RootsDiffer' /\ ModulesAreOwned' /\ OneCopyPerFile' /\ BoundAreModules'
  BY <1>2 DEF Configure, LoaderInv, RootsDiffer, ModulesAreOwned, OneCopyPerFile, BoundAreModules
<1>5. LoadedAreModules' /\ ModulesAreFresh'
  BY <1>2 DEF Configure, LoaderInv, LoadedAreModules, ModulesAreFresh
<1>6. EnvInv'
  <2> SUFFICES ASSUME exported # None
               PROVE  env' = exported /\ \A q \in Projects : config'[q] \in {None, exported}
    BY DEF EnvInv, Configure
  <2>1. env' = exported
    BY DEF EnvInv, Configure, WithDotenv
  <2>2. config' = [config EXCEPT ![p] = exported]
    BY <2>1 DEF Configure
  <2> QED
    BY <1>1, <2>1, <2>2 DEF EnvInv
<1> QED
  BY <1>3, <1>4, <1>5, <1>6 DEF LoaderInv

\* A fresh root is above every root there is; a known one loses its modules.
LEMMA MountLoader ==
    ASSUME LoaderInv, NEW p \in Projects, Mount(p)
    PROVE  LoaderInv'
<1> DEFINE r == RootOf(p)
<1>1. /\ pc' = [pc EXCEPT ![p] = "loading"] /\ DOMAIN pc = Projects
      /\ mounted' = [mounted EXCEPT ![p] = r] /\ mounted \in [Projects -> Nat]
      /\ counter \in Nat /\ disk' = disk
      /\ began' = [began EXCEPT ![p] = disk[p]] /\ DOMAIN began = Projects
      /\ loaded' = [loaded EXCEPT ![p] = {}] /\ DOMAIN loaded = Projects
  BY DEF Mount, Goto, LoaderInv, LoaderTypes
<1>2. r \in Nat /\ r # 0 /\ r <= counter' /\ counter' \in Nat /\ counter <= counter'
  BY <1>1 DEF Mount, RootOf, LoaderInv, RootsDiffer
<1>3. \A q \in Projects : q # p => mounted'[q] = mounted[q] /\ mounted[q] # r /\ mounted[q] <= counter
  BY <1>1 DEF RootOf, LoaderInv, RootsDiffer
<1>4. mounted'[p] = r
  BY <1>1
<1>5. modules' = {m \in modules : m.root # r}
  <2>1. CASE mounted[p] = 0
    <3>0. \A m \in modules : m.project \in Projects /\ m.root = mounted[m.project] /\ m.root # 0
      BY DEF LoaderInv, ModulesAreOwned
    <3>1. \A m \in modules : m.root # r
      BY <1>3, <2>1, <3>0
    <3> QED
      BY <2>1, <3>1 DEF Mount
  <2>2. CASE mounted[p] # 0
    BY <2>2 DEF Mount, Purge, RootOf
  <2> QED
    BY <2>1, <2>2
<1> HIDE DEF r
<1>6. \A m \in modules' : m \in modules /\ m.root # r /\ m.project # p
  BY <1>1, <1>2, <1>3, <1>4, <1>5 DEF LoaderInv, ModulesAreOwned, r, RootOf
<1>7. LoaderTypes'
  <2>1. at' \in [Projects -> Nat \ {0}] /\ mounted' \in [Projects -> Nat]
    BY <1>1, <1>2 DEF Mount, LoaderInv, LoaderTypes
  <2>2. DOMAIN surfaces' = Projects /\ DOMAIN config' = Projects
    BY DEF Mount, LoaderInv, LoaderTypes
  <2>3. \A q \in Projects : \A x \in Files \cup Libs : disk'[q][x] \in DOMAIN Source[q][x]
    BY <1>1 DEF LoaderInv, LoaderTypes
  <2> QED
    BY <1>1, <1>2, <2>1, <2>2, <2>3 DEF LoaderInv, LoaderTypes
<1>8. RootsDiffer'
  <2>1. \A q \in Projects : mounted'[q] <= counter'
    BY <1>1, <1>2, <1>3, <1>4
  <2>2. \A q, t \in Projects : mounted'[q] # 0 /\ mounted'[q] = mounted'[t] => q = t
    BY <1>3, <1>4 DEF LoaderInv, RootsDiffer
  <2>3. \A q \in Projects : Active(q)' => mounted'[q] # 0
    BY <1>1, <1>2, <1>3, <1>4 DEF LoaderInv, RootsDiffer, Active
  <2> QED
    BY <2>1, <2>2, <2>3 DEF RootsDiffer
<1>9. ModulesAreOwned' /\ OneCopyPerFile'
  BY <1>3, <1>6 DEF LoaderInv, ModulesAreOwned, OneCopyPerFile
<1>10. BoundAreModules'
  BY <1>5 DEF LoaderInv, BoundAreModules
<1>11. LoadedAreModules'
  BY <1>1, <1>3, <1>5 DEF LoaderInv, LoadedAreModules
<1>12. ModulesAreFresh'
  <2> SUFFICES ASSUME NEW q \in Projects, Active(q)'
               PROVE  /\ began'[q] \in [Files \cup Libs -> Nat]
                      /\ \A x \in Files \cup Libs : began'[q][x] <= disk[q][x]
                      /\ \A m \in modules' : m.root = mounted'[q] => began'[q][m.file] <= m.version
    BY <1>1 DEF ModulesAreFresh
  <2>1. CASE q = p
    <3>1. began'[q] = disk[q] /\ disk[q] \in [Files \cup Libs -> Nat]
      BY <1>1, <2>1 DEF LoaderInv, LoaderTypes
    <3> QED
      BY <1>4, <1>6, <2>1, <3>1
  <2>2. CASE q # p
    <3>1. Active(q) /\ began'[q] = began[q] /\ mounted'[q] = mounted[q]
      BY <1>1, <1>3, <2>2 DEF Active
    <3> QED
      BY <1>6, <3>1 DEF LoaderInv, ModulesAreFresh
  <2> QED
    BY <2>1, <2>2
<1> QED
  BY <1>7, <1>8, <1>9, <1>10, <1>11, <1>12 DEF LoaderInv
\* Steps that change nothing a module or a load depends on.
LEMMA QuietLoader ==
    ASSUME LoaderInv, UNCHANGED <<disk, mounted, modules, began, loaded, at, config, surfaces>>,
           counter' \in Nat, counter <= counter', DOMAIN pc' = Projects,
           \A q \in Projects : Active(q)' => Active(q)
    PROVE  LoaderInv'
<1>1. LoaderTypes'
  BY DEF LoaderInv, LoaderTypes
<1>2. RootsDiffer'
  <2>1. \A q \in Projects : mounted[q] <= counter /\ mounted[q] \in Nat /\ counter \in Nat
    BY DEF LoaderInv, RootsDiffer, LoaderTypes
  <2>2. \A q \in Projects : mounted'[q] <= counter'
    BY <2>1
  <2> QED
    BY <2>2 DEF LoaderInv, RootsDiffer
<1>3. ModulesAreOwned' /\ OneCopyPerFile' /\ BoundAreModules' /\ LoadedAreModules'
  BY DEF LoaderInv, ModulesAreOwned, OneCopyPerFile, BoundAreModules, LoadedAreModules
<1>4. ModulesAreFresh'
  BY DEF LoaderInv, ModulesAreFresh
<1> QED
  BY <1>1, <1>2, <1>3, <1>4 DEF LoaderInv

\* A load, or a runtime, is given up.
LEMMA ForgetLoader ==
    ASSUME LoaderInv, NEW p \in Projects, Forget(p),
           UNCHANGED <<disk, counter, mounted, modules, config>>,
           DOMAIN pc' = Projects, ~Active(p)',
           \A q \in Projects : Active(q)' => Active(q)
    PROVE  LoaderInv'
<1>1. LoaderTypes'
  <2>1. at' \in [Projects -> Nat \ {0}]
    BY DEF Forget, LoaderInv, LoaderTypes
  <2>2. /\ DOMAIN began' = Projects /\ DOMAIN loaded' = Projects
        /\ DOMAIN surfaces' = Projects
    BY DEF Forget, LoaderInv, LoaderTypes
  <2> QED
    BY <2>1, <2>2 DEF LoaderInv, LoaderTypes
<1>2. RootsDiffer' /\ ModulesAreOwned' /\ OneCopyPerFile' /\ BoundAreModules'
  BY DEF LoaderInv, RootsDiffer, ModulesAreOwned, OneCopyPerFile, BoundAreModules
<1>3. LoadedAreModules'
  BY DEF Forget, LoaderInv, LoaderTypes, LoadedAreModules
<1>4. ModulesAreFresh'
  BY DEF Forget, LoaderInv, LoaderTypes, ModulesAreFresh
<1> QED
  BY <1>1, <1>2, <1>3, <1>4 DEF LoaderInv

LEMMA EditLoader ==
    ASSUME LoaderInv, NEW p \in Projects, NEW x \in Files \cup Libs, Edit(p, x)
    PROVE  LoaderInv'
<1>1. /\ disk' = [disk EXCEPT ![p][x] = @ + 1]
      /\ disk \in [Projects -> [Files \cup Libs -> Nat]]
      /\ disk[p][x] \in Nat /\ disk[p][x] < Len(Source[p][x])
  <2>1. disk \in [Projects -> [Files \cup Libs -> Nat]]
    BY DEF LoaderInv, LoaderTypes
  <2>2. disk[p][x] \in Nat
    BY <2>1
  <2> QED
    BY <2>1, <2>2 DEF Edit
<1>2. \A q \in Projects : \A y \in Files \cup Libs :
         /\ disk[q][y] \in Nat /\ disk'[q][y] \in Nat /\ disk[q][y] <= disk'[q][y]
         /\ disk'[q][y] \in DOMAIN Source[q][y]
  <2> SUFFICES ASSUME NEW q \in Projects, NEW y \in Files \cup Libs
               PROVE  /\ disk[q][y] \in Nat /\ disk'[q][y] \in Nat /\ disk[q][y] <= disk'[q][y]
                      /\ disk'[q][y] \in DOMAIN Source[q][y]
    OBVIOUS
  <2>1. disk[q][y] \in Nat /\ disk[q][y] \in DOMAIN Source[q][y]
    BY DEF LoaderInv, LoaderTypes
  <2>2. CASE q = p /\ y = x
    <3> DEFINE S == [names : SUBSET Names, uses : SUBSET Libs, valid : BOOLEAN]
    <3>1. Source[p][x] \in Seq(S)
      BY SourceAssumption DEF SourceAssumption
    <3> HIDE DEF S
    <3>2. disk'[q][y] = disk[p][x] + 1
      BY <1>1, <2>2
    <3> QED
      BY <1>1, <2>1, <2>2, <3>1, <3>2
  <2>3. CASE ~(q = p /\ y = x)
    <3>1. disk'[q][y] = disk[q][y]
      BY <1>1, <2>3
    <3> QED
      BY <2>1, <3>1
  <2> QED
    BY <2>2, <2>3
<1>3. disk' \in [Projects -> [Files \cup Libs -> Nat]]
  <2>1. disk[p][x] + 1 \in Nat
    BY <1>1
  <2>2. [disk[p] EXCEPT ![x] = disk[p][x] + 1] \in [Files \cup Libs -> Nat]
    BY <1>1, <2>1
  <2>3. disk' = [disk EXCEPT ![p] = [disk[p] EXCEPT ![x] = disk[p][x] + 1]]
    BY <1>1
  <2> QED
    BY <1>1, <2>2, <2>3
<1>4. LoaderTypes'
  BY <1>2, <1>3 DEF Edit, LoaderInv, LoaderTypes
<1>5. RootsDiffer' /\ ModulesAreOwned' /\ OneCopyPerFile' /\ BoundAreModules' /\ LoadedAreModules'
  BY DEF Edit, LoaderInv, RootsDiffer, ModulesAreOwned, OneCopyPerFile, BoundAreModules,
         LoadedAreModules, Active
<1>6. ModulesAreFresh'
  <2> SUFFICES ASSUME NEW q \in Projects, Active(q)
               PROVE  /\ began[q] \in [Files \cup Libs -> Nat]
                      /\ \A y \in Files \cup Libs : began[q][y] <= disk'[q][y]
                      /\ \A m \in modules : m.root = mounted[q] => began[q][m.file] <= m.version
    BY DEF Edit, ModulesAreFresh, Active
  <2>1. began[q] \in [Files \cup Libs -> Nat] /\ \A y \in Files \cup Libs : began[q][y] <= disk[q][y]
    BY DEF LoaderInv, ModulesAreFresh
  <2>2. \A y \in Files \cup Libs : began[q][y] \in Nat
    BY <2>1
  <2>3. ASSUME NEW y \in Files \cup Libs PROVE began[q][y] <= disk'[q][y]
    <3>1. /\ began[q][y] \in Nat /\ disk[q][y] \in Nat /\ disk'[q][y] \in Nat
          /\ began[q][y] <= disk[q][y] /\ disk[q][y] <= disk'[q][y]
      BY <1>2, <2>1, <2>2
    <3> QED
      BY <3>1
  <2> QED
    BY <2>1, <2>3 DEF LoaderInv, ModulesAreFresh
<1> QED
  BY <1>4, <1>5, <1>6 DEF LoaderInv
-----------------------------------------------------------------------------
(* What an import adds to sys.modules, all of it below the root of p.        *)
Added(p, N) ==
    /\ \A k \in N : \/ k \in modules /\ k.root = mounted[p]
                    \/ /\ k.root = mounted[p] /\ k.project = p
                       /\ k.file \in Files \cup Libs /\ k.version = disk[p][k.file]
                       /\ Entry(p, k.file) = {}
    /\ \A k, l \in N : k.file = l.file => k = l
    /\ \A k \in N : \A b \in k.bound : b \in modules \cup N /\ b.root = k.root

LEMMA AddedModules ==
    ASSUME LoaderInv, NEW p \in Projects, pc[p] = "loading", NEW N, Added(p, N),
           modules' = modules \cup N, UNCHANGED <<disk, mounted, counter, config>>
    PROVE  /\ ModulesAreOwned' /\ OneCopyPerFile' /\ BoundAreModules'
           /\ \A q \in Projects : Active(q) /\ began'[q] = began[q] =>
                 /\ began'[q] \in [Files \cup Libs -> Nat]
                 /\ \A x \in Files \cup Libs : began'[q][x] <= disk'[q][x]
                 /\ \A m \in modules' : m.root = mounted'[q] => began'[q][m.file] <= m.version
<1>1. mounted[p] # 0 /\ Active(p)
  BY DEF LoaderInv, RootsDiffer, Active
<1>2. ModulesAreOwned'
  <2> SUFFICES ASSUME NEW k \in N, k \notin modules
               PROVE  /\ k.project \in Projects /\ k.root = mounted[k.project] /\ k.root # 0
                      /\ k.file \in Files \cup Libs /\ k.version \in Nat
    BY DEF LoaderInv, ModulesAreOwned
  <2>1. /\ k.root = mounted[p] /\ k.project = p
        /\ k.file \in Files \cup Libs /\ k.version = disk[p][k.file]
    BY DEF Added
  <2>2. disk[p][k.file] \in Nat
    BY <2>1 DEF LoaderInv, LoaderTypes
  <2> QED
    BY <1>1, <2>1, <2>2
<1>3. OneCopyPerFile'
  <2> SUFFICES ASSUME NEW m \in modules', NEW n \in modules', m.root = n.root, m.file = n.file
               PROVE  m = n
    BY DEF OneCopyPerFile
  <2>1. CASE m \in modules /\ n \in modules
    BY <2>1 DEF LoaderInv, OneCopyPerFile
  <2>2. CASE m \in N /\ n \in N
    BY <2>2 DEF Added
  <2>3. CASE m \in modules /\ n \in N /\ n \notin modules
    BY <2>3 DEF Added, Entry
  <2>4. CASE n \in modules /\ m \in N /\ m \notin modules
    BY <2>4 DEF Added, Entry
  <2> QED
    BY <2>1, <2>2, <2>3, <2>4
<1>4. BoundAreModules'
  BY DEF LoaderInv, BoundAreModules, Added
<1>5. ASSUME NEW q \in Projects, Active(q), began'[q] = began[q]
      PROVE  /\ began'[q] \in [Files \cup Libs -> Nat]
             /\ \A x \in Files \cup Libs : began'[q][x] <= disk'[q][x]
             /\ \A m \in modules' : m.root = mounted'[q] => began'[q][m.file] <= m.version
  <2>1. /\ began[q] \in [Files \cup Libs -> Nat]
        /\ \A x \in Files \cup Libs : began[q][x] <= disk[q][x]
        /\ \A m \in modules : m.root = mounted[q] => began[q][m.file] <= m.version
    BY <1>5 DEF LoaderInv, ModulesAreFresh
  <2>2. ASSUME NEW m \in N, m \notin modules, m.root = mounted[q] PROVE began[q][m.file] <= m.version
    <3>1. /\ m.root = mounted[p] /\ m.file \in Files \cup Libs /\ m.version = disk[p][m.file]
      BY <2>2 DEF Added
    <3>2. q = p
      BY <1>1, <2>2, <3>1 DEF LoaderInv, RootsDiffer
    <3> QED
      BY <2>1, <3>1, <3>2
  <2> QED
    BY <1>5, <2>1, <2>2
<1> QED
  BY <1>2, <1>3, <1>4, <1>5

LEMMA ContentUsesLibs ==
    ASSUME LoaderInv, NEW p \in Projects, NEW x \in Files
    PROVE  Content(p, x).uses \subseteq Libs
<1> DEFINE S == [names : SUBSET Names, uses : SUBSET Libs, valid : BOOLEAN]
<1>1. Source[p][x] \in Seq(S) /\ disk[p][x] \in DOMAIN Source[p][x]
  BY SourceAssumption DEF SourceAssumption, LoaderInv, LoaderTypes
<1>2. Content(p, x) \in S
  <2> HIDE DEF S
  <2> QED
    BY <1>1 DEF Content
<1> QED
  BY <1>2

\* The library an import binds is the entry there is, or its own execution.
LEMMA LibModules ==
    ASSUME LoaderInv, NEW p \in Projects, NEW l \in Libs
    PROVE  /\ LibModule(p, l).file = l /\ LibModule(p, l).root = mounted[p]
           /\ \/ LibModule(p, l) \in modules
              \/ /\ Entry(p, l) = {} /\ LibModule(p, l).project = p
                 /\ LibModule(p, l).version = disk[p][l] /\ LibModule(p, l).bound = {}
<1>1. CASE Entry(p, l) # {}
  <2>1. LibModule(p, l) \in Entry(p, l)
    BY <1>1 DEF LibModule
  <2> QED
    BY <2>1 DEF Entry
<1>2. CASE Entry(p, l) = {}
  <2>1. LibModule(p, l) = Executed(p, l, {})
    BY <1>2 DEF LibModule
  <2> QED
    BY <1>2, <2>1 DEF Executed
<1> QED
  BY <1>1, <1>2

LEMMA FileModules ==
    ASSUME LoaderInv, NEW p \in Projects, NEW f \in Files
    PROVE  /\ Added(p, {FileModule(p, f)} \cup FileModule(p, f).bound)
           /\ FileModule(p, f).root = mounted[p]
<1> DEFINE m == FileModule(p, f)
           N == {m} \cup m.bound
<1>1. CASE Entry(p, f) # {}
  <2>1. m \in modules /\ m.root = mounted[p]
    <3>1. m \in Entry(p, f)
      BY <1>1 DEF FileModule
    <3> QED
      BY <3>1 DEF Entry
  <2> HIDE DEF m
  <2>2. \A k \in N : k \in modules /\ k.root = mounted[p]
    BY <2>1 DEF LoaderInv, BoundAreModules
  <2>3. \A k \in N : \A b \in k.bound : b \in modules /\ b.root = k.root
    BY <2>2 DEF LoaderInv, BoundAreModules
  <2>4. \A k, l \in N : k.file = l.file => k = l
    BY <2>2 DEF LoaderInv, OneCopyPerFile
  <2>5. Added(p, N)
    BY <2>2, <2>3, <2>4 DEF Added
  <2> QED
    BY <2>1, <2>5 DEF m
<1>2. CASE Entry(p, f) = {}
  <2> DEFINE L == Content(p, f).uses
             B == {LibModule(p, l) : l \in L}
  <2>1. L \subseteq Libs
    BY ContentUsesLibs
  <2>2. /\ m.root = mounted[p] /\ m.file = f /\ m.project = p
        /\ m.version = disk[p][f] /\ m.bound = B
    BY <1>2 DEF FileModule, Executed
  <2> HIDE DEF m, L
  <2>3. \A b \in B : /\ b.file \in Libs /\ b.root = mounted[p]
                     /\ \/ b \in modules
                        \/ /\ Entry(p, b.file) = {} /\ b.project = p
                           /\ b.version = disk[p][b.file] /\ b.bound = {}
    <3> SUFFICES ASSUME NEW l \in L
                 PROVE  LET b == LibModule(p, l)
                        IN  /\ b.file \in Libs /\ b.root = mounted[p]
                            /\ \/ b \in modules
                               \/ /\ Entry(p, b.file) = {} /\ b.project = p
                                  /\ b.version = disk[p][b.file] /\ b.bound = {}
      OBVIOUS
    <3>1. l \in Libs
      BY <2>1
    <3> QED
      BY <3>1, LibModules
  <2>4. \A b, c \in B : b.file = c.file => b = c
    <3> SUFFICES ASSUME NEW l \in L, NEW k \in L, LibModule(p, l).file = LibModule(p, k).file
                 PROVE  LibModule(p, l) = LibModule(p, k)
      OBVIOUS
    <3>1. l \in Libs /\ k \in Libs
      BY <2>1
    <3>2. LibModule(p, l).file = l /\ LibModule(p, k).file = k
      BY <3>1, LibModules
    <3> QED
      BY <3>2
  <2> HIDE DEF B
  <2>5. \A k \in N : \/ k \in modules /\ k.root = mounted[p]
                    \/ /\ k.root = mounted[p] /\ k.project = p
                       /\ k.file \in Files \cup Libs /\ k.version = disk[p][k.file]
                       /\ Entry(p, k.file) = {}
    BY <1>2, <2>2, <2>3
  <2>6. \A k, l \in N : k.file = l.file => k = l
    BY <2>2, <2>3, <2>4
  <2>7. \A k \in N : \A b \in k.bound : b \in modules \cup N /\ b.root = k.root
    <3> SUFFICES ASSUME NEW k \in N, NEW b \in k.bound PROVE b \in modules \cup N /\ b.root = k.root
      OBVIOUS
    <3>1. CASE k = m
      BY <2>2, <2>3, <3>1
    <3>2. CASE k \in B
      BY <2>3, <3>2 DEF LoaderInv, BoundAreModules
    <3> QED
      BY <2>2, <3>1, <3>2
  <2>8. Added(p, N)
    BY <2>5, <2>6, <2>7 DEF Added
  <2> QED
    BY <2>2, <2>8 DEF m
<1> QED
  BY <1>1, <1>2
LEMMA ImportLoader ==
    ASSUME LoaderInv, NEW p \in Projects, Import(p)
    PROVE  LoaderInv'
<1> DEFINE f == Current(p)
           m == FileModule(p, f)
           N == {m} \cup m.bound
<1>1. f \in Files
  <2>1. at[p] \in Nat \ {0} /\ at[p] <= Len(Order[p])
    BY DEF Import, LoaderInv, LoaderTypes
  <2>2. Order[p] \in Seq(Files)
    OBVIOUS
  <2> QED
    BY <2>1, <2>2 DEF Current
<1>2. Added(p, N) /\ m.root = mounted[p]
  BY <1>1, FileModules
<1>3. /\ modules' = modules \cup N /\ pc[p] = "loading"
      /\ UNCHANGED <<disk, mounted, counter, config>>
  BY DEF Import
<1>4. \A s \in Collected(m) : s.module = m
  BY DEF Collected
<1>5. \/ Goto(p, "failed") /\ Forget(p)
      \/ /\ loaded' = [loaded EXCEPT ![p] = @ \cup Collected(m)]
         /\ at' = [at EXCEPT ![p] = @ + 1]
         /\ UNCHANGED <<pc, began, surfaces>>
  BY DEF Import
<1> HIDE DEF m, f
<1>6. DOMAIN pc = Projects /\ DOMAIN pc' = Projects
  BY <1>5 DEF Goto, LoaderInv, LoaderTypes
<1>7. \A q \in Projects : Active(q)' => Active(q) /\ began'[q] = began[q]
  BY <1>5, <1>6 DEF Goto, Forget, Active, LoaderInv, LoaderTypes
<1>8. LoaderTypes'
  <2>1. at' \in [Projects -> Nat \ {0}]
    <3>1. at \in [Projects -> Nat \ {0}] /\ at[p] + 1 \in Nat \ {0}
      BY DEF LoaderInv, LoaderTypes
    <3>2. CASE Forget(p)
      BY <3>1, <3>2 DEF Forget
    <3>3. CASE at' = [at EXCEPT ![p] = at[p] + 1]
      BY <3>1, <3>3
    <3> QED
      BY <1>5, <3>2, <3>3
  <2>2. DOMAIN began' = Projects /\ DOMAIN loaded' = Projects /\ DOMAIN surfaces' = Projects
    BY <1>5 DEF Forget, LoaderInv, LoaderTypes
  <2> QED
    BY <1>3, <1>6, <2>1, <2>2 DEF LoaderInv, LoaderTypes
<1>9. RootsDiffer'
  BY <1>3, <1>7 DEF LoaderInv, RootsDiffer
<1>10. LoadedAreModules'
  <2>1. CASE Forget(p)
    BY <1>3, <2>1 DEF Forget, LoaderInv, LoaderTypes, LoadedAreModules
  <2>2. CASE loaded' = [loaded EXCEPT ![p] = @ \cup Collected(m)]
    <3> SUFFICES ASSUME NEW q \in Projects, NEW s \in loaded'[q]
                 PROVE  s.module \in modules' /\ s.module.root = mounted[q]
      BY <1>3 DEF LoadedAreModules
    <3>1. CASE s \in loaded[q]
      BY <1>3, <3>1 DEF LoaderInv, LoadedAreModules
    <3>2. CASE s \notin loaded[q]
      <4>1. q = p /\ s \in Collected(m)
        BY <2>2, <3>2 DEF LoaderInv, LoaderTypes
      <4> QED
        BY <1>2, <1>3, <1>4, <4>1
    <3> QED
      BY <3>1, <3>2
  <2> QED
    BY <1>5, <2>1, <2>2
<1>11. ModulesAreOwned' /\ OneCopyPerFile' /\ BoundAreModules' /\ ModulesAreFresh'
  <2> HIDE DEF N
  <2>1. /\ ModulesAreOwned' /\ OneCopyPerFile' /\ BoundAreModules'
        /\ \A q \in Projects : Active(q) /\ began'[q] = began[q] =>
             /\ began'[q] \in [Files \cup Libs -> Nat]
             /\ \A x \in Files \cup Libs : began'[q][x] <= disk'[q][x]
             /\ \A k \in modules' : k.root = mounted'[q] => began'[q][k.file] <= k.version
    BY <1>2, <1>3, AddedModules
  <2>2. ModulesAreFresh'
    BY <1>7, <2>1 DEF ModulesAreFresh
  <2> QED
    BY <2>1, <2>2
<1> QED
  BY <1>8, <1>9, <1>10, <1>11 DEF LoaderInv

LEMMA ImportFailsLoader ==
    ASSUME LoaderInv, NEW p \in Projects, ImportFails(p)
    PROVE  LoaderInv'
<1>1. PICK S \in SUBSET {l \in FreshLibs(p, Current(p)) : Content(p, l).valid} :
         modules' = modules \cup {Executed(p, l, {}) : l \in S}
  BY DEF ImportFails
<1> DEFINE N == {Executed(p, l, {}) : l \in S}
<1>2. Current(p) \in Files
  <2>1. at[p] \in Nat \ {0} /\ at[p] <= Len(Order[p])
    BY DEF ImportFails, LoaderInv, LoaderTypes
  <2>2. Order[p] \in Seq(Files)
    OBVIOUS
  <2> QED
    BY <2>1, <2>2 DEF Current
<1>3. \A l \in S : l \in Libs /\ Entry(p, l) = {}
  BY <1>2, ContentUsesLibs DEF FreshLibs
<1>4. Added(p, N)
  <2>1. \A k \in N : /\ k.root = mounted[p] /\ k.project = p
                     /\ k.file \in Libs /\ k.version = disk[p][k.file]
                     /\ Entry(p, k.file) = {} /\ k.bound = {}
    BY <1>3 DEF Executed
  <2>2. \A k, l \in N : k.file = l.file => k = l
    <3> SUFFICES ASSUME NEW k \in S, NEW l \in S, Executed(p, k, {}).file = Executed(p, l, {}).file
                 PROVE  Executed(p, k, {}) = Executed(p, l, {})
      OBVIOUS
    <3>1. k = l
      BY DEF Executed
    <3> QED
      BY <3>1
  <2> HIDE DEF N
  <2> QED
    BY <2>1, <2>2 DEF Added
<1>5. /\ modules' = modules \cup N /\ pc[p] = "loading" /\ Forget(p)
      /\ pc' = [pc EXCEPT ![p] = "failed"] /\ DOMAIN pc = Projects
      /\ UNCHANGED <<disk, mounted, counter, config>>
  BY <1>1 DEF ImportFails, Goto, LoaderInv, LoaderTypes
<1> HIDE DEF N
<1>6. \A q \in Projects : Active(q)' => Active(q) /\ began'[q] = began[q]
  BY <1>5 DEF Forget, Active, LoaderInv, LoaderTypes
<1>7. LoaderTypes'
  <2>1. at' \in [Projects -> Nat \ {0}]
    BY <1>5 DEF Forget, LoaderInv, LoaderTypes
  <2>2. DOMAIN began' = Projects /\ DOMAIN loaded' = Projects /\ DOMAIN surfaces' = Projects
    BY <1>5 DEF Forget, LoaderInv, LoaderTypes
  <2> QED
    BY <1>5, <2>1, <2>2 DEF LoaderInv, LoaderTypes
<1>8. RootsDiffer'
  BY <1>5, <1>6 DEF LoaderInv, RootsDiffer
<1>9. LoadedAreModules'
  BY <1>5 DEF Forget, LoaderInv, LoaderTypes, LoadedAreModules
<1>10. ModulesAreOwned' /\ OneCopyPerFile' /\ BoundAreModules' /\ ModulesAreFresh'
  <2>1. /\ ModulesAreOwned' /\ OneCopyPerFile' /\ BoundAreModules'
        /\ \A q \in Projects : Active(q) /\ began'[q] = began[q] =>
             /\ began'[q] \in [Files \cup Libs -> Nat]
             /\ \A x \in Files \cup Libs : began'[q][x] <= disk'[q][x]
             /\ \A k \in modules' : k.root = mounted'[q] => began'[q][k.file] <= k.version
    BY <1>4, <1>5, AddedModules
  <2>2. ModulesAreFresh'
    BY <1>6, <2>1 DEF ModulesAreFresh
  <2> QED
    BY <2>1, <2>2
<1> QED
  BY <1>7, <1>8, <1>9, <1>10 DEF LoaderInv

\* The runtime reads what the loader has left.
LEMMA RuntimeLoader ==
    ASSUME LoaderInv, NEW p \in Projects, RuntimeStep(p)
    PROVE  LoaderInv'
<1>0. DOMAIN pc = Projects /\ counter \in Nat
  BY DEF LoaderInv, LoaderTypes
<1>1. ASSUME Stay, DOMAIN pc' = Projects, \A q \in Projects : Active(q)' => Active(q)
      PROVE  LoaderInv'
  BY <1>0, <1>1, QuietLoader DEF Stay, loaderVars
<1>2. CASE Inspect(p) \/ Unwound(p)
  <2>1. PICK where \in {"off", "failed", "configured"} : pc' = [pc EXCEPT ![p] = where]
    BY <1>2 DEF Inspect, Unwound, Goto
  <2>2. ~Active(p)' /\ DOMAIN pc' = Projects /\ \A q \in Projects : Active(q)' => Active(q)
    BY <1>0, <2>1 DEF Active
  <2>3. Forget(p) /\ UNCHANGED <<disk, counter, mounted, modules, config>>
    BY <1>2 DEF Inspect, Unwound, Forgets
  <2> QED
    BY <2>2, <2>3, ForgetLoader
<1>3. ASSUME Stay, UNCHANGED pc PROVE LoaderInv'
  BY <1>0, <1>1, <1>3 DEF Active
<1>4. ASSUME Stay, Active(p), NEW where, pc' = [pc EXCEPT ![p] = where] PROVE LoaderInv'
  BY <1>0, <1>1, <1>4 DEF Active
<1>5. CASE WalkNode(p) \/ BeginTurn(p) \/ EndTurn(p) \/ Unwind(p)
  BY <1>3, <1>5 DEF WalkNode, BeginTurn, EndTurn, Unwind
<1>6. CASE Connect(p) \/ ConnectFails(p) \/ SetUp(p) \/ SetUpFails(p)
  BY <1>4, <1>6 DEF Connect, ConnectFails, SetUp, SetUpFails, Active, Goto, Raise
<1>7. CASE WalkFails(p) \/ Compile(p) \/ CompileFails(p)
  BY <1>4, <1>7 DEF WalkFails, Compile, CompileFails, Active, Goto, Raise, Walking, Walked
<1>8. CASE Stop(p) \/ Drain(p)
  BY <1>4, <1>8 DEF Stop, Drain, Active, Goto
<1> QED
  BY <1>2, <1>5, <1>6, <1>7, <1>8 DEF RuntimeStep

LEMMA LoaderNext == LoaderInv /\ EnvInv /\ [Next]_vars => LoaderInv' /\ EnvInv'
<1> SUFFICES ASSUME LoaderInv, EnvInv, [Next]_vars PROVE LoaderInv' /\ EnvInv'
  OBVIOUS
<1>1. CASE UNCHANGED <<env, exported, config>>
  <2>0. EnvInv'
    BY <1>1 DEF EnvInv
  <2>1. CASE OtherMounts
    <3>0. counter' \in 0 .. MaxRoot /\ counter < counter'
      BY <2>1 DEF OtherMounts
    <3>1. counter' \in Nat /\ counter <= counter' /\ DOMAIN pc' = Projects
      BY <2>1, <3>0 DEF OtherMounts, LoaderInv, LoaderTypes
    <3>2. LoaderInv'
      BY <2>1, <3>1, QuietLoader DEF OtherMounts, Active
    <3> QED
      BY <2>0, <3>2
  <2>2. ASSUME NEW p \in Projects, FinishLoad(p) PROVE LoaderInv'
    <3>1. PICK where : pc' = [pc EXCEPT ![p] = where]
      BY <2>2 DEF FinishLoad, Goto
    <3>2. /\ Active(p) /\ DOMAIN pc = Projects /\ DOMAIN pc' = Projects /\ counter \in Nat
          /\ DOMAIN surfaces' = Projects
      BY <2>2, <3>1 DEF FinishLoad, Active, LoaderInv, LoaderTypes
    <3>3. \A q \in Projects : Active(q)' => Active(q)
      BY <3>1, <3>2 DEF Active
    <3>4. LoaderTypes' /\ RootsDiffer'
      BY <2>2, <3>2, <3>3 DEF FinishLoad, LoaderInv, LoaderTypes, RootsDiffer
    <3>5. ModulesAreOwned' /\ OneCopyPerFile' /\ BoundAreModules' /\ LoadedAreModules'
      BY <2>2 DEF FinishLoad, LoaderInv, ModulesAreOwned, OneCopyPerFile, BoundAreModules,
                  LoadedAreModules
    <3>6. ModulesAreFresh'
      BY <2>2, <3>3 DEF FinishLoad, LoaderInv, ModulesAreFresh
    <3> QED
      BY <3>4, <3>5, <3>6 DEF LoaderInv
  <2>3. CASE UNCHANGED vars
    <3>1. DOMAIN pc' = Projects /\ counter \in Nat
      BY <2>3 DEF vars, LoaderInv, LoaderTypes
    <3>2. UNCHANGED <<loaderVars, pc>>
      BY <2>3 DEF vars
    <3> QED
      BY <2>0, <3>1, <3>2, QuietLoader DEF loaderVars, Active
  <2>4. ASSUME NEW p \in Projects, Configure(p) PROVE LoaderInv'
    BY <2>4, ConfigureLoader
  <2>5. ASSUME NEW p \in Projects, ConfigFails(p) PROVE LoaderInv'
    <3>1. /\ pc' = [pc EXCEPT ![p] = "failed"] /\ UNCHANGED loaderVars
          /\ DOMAIN pc = Projects /\ counter \in Nat
      BY <2>5 DEF ConfigFails, Goto, LoaderInv, LoaderTypes
    <3>2. DOMAIN pc' = Projects /\ \A q \in Projects : Active(q)' => Active(q)
      BY <3>1 DEF Active
    <3> QED
      BY <3>1, <3>2, QuietLoader DEF loaderVars
  <2> QED
    BY <2>0, <2>1, <2>2, <2>3, <2>4, <2>5, MountLoader, ImportLoader, ImportFailsLoader, EditLoader,
       RuntimeLoader DEF Next, LoaderStep
<1>2. CASE ~UNCHANGED <<env, exported, config>>
  <2>1. \A p \in Projects : RuntimeStep(p) => UNCHANGED <<env, exported, config>>
    BY DEF RuntimeStep, Connect, ConnectFails, SetUp, SetUpFails, WalkNode, WalkFails, Compile,
           CompileFails, Inspect, BeginTurn, EndTurn, Stop, Drain, Unwind, Unwound, Stay, Forgets,
           loaderVars
  <2>2. UNCHANGED vars => UNCHANGED <<env, exported, config>>
    BY DEF vars, loaderVars
  <2>3. LoaderStep => \E p \in Projects : Configure(p)
    BY <1>2 DEF LoaderStep, OtherMounts, ConfigFails, Mount, Import, ImportFails, FinishLoad, Edit,
                loaderVars
  <2> QED
    BY <1>2, <2>1, <2>2, <2>3, ConfigureLoader DEF Next
<1> QED
  BY <1>1, <1>2
-----------------------------------------------------------------------------
(* Runtimes *)

LEMMA ZeroOneMore == \A n \in Nat : n = 0 \/ n = 1 \/ n >= 2
OBVIOUS

LEMMA ZeroOrOne == \A n \in Nat : n <= 1 => n = 0 \/ (n = 1 /\ ~(n >= 2))
OBVIOUS

LEMMA TwoOrMore == \A n \in Nat : n >= 2 => n # 0 /\ n # 1
OBVIOUS

LEMMA Lengths ==
    ASSUME NEW S, NEW s \in Seq(S)
    PROVE  Len(s) \in Nat /\ (s = <<>> <=> Len(s) = 0) /\ DOMAIN s = 1 .. Len(s)
OBVIOUS

LEMMA AppendRange ==
    ASSUME NEW S, NEW s \in Seq(S), NEW x
    PROVE  Range(Append(s, x)) = Range(s) \cup {x}
<1>1. /\ Len(Append(s, x)) = Len(s) + 1 /\ Len(s) \in Nat
      /\ DOMAIN s = 1 .. Len(s) /\ DOMAIN Append(s, x) = 1 .. (Len(s) + 1)
      /\ Append(s, x)[Len(s) + 1] = x
      /\ \A i \in 1 .. Len(s) : Append(s, x)[i] = s[i]
  OBVIOUS
<1>2. \A i \in 1 .. (Len(s) + 1) : i \in 1 .. Len(s) \/ i = Len(s) + 1
  BY <1>1
<1>3. 1 .. Len(s) \subseteq 1 .. (Len(s) + 1) /\ Len(s) + 1 \in 1 .. (Len(s) + 1)
  BY <1>1
<1> QED
  BY <1>1, <1>2, <1>3 DEF Range

\* The backends come first, so what Append adds to the stack keeps its order.
LEMMA AppendOrder ==
    ASSUME NEW s \in Seq(Resources), StackOrder(s), NEW r \in Resources, r \notin Range(s),
           Len(s) = 0 => r = "checkpointer",
           Len(s) = 1 => r = "store",
           Len(s) >= 2 => r \in Nodes
    PROVE  /\ Append(s, r) \in Seq(Resources) /\ StackOrder(Append(s, r))
           /\ Len(Append(s, r)) = Len(s) + 1
<1> DEFINE t == Append(s, r)
<1>1. /\ Len(t) = Len(s) + 1 /\ Len(s) \in Nat /\ t[Len(s) + 1] = r
      /\ \A i \in 1 .. Len(s) : t[i] = s[i]
      /\ t \in Seq(Resources)
  OBVIOUS
<1>2. \A i \in 1 .. Len(s) : s[i] # r
  BY DEF Range
<1> HIDE DEF t
<1>3. \A i \in 1 .. Len(t) : i \in 1 .. Len(s) \/ i = Len(s) + 1
  BY <1>1
<1>4. Len(t) >= 1 => t[1] = "checkpointer"
  BY <1>1 DEF StackOrder
<1>5. Len(t) >= 2 => t[2] = "store"
  <2>1. CASE Len(s) = 1
    BY <1>1, <2>1
  <2>2. CASE Len(s) >= 2
    BY <1>1, <2>2 DEF StackOrder
  <2>3. CASE Len(s) = 0
    BY <1>1, <2>3
  <2>4. Len(s) = 0 \/ Len(s) = 1 \/ Len(s) >= 2
    BY <1>1, ZeroOneMore
  <2> QED
    BY <2>1, <2>2, <2>3, <2>4
<1>6. \A i \in 3 .. Len(t) : t[i] \in Nodes
  BY <1>1, <1>3 DEF StackOrder
<1>7. \A i, j \in 1 .. Len(t) : t[i] = t[j] => i = j
  BY <1>1, <1>2, <1>3 DEF StackOrder
<1>8. StackOrder(t)
  BY <1>4, <1>5, <1>6, <1>7 DEF StackOrder
<1> QED
  BY <1>1, <1>8 DEF t

\* The last callback leaves the others in their order.
LEMMA LastRemoved ==
    ASSUME NEW s \in Seq(Resources), StackOrder(s), s # <<>>
    PROVE  LET t == RemoveAt(s, Len(s))
           IN  /\ t \in Seq(Resources) /\ StackOrder(t)
               /\ Range(t) = Range(s) \ {s[Len(s)]}
<1> DEFINE n == Len(s)
           t == RemoveAt(s, n)
<1>1. n \in Nat /\ n # 0 /\ DOMAIN s = 1 .. n
  OBVIOUS
<1>2. SubSeq(s, n + 1, n) = <<>> /\ SubSeq(s, 1, n - 1) \in Seq(Resources)
  BY <1>1
<1>3. t = SubSeq(s, 1, n - 1)
  BY <1>1, <1>2 DEF RemoveAt
<1> HIDE DEF t, n
<1>4. Len(t) = n - 1 /\ \A i \in 1 .. (n - 1) : t[i] = s[i]
  BY <1>1, <1>3 DEF n
<1>5. t \in Seq(Resources) /\ DOMAIN t = 1 .. (n - 1)
  BY <1>2, <1>3, <1>4
<1>6. StackOrder(t)
  BY <1>1, <1>4 DEF StackOrder, n
<1>7. \A i \in 1 .. (n - 1) : s[i] # s[n]
  BY <1>1 DEF StackOrder, n
<1>8. \A i \in 1 .. n : i = n \/ i \in 1 .. (n - 1)
  BY <1>1
<1>9. \A i \in 1 .. (n - 1) : i \in 1 .. n
  BY <1>1
<1>10. Range(t) = Range(s) \ {s[n]}
  BY <1>1, <1>4, <1>5, <1>7, <1>8, <1>9 DEF Range
<1> QED
  BY <1>5, <1>6, <1>10 DEF t, n

LEMMA RuntimeInit == AssemblyInit => RuntimeInv /\ ToolsInv
<1> SUFFICES ASSUME AssemblyInit PROVE RuntimeInv /\ ToolsInv
  OBVIOUS
<1>1. RuntimeTypes
  BY DEF AssemblyInit, Init, RuntimeTypes
<1>2. \A p \in Projects : RuntimeOf(p)
  <2> SUFFICES ASSUME NEW p \in Projects PROVE RuntimeOf(p)
    OBVIOUS
  <2>1. pc[p] = "off" /\ open[p] = {} /\ stack[p] = <<>> /\ walked[p] = 0 /\ busy[p] = FALSE
    BY DEF AssemblyInit, Init
  <2>2. StackOrder(<<>>) /\ Range(<<>>) = {}
    BY DEF StackOrder, Range
  <2> QED
    BY <2>1, <2>2 DEF RuntimeOf, Starting, Complete, HasRuntime
<1>3. ToolsInv
  BY DEF AssemblyInit, Init, ToolsInv
<1> QED
  BY <1>1, <1>2, <1>3 DEF RuntimeInv

\* What a step of p leaves alone of the other projects.
LEMMA OthersRun ==
    ASSUME RuntimeInv, NEW q \in Projects, pc'[q] = pc[q], stack'[q] = stack[q],
           open'[q] = open[q], walked'[q] = walked[q], busy'[q] = busy[q],
           Starting(q) => mode'[q] = mode[q]
    PROVE  RuntimeOf(q)'
BY DEF RuntimeInv, RuntimeOf, StackOrder, NextBackend, HasRuntime, Starting, Complete, NodesWalked

LEMMA LoaderRuntime ==
    ASSUME RuntimeInv, ToolsInv, LoaderStep, UNCHANGED resourceVars
    PROVE  RuntimeInv' /\ ToolsInv'
<1>1. /\ DOMAIN pc = Projects /\ DOMAIN extra = Projects /\ DOMAIN graph = Projects
      /\ UNCHANGED <<open, stack, walked, extra, graph, busy>>
  BY DEF RuntimeInv, RuntimeTypes, resourceVars
<1>2. \/ UNCHANGED pc
      \/ \E p \in Projects : \E where :
            /\ pc' = [pc EXCEPT ![p] = where]
            /\ ~HasRuntime(p)
            /\ where \in {"off", "failed", "configured", "loading", "app", "loaded"}
  <2>1. CASE OtherMounts \/ \E p \in Projects, x \in Files \cup Libs : Edit(p, x)
    BY <2>1 DEF OtherMounts, Edit
  <2>2. CASE \E p \in Projects : Configure(p) \/ ConfigFails(p) \/ Mount(p)
    BY <2>2 DEF Configure, ConfigFails, Mount, Goto, HasRuntime
  <2>3. CASE \E p \in Projects : Import(p) \/ ImportFails(p)
    BY <2>3 DEF Import, ImportFails, Goto, HasRuntime
  <2>4. CASE \E p \in Projects : FinishLoad(p)
    BY <2>4 DEF FinishLoad, Goto, HasRuntime
  <2> QED
    BY <2>1, <2>2, <2>3, <2>4 DEF LoaderStep
<1>3. RuntimeTypes'
  BY <1>1, <1>2 DEF RuntimeInv, RuntimeTypes
<1>6. \A q \in Projects : Starting(q) => mode'[q] = mode[q]
  <2>1. CASE \E p \in Projects : Configure(p)
    <3>1. PICK p \in Projects : Configure(p)
      BY <2>1
    <3>2. ~Starting(p) /\ \E m : mode' = [mode EXCEPT ![p] = m]
      BY <3>1 DEF Configure, Starting
    <3> QED
      BY <3>2
  <2>2. CASE ~\E p \in Projects : Configure(p)
    BY <2>2 DEF LoaderStep, OtherMounts, ConfigFails, Mount, Import, ImportFails, FinishLoad, Edit,
                loaderVars
  <2> QED
    BY <2>1, <2>2
<1>4. ASSUME NEW q \in Projects PROVE RuntimeOf(q)'
  <2>1. CASE pc'[q] = pc[q]
    BY <1>1, <2>1, <1>6, OthersRun
  <2>2. CASE pc'[q] # pc[q]
    <3>1. /\ ~HasRuntime(q)
          /\ pc'[q] \in {"off", "failed", "configured", "loading", "app", "loaded"}
      BY <1>1, <1>2, <2>2
    <3>2. RuntimeOf(q) /\ Len(<<>>) = 0 /\ (pc'[q] # "connected")
      BY <3>1 DEF RuntimeInv
    <3> QED
      BY <1>1, <3>1, <3>2 DEF RuntimeOf, HasRuntime, Starting, Complete, NodesWalked
  <2> QED
    BY <2>1, <2>2
<1>5. ToolsInv'
  BY <1>1, <1>2 DEF ToolsInv, NodesWalked, HasRuntime, ToolsOf
<1> QED
  BY <1>3, <1>4, <1>5 DEF RuntimeInv
\* A step of p is right when p's own runtime is right after it.
LEMMA OneRuntime ==
    ASSUME RuntimeInv, NEW p \in Projects, DOMAIN pc' = Projects, mode' = mode,
           \A q \in Projects : q # p =>
              /\ pc'[q] = pc[q] /\ stack'[q] = stack[q] /\ open'[q] = open[q]
              /\ walked'[q] = walked[q] /\ busy'[q] = busy[q],
           DOMAIN extra' = Projects, DOMAIN graph' = Projects,
           open' \in [Projects -> SUBSET Resources], stack' \in [Projects -> Seq(Resources)],
           walked' \in [Projects -> Nat], busy' \in [Projects -> BOOLEAN],
           RuntimeOf(p)'
    PROVE  RuntimeInv'
<1>1. \A q \in Projects : RuntimeOf(q)'
  BY OthersRun
<1>2. RuntimeTypes'
  BY DEF RuntimeTypes
<1> QED
  BY <1>1, <1>2 DEF RuntimeInv

LEMMA StartSteps ==
    ASSUME RuntimeInv, NEW p \in Projects,
           Connect(p) \/ ConnectFails(p) \/ SetUp(p) \/ SetUpFails(p)
    PROVE  RuntimeInv'
<1> DEFINE b == NextBackend(p)
<1>1. /\ DOMAIN pc = Projects /\ DOMAIN extra = Projects /\ DOMAIN graph = Projects
      /\ open \in [Projects -> SUBSET Resources] /\ stack \in [Projects -> Seq(Resources)]
      /\ walked \in [Projects -> Nat] /\ busy \in [Projects -> BOOLEAN]
      /\ RuntimeOf(p) /\ Starting(p)
  BY DEF RuntimeInv, RuntimeTypes, Connect, ConnectFails, SetUp, SetUpFails, Starting
<1>2. /\ stack[p] \in Seq(Resources) /\ Len(stack[p]) <= 1 /\ StackOrder(stack[p])
      /\ walked[p] = 0 /\ busy[p] = FALSE
      /\ open[p] = Range(stack[p]) \cup (IF pc[p] = "connected" THEN {b} ELSE {})
      /\ b \in Resources /\ UNCHANGED <<extra, graph, walked, busy, mode>> /\ mode[p] # "build"
  BY <1>1 DEF RuntimeOf, Starting, Complete, NextBackend, Resources, Backends,
              Connect, ConnectFails, SetUp, SetUpFails, Stay, loaderVars
<1>3. b \notin Range(stack[p])
  <2>1. CASE stack[p] = <<>>
    BY <2>1 DEF Range
  <2>2. CASE stack[p] # <<>>
    <3>1. Len(stack[p]) = 1
      BY <1>2, <2>2, ZeroOrOne, Lengths
    <3>2. stack[p][1] = "checkpointer"
      BY <1>2, <3>1 DEF StackOrder
    <3>3. \A i \in DOMAIN stack[p] : i = 1
      <4>1. DOMAIN stack[p] = 1 .. 1
        BY <1>2, <3>1, Lengths
      <4> QED
        BY <4>1
    <3> QED
      BY <2>2, <3>2, <3>3 DEF NextBackend, Range
  <2> QED
    BY <2>1, <2>2
<1>4. CASE Connect(p)
  <2>1. /\ pc' = [pc EXCEPT ![p] = "connected"] /\ stack' = stack
        /\ open' = [open EXCEPT ![p] = @ \cup {b}] /\ pc[p] = "loaded"
    BY <1>4 DEF Connect, Goto
  <2>2. b' = b /\ open'[p] = Range(stack[p]) \cup {b} /\ pc'[p] = "connected"
    BY <1>1, <1>2, <2>1 DEF NextBackend
  <2>3. RuntimeOf(p)'
    BY <1>2, <2>1, <2>2 DEF RuntimeOf, HasRuntime, Starting, Complete
  <2>4. open' \in [Projects -> SUBSET Resources]
    BY <1>1, <1>2, <2>1
  <2> QED
    BY <1>1, <1>2, <2>1, <2>3, <2>4, OneRuntime
<1>5. CASE ConnectFails(p)
  <2>1. /\ pc' = [pc EXCEPT ![p] = "unwinding"] /\ stack' = stack /\ open' = open /\ pc[p] = "loaded"
    BY <1>5 DEF ConnectFails, Goto, Raise
  <2>2. RuntimeOf(p)'
    BY <1>1, <1>2, <2>1 DEF RuntimeOf, HasRuntime, Starting, Complete
  <2> QED
    BY <1>1, <1>2, <2>1, <2>2, OneRuntime
<1>6. CASE SetUp(p)
  <2>1. /\ pc' = [pc EXCEPT ![p] = IF b = "store" THEN "walking" ELSE "loaded"]
        /\ stack' = [stack EXCEPT ![p] = Append(@, b)] /\ open' = open /\ pc[p] = "connected"
    BY <1>6 DEF SetUp, Goto
  <2>2. /\ Len(stack[p]) = 0 => b = "checkpointer"
        /\ Len(stack[p]) = 1 => b = "store"
        /\ b = "store" <=> Len(stack[p]) = 1
        /\ ~(Len(stack[p]) >= 2)
        /\ Len(stack[p]) \in {0, 1}
    <3>1. Len(stack[p]) = 0 \/ Len(stack[p]) = 1
      BY <1>2, ZeroOrOne, Lengths
    <3>2. stack[p] = <<>> <=> Len(stack[p]) = 0
      BY <1>2, Lengths
    <3>3. IF stack[p] = <<>> THEN b = "checkpointer" ELSE b = "store"
      BY DEF NextBackend
    <3> HIDE DEF b
    <3>4. CASE Len(stack[p]) = 0
      <4>1. b = "checkpointer" /\ "checkpointer" # "store"
        BY <3>2, <3>3, <3>4
      <4> QED
        BY <3>4, <4>1
    <3>5. CASE Len(stack[p]) = 1
      <4>1. b = "store"
        BY <3>2, <3>3, <3>5
      <4> QED
        BY <3>5, <4>1
    <3> QED
      BY <3>1, <3>4, <3>5
  <2>3. /\ Append(stack[p], b) \in Seq(Resources) /\ StackOrder(Append(stack[p], b))
        /\ Len(Append(stack[p], b)) = Len(stack[p]) + 1
    BY <1>2, <1>3, <2>2, AppendOrder
  <2>4. Range(Append(stack[p], b)) = Range(stack[p]) \cup {b}
    BY <1>2, AppendRange
  <2> HIDE DEF b
  <2>5. /\ stack'[p] = Append(stack[p], b)
        /\ pc'[p] = IF b = "store" THEN "walking" ELSE "loaded"
        /\ open'[p] = Range(stack'[p])
    BY <1>1, <1>2, <2>1, <2>4
  <2>6. /\ Len(stack'[p]) >= 1 /\ Len(stack'[p]) <= 2
        /\ b = "store" => Len(stack'[p]) = 2
        /\ b # "store" => Len(stack'[p]) = 1
        /\ StackOrder(stack'[p])
    <3>1. Len(stack'[p]) = Len(stack[p]) + 1
      BY <2>3, <2>5
    <3> QED
      BY <2>2, <2>3, <2>5, <3>1
  <2>7. Tree[p] \in Seq(Nodes) /\ Len(Tree[p]) \in Nat
    OBVIOUS
  <2>8. RuntimeOf(p)'
    <3>1. CASE b = "store"
      <4>1. pc'[p] = "walking" /\ Len(stack'[p]) = 2 /\ NodesWalked(p)' = {}
        BY <1>2, <2>5, <2>6, <3>1 DEF NodesWalked
      <4> QED
        BY <1>2, <2>5, <2>6, <2>7, <4>1 DEF RuntimeOf, HasRuntime, Starting, Complete
    <3>2. CASE b # "store"
      <4>1. pc'[p] = "loaded" /\ Len(stack'[p]) = 1
        BY <2>5, <2>6, <3>2
      <4> QED
        BY <1>2, <2>5, <2>6, <4>1 DEF RuntimeOf, HasRuntime, Starting, Complete
    <3> QED
      BY <3>1, <3>2
  <2>9. stack' \in [Projects -> Seq(Resources)]
    BY <1>1, <2>1, <2>3
  <2> QED
    BY <1>1, <1>2, <2>1, <2>8, <2>9, OneRuntime
<1>7. CASE SetUpFails(p)
  <2>1. /\ pc' = [pc EXCEPT ![p] = "unwinding"] /\ stack' = stack /\ pc[p] = "connected"
        /\ open' = [open EXCEPT ![p] = open[p] \ {b}]
    BY <1>7 DEF SetUpFails, Goto, Raise, AfterFailedSetUp
  <2>2. open'[p] = Range(stack[p]) /\ pc'[p] = "unwinding"
    BY <1>1, <1>2, <1>3, <2>1
  <2>3. RuntimeOf(p)'
    BY <1>2, <2>1, <2>2 DEF RuntimeOf, HasRuntime, Starting, Complete
  <2>4. open' \in [Projects -> SUBSET Resources]
    BY <1>1, <2>1
  <2> QED
    BY <1>1, <1>2, <2>1, <2>3, <2>4, OneRuntime
<1> QED
  BY <1>4, <1>5, <1>6, <1>7
\* Nodes occur once in a tree, so a sandbox is pushed once.
LEMMA WalkNodeStep ==
    ASSUME RuntimeInv, NEW p \in Projects, WalkNode(p)
    PROVE  RuntimeInv'
<1> DEFINE n == NextNode(p)
           w == walked[p]
<1>1. /\ DOMAIN pc = Projects /\ DOMAIN extra = Projects /\ DOMAIN graph = Projects
      /\ open \in [Projects -> SUBSET Resources] /\ stack \in [Projects -> Seq(Resources)]
      /\ walked \in [Projects -> Nat] /\ busy \in [Projects -> BOOLEAN]
      /\ RuntimeOf(p) /\ pc[p] = "walking" /\ w < Len(Tree[p]) /\ w \in Nat
  BY DEF RuntimeInv, RuntimeTypes, WalkNode, Walking
<1>2. /\ stack[p] \in Seq(Resources) /\ Len(stack[p]) >= 2 /\ StackOrder(stack[p])
      /\ open[p] = Range(stack[p]) /\ ~busy[p]
      /\ NodesWalked(p) \cap Sandboxed \subseteq Range(stack[p])
      /\ \A i \in 3 .. Len(stack[p]) : stack[p][i] \in NodesWalked(p)
  BY <1>1 DEF RuntimeOf, Complete
<1>3. Tree[p] \in Seq(Nodes) /\ IsInjective(Tree[p]) /\ DOMAIN Tree[p] = 1 .. Len(Tree[p])
  OBVIOUS
<1>4. w + 1 \in 1 .. Len(Tree[p]) /\ n = Tree[p][w + 1] /\ n \in Nodes /\ n \in Resources
  <2>1. w + 1 \in 1 .. Len(Tree[p])
    BY <1>1, <1>3
  <2>2. Tree[p][w + 1] \in Nodes
    BY <1>3, <2>1
  <2> QED
    BY <2>1, <2>2 DEF NextNode, Resources
<1>5. n \notin NodesWalked(p)
  <2> SUFFICES ASSUME NEW i \in 1 .. w, Tree[p][i] = n PROVE FALSE
    BY DEF NodesWalked
  <2>1. i \in DOMAIN Tree[p] /\ i # w + 1
    BY <1>1, <1>3
  <2> QED
    BY <1>3, <1>4, <2>1 DEF IsInjective
<1>6. n \notin Range(stack[p])
  <2> SUFFICES ASSUME NEW i \in 1 .. Len(stack[p]), stack[p][i] = n PROVE FALSE
    BY <1>2 DEF Range
  <2>1. CASE i = 1
    BY <1>2, <1>4, <2>1 DEF StackOrder
  <2>2. CASE i = 2
    BY <1>2, <1>4, <2>2 DEF StackOrder
  <2>3. CASE i \in 3 .. Len(stack[p])
    BY <1>2, <1>5, <2>3
  <2>4. i = 1 \/ i = 2 \/ i \in 3 .. Len(stack[p])
    BY <1>2
  <2> QED
    BY <2>1, <2>2, <2>3, <2>4
<1>7. NodesWalked(p)' = NodesWalked(p) \cup {n}
  <2>1. walked'[p] = w + 1
    BY <1>1 DEF WalkNode
  <2>2. \A i \in 1 .. (w + 1) : i \in 1 .. w \/ i = w + 1
    BY <1>1
  <2>3. 1 .. w \subseteq 1 .. (w + 1) /\ w + 1 \in 1 .. (w + 1)
    BY <1>1
  <2> QED
    BY <1>4, <2>1, <2>2, <2>3 DEF NodesWalked
<1>8. /\ UNCHANGED <<pc, graph, busy, mode>>
      /\ open' = [open EXCEPT ![p] = @ \cup ({n} \cap Sandboxed)]
      /\ stack' = [stack EXCEPT ![p] = Pushed(p, n)]
      /\ walked' = [walked EXCEPT ![p] = w + 1]
      /\ DOMAIN extra' = Projects
  BY <1>1 DEF WalkNode, Stay, loaderVars
<1> HIDE DEF n
<1>9. /\ stack'[p] \in Seq(Resources) /\ StackOrder(stack'[p]) /\ Len(stack'[p]) >= 2
      /\ Range(stack'[p]) = Range(stack[p]) \cup ({n} \cap Sandboxed)
      /\ \A i \in 3 .. Len(stack'[p]) : stack'[p][i] \in NodesWalked(p) \cup {n}
  <2>1. CASE n \notin Sandboxed
    <3>1. stack'[p] = stack[p]
      BY <1>1, <1>8, <2>1 DEF Pushed
    <3> QED
      BY <1>2, <2>1, <3>1
  <2>2. CASE n \in Sandboxed
    <3>1. stack'[p] = Append(stack[p], n)
      BY <1>1, <1>8, <2>2 DEF Pushed
    <3>2. Len(stack[p]) # 0 /\ Len(stack[p]) # 1
      BY <1>2, TwoOrMore, Lengths
    <3>3. /\ Append(stack[p], n) \in Seq(Resources) /\ StackOrder(Append(stack[p], n))
          /\ Len(Append(stack[p], n)) = Len(stack[p]) + 1
      BY <1>2, <1>4, <1>6, <3>2, AppendOrder
    <3>4. Range(Append(stack[p], n)) = Range(stack[p]) \cup {n}
      BY <1>2, AppendRange
    <3>5. ASSUME NEW i \in 3 .. (Len(stack[p]) + 1)
          PROVE  Append(stack[p], n)[i] \in NodesWalked(p) \cup {n}
      <4>1. CASE i \in 3 .. Len(stack[p])
        BY <1>2, <4>1
      <4>2. CASE i = Len(stack[p]) + 1
        BY <1>2, <4>2
      <4>3. i \in 3 .. Len(stack[p]) \/ i = Len(stack[p]) + 1
        BY <1>2
      <4> QED
        BY <4>1, <4>2, <4>3
    <3>6. Len(stack'[p]) >= 2
      BY <1>2, <3>1, <3>3
    <3> QED
      BY <2>2, <3>1, <3>3, <3>4, <3>5, <3>6
  <2> QED
    BY <2>1, <2>2
<1>10. open'[p] = Range(stack'[p]) /\ walked'[p] = w + 1 /\ w + 1 <= Len(Tree[p]) /\ w + 1 \in Nat
  BY <1>1, <1>2, <1>4, <1>8, <1>9
<1>11. /\ open' \in [Projects -> SUBSET Resources] /\ stack' \in [Projects -> Seq(Resources)]
       /\ walked' \in [Projects -> Nat]
  <2>1. open' \in [Projects -> SUBSET Resources]
    BY <1>1, <1>4, <1>8
  <2>2. stack' \in [Projects -> Seq(Resources)]
    <3>1. Pushed(p, n) \in Seq(Resources)
      BY <1>1, <1>8, <1>9
    <3> QED
      BY <1>1, <1>8, <3>1
  <2> QED
    BY <1>1, <1>8, <1>10, <2>1, <2>2
<1>12. RuntimeOf(p)'
  <2>1. NodesWalked(p)' \cap Sandboxed \subseteq Range(stack'[p])
    BY <1>2, <1>7, <1>9
  <2>2. \A i \in 3 .. Len(stack'[p]) : stack'[p][i] \in NodesWalked(p)'
    BY <1>7, <1>9
  <2> QED
    BY <1>1, <1>2, <1>8, <1>9, <1>10, <2>1, <2>2 DEF RuntimeOf, HasRuntime, Starting, Complete
<1> QED
  BY <1>1, <1>8, <1>11, <1>12, OneRuntime

\* Steps that change where p stands, or whether a turn runs, but no resource.
LEMMA PlainSteps ==
    ASSUME RuntimeInv, NEW p \in Projects,
           \/ WalkFails(p) \/ Compile(p) \/ CompileFails(p) \/ Inspect(p)
           \/ BeginTurn(p) \/ EndTurn(p) \/ Stop(p) \/ Drain(p)
    PROVE  RuntimeInv'
<1>1. /\ DOMAIN pc = Projects /\ DOMAIN extra = Projects /\ DOMAIN graph = Projects
      /\ open \in [Projects -> SUBSET Resources] /\ stack \in [Projects -> Seq(Resources)]
      /\ walked \in [Projects -> Nat] /\ busy \in [Projects -> BOOLEAN] /\ RuntimeOf(p)
  BY DEF RuntimeInv, RuntimeTypes
<1>2. UNCHANGED <<open, stack, walked, extra, mode>> /\ NodesWalked(p)' = NodesWalked(p)
  BY DEF WalkFails, Compile, CompileFails, Inspect, BeginTurn, EndTurn, Stop, Drain, resourceVars,
         NodesWalked, Stay, Forgets, loaderVars
<1>3. CASE WalkFails(p) \/ CompileFails(p)
  <2>1. /\ pc' = [pc EXCEPT ![p] = "unwinding"] /\ pc[p] = "walking" /\ UNCHANGED <<graph, busy>>
    BY <1>3 DEF WalkFails, CompileFails, Walking, Walked, Raise, Goto
  <2>2. RuntimeOf(p)'
    BY <1>1, <1>2, <2>1 DEF RuntimeOf, HasRuntime, Starting, Complete
  <2> QED
    BY <1>1, <1>2, <2>1, <2>2, OneRuntime
<1>4. CASE Compile(p)
  <2>1. /\ pc' = [pc EXCEPT ![p] = "serving"] /\ pc[p] = "walking" /\ walked[p] = Len(Tree[p])
        /\ UNCHANGED busy /\ DOMAIN graph' = Projects
    BY <1>1, <1>4 DEF Compile, Walked, Goto
  <2>2. RuntimeOf(p)'
    BY <1>1, <1>2, <2>1 DEF RuntimeOf, HasRuntime, Starting, Complete
  <2> QED
    BY <1>1, <1>2, <2>1, <2>2, OneRuntime
<1>5. CASE BeginTurn(p) \/ EndTurn(p)
  <2>1. /\ UNCHANGED <<pc, graph>> /\ pc[p] = "serving" /\ busy' \in [Projects -> BOOLEAN]
        /\ \A q \in Projects : q # p => busy'[q] = busy[q]
    BY <1>1, <1>5 DEF BeginTurn, EndTurn
  <2>3. /\ pc'[p] = "serving" /\ stack'[p] = stack[p] /\ open'[p] = open[p]
        /\ walked'[p] = walked[p] /\ mode' = mode
    BY <1>2, <2>1
  <2>4. /\ StackOrder(stack[p]) /\ open[p] = Range(stack[p]) /\ Len(stack[p]) >= 2
        /\ walked[p] = Len(Tree[p]) /\ walked[p] <= Len(Tree[p])
        /\ NodesWalked(p) \cap Sandboxed \subseteq Range(stack[p])
        /\ \A i \in 3 .. Len(stack[p]) : stack[p][i] \in NodesWalked(p)
    BY <1>1, <2>1 DEF RuntimeOf, Complete
  <2>2. RuntimeOf(p)'
    BY <1>2, <2>3, <2>4 DEF RuntimeOf, HasRuntime, Starting, Complete
  <2> QED
    BY <1>1, <1>2, <2>1, <2>2, OneRuntime
<1>6. CASE Drain(p)
  <2>1. /\ pc' = [pc EXCEPT ![p] = "unwinding"] /\ pc[p] = "draining" /\ UNCHANGED graph
        /\ busy' = [busy EXCEPT ![p] = FALSE]
    BY <1>6 DEF Drain, Goto
  <2>2. RuntimeOf(p)'
    BY <1>1, <1>2, <2>1 DEF RuntimeOf, HasRuntime, Starting, Complete
  <2>3. busy' \in [Projects -> BOOLEAN]
    BY <1>1, <2>1
  <2> QED
    BY <1>1, <1>2, <2>1, <2>2, <2>3, OneRuntime
<1>7. CASE Stop(p)
  <2>1. /\ pc' = [pc EXCEPT ![p] = AfterServing(p)] /\ pc[p] = "serving" /\ UNCHANGED <<graph, busy>>
        /\ mode[p] # "serve" => ~busy[p]
    BY <1>7 DEF Stop, Goto, resourceVars
  <2>2. /\ pc'[p] \in {"draining", "unwinding"} /\ (pc'[p] = "unwinding" => ~busy[p])
    BY <1>1, <2>1 DEF AfterServing
  <2>3. RuntimeOf(p)'
    BY <1>1, <1>2, <2>1, <2>2 DEF RuntimeOf, HasRuntime, Starting, Complete
  <2> QED
    BY <1>1, <1>2, <2>1, <2>3, OneRuntime
<1>8. CASE Inspect(p)
  <2>1. PICK where \in {"off", "failed"} : pc' = [pc EXCEPT ![p] = where]
    BY <1>8 DEF Inspect, Goto
  <2>2. pc[p] = "loaded" /\ mode[p] = "build" /\ UNCHANGED <<graph, busy>>
    BY <1>8 DEF Inspect, resourceVars
  <2>3. stack[p] = <<>> /\ pc'[p] \in {"off", "failed"} /\ walked[p] = 0 /\ ~busy[p] /\ open[p] = Range(stack[p])
    BY <1>1, <2>1, <2>2 DEF RuntimeOf, Starting, Complete
  <2>4. RuntimeOf(p)'
    BY <1>1, <1>2, <2>2, <2>3 DEF RuntimeOf, HasRuntime, Starting, Complete
  <2> QED
    BY <1>1, <1>2, <2>1, <2>2, <2>4, OneRuntime
<1> QED
  BY <1>3, <1>4, <1>5, <1>6, <1>7, <1>8

LEMMA EndSteps ==
    ASSUME RuntimeInv, NEW p \in Projects, Unwind(p) \/ Unwound(p)
    PROVE  RuntimeInv'
<1>1. /\ DOMAIN pc = Projects /\ DOMAIN extra = Projects /\ DOMAIN graph = Projects
      /\ open \in [Projects -> SUBSET Resources] /\ stack \in [Projects -> Seq(Resources)]
      /\ walked \in [Projects -> Nat] /\ busy \in [Projects -> BOOLEAN] /\ RuntimeOf(p)
      /\ pc[p] = "unwinding"
  BY DEF RuntimeInv, RuntimeTypes, Unwind, Unwound
<1>2. /\ stack[p] \in Seq(Resources) /\ StackOrder(stack[p]) /\ ~busy[p]
      /\ open[p] = Range(stack[p]) /\ UNCHANGED <<busy, mode>>
  BY <1>1 DEF RuntimeOf, Unwind, Unwound, Stay, Forgets, loaderVars
<1>3. CASE Unwind(p)
  <2> DEFINE s == stack[p]
             t == RemoveAt(s, Len(s))
  <2>1. /\ open' = [open EXCEPT ![p] = @ \ {s[Len(s)]}] /\ stack' = [stack EXCEPT ![p] = t]
        /\ UNCHANGED <<pc, walked, extra, graph>> /\ s # <<>>
    BY <1>3 DEF Unwind, Newest
  <2>2. t \in Seq(Resources) /\ StackOrder(t) /\ Range(t) = Range(s) \ {s[Len(s)]}
    BY <1>2, <2>1, LastRemoved
  <2> HIDE DEF s, t
  <2>3. stack'[p] = t /\ open'[p] = open[p] \ {s[Len(s)]} /\ open'[p] = Range(t)
    BY <1>1, <1>2, <2>1, <2>2 DEF s
  <2>4. RuntimeOf(p)'
    BY <1>1, <1>2, <2>1, <2>2, <2>3 DEF RuntimeOf, HasRuntime, Starting, Complete
  <2>5. open' \in [Projects -> SUBSET Resources] /\ stack' \in [Projects -> Seq(Resources)]
    BY <1>1, <2>1, <2>2
  <2> QED
    BY <1>1, <1>2, <2>1, <2>4, <2>5, OneRuntime
<1>4. CASE Unwound(p)
  <2>1. PICK where \in {"off", "failed", "configured"} : pc' = [pc EXCEPT ![p] = where]
    BY <1>4 DEF Unwound, Goto
  <2>2. /\ stack[p] = <<>> /\ UNCHANGED <<open, stack>> /\ walked' = [walked EXCEPT ![p] = 0]
        /\ extra' = [extra EXCEPT ![p] = <<>>] /\ graph' = [graph EXCEPT ![p] = <<>>]
    BY <1>4 DEF Unwound
  <2>3. walked'[p] = 0 /\ pc'[p] \in {"off", "failed", "configured"} /\ walked' \in [Projects -> Nat]
    BY <1>1, <2>1, <2>2
  <2>4. RuntimeOf(p)'
    BY <1>2, <2>2, <2>3 DEF RuntimeOf, HasRuntime, Starting, Complete
  <2> QED
    BY <1>1, <1>2, <2>1, <2>2, <2>3, <2>4, OneRuntime
<1> QED
  BY <1>3, <1>4
LEMMA AllWalked ==
    ASSUME NEW p \in Projects, walked[p] = Len(Tree[p])
    PROVE  NodesWalked(p) = Range(Tree[p])
<1>1. DOMAIN Tree[p] = 1 .. Len(Tree[p])
  OBVIOUS
<1> QED
  BY <1>1 DEF NodesWalked, Range

\* The mapping has the tools of the nodes walked, the graph those of the mapping.
LEMMA ToolSteps ==
    ASSUME RuntimeInv, ToolsInv, NEW p \in Projects, RuntimeStep(p)
    PROVE  ToolsInv'
<1>1. /\ DOMAIN pc = Projects /\ DOMAIN extra = Projects /\ DOMAIN graph = Projects
      /\ walked \in [Projects -> Nat]
      /\ \A q \in Projects :
           /\ pc[q] = "walking" => \A n \in NodesWalked(q) :
                 n \in DOMAIN extra[q] /\ extra[q][n] = ToolsOf(n)
           /\ graph[q] # <<>> => \A n \in Range(Tree[q]) : graph[q][n] = ToolsOf(n)
  BY DEF RuntimeInv, RuntimeTypes, ToolsInv
<1>2. ASSUME UNCHANGED <<walked, extra, graph>>, \A q \in Projects : pc'[q] = "walking" => pc[q] = "walking"
      PROVE  ToolsInv'
  BY <1>1, <1>2 DEF ToolsInv, NodesWalked, ToolsOf
<1>3. CASE WalkFails(p) \/ CompileFails(p) \/ Connect(p) \/ ConnectFails(p) \/ SetUpFails(p)
  <2>1. \E where \in {"unwinding", "connected"} : pc' = [pc EXCEPT ![p] = where]
    BY <1>3 DEF WalkFails, CompileFails, Connect, ConnectFails, SetUpFails, Raise, Goto
  <2>2. UNCHANGED <<walked, extra, graph>>
    BY <1>3 DEF WalkFails, CompileFails, Connect, ConnectFails, SetUpFails
  <2>3. \A q \in Projects : pc'[q] = "walking" => pc[q] = "walking"
    BY <1>1, <2>1
  <2> QED
    BY <1>2, <2>2, <2>3
<1>4. CASE Inspect(p) \/ BeginTurn(p) \/ EndTurn(p) \/ Stop(p) \/ Drain(p) \/ Unwind(p)
  <2>1. \/ UNCHANGED pc
        \/ \E where \in {"off", "failed", "draining", "unwinding"} : pc' = [pc EXCEPT ![p] = where]
    BY <1>4 DEF Inspect, BeginTurn, EndTurn, Stop, Drain, Unwind, Goto, AfterServing
  <2>2. UNCHANGED <<walked, extra, graph>>
    BY <1>4 DEF Inspect, BeginTurn, EndTurn, Stop, Drain, Unwind, resourceVars
  <2>3. \A q \in Projects : pc'[q] = "walking" => pc[q] = "walking"
    BY <1>1, <2>1
  <2> QED
    BY <1>2, <2>2, <2>3
<1>5. CASE SetUp(p)
  <2>1. /\ UNCHANGED <<walked, extra, graph>> /\ pc[p] = "connected"
        /\ \A q \in Projects : q # p => pc'[q] = pc[q]
    BY <1>1, <1>5 DEF SetUp, Goto
  <2>2. walked[p] = 0
    BY <2>1 DEF RuntimeInv, RuntimeOf, Complete
  <2>3. NodesWalked(p) = {}
    BY <2>2 DEF NodesWalked
  <2>4. \A q \in Projects : NodesWalked(q)' = NodesWalked(q)
    BY <2>1 DEF NodesWalked
  <2>5. \A q \in Projects : pc'[q] = "walking" => \A n \in NodesWalked(q) :
                 n \in DOMAIN extra[q] /\ extra[q][n] = ToolsOf(n)
    BY <1>1, <2>1, <2>3
  <2> QED
    BY <1>1, <2>1, <2>4, <2>5 DEF ToolsInv, ToolsOf
<1>6. CASE WalkNode(p)
  <2> DEFINE n == NextNode(p)
  <2>1. /\ UNCHANGED <<pc, graph>> /\ walked' = [walked EXCEPT ![p] = @ + 1] /\ pc[p] = "walking"
        /\ extra' = [extra EXCEPT ![p] =
              [k \in DOMAIN @ \cup {n} |-> IF k = n THEN ToolsOf(n) ELSE @[k]]]
    BY <1>6 DEF WalkNode, Walking, ToolKey
  <2>2. NodesWalked(p)' \subseteq NodesWalked(p) \cup {n}
    <3>1. walked'[p] = walked[p] + 1 /\ walked[p] \in Nat /\ n = Tree[p][walked[p] + 1]
      BY <1>1, <2>1 DEF NextNode
    <3>2. \A i \in 1 .. (walked[p] + 1) : i \in 1 .. walked[p] \/ i = walked[p] + 1
      BY <3>1
    <3> QED
      BY <3>1, <3>2 DEF NodesWalked
  <2> HIDE DEF n
  <2>3. extra'[p] = [k \in DOMAIN extra[p] \cup {n} |-> IF k = n THEN ToolsOf(n) ELSE extra[p][k]]
    BY <1>1, <2>1
  <2>4. \A k \in NodesWalked(p)' : k \in DOMAIN extra'[p] /\ extra'[p][k] = ToolsOf(k)
    BY <1>1, <2>1, <2>2, <2>3
  <2>5. ASSUME NEW q \in Projects, q # p PROVE extra'[q] = extra[q] /\ NodesWalked(q)' = NodesWalked(q)
    BY <1>1, <2>1, <2>5 DEF NodesWalked
  <2>6. DOMAIN extra' = Projects /\ DOMAIN graph' = Projects
    BY <1>1, <2>1
  <2>7. ASSUME NEW q \in Projects, pc'[q] = "walking", NEW k \in NodesWalked(q)'
        PROVE  k \in DOMAIN extra'[q] /\ extra'[q][k] = ToolsOf(k)
    <3>1. CASE q = p
      BY <2>4, <2>7, <3>1
    <3>2. CASE q # p
      BY <1>1, <2>1, <2>5, <2>7, <3>2
    <3> QED
      BY <3>1, <3>2
  <2>8. \A q \in Projects : graph'[q] # <<>> => \A k \in Range(Tree[q]) : graph'[q][k] = ToolsOf(k)
    BY <1>1, <2>1
  <2> QED
    BY <2>6, <2>7, <2>8 DEF ToolsInv, ToolsOf
<1>7. CASE Compile(p)
  <2>1. /\ UNCHANGED <<walked, extra>> /\ pc' = [pc EXCEPT ![p] = "serving"]
        /\ pc[p] = "walking" /\ walked[p] = Len(Tree[p])
        /\ graph' = [graph EXCEPT ![p] = [n \in Range(Tree[p]) |-> extra[p][n]]]
    BY <1>7 DEF Compile, Walked, Goto, ToolKey
  <2>2. \A n \in Range(Tree[p]) : extra[p][n] = ToolsOf(n)
    BY <1>1, <2>1, AllWalked
  <2>3. \A n \in Range(Tree[p]) : graph'[p][n] = ToolsOf(n)
    BY <1>1, <2>1, <2>2
  <2> QED
    BY <1>1, <2>1, <2>3 DEF ToolsInv, NodesWalked, ToolsOf
<1>8. CASE Unwound(p)
  <2>1. /\ walked' = [walked EXCEPT ![p] = 0] /\ extra' = [extra EXCEPT ![p] = <<>>]
        /\ graph' = [graph EXCEPT ![p] = <<>>]
        /\ \E where \in {"off", "failed", "configured"} : pc' = [pc EXCEPT ![p] = where]
    BY <1>8 DEF Unwound, Goto
  <2>2. graph'[p] = <<>> /\ pc'[p] # "walking"
    BY <1>1, <2>1
  <2>3. \A q \in Projects : q # p => /\ pc'[q] = pc[q] /\ extra'[q] = extra[q]
                                    /\ graph'[q] = graph[q] /\ walked'[q] = walked[q]
    BY <1>1, <2>1
  <2>4. DOMAIN extra' = Projects /\ DOMAIN graph' = Projects
    BY <1>1, <2>1
  <2> QED
    BY <1>1, <2>2, <2>3, <2>4 DEF ToolsInv, NodesWalked, ToolsOf
<1> QED
  BY <1>3, <1>4, <1>5, <1>6, <1>7, <1>8 DEF RuntimeStep

LEMMA RuntimeNext == RuntimeInv /\ ToolsInv /\ [Next]_vars => RuntimeInv' /\ ToolsInv'
<1> SUFFICES ASSUME RuntimeInv, ToolsInv, [Next]_vars PROVE RuntimeInv' /\ ToolsInv'
  OBVIOUS
<1>1. CASE LoaderStep /\ UNCHANGED resourceVars
  BY <1>1, LoaderRuntime
<1>2. ASSUME NEW p \in Projects, RuntimeStep(p) PROVE RuntimeInv'
  BY <1>2, StartSteps, WalkNodeStep, PlainSteps, EndSteps DEF RuntimeStep
<1>3. ASSUME NEW p \in Projects, RuntimeStep(p) PROVE ToolsInv'
  BY <1>3, ToolSteps
<1>4. CASE UNCHANGED vars
  <2>1. UNCHANGED <<pc, mode, open, stack, walked, extra, graph, busy>>
    BY <1>4 DEF vars, loaderVars, resourceVars
  <2>2. RuntimeTypes' /\ \A q \in Projects : RuntimeOf(q)'
    BY <2>1, OthersRun DEF RuntimeInv, RuntimeTypes
  <2>3. ToolsInv'
    BY <2>1 DEF ToolsInv, NodesWalked, ToolsOf
  <2> QED
    BY <2>2, <2>3 DEF RuntimeInv
<1> QED
  BY <1>1, <1>2, <1>3, <1>4 DEF Next

-----------------------------------------------------------------------------
LEMMA ModulesOfKnown ==
    ASSUME LoaderInv, NEW p \in Projects, NEW m \in ModulesOf(p)
    PROVE  m \in modules /\ m.root = mounted[p]
<1>1. PICK s \in loaded[p] : m \in {s.module} \cup s.module.bound
  BY DEF ModulesOf
<1>2. s.module \in modules /\ s.module.root = mounted[p]
  BY DEF LoaderInv, LoadedAreModules
<1> QED
  BY <1>1, <1>2 DEF LoaderInv, BoundAreModules

LEMMA LoadProperties ==
    LoaderInv => LoadsAreFresh /\ LoadsAreCoherent /\ ProjectsNeverCollide /\ RunningModulesStay
<1> SUFFICES ASSUME LoaderInv
             PROVE  LoadsAreFresh /\ LoadsAreCoherent /\ ProjectsNeverCollide /\ RunningModulesStay
  OBVIOUS
<1>1. \A p \in Projects : \A m \in ModulesOf(p) : m \in modules /\ m.root = mounted[p]
  BY ModulesOfKnown
<1>2. LoadsAreFresh
  <2> SUFFICES ASSUME NEW p \in Projects, HasLoaded(p), NEW m \in ModulesOf(p)
               PROVE  m.version >= began[p][m.file]
    BY DEF LoadsAreFresh
  <2>1. Active(p) /\ m \in modules /\ m.root = mounted[p]
    BY <1>1 DEF HasLoaded, Active
  <2>2. began[p] \in [Files \cup Libs -> Nat] /\ began[p][m.file] <= m.version
    BY <2>1 DEF LoaderInv, ModulesAreFresh
  <2>3. m.file \in Files \cup Libs /\ m.version \in Nat
    BY <2>1 DEF LoaderInv, ModulesAreOwned
  <2> QED
    BY <2>2, <2>3
<1>3. LoadsAreCoherent
  BY <1>1 DEF LoadsAreCoherent, LoaderInv, OneCopyPerFile
<1>4. ProjectsNeverCollide
  <2> SUFFICES ASSUME NEW p \in Projects, NEW m \in ModulesOf(p) PROVE m.project = p
    BY DEF ProjectsNeverCollide
  <2>1. m \in modules /\ m.root = mounted[p]
    BY <1>1
  <2>2. m.project \in Projects /\ mounted[m.project] = mounted[p] /\ mounted[p] # 0
    BY <2>1 DEF LoaderInv, ModulesAreOwned
  <2> QED
    BY <2>2 DEF LoaderInv, RootsDiffer
<1>5. RunningModulesStay
  BY <1>1 DEF RunningModulesStay
<1> QED
  BY <1>2, <1>3, <1>4, <1>5

LEMMA RuntimeProperties ==
    RuntimeInv /\ ToolsInv => NothingLeaks /\ UsersGoFirst /\ AgentsHaveTheirTools
<1> SUFFICES ASSUME RuntimeInv, ToolsInv PROVE NothingLeaks /\ UsersGoFirst /\ AgentsHaveTheirTools
  OBVIOUS
<1>1. NothingLeaks
  <2> SUFFICES ASSUME NEW p \in Projects, ~HasRuntime(p) PROVE open[p] = {}
    BY DEF NothingLeaks
  <2>1. stack[p] = <<>> /\ pc[p] # "connected" /\ open[p] = Range(stack[p])
    BY DEF RuntimeInv, RuntimeOf, HasRuntime
  <2> QED
    BY <2>1 DEF Range
<1>2. UsersGoFirst
  <2> SUFFICES ASSUME NEW p \in Projects
               PROVE  /\ open[p] # {} => "checkpointer" \in open[p]
                      /\ open[p] \cap Nodes # {} => "store" \in open[p]
                      /\ busy[p] => Backends \cup (Range(Tree[p]) \cap Sandboxed) \subseteq open[p]
    BY DEF UsersGoFirst
  <2> DEFINE s == stack[p]
  <2>1. /\ s \in Seq(Resources) /\ StackOrder(s)
        /\ open[p] = Range(s) \cup (IF pc[p] = "connected" THEN {NextBackend(p)} ELSE {})
    BY DEF RuntimeInv, RuntimeTypes, RuntimeOf
  <2>2. s = <<>> \/ (s # <<>> /\ 1 \in DOMAIN s /\ s[1] = "checkpointer")
    BY <2>1 DEF StackOrder
  <2>3. open[p] # {} => "checkpointer" \in open[p]
    BY <2>1, <2>2 DEF Range, NextBackend
  <2>4. open[p] \cap Nodes # {} => "store" \in open[p]
    <3> SUFFICES ASSUME NEW n \in open[p], n \in Nodes PROVE "store" \in open[p]
      OBVIOUS
    <3>1. n \notin {"checkpointer", "store"}
      OBVIOUS
    <3>2. PICK i \in DOMAIN s : s[i] = n
      BY <2>1, <3>1 DEF Range, NextBackend
    <3>3. i # 1
      BY <2>2, <3>1, <3>2
    <3>4. Len(s) \in Nat /\ DOMAIN s = 1 .. Len(s)
      BY <2>1, Lengths
    <3>5. Len(s) >= 2 /\ 2 \in DOMAIN s
      BY <3>3, <3>4
    <3>6. s[2] = "store"
      BY <2>1, <3>5 DEF StackOrder
    <3> QED
      BY <2>1, <3>5, <3>6 DEF Range
  <2>5. busy[p] => Range(Tree[p]) \cap Sandboxed \subseteq open[p]
    <3> SUFFICES ASSUME busy[p] PROVE Range(Tree[p]) \cap Sandboxed \subseteq open[p]
      OBVIOUS
    <3>1. walked[p] = Len(Tree[p]) /\ NodesWalked(p) \cap Sandboxed \subseteq Range(s)
      BY DEF RuntimeInv, RuntimeOf, Complete
    <3> QED
      BY <2>1, <3>1, AllWalked
  <2>6. busy[p] => Backends \subseteq open[p]
    <3> SUFFICES ASSUME busy[p] PROVE Backends \subseteq open[p]
      OBVIOUS
    <3>1. Len(s) >= 2 /\ Len(s) \in Nat /\ DOMAIN s = 1 .. Len(s)
      BY <2>1, Lengths DEF RuntimeInv, RuntimeOf, Complete
    <3>2. 1 \in DOMAIN s /\ 2 \in DOMAIN s
      BY <3>1
    <3>3. s[1] = "checkpointer" /\ s[2] = "store"
      BY <2>1, <3>1 DEF StackOrder
    <3> QED
      BY <2>1, <3>2, <3>3 DEF Range, Backends
  <2> QED
    BY <2>3, <2>4, <2>5, <2>6
<1>3. AgentsHaveTheirTools
  BY DEF ToolsInv, AgentsHaveTheirTools
<1> QED
  BY <1>1, <1>2, <1>3

LEMMA Invariants == Spec => [](LoaderInv /\ EnvInv /\ RuntimeInv /\ ToolsInv)
<1>1. AssemblyInit => LoaderInv /\ EnvInv /\ RuntimeInv /\ ToolsInv
  BY LoaderInit, RuntimeInit DEF AssemblyInit
<1>2. LoaderInv /\ EnvInv /\ RuntimeInv /\ ToolsInv /\ [Next]_vars
         => LoaderInv' /\ EnvInv' /\ RuntimeInv' /\ ToolsInv'
  BY LoaderNext, RuntimeNext
<1> QED
  BY <1>1, <1>2, PTL DEF Spec

\* Where a project can stand: every step goes to one of the stages.
StageInv == pc \in [Projects -> Stages] /\ raised \in [Projects -> BOOLEAN]

LEMMA StageNext == StageInv /\ [Next]_vars => StageInv'
<1> SUFFICES ASSUME StageInv, [Next]_vars PROVE StageInv'
  OBVIOUS
<1> USE DEF StageInv, Stages, Goto, Raise
<1>1. ASSUME LoaderStep, UNCHANGED resourceVars PROVE StageInv'
  <2> USE <1>1 DEF resourceVars
  <2>1. CASE OtherMounts
    BY <2>1 DEF OtherMounts
  <2>2. ASSUME NEW p \in Projects, Configure(p) PROVE StageInv'
    BY <2>2 DEF Configure
  <2>8. ASSUME NEW p \in Projects, ConfigFails(p) PROVE StageInv'
    BY <2>8 DEF ConfigFails
  <2>3. ASSUME NEW p \in Projects, Mount(p) PROVE StageInv'
    BY <2>3 DEF Mount
  <2>4. ASSUME NEW p \in Projects, Import(p) PROVE StageInv'
    BY <2>4 DEF Import
  <2>5. ASSUME NEW p \in Projects, ImportFails(p) PROVE StageInv'
    BY <2>5 DEF ImportFails
  <2>6. ASSUME NEW p \in Projects, FinishLoad(p) PROVE StageInv'
    BY <2>6 DEF FinishLoad
  <2>7. ASSUME NEW p \in Projects, NEW x \in Files \cup Libs, Edit(p, x) PROVE StageInv'
    BY <2>7 DEF Edit
  <2> QED
    BY <1>1, <2>1, <2>2, <2>3, <2>4, <2>5, <2>6, <2>7, <2>8 DEF LoaderStep
<1>2. ASSUME NEW p \in Projects, RuntimeStep(p) PROVE StageInv'
  <2>1. CASE Connect(p) \/ ConnectFails(p) \/ SetUp(p) \/ SetUpFails(p)
    BY <2>1 DEF Connect, ConnectFails, SetUp, SetUpFails
  <2>2. CASE WalkNode(p) \/ WalkFails(p) \/ Compile(p) \/ CompileFails(p) \/ Inspect(p)
    BY <2>2 DEF WalkNode, WalkFails, Compile, CompileFails, Inspect, resourceVars
  <2>3. CASE BeginTurn(p) \/ EndTurn(p) \/ Stop(p) \/ Drain(p)
    BY <2>3 DEF BeginTurn, EndTurn, Stop, Drain, AfterServing, resourceVars
  <2>4. CASE Unwind(p)
    BY <2>4 DEF Unwind
  <2>5. CASE Unwound(p)
    BY <2>5 DEF Unwound
  <2> QED
    BY <1>2, <2>1, <2>2, <2>3, <2>4, <2>5 DEF RuntimeStep
<1>3. CASE UNCHANGED vars
  BY <1>3 DEF vars, resourceVars
<1> QED
  BY <1>1, <1>2, <1>3 DEF Next

\* The loader's and the runtimes' state is well typed for any projects, files,
\* agent trees and edits.
THEOREM TypeCorrect == Spec => []TypeOK
<1>1. AssemblyInit => StageInv
  BY DEF AssemblyInit, Init, StageInv, Stages
<1>2. LoaderInv /\ RuntimeInv /\ StageInv => TypeOK
  BY DEF LoaderInv, LoaderTypes, ModulesAreOwned, RuntimeInv, RuntimeTypes, StageInv, TypeOK
<1> QED
  BY <1>1, <1>2, StageNext, Invariants, PTL DEF Spec

\* A load never mixes in modules of an earlier load (mount_project).
THEOREM ReloadsAreFresh == Spec => []LoadsAreFresh
BY Invariants, LoadProperties, PTL

\* The files of a load share what they import, however it is edited meanwhile.
THEOREM OneLibraryPerLoad == Spec => []LoadsAreCoherent
BY Invariants, LoadProperties, PTL

\* Projects of one process neither get each other's modules (_MOUNTED) nor
\* take them away (the purge of mount_project).
THEOREM ProjectsAreApart == Spec => []ProjectsStayApart
<1>1. LoaderInv => ProjectsStayApart
  BY LoadProperties DEF ProjectsStayApart
<1> QED
  BY <1>1, Invariants, PTL

\* The exported environment wins over every .env and leve.toml (load_config).
THEOREM TheEnvironmentWins == Spec => []ExportedWins
<1>1. LoaderInv /\ EnvInv => ExportedWins
  BY DEF EnvInv, ExportedWins
<1> QED
  BY <1>1, Invariants, PTL

\* Whatever fails, a runtime that is gone has left nothing open (build_runtime).
THEOREM RuntimesCloseEverything == Spec => []NothingLeaks
BY Invariants, RuntimeProperties, PTL

\* Backends outlive the sandboxes and the turns that use them, in projects with
\* and without sandboxed agents.
THEOREM BackendsOutliveTheirUsers == Spec => []UsersGoFirst
BY Invariants, RuntimeProperties, PTL

\* Each agent of a tree is compiled with its own tools (_resolve_extra_tools).
THEOREM ToolsReachTheirAgent == Spec => []AgentsHaveTheirTools
BY Invariants, RuntimeProperties, PTL

\* No two tools of an agent have one name, for any number of connections and
\* operations, whatever the operations are called (_dedupe, namespaced).
THEOREM ToolsAreToldApart == Spec => []ToolNamesDiffer
<1>1. AgentsHaveTheirTools => ToolNamesDiffer
  <2> SUFFICES ASSUME AgentsHaveTheirTools, NEW p \in Projects, graph[p] # <<>>,
                      NEW n \in Range(Tree[p])
               PROVE  IsInjective(graph[p][n].names)
    BY DEF ToolNamesDiffer
  <2>1. graph[p][n] = ToolsOf(n)
    BY DEF AgentsHaveTheirTools
  <2>2. n \in Nodes
    BY DEF Range
  <2> QED
    BY <2>1, <2>2, NamesDiffer DEF ToolsOf
<1> QED
  BY <1>1, ToolsReachTheirAgent, PTL
=============================================================================
