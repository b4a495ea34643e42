------------------------------- MODULE Loader -------------------------------
(***************************************************************************)
(* Configuration (config.py) and discovery (loader/) of the projects that  *)
(* one process loads, while their files are edited.                        *)
(*                                                                         *)
(* A load is synchronous: nothing else of the process runs until it is     *)
(* over, other processes may edit files at any point of it.  External:     *)
(* import_module returns the entry of sys.modules when there is one, else  *)
(* it executes the file, after the modules the file imports, and leaves no *)
(* entry when that raises.  The files that are not imported (instructions, *)
(* skills) are read once per load and leave no state.                      *)
(***************************************************************************)
EXTENDS Naturals, Sequences, FiniteSets

CONSTANTS
    Projects,
    Files,    \* the files the loader imports
    Names,    \* names specs and operations have
    Libs,     \* modules of a project that its files import (from ..lib import)
    Order,    \* a project's Files as _load_dir meets them, subagents last
    Directory,\* the directory of a file
    Agents,   \* the files that are an agent.py
    Named,    \* connections and channels: specs are named after their file
    Source,   \* the contents an edit gives a file, one after the other
    Dotenv,   \* the setting in a project's .env, or None; one setting stands for
              \* the checkpointer and the store, which take the same path
    Toml,     \* the setting in its leve.toml, or the default
    Exports,  \* the setting the process may be started with, None included
    Kinds,    \* the settings that validate() accepts
    Modes,    \* how a project is started: serve, eval, build
    Elsewhere,\* bound: packages there are after other projects are mounted
    MaxRoot,  \* bound: packages mounted in the process
    None

\* What a file defines at module level, what it imports, whether it executes.
ASSUME SourceAssumption ==
    \A p \in Projects : \A x \in Files \cup Libs :
        /\ Source[p][x] \in Seq([names : SUBSET Names, uses : SUBSET Libs, valid : BOOLEAN])
        /\ Source[p][x] # <<>>
        /\ x \in Libs => \A i \in DOMAIN Source[p][x] : Source[p][x][i].uses = {}

ASSUME OrderAssumption ==
    /\ Order \in [Projects -> Seq(Files)]
    /\ Files \cap Libs = {}
    /\ None \notin Kinds /\ Modes \in [Projects -> SUBSET {"serve", "eval", "build"}]
    /\ MaxRoot \in Nat /\ Elsewhere \subseteq 0 .. MaxRoot

VARIABLES
    disk,     \* the edit each file is at
    exported, \* the setting the process was started with
    env,      \* the setting in os.environ
    config,   \* the resolved setting of each project
    counter,  \* _mount_counter
    mounted,  \* _MOUNTED: the root of each project, 0 for none
    modules,  \* sys.modules below the mounted roots
    mode,     \* serve (create_app), eval (run_evals), build (inspect_project)
    pc,       \* where each project stands
    at,       \* position of its load in Order
    began,    \* history: the files as they were when the load began
    loaded,   \* the specs it has collected
    surfaces  \* what create_app has loaded for its channels and schedules

loaderVars == <<disk, exported, env, config, counter, mounted, modules, mode, at, began,
                loaded, surfaces>>

Init ==
    /\ disk = [p \in Projects |-> [x \in Files \cup Libs |-> 1]]
    /\ exported \in Exports
    /\ env = exported
    /\ config = [p \in Projects |-> None]
    /\ counter = 0
    /\ mounted = [p \in Projects |-> 0]
    /\ modules = {}
    /\ mode = [p \in Projects |-> "none"]
    /\ pc = [p \in Projects |-> "off"]
    /\ at = [p \in Projects |-> 1]
    /\ began = [p \in Projects |-> None]
    /\ loaded = [p \in Projects |-> {}]
    /\ surfaces = [p \in Projects |-> None]

Goto(p, where) == pc' = [pc EXCEPT ![p] = where]

\* The load's results are given up.
Forget(p) ==
    /\ at' = [at EXCEPT ![p] = 1]
    /\ began' = [began EXCEPT ![p] = None]
    /\ loaded' = [loaded EXCEPT ![p] = {}]
    /\ surfaces' = [surfaces EXCEPT ![p] = None]

\* No load is under way, so the event loop may run.
Quiet == \A p \in Projects : pc[p] # "loading"

-----------------------------------------------------------------------------
(* load_config *)

\* Mutant of WithDotenv: override=True.
WithDotenvFirst(p) == IF Dotenv[p] # None THEN Dotenv[p] ELSE env

\* load_dotenv(override=False): what the environment has stays.
WithDotenv(p) == IF env = None THEN Dotenv[p] ELSE env

\* load_config and validate(), by a command of the CLI or a host.
Configure(p) ==
    /\ Quiet
    /\ pc[p] \in {"off", "failed"}
    /\ env' = WithDotenv(p)
    /\ config' = [config EXCEPT ![p] = IF env' # None THEN env' ELSE Toml[p]]
    /\ \E m \in Modes[p] : mode' = [mode EXCEPT ![p] = m]
    /\ Goto(p, IF config'[p] \in Kinds THEN "configured" ELSE "failed")
    /\ UNCHANGED <<disk, exported, counter, mounted, modules, at, began, loaded, surfaces>>

\* leve.toml cannot be read or parsed: an error before .env is looked at.
ConfigFails(p) ==
    /\ Quiet
    /\ pc[p] \in {"off", "failed"}
    /\ Goto(p, "failed")
    /\ UNCHANGED loaderVars

-----------------------------------------------------------------------------
(* discovery.mount_project *)

\* Mutants of Purge: the entry of the package only; every name that starts
\* with the name of the package.
PurgePackage(r) == modules

Digits(n) == IF n < 10 THEN <<n>> ELSE <<n \div 10, n % 10>>
PurgePrefix(r) ==
    {m \in modules : \/ Len(Digits(m.root)) < Len(Digits(r))
                     \/ SubSeq(Digits(m.root), 1, Len(Digits(r))) # Digits(r)}

\* sys.modules loses the package and everything below it.
Purge(r) == {m \in modules : m.root # r}

\* Mutant of RootOf: projects of equal directory names share a root.
RootByName(p) == 1

RootOf(p) == IF mounted[p] # 0 THEN mounted[p] ELSE counter + 1

\* The beginning of load_agent.
Mount(p) ==
    /\ Quiet
    /\ pc[p] \in {"configured", "app"}
    /\ mounted[p] = 0 => counter < MaxRoot
    /\ counter' = IF mounted[p] = 0 THEN counter + 1 ELSE counter
    /\ mounted' = [mounted EXCEPT ![p] = RootOf(p)]
    /\ modules' = IF mounted[p] = 0 THEN modules ELSE Purge(mounted[p])
    /\ at' = [at EXCEPT ![p] = 1]
    /\ began' = [began EXCEPT ![p] = disk[p]]
    /\ loaded' = [loaded EXCEPT ![p] = {}]
    /\ Goto(p, "loading")
    /\ UNCHANGED <<disk, exported, env, config, mode, surfaces>>

\* Other projects are mounted in the same process.
OtherMounts ==
    /\ Quiet
    /\ counter' \in {n \in Elsewhere : counter < n}
    /\ UNCHANGED <<disk, exported, env, config, mounted, modules, mode, pc, at, began, loaded,
                   surfaces>>

-----------------------------------------------------------------------------
(* discovery.import_path, collect_instances *)

Content(p, x) == Source[p][x][disk[p][x]]

Entry(p, x) == {m \in modules : m.root = mounted[p] /\ m.file = x}

Executed(p, x, bound) ==
    [root |-> mounted[p], file |-> x, project |-> p, version |-> disk[p][x],
     specs |-> Content(p, x).names, bound |-> bound]

\* Mutant of LibModule: the library is executed for every file that imports it.
OwnLibModule(p, l) == Executed(p, l, {})

LibModule(p, l) == IF Entry(p, l) # {} THEN CHOOSE m \in Entry(p, l) : TRUE
                   ELSE Executed(p, l, {})

\* The libraries that are executed on the way.
FreshLibs(p, f) == {l \in Content(p, f).uses : Entry(p, l) = {}}

Imports(p, f) ==
    \/ Entry(p, f) # {}
    \/ Content(p, f).valid /\ \A l \in FreshLibs(p, f) : Content(p, l).valid

\* The module import_module returns when it does not raise.
FileModule(p, f) ==
    IF Entry(p, f) # {} THEN CHOOSE m \in Entry(p, f) : TRUE
    ELSE Executed(p, f, {LibModule(p, l) : l \in Content(p, f).uses})

\* The instances among a module's variables, with those it has imported.
Collected(m) ==
    LET name(n) == IF m.file \in Named THEN m.file ELSE n
    IN  UNION {{[module |-> m, origin |-> o.file, own |-> n, name |-> name(n)] : n \in o.specs} :
               o \in {m} \cup m.bound}

\* Two specs of one directory have one name.
Clash(specs) ==
    \E s, t \in specs : /\ s # t /\ s.name = t.name
                        /\ Directory[s.module.file] = Directory[t.module.file]

Refused(p, f, specs) ==
    \/ Clash(loaded[p] \cup specs)
    \/ f \in Agents /\ Cardinality(specs) # 1

Current(p) == Order[p][at[p]]

\* One file of _load_dir.
Import(p) ==
    /\ pc[p] = "loading" /\ at[p] <= Len(Order[p])
    /\ Imports(p, Current(p))
    /\ LET m == FileModule(p, Current(p))
       IN  /\ modules' = modules \cup {m} \cup m.bound
           /\ IF Refused(p, Current(p), Collected(m))
              THEN Goto(p, "failed") /\ Forget(p)
              ELSE /\ loaded' = [loaded EXCEPT ![p] = @ \cup Collected(m)]
                   /\ at' = [at EXCEPT ![p] = @ + 1]
                   /\ UNCHANGED <<pc, began, surfaces>>
    /\ UNCHANGED <<disk, exported, env, config, counter, mounted, mode>>

\* The file, or a library it imports, raises: libraries imported before stay.
ImportFails(p) ==
    /\ pc[p] = "loading" /\ at[p] <= Len(Order[p])
    /\ ~Imports(p, Current(p))
    /\ \E S \in SUBSET {l \in FreshLibs(p, Current(p)) : Content(p, l).valid} :
          modules' = modules \cup {Executed(p, l, {}) : l \in S}
    /\ Goto(p, "failed") /\ Forget(p)
    /\ UNCHANGED <<disk, exported, env, config, counter, mounted, mode>>

\* create_app goes on with its surfaces, build_runtime with the runtime.
FinishLoad(p) ==
    /\ pc[p] = "loading" /\ at[p] > Len(Order[p])
    /\ IF mode[p] = "serve" /\ surfaces[p] = None
       THEN Goto(p, "app") /\ surfaces' = [surfaces EXCEPT ![p] = loaded[p]]
       ELSE Goto(p, "loaded") /\ UNCHANGED surfaces
    /\ UNCHANGED <<disk, exported, env, config, counter, mounted, modules, mode, at, began, loaded>>

\* An edit, by any other process and at any moment.
Edit(p, x) ==
    /\ disk[p][x] < Len(Source[p][x])
    /\ disk' = [disk EXCEPT ![p][x] = @ + 1]
    /\ UNCHANGED <<exported, env, config, counter, mounted, modules, mode, pc, at, began,
                   loaded, surfaces>>

LoaderStep ==
    \/ OtherMounts
    \/ \E p \in Projects :
          \/ Configure(p) \/ ConfigFails(p)
          \/ Mount(p) \/ Import(p) \/ ImportFails(p) \/ FinishLoad(p)
    \/ \E p \in Projects, x \in Files \cup Libs : Edit(p, x)

-----------------------------------------------------------------------------
(* Properties *)

HasLoaded(p) == pc[p] \notin {"off", "failed", "configured", "loading"}

\* What a load has brought in: its files' modules and what these import.
ModulesOf(p) == UNION {{s.module} \cup s.module.bound : s \in loaded[p]}

\* A finished load shows every file as it was when the load began, or as it
\* was edited since: no module of an earlier load is left (mount_project).
LoadsAreFresh ==
    \A p \in Projects : HasLoaded(p) =>
        \A m \in ModulesOf(p) : m.project = p => m.version >= began[p][m.file]

\* The files of one load share one copy of what they import, also when it is
\* edited between their imports.
LoadsAreCoherent ==
    \A p \in Projects : \A m, n \in ModulesOf(p) : m.file = n.file => m = n

\* Projects loaded in one process never get each other's modules.
ProjectsNeverCollide == \A p \in Projects : \A m \in ModulesOf(p) : m.project = p

\* The modules a project runs with stay in sys.modules whatever other
\* projects are loaded, so that a late import finds the same copy.
RunningModulesStay == \A p \in Projects : HasLoaded(p) => ModulesOf(p) \subseteq modules

\* Loading a project neither gives it another one's modules nor takes the
\* other's away, also when one root is a prefix of the other.
ProjectsStayApart == ProjectsNeverCollide /\ RunningModulesStay

\* An exported setting is never replaced by a file of any project.
ExportedWins ==
    \A p \in Projects : exported # None /\ config[p] # None => config[p] = exported
=============================================================================
