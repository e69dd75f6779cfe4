-------------------------- MODULE SourceProvider --------------------------
(***************************************************************************)
(* FileSystemSourceProvider (pkg/engine/provider/filesystem.go).  One      *)
(* provider is shared by every service; each calls GetSources in its own   *)
(* goroutine, walks the same tree and hands to its sink the files that its *)
(* parser supports.  The set of excluded files is shared and grows while   *)
(* the services walk: a service that resolves a chart excludes the files   *)
(* the resolver names.                                                     *)
(*                                                                         *)
(* mu is a sync.RWMutex: Lock first claims the lock for a writer, which    *)
(* keeps new readers out, and then waits for the readers inside to leave.  *)
(* checkConditions holds the read lock from its first to its last line.    *)
(*                                                                         *)
(* The scan paths and their trees are one sequence of entries, in the      *)
(* order filepath.Walk visits them.  excludes holds the entries for which  *)
(* containsFile is true (os.SameFile), so an entry stands for its file.    *)
(*                                                                         *)
(* What the resolver names for a chart is a constant.  createService       *)
(* registers no resolver in this version: until one is, the lists are      *)
(* empty, and a chart is walked like any other folder.                     *)
(***************************************************************************)
EXTENDS Naturals, Sequences, FiniteSets, SequencesExt, FiniteSetsExt

CONSTANTS
  Services,     \* one per parser
  Walk,         \* the entries in the order they are visited
  Roots,        \* the entries that are scan paths
  Dirs,         \* the entries that are directories
  Inside,       \* the entries below each directory
  Caches,       \* directories queryRegexExcludeTerraCache matches
  InCwd,        \* caches whose name also exists in the working directory
  Charts,       \* directories with a Chart.yaml
  Rendered,     \* the files the resolver excludes for each chart, a sequence
  Supported,    \* the files whose extension each service's parser supports
  Excludes,     \* the entries excluded from the start
  Faults        \* what may go wrong: functions from entries to fault kinds

None == "none"

(* "stat": os.Stat or filepath.Walk reports an error for the entry; "link": *)
(* a symbolic link that cannot be opened; "open": another file that cannot  *)
(* be opened; "sink": the sink returns an error.                            *)
FaultKind == {None, "stat", "link", "open", "sink"}

ASSUME ServicesNamed == None \notin Services
ASSUME FaultsTyped == Faults \subseteq [ToSet(Walk) -> FaultKind]
ASSUME RenderedInside == \A d \in Charts : ToSet(Rendered[d]) \subseteq Inside[d] \ Dirs

ASSUME WalkTyped ==
  /\ Walk \in Seq(ToSet(Walk))
  /\ Dirs \subseteq ToSet(Walk) /\ Charts \subseteq Dirs /\ Caches \subseteq Dirs
  /\ Rendered \in [Charts -> Seq(ToSet(Walk))]
  /\ \A s \in Services : Supported[s] \subseteq ToSet(Walk)

(* filepath.Walk visits a folder, then all that is inside it, then the rest. *)
ASSUME WalkInOrder ==
  \A i, j \in DOMAIN Walk :
    Walk[i] \in Dirs /\ Walk[j] \in Inside[Walk[i]] =>
      /\ i < j
      /\ \A k \in i + 1 .. j : Walk[k] \in Inside[Walk[i]]
      /\ Walk[j] \in Dirs => Inside[Walk[j]] \subseteq Inside[Walk[i]]

(* The scan paths are walked one after another; none is inside another. *)
ASSUME RootsApart ==
  \A i, j \in DOMAIN Walk : \A k \in 1 .. i - 1 :
    Walk[i] \in Roots /\ i <= j /\ Walk[k] \in Dirs => Walk[j] \notin Inside[Walk[k]]

VARIABLES
  fault,      \* what is wrong with each entry in this run
  at,         \* the index of the entry each service visits
  pc,         \* where each service is in GetSources
  readers,    \* services that hold the read lock
  writer,     \* the service that claimed the lock for writing, or None
  excludes,   \* s.excludes
  adding,     \* what is left of the list given to AddExcluded
  resolved,   \* the flag of walkDir
  rendered,   \* charts whose files the service has excluded (history)
  sunk        \* files handed to the sink of each service

lockVars == <<readers, writer>>
vars == <<fault, at, pc, lockVars, excludes, adding, resolved, rendered, sunk>>

Entry(s) == Walk[at[s]]
Visiting(s) == pc[s] = "visit" /\ at[s] <= Len(Walk)

Init ==
  /\ fault \in Faults
  /\ at = [s \in Services |-> 1]
  /\ pc = [s \in Services |-> "visit"]
  /\ readers = {} /\ writer = None
  /\ excludes = Excludes
  /\ adding = [s \in Services |-> <<>>]
  /\ resolved = [s \in Services |-> FALSE]
  /\ rendered = [s \in Services |-> {}]
  /\ sunk = [s \in Services |-> {}]
----------------------------------------------------------------------------
(* Faulty: the rest of the walk is skipped with the folder. *)
SkipDirAll(i) == Len(Walk) + 1

(* filepath.SkipDir: the walk goes on after the last entry of the folder *)
SkipDir(i) ==
  Min({j \in i + 1 .. Len(Walk) + 1 : j > Len(Walk) \/ Walk[j] \notin Inside[Walk[i]]})

(* the walk moves on to entry i; a new scan path is walked with resolved FALSE *)
GoTo(s, i) ==
  /\ at' = [at EXCEPT ![s] = i]
  /\ pc' = [pc EXCEPT ![s] = "visit"]
  /\ resolved' = [resolved EXCEPT ![s] = @ /\ ~(i <= Len(Walk) /\ Walk[i] \in Roots)]

Fail(s) ==
  /\ pc' = [pc EXCEPT ![s] = "failed"]
  /\ UNCHANGED <<at, resolved>>

(* os.Stat fails for a scan path, or filepath.Walk passes an error on *)
StatFails(s) ==
  /\ Visiting(s)
  /\ fault[Entry(s)] = "stat"
  /\ Fail(s)
  /\ UNCHANGED <<fault, lockVars, excludes, adding, rendered, sunk>>

(* A scan path that is a file: it is not checked against the exclusions,    *)
(* and an error of its sink ends GetSources.                                *)
OpenScanFile(s) ==
  LET e == Entry(s)
      Readable == e \in Supported[s] /\ fault[e] \notin {"link", "open"}
  IN
  /\ Visiting(s)
  /\ e \in Roots \ Dirs /\ fault[e] # "stat"
  /\ IF e \in Supported[s] /\ fault[e] \in {"open", "sink"} THEN Fail(s) ELSE GoTo(s, at[s] + 1)
  /\ sunk' = [sunk EXCEPT ![s] = IF Readable THEN @ \union {e} ELSE @]
  /\ UNCHANGED <<fault, lockVars, excludes, adding, rendered>>

(* checkConditions: s.mu.RLock() *)
RLock(s) ==
  /\ Visiting(s)
  /\ Entry(s) \notin Roots \/ Entry(s) \in Dirs
  /\ fault[Entry(s)] # "stat"
  /\ writer = None
  /\ readers' = readers \union {s}
  /\ pc' = [pc EXCEPT ![s] = "check"]
  /\ UNCHANGED <<fault, at, writer, excludes, adding, resolved, rendered, sunk>>
----------------------------------------------------------------------------
(* checkConditions, a cache folder: its name is excluded with the read lock *)
(* held; AddExcluded returns at once when the working directory has no such *)
(* file.                                                                    *)
ExcludeCache(s) ==
  /\ pc[s] = "check"
  /\ Entry(s) \in Caches
  /\ IF Entry(s) \in InCwd
     THEN /\ adding' = [adding EXCEPT ![s] = <<Entry(s)>>]
          /\ pc' = [pc EXCEPT ![s] = "lock"]
          /\ UNCHANGED <<at, resolved, readers>>
     ELSE /\ GoTo(s, SkipDir(at[s]))
          /\ readers' = readers \ {s}
          /\ UNCHANGED adding
  /\ UNCHANGED <<fault, writer, excludes, rendered, sunk>>

(* an excluded folder *)
SkipFolder(s) ==
  /\ pc[s] = "check"
  /\ Entry(s) \in (Dirs \ Caches) \intersect excludes
  /\ GoTo(s, SkipDir(at[s]))
  /\ readers' = readers \ {s}
  /\ UNCHANGED <<fault, writer, excludes, adding, rendered, sunk>>

ResolvesChart(s) == Entry(s) \in Charts /\ ~resolved[s]

(* any other folder: nothing to do for it but to walk what is inside *)
EnterFolder(s) ==
  /\ pc[s] = "check"
  /\ Entry(s) \in Dirs \ (Caches \union excludes)
  /\ ~ResolvesChart(s)
  /\ GoTo(s, at[s] + 1)
  /\ readers' = readers \ {s}
  /\ UNCHANGED <<fault, writer, excludes, adding, rendered, sunk>>

EnterChart(s) ==
  /\ pc[s] = "check"
  /\ Entry(s) \in Dirs \ (Caches \union excludes)
  /\ ResolvesChart(s)
  /\ pc' = [pc EXCEPT ![s] = "resolve"]
  /\ readers' = readers \ {s}
  /\ UNCHANGED <<fault, at, writer, excludes, adding, resolved, rendered, sunk>>

(* Faulty: only the extension decides. *)
SkipsFileByExtension(s) == Entry(s) \notin Supported[s]

SkipsFile(s) == Entry(s) \in excludes \/ Entry(s) \notin Supported[s]

SkipFile(s) ==
  /\ pc[s] = "check"
  /\ Entry(s) \notin Dirs
  /\ SkipsFile(s)
  /\ GoTo(s, at[s] + 1)
  /\ readers' = readers \ {s}
  /\ UNCHANGED <<fault, writer, excludes, adding, rendered, sunk>>

TakeFile(s) ==
  /\ pc[s] = "check"
  /\ Entry(s) \notin Dirs
  /\ ~SkipsFile(s)
  /\ pc' = [pc EXCEPT ![s] = "open"]
  /\ readers' = readers \ {s}
  /\ UNCHANGED <<fault, at, writer, excludes, adding, resolved, rendered, sunk>>
----------------------------------------------------------------------------
(* walkDir: resolverSink fails, the chart is walked as it is *)
ResolveFails(s) ==
  /\ pc[s] = "resolve"
  /\ GoTo(s, at[s] + 1)
  /\ UNCHANGED <<fault, lockVars, excludes, adding, rendered, sunk>>

(* AddExcluded of an empty list is over at once; then resolved is set *)
Resolve(s) ==
  /\ pc[s] = "resolve"
  /\ adding' = [adding EXCEPT ![s] = Rendered[Entry(s)]]
  /\ pc' = [pc EXCEPT ![s] = IF adding'[s] = <<>> THEN "resolved" ELSE "lock"]
  /\ UNCHANGED <<fault, at, lockVars, excludes, resolved, rendered, sunk>>

(* AddExcluded: s.mu.Lock(), claiming the lock *)
Lock(s) ==
  /\ pc[s] = "lock"
  /\ writer = None
  /\ writer' = s
  /\ pc' = [pc EXCEPT ![s] = "add"]
  /\ UNCHANGED <<fault, at, readers, excludes, adding, resolved, rendered, sunk>>

(* Faulty: no s.mu.Unlock() *)
AddKeepingLock(s) ==
  /\ pc[s] = "add"
  /\ readers = {}
  /\ excludes' = excludes \union {Head(adding[s])}
  /\ adding' = [adding EXCEPT ![s] = Tail(@)]
  /\ pc' = [pc EXCEPT ![s] = IF adding'[s] = <<>> THEN "resolved" ELSE "lock"]
  /\ UNCHANGED <<fault, at, lockVars, resolved, rendered, sunk>>

(* AddExcluded: the readers have left; append, then s.mu.Unlock() *)
Add(s) ==
  /\ pc[s] = "add"
  /\ readers = {}
  /\ excludes' = excludes \union {Head(adding[s])}
  /\ adding' = [adding EXCEPT ![s] = Tail(@)]
  /\ writer' = None
  /\ pc' = [pc EXCEPT ![s] = IF adding'[s] = <<>> THEN "resolved" ELSE "lock"]
  /\ UNCHANGED <<fault, at, readers, resolved, rendered, sunk>>

(* Faulty: resolved is set on a copy and stays FALSE. *)
LeaveChartUnresolved(s) ==
  /\ pc[s] = "resolved"
  /\ rendered' = [rendered EXCEPT ![s] = @ \union {Entry(s)}]
  /\ GoTo(s, at[s] + 1)
  /\ UNCHANGED <<fault, lockVars, excludes, adding, sunk>>

(* resolved = true *)
LeaveChart(s) ==
  /\ pc[s] = "resolved"
  /\ rendered' = [rendered EXCEPT ![s] = @ \union {Entry(s)}]
  /\ at' = [at EXCEPT ![s] = @ + 1]
  /\ pc' = [pc EXCEPT ![s] = "visit"]
  /\ resolved' = [resolved EXCEPT ![s] = ~(at'[s] <= Len(Walk) /\ Walk[at'[s]] \in Roots)]
  /\ UNCHANGED <<fault, lockVars, excludes, adding, sunk>>

(* os.Open and sink: a dead link is passed over, another failure to open    *)
(* ends the walk, an error of the sink is dropped.                          *)
OpenFile(s) ==
  /\ pc[s] = "open"
  /\ IF fault[Entry(s)] = "open" THEN Fail(s) ELSE GoTo(s, at[s] + 1)
  /\ sunk' = [sunk EXCEPT ![s] = IF fault[Entry(s)] \in {None, "sink"} THEN @ \union {Entry(s)} ELSE @]
  /\ UNCHANGED <<fault, lockVars, excludes, adding, rendered>>

(* every scan path is done *)
Finish(s) ==
  /\ pc[s] = "visit" /\ at[s] > Len(Walk)
  /\ pc' = [pc EXCEPT ![s] = "done"]
  /\ UNCHANGED <<fault, at, lockVars, excludes, adding, resolved, rendered, sunk>>
----------------------------------------------------------------------------
Step(s) ==
  \/ StatFails(s) \/ OpenScanFile(s) \/ RLock(s)
  \/ ExcludeCache(s) \/ SkipFolder(s) \/ EnterFolder(s) \/ EnterChart(s)
  \/ SkipFile(s) \/ TakeFile(s)
  \/ ResolveFails(s) \/ Resolve(s) \/ Lock(s) \/ Add(s) \/ LeaveChart(s)
  \/ OpenFile(s) \/ Finish(s)

Terminated == (\A s \in Services : pc[s] \in {"done", "failed"}) /\ UNCHANGED vars

Next == (\E s \in Services : Step(s)) \/ Terminated

Spec == Init /\ [][Next]_vars

(* The goroutines are scheduled, and RWMutex starves nobody. *)
FairSpec == Spec /\ \A s \in Services : WF_vars(Step(s))
----------------------------------------------------------------------------
(* What a service must parse, had no chart been rendered: the files it      *)
(* supports, outside the excluded and the cache folders.  A file that is a  *)
(* scan path of its own is parsed whatever is excluded.                     *)
Wanted(s) ==
  {f \in Supported[s] \ Dirs :
     /\ fault[f] \notin {"link", "open", "stat"}
     /\ f \in Roots \/ /\ f \notin Excludes
                       /\ \A d \in Dirs : f \in Inside[d] => d \notin Caches \union Excludes}

(* A walk that succeeds is complete whatever the other services do: what it *)
(* passes over was excluded by a service that resolved a chart, and nothing *)
(* else is parsed (GetSources, walkDir, checkConditions).                   *)
WalkComplete ==
  \A s \in Services :
    /\ sunk[s] \subseteq Wanted(s) \union {f \in Roots : fault[f] = "sink"}
    /\ pc[s] = "done" => Wanted(s) \ sunk[s] \subseteq excludes \ Excludes

(* A service does not parse the raw files of a chart it has rendered.       *)
RenderedNotParsed ==
  \A s \in Services : \A d \in rendered[s] : sunk[s] \intersect ToSet(Rendered[d]) = {}

(* Only the outermost chart of a scan path is rendered: what is below a     *)
(* rendered chart belongs to it (the resolved flag).                        *)
OutermostChartOnly ==
  \A s \in Services : \A c, d \in rendered[s] : d \notin Inside[c]

(* No service waits for ever for the lock: GetSources returns.              *)
Finishes == \A s \in Services : <>(pc[s] \in {"done", "failed"})

(* filesystem.go:243 "exclude terraform cache folders": a service that      *)
(* meets a cache folder passes over it.                                     *)
CacheFoldersPassed ==
  \A s \in Services :
    (pc[s] = "check" /\ Entry(s) \in Caches) ~> (pc[s] = "visit")
============================================================================
