# Verification of wzcmslib

wzcmslib compiles "nanostates" (YAML files in a small configuration description
language, CDL, with Starlark functions beside them) into an ordered list of
module calls and runs these locally or over SSH. This directory holds TLA+
models of that code, the TLC runs that check them on small instances, and
theorems that TLAPS proves for every instance.

Paths below are relative to the repository (`src/` in PROJECT.json).

## 1. The system

    files (.st, .fn)                                NanoCms (facade)
        |                                             |        |
    NanoStateIndex <--- StateCompiler ---> NstCompiler |     SSHRunner --> SshShell/SSHSession --> host
      id -> path          Compile loop      |  RefList         |                                   |
                                |           |  CDLFunc      BaseRunner.Run(Nanostate)     ansiblerunner
                                |           |  OTree           |
                                +-- Nanostate.Load(tree)    LocalRunner --> AnsibleModule --> pce.py in a chroot
                                                               |
                                                       RunnerResponse --> ResultsToLog

All of the Go code runs in the goroutine of its caller; nothing takes a lock
or starts a goroutine. What makes it hard is therefore not threads but

  - the order in which Go walks a map (pending ids, groups, arguments),
  - a disk and remote hosts that change between two steps,
  - panics half-way, which callers may recover from, with state kept,
  - objects that are used again (Index twice, Compile twice, one flag for all hosts),
  - child processes nobody waits for (pce.py).

| Component | State | Operations | Interacts with | What makes it correct | Hard part |
|---|---|---|---|---|---|
| NanoStateIndex (`nanostate/statefinder.go`) | roots, three tables, a counter | AddStateRoot(s), Index, GetStateById, GetStateByFileName | file system; asked by StateCompiler and NanoCms | tables agree, a number is never reused, later root overrides, Index ends | files edited during the walk, repeated Index, panics on missing roots, vanished files and ids that are no strings; entries of removed files are never forgotten |
| RefList (`compiler/reflist.go`) | included, optional, visited | FindRefs, GetIncluded, GetMandatoryUnresolved, MarkStateRequested, MarkStateResolved | NstCompiler | no reference is lost; one mark per request, two for an id given up | marks as a cycle breaker |
| NstCompiler, loading (`compiler/ncmp.go`) and StateCompiler (`compiler_factory.go`) | states, functions, root id, tree | LoadFile, Cycle, SquashState, Compile, Tree | index, RefList, disk | exactly what the entry file refers to is loaded, whatever the order; Compile ends | shadowed errors, stale index, empty ids, cycles |
| NstCompiler, tree | the recursion, the tree | compileState, compileInclusion, compileDependency, compileBlock | CDLFunc, OTree, optional of RefList | the tree is what the parts mean, keys in order of first contribution | nesting, partial inclusion, overriding, conditions, early return of loops |
| CDLFunc (`compiler/fcdl.go`, `fcdlproc.go`) | functions per state | BlockType, GetInclusion, GetDependency, Condition, Loop, ToCDLKey | Starlark | a line has one meaning for loader and compiler | substring tests against token tests |
| OTree (`compiler/otree.go`) | map and key list | Set, Get, Keys, Delete, conversions | everywhere | keys distinct, order of insertion kept | |
| Nanostate (`nanostate/nstate.go`) | groups, group index | Load, OrderedGroups | compiled tree, runners | groups run in the order of the tree | built from an unordered map, put in order afterwards |
| BaseRunner, responses (`nanorunners/baserunner.go`, `resptype.go`) | response, error code | Run, runGroup | Nanostate, a runner | one response per group in order, failures reported | group codes stay -1; Run is always true |
| LocalRunner (`localrunner.go`) | interpreter, chroot, roots | callShell, callAnsibleModule | processes, AnsibleModule | one result per call | type of shell instructions |
| SSHRunner, SshShell, SSHSession | hosts, connection, sessions | callHost, installPermanentClient, Connect, NewSession, Disconnect | remote hosts | a command runs once unless it failed; the client gets installed | lost connections, double execution, partial installation |
| AnsibleModule (`callers/ansiblecall.go`) | module type, temp files, arguments | resolveModulePath, makeConfigFile, preparePCE, execModule | file system, chroot, pce.py | temp files removed, chroot rules of its comment | panics between creating and removing |
| pce.py | shared venv in the root | setup, clone_pylib, run | AnsibleModule, other executors | the child finds a complete venv | fork without wait, shared directory |
| NanoCms (`nanocms/nanocms.go`) | sshKeysDeployed | Bootstrap, SshCopyId, RunStateSSH, LoadNstFile | index, SSH runner | key on the host before the run | one flag for all hosts, no Cycle loop |
| ResultsToLog (`results/logdump.go`) | - | ToLog | responses | a failure is logged as one | |
| Remote Ansible runner (`remote/ansiblerunner.go`) | - | ParseArgs, FindPythonModule, CallAnsibleModule | SSHRunner's command line | arguments arrive as sent | quoting |
| pce.go, stripsrc.py, builtins, starutils.go, logging.go | - | - | - | generated, pure or output only | |

PROJECT.json lists the hazards of this code at their lines.

## 2. What is modelled

### StateFinder: the index
One variable per field of `NanoStateIndex` (`stateRoots`, `id_index`,
`fn_index`, `mt_index`, `ct`), the disk, and where the walk of `Index` stands
(`phase`, `todo`, `listed`, `walk`). Actions: `AddStateRoot`, `StartIndex`,
one action per outcome of visiting a root or a file (`EnterMissingRoot`,
`EnterRoot`, `VisitVanished`, `VisitBadId`, `SkipFile`, `IndexFile`),
`FinishIndex`, and `Edit` by the environment. `filepath.Walk` reads the names
of a directory when it enters it (`listed`) and the attributes and contents
one by one, which is where edits bite. A root is one flat directory; the walk
of a subdirectory is not modelled as a second listing. A panic ends the
behaviour of the index.

### Cdl: the language
A line is a sequence of tokens; a token is a record of the mark it starts
with, its id, its blocks, whether it has a slash, and the marks inside it.
That is all the code reads of a line. The operators carry the names of the
functions in `fcdl.go` and `reflist.go` and keep their disagreements: the
loader tests the start of a token, `BlockType` any place in the line.

### Resolver: loading everything a state needs
Extends StateFinder with the fields of `NstCompiler` and `RefList` and with
`stage`, the place in `StateCompiler.Compile`. A round of the loop is `Cycle`
(any pending id: Go's map order) with the look-up (`CyclePanics`,
`CycleFound`, `CycleSquash`, `CycleDone`), then `LoadNext`; files may be
edited in between. `LoadFile` has one disjunct per outcome of the code.
`visited` is a list in the code; nothing depends on its order, so the model
counts marks. A mutually exclusive `stage` "resolved" stands for the
completed guard in `Tree()`; Compile may be called again from it, after a
fresh Index too (`IndexAgain`). What a caller does that recovers from a panic
is not modelled.

### Closure: what loading promises
The abstract specification: states come in with the ids they name, ids are
dropped, and a set may be closed only if every named id is loaded or dropped.
No index, disk, marks or rounds. `Resolver!Promise` is its instance under the
refinement mapping (`dropped` = two marks, `void` = the empty id is pending).

### TreeCompiler: from loaded states to a tree
`compileState` is recursive in the code and a stack of frames here: `Include`
and `Depend` push one, `Return` merges the finished inner tree into the outer
one the way `compileInclusion` and `compileDependency` do after their inner
call. `OSet`/`OGet`/`Keys` are OTree. A Starlark function is the number it
returns: its truth as a condition, its length as a loop; the parameters of a
loop's calls are left out, their number and place are not. An empty body
stands for a missing value; an explicit empty list is not among the inputs. Nor
are loops with a syntax error, functions that return something else than a list
of dictionaries where a loop asks them, and items of a body that are no maps:
these panic in the code.

`Tree()` may be called again after it returned or panicked (`CallAgain`). What
it returns then is what was made before: `built` is "nil" as long as there was
no root state, "header" from the moment `compile` made the tree, and "whole"
once the states are in it.

### Nanostate: from the tree to groups
`Load` serialises the ordered tree into Go maps, so the groups come in any
order (`LoadNextGroup`) and of an item with several modules any one is kept
(`ModuleOf`); `OrderedGroups` then sorts the groups by the keys of the tree. That `Load`
returns an error for an empty id or description is left out here, as it changes
nothing in the nanostate; the facade has it (`Compiles`).
On a tree without states it panics (`LoadPanics`: a nil branch). Composed with
TreeCompiler: it loads whatever `Tree()` returned, half-built or not.

### TreeMeaning: the reference definition
What a set of states means, without stack, frames or partial trees. `Sound` is
the set of the states that can be compiled at all: the least set such that a
state is in it if none of its lines is wrong (`IsWrong`) and all that its lines
lead to is in the set; no state on a cycle is. `Contributes` is the list of a
sound state's contributions, its own and those of what its lines lead to, in
their order. `Means` says how a tree shows such a list: its keys are those of
the list, the first contribution of a key gives it its place and the last one
its value. `TreeIsMeaning` compares every tree that `Tree()` returns with it,
and every panic with `Sound`. The meaning of a single line is not stated twice:
its kind, its conditions, the test for optional references, the body of a block
and that of a job with dependencies are the same definitions on both sides, so
the comparison is about nesting, order, merging and repetition of calls alone.

### SshRunner: running a nanostate over SSH
One goroutine goes through groups, modules and hosts (`g`, `m`, `h` are the
loops of `Run`, `runGroup` and `callShell`/`callAnsibleModule`), and `pc` says
where in `callHost` or `installPermanentClient` it is; each session, copy and
dial is a step of its own because the other side may fail at each. The other
party is the hosts: `dirs` and `bin`, what the installation left on each, and
`ran`, the modules executed there. A host may start with the client in place.
A fault (a refused dial, a command whose answer is lost before or after it
ran, with the connection or without, a directory command or a copy that
fails) counts against `MaxFaults`; a client that is missing or a module that
crashes is no fault but something hosts do. `results`, `modules`, `groups` and
`response` are the levels of the response as they fill: `Run` stores the groups
in the response only at its end, so a panic loses them. A panic runs the
deferred `Disconnect`; the `log.Fatalln` of a failed session ends the process
and runs nothing. Without the operator's key and known_hosts the first
connection panics (`KeysPanic`), also where hosts are not to be verified.

The client on the host is the remote runner (`remote/ansiblerunner.go`):
`Finds` is its search for Ansible and the module, `Executes` what it runs and
what it ends with. It ends with code 0 whatever the module did, and also when
there is no such module; only a host without Ansible makes it fail.

The error code of `BaseRunner` is left out: no call within `runGroup` returns
an error, so `Run` always answers true and sets ERR_OK, and a group's code
stays -1. That a failure is not lost is therefore up to the result log.
External and modelled from its use: the SSH and scp libraries, the remote
shell. Assumed: the permanent directory is the one in the path that
`callAnsibleModule` has built in (`/opt/nanocms`); with another one the client
is installed where it is never called. The copies go to port 22 whatever
`SetSSHPort` says (`sshrunner.go:212`), so hosts are assumed to listen there. A
client of the scp library is assumed to copy one file after the other over one
connection; `FreshHostServed` rests on that. A connection is lost with a
command only: one that breaks between the dial and the first session, or
during the copies, is not modelled, and would end the process like the others.

### RemoteCalls: what running over SSH promises
The abstract specification, without groups, connections, clients or faults. A
call is a module on a host. Calls are made one at a time in the order of the
nanostate (`Begin` takes the first that was not answered), each has one chance,
or two with a permanent directory (`Try`), and none is used once it is known
that the module was executed. `Answer` tells of an execution only if it was in
that very call. `Finish` shows all that was told, and only when every Ansible
module was called on every host; a run that breaks off shows nothing. SshRunner
implements it: the call under way is the place `m`, `h` while `pc` is in
`callHost`, its chances are the attempts `pc` still leads to, what was told is
in the results, modules and groups of the unfinished response (`Told`), and
what is shown is in `response`. Names of hosts, connection faults and shell
commands are hidden. So are the installation of the client and the directories,
which are steps that change nothing here. An installation that fails leaves the
second attempt unused: that is a `Try` that executes nothing.

### ResultLog: the response as log entries
`ToLog` as the sequence of the levels of its entries, put together from those
of groups, modules and hosts as the nested loops of the code do. The entries
for captured output are left out. `Failures` are the calls of a response that
went wrong, or whose module says so itself; `LogTellsTruth` has one error in
the log for each.

### NanoCms: the facade
Extends Resolver, whose `LoadNext` is the `LoadFile` of `LoadNstFile`, and
whose finder is the index that `Bootstrap` asks. `at` is the place in
`Bootstrap`; `SshCopyId` is a step per connection, copy and command, for the
user of the call, while the run and the paths of the key are Root's. The host's
part is `keys` (whom the operator's key lets in), `open` (whether Root's
authorized_keys ends within a line), `spoilt` (whether the key was put behind
such a line) and `tempkey`, the copied file. The status of the command that
appends the key is that of its `rm`: `AppendKey` has the case that `cat` fails
and the answer is good.

A compiler is made for each call (`FreshCompiler`). `Starts` is the guard of
`Tree()` without the loop of `StateCompiler.Compile` before it, and `Stops` says
where `compileState` gets no further in a file that is compiled alone: at a line
that is wrong (`IsWrong`), or at one that leads back to the state itself
(`Leads`), which exhausts the stack and ends the process (`Overflows`). That is
TreeCompiler without its stack, as there is no other state to descend into.
`Compiles` adds what `Load` refuses.

What happens within `RunStateSSH` is SshRunner; here it is the ways it can end.
It panics without any fault on shell instructions, on arguments that are no
strings, where Root has no key, and, as the case may be, on a host of an
architecture without runners (`Foreign`; with a client in place it does not).
Assumed: the operator has a key pair and known_hosts, the password is right,
nobody but Root writes below /root, and a part of a key lets nobody in.

### AnsibleCaller and ChrootExecutor: modules on this machine
`AnsibleCaller` is one `LocalRunner.callAnsibleModule` per caller at a time:
`Resolve` searches the roots, `MakeConfigFile` writes the arguments, then
`CallDirectly` runs a binary or a Python module, or `PreparePCE` writes pce.py
and starts it; `RemovePCE` and `RemoveConfig` are the deferred removals in
their order. `temp` holds the temporary files with the call that made them.

`ChrootExecutor` is pce.py: `Setup` refuses the name of a loaded module,
`Look` asks whether there is a venv, `CreateDir`, `FillDir` and `DirIsThere`
are the two halves of `copytree` and its error, `Fork` ends the parent well,
`ImportWorks`/`ImportFails` and `RunModule` are the child behind the chroot.
`venv` says how much of each directory is there. The caller's `sh.Run` returns
when the output of the process is closed by all that hold it, which the forked
child does until its end (`Returns`).

External: the walk and the content types of files (a root is the modules it
has and their kinds), the container library (whether it runs anything without
a root is left open), `RemovePrefix` (a path below the chroot loses it, any
other stays, and "/" takes nothing away), the interpreter.

### MC modules
`MCStateFinder`, `MCResolver`, `MCTreeCompiler`, `MCSshRunner`, `MCNanoCms` and
`MCLocalCalls` give the constants their values; definitions followed by
"mutant" comments in the models are the mutations listed in PROJECT.json and
no part of any specification.

## 3. The runs

| Run | Instance | Shows |
|---|---|---|
| index_edits | 4 paths in 3 existing roots, two overlapping and sharing a file name, 1 missing root; 2 roots added, 2 Index calls, 2 edits | types, `Dense`, `Coherent`, `LatestWins`, `LaterRootOverrides` (an end-to-end statement of what Index computes), `MetaImmutable`, `IndexFinishes` |
| resolve_acyclic | every acyclic reference graph over a, b, c and a missing m, with mandatory, optional and job references, and graphs over two files of one id, the one in the index not the one Compile starts from; entry with any file or a non-state file | `ResolvedClosed`, `GivenUpIsUnknown`, `BreakerMeansUnknown`, `ExactlyReachable`, `CompileTerminates` |
| resolve_edits | 12 file contents including every way to fail, one edit of any file into any of them at any moment, two Index calls and two Compile calls in any order | `ResolverTypeOK`, `ResolvedClosed`, `KeepsPromise` (refinement of Closure), `RetriesEnd` |
| tree_compile | root of up to two out of eleven lines over a state of up to two out of five lines over a fixed state; one program without a description, one without its root; two Tree() calls, then Load | `TreeIsMeaning`, `GroupsAreTree`, `TreeEnds` |
| optional_missing, mutual_inclusion, dependency_order | the smallest programs concerned | three places where the code does not do what a comment or the language legend says, see below |
| ssh_faults | 2 hosts, one without Ansible and of an architecture without runners, each with the client or without; 6 nanostates with Ansible, shell and unsupported modules in one or two groups, one with a module the first host lacks; all settings; 2 faults | `SshTypeOK`, `AtMostTwice`, `ClientStays`, `AnswersAreTrue`, `ReportComplete`, `LogTellsTruth`, `FreshHostServed`, `NoConnectionLeft`, `KeepsPromise` (refinement of RemoteCalls), `RunEnds` |
| bootstrap | 2 hosts, one of an architecture without runners; root and another user, whose key one host knows, while the other has an unfinished authorized_keys; 2 ids, 2 files, one of them with eight contents (no description, optional and mandatory references, an inclusion of itself behind a condition or not, a shell) or missing; 2 Bootstraps, 1 edit, 1 fault | `CmsTypeOK`, `KeyDeployed`, `RunsWhatWasAsked`, `PanicsAreExplained`, `BootstrapEnds` |
| local_calls | 2 callers with 2 calls each; 4 roots: below the chroot, outside it, without modules, and behind that one; a module of two kinds, one in two roots, one with the name of a loaded one, one out of reach; chroot "/", "/target" and never set; 1 fault | `LocalTypeOK`, `ConfigWhileRead`, `NoTempLeft`, `AnswersHaveRun`, `LibsAreWhole`, `CallsEnd` |
| half_installed | 2 hosts, two Ansible modules and 1 fault | another such place |
| first_root | as local_calls | another such place |

Why the bounds are enough: an index disagreement needs two files that share an
id or a name and a second Index; both bounds are two. A wrong mark needs an id
that is requested, resolved and named again (three states) or given up and
named again (a missing id named by two states). Two edits let a file vanish and
come back, or two files swap ids. For the tree, three levels give an inclusion
within an inclusion and an override across two; two lines give every pairwise
order of contributions. Over SSH a second module meets what the first one left
on a host, a second host what a run holds of the first, and two faults break
both attempts of one call, or the installation and the second attempt. Two
Bootstraps are the second host that finds the flag set, and the second attempt on
a host where a fault left a copy or a part of the key. On this machine two
callers overlap in the venv, a second call meets what the first one left, and
one kill leaves part of a venv for all that come later. `MaxEdits`, `MaxRoots`,
`MaxIndexes` and `MaxCompiles`, `MaxCalls`, `MaxFaults` and `IdBound` (modules
in a nanostate) are bounds of the runs, not of the code; the theorems hold for
all their values.

`ExactlyReachable` says "least" without recursion: what is loaded is a set with
the entry that follows its references, and part of every such set. Where another
state refers back to the entry the property says nothing, because the index may
lead to a second file of the entry's id, which is then loaded over the first;
on resolve_acyclic the property fails without that condition.

No symmetry is used: ids and paths are ordered by the walk. Deadlock checking
is off for all but one because they stop when their caller makes no further
call; it is on for the SSH runner, where `Over` lets the end of a run stutter.

Fairness: `WF(WalkStep)`, `WF(ResolveStep)`, `WF(Step)` of NanoSpec,
`WF(RunStep)`, `WF(CmsStep)` and, for each caller, `WF(CallStep)`. Index, the
loop of Compile, Tree() and Load are straight-line code that waits for nobody,
so a step that is possible is eventually taken. Callers are goroutines or
processes of their own and wait for their own executor alone; `CallsEnd`
assumes that modules end, as the code sets no timeout. The SSH runner waits for
the network and sets no timeout either: `RunEnds` and `BootstrapEnds` assume
that every call of the SSH library comes back some time, with an error if need
be. Nothing is assumed of callers or of edits, and no choice within a step (the
map's order) is fair.

### Where the code differs from its documentation
1. `OptionalMissing`: "+" is "ignored if not found" (`tests/states/definition.st:5`),
   but a missing id that a second state names later makes Compile panic.
2. `MutualInclusion`: the marks are to break an "infinite cycle"
   (`compiler/reflist.go:68-70`), but loading a state removes its mark, so two
   states that include each other are loaded in turn for ever.
3. `DependencyOrder`: a dependency "should be performed before"
   (`tests/states/definition.st:7`), but with two blocks the job's own body
   runs between them, and twice.
4. `HalfInstalled`: "SetPermanentMode takes a root path where it will will
   create the following structure" (`nanorunners/sshrunner.go:64`), but the
   plain mkdir fails on what an installation that broke off left behind, so no
   later one gets beyond it. With `mkdir -p` instead the property holds on the
   same instance.
5. `FirstRoot`: "if the same module is located in a various roots, then first
   win" (`nanorunners/callers/ansiblecall.go:51`), but the errors that are to
   end the search are skipped over, and the last root wins.

Seen while modelling, in the models, and without a run of their own:

  - "SshCopyId is copying SSH keys to the target machine" (`nanocms/nanocms.go:92`),
    but the command that appends the key ends with `;rm` (:166): when `cat` fails
    and `rm` works, `SshCopyId` returns true, the copy is gone and nobody is let
    in (`AppendKey`). `KeyDeployed` is therefore about calls that met no fault.
  - The empty id carries no marks and is also the answer that nothing is left
    (`compiler/ncmp.go:101`): once the index knows a state whose id is empty,
    Compile loads that one for ever when all else is done (`CycleFound`).
    `RetriesEnd` makes an exception for it.
  - `Bootstrap` runs as root whoever it is called with: a probe that works for
    another user sets the flag, and the run then panics for want of a key
    (`Locked`). Another user cannot write below /root, so the deployment fails.
  - A key appended behind an authorized_keys that has no end of line is part of
    that line and lets nobody in, without anything going wrong (`spoilt`).
  - A state that includes itself passes the loader, and `compileState` recurses
    until the process ends (`Overflows`).
  - An empty answer of Cycle means that "no more cycles are found and Tree is
    ready" (`compiler/ncmp.go:101`), but a "~" without an id produces the empty
    answer with other ids pending; `ResolvedClosed` makes an exception for it.
  - Over SSH the instructions of a loaded nanostate have another map type than
    `callHost` asserts: a shell module with any instruction panics (`ShellPanics`).
  - `SetChroot` says "Default "/". In this case PCE is not used", but a
    LocalRunner whose chroot was never set passes on the empty string: Python
    modules go to the executor, whose child cannot chroot to "", and every such
    call fails (`Fork`).
  - "if "root" is specified, module is NOT ran as chrooted" (`execModule`) is so
    for binaries only.
  - `ClientStays` holds because the installation never gets past the first mkdir
    on a host that has the directories, not because copies are safe.
  - The remote runner splits every value with a space into a list
    (`remote/ansiblerunner.go:35-44`), whatever was sent; not modelled.

## 4. The theorems

Assumptions are those on the constants: paths and roots are sets, every source
names ids of `Ids`, bounds are natural numbers, modules and calls have the
fields they are used with, and the library directories of the machine are a
sequence without repetition that none of the modules' directories is in
(`clone_pylib` takes no path twice and none below another). A loaded state has
a body, perhaps an empty one, for each of its lines, and a function returns a
list, whose length is a natural number, or false (`ProgramsAssumption`). For
the SSH runner: modules are numbered in the order of the nanostate (`Numbered`,
the identity by which executions are told apart), and a directory of runners
has each file once. Hosts are any sequence, one host twice included. One
theorem, `FreshHostsAreServed`, has a hypothesis of its own, `ClientShips`: the
static data has the client for every architecture (where it has not, nothing
can be installed). All proofs are inductive invariants with one step per
action.

  - `StateFinderProofs`: `FinderTypes`, `NumbersAreDense`, `LookupsAreCoherent`,
    `LatestFileWins`, `NumbersAreForever`. The first four are inductive only
    together: that `Record` takes a free number is `Dense`, and that `StartIndex`
    resumes at it needs the cardinality of 0..n-1. `TheLaterRootWins` needs a
    history of the walk (`FinderHistory`): `Progress` says that `todo` and `walk`
    are what is left of the roots and of the current directory, `Found` that a
    look-up leads to the last visited file with the id. At the end everything is
    visited.
  - `ResolverProofs`: `ResolverTypes`; `ResolvingCloses`; `GivenUpRightly`;
    `BreakerIsRight`; `LoadsWhatIsReachable`. `ResolverInv` strengthens the first
    two by `Accounted` (every named id is loaded, pending or given up at every
    step), `TwoMarks` (no id has a third mark), `LeftWhenDone` and `IndexRests`
    (the index does not move under a Compile). The next two rest on `QuietInv`:
    over a quiet disk the index describes the files and the only known id with a
    mark is the one whose file is being loaded. The last one adds `Needed`: every
    id that is named is in every set that has the entry and follows its
    references, and what is loaded is what the index holds (`FromIndex`). That it
    is no less is `Accounted` with `GivenUpIsUnknown`. `ResolverKeepsPromise`, at
    the end of the module: every resolver step is a Load, Drop, Close, Reopen or
    Break of Closure or changes nothing it sees.
  - `TreeProofs`: `TreeIsWhatItMeans`, `GroupsFollowTheTree`. `TreeInv` says of
    every frame of the stack that its partial tree means what the lines before its
    place contribute (`FrameInv`, with `Means` as the measure at every step, not
    only at the end), that none of these lines is wrong or leads to a state that
    is not sound (`Right`), and that a frame stands at the line that called the
    next inner one (`Waits`). So a frame that returns is a sound state with its
    whole list, and the outer frame goes on with a merged tree that means the
    longer list. That rests on lemmas about `Means` over `OSet` (a key that is set
    again keeps its place), over `Merge` with chosen blocks and with all, and over
    the body of a job with dependencies. A panic anywhere makes the states of all
    frames up to the root unsound. `NanoInv` says that while the groups come,
    their ids are the keys that have come, each once, each group is one that its
    body may be loaded as, and that the tree rests; that `OrderedGroups` is then a
    permutation in the order of the keys needs their distinctness, which is part
    of `Means`.
  - `ListProofs`: no theorem of its own, but what `TreeProofs` and `LogIsTrue`
    rest on. Induction over numbers, from the well-foundedness of < and over a set
    of good numbers (`UpTo`); that a recursive function (and the fold behind
    `FlattenSeq`) is what its equation says (`Iterates`), which for the prover is
    a choice and no definition; then the length, the elements and the type of
    flattened sequences.
  - `AnsibleCallerProofs`: `LocalTypes`, `ConfigStays`, `AnswersAreRuns`,
    `TempsAreGone`. `LocalInv` adds to the types what holds of each caller: an
    executor at work has a caller that waits for it, and a caller past
    `MakeConfigFile` has its file (`WaitingOf`); output is only with a caller that
    has not yet returned it, whose module ran (`OutputOf`); a file of each kind
    has its caller in the stages between its creation and its removal (`OwnedOf`).
    `OthersStay` is the frame: a step of one caller leaves alone what is of
    another one. `LibrariesAreWhole`, at the end of the module: every executor
    that finds no venv begins to copy with the same directory, and only the one
    that creates it goes on. So at most one is past its first directory; what it
    has no more to copy is whole, and what it has still to copy is not there
    (`Between`). That a search path has nothing twice is what makes the second
    half inductive.
  - `SshRunnerProofs`: `SshTypes`, `ConnectionIsClosed`, `ClientIsSafe`,
    `ReportIsComplete`, `LogIsTrue`. `SshInv` is the types with `Located` (the
    stages of `callHost` are only reached at a module that calls hosts, with a
    host of the list) and `LeftToDo` (what the installation has still to make,
    copy or ask fits its stage). `ClientIsSafe` adds `InstallsAfresh`: an
    installation that got past its first directory made that directory itself, so
    the host had no client. `ReportIsComplete` adds `Listed`: at every place the
    report covers exactly what is before that place. `LogIsTrue` is about the log
    of whatever response there may be: at each level the errors of a part are
    counted with its failures (`HostErrors` to `ResponseErrors`), and parts are
    disjoint because a failure carries its group, module and host.
  - `SshCallsProofs`: `AnswersHold`, `NeverAThirdTime`, `FreshHostsAreServed`,
    `RunnerKeepsPromise`. `InHand` says of the outcome that is about to be
    recorded what `AnswersHold` says of the recorded ones; what was executed stays
    so (`RanGrows`). `NeverAThirdTime` is a budget, `Bounded`: what the earlier
    hosts of the list allow for a module, and what the call in hand may have used
    so far. `FreshHostsAreServed` needs `Prepared`: with no fault each stage of an
    installation has put in place what the next one relies on.
    `RunnerKeepsPromise` takes every step of the runner to one of RemoteCalls or
    to none. Its invariant `CallsInv` says that the calls told of are those made
    so far (`Made`), which the numbering of modules makes the ones before the
    place the runner is at; at the end these are all.
  - `NanoCmsProofs`: `CmsTypes`, `TheKeyIsDeployed`, `TheStateIsTheOneAsked`,
    `PanicsHaveReasons`, `TheLaterRootServes`. `Keys` compares the faults so far
    with those at the beginning of the call: a call that met none has a whole copy
    in hand when it appends it, whatever earlier calls left there, and nothing
    takes a key away (`WriteKeeps`). `Answering` says that a call for Root in a
    session without faults finds the flag set when it comes to the look-up.
    `Compiling` says that the compiler in hand is a fresh one with the file the
    index names, `Calling` that the index rests under a call, so that the file is
    the one asked for; `TreeTells` and `LockedIsTold` then turn a panic of the
    tree or of the runner into a reason that can be seen from outside. The index
    is a part of it with `FinderInv` and `FinderHistory`, whose lemmas are used as
    they are.

Every safety invariant and action property that a passing run checks is a
theorem, and so are both refinements. Only model-checked: the liveness
properties (`IndexFinishes`, `CompileTerminates`, `RetriesEnd`, `TreeEnds`, `RunEnds`,
`BootstrapEnds`, `CallsEnd`), which are out of the prover's reach; and of
course what the violated runs refute.

The definitions are written so that they can be reasoned about: recursion is a
recursive function or a fold of the community modules, never a RECURSIVE
operator, and a search in a sequence is over the set of its positions. For the
prover a literal is not known to be a string, which is why the sets of names in
`TreeProofs` (`BlockNames`) add the empty one.

## 5. Plan

The components of the inventory that keep state are modelled, and their safety
is proved. What is left, in this order:

1. The composition of Resolver and TreeCompiler in one StateCompiler: a second
   Compile that loads another file and returns the first tree.
2. The parameters of loops, and a runner that is run again.

Not modelled for good, and why: logging (output only); `pce.go` (pce.py, compressed
by `stripsrc.py`); Starlark's own semantics and the conversions of `starutils.go`
and the builtins (an external interpreter and pure functions of host facts);
YAML syntax and the conversions of `otree.go` (their only effect on control is
a panic over values of a type they do not expect, such as numbers); `LocalRunner.callShell` (one process after the
other, no state); `ParseArgs` (text splitting, with the divergence noted above).
