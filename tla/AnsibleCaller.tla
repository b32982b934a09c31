----------------------------- MODULE AnsibleCaller -----------------------------
(***************************************************************************)
(* Calling an Ansible module on this machine, perhaps behind a chroot:     *)
(* AnsibleModule of nanorunners/callers/ansiblecall.go, from the search    *)
(* of the module in the state roots, over the temporary files, to the      *)
(* answer.  It is what LocalRunner.callAnsibleModule calls.                *)
(*                                                                         *)
(* Every caller is a process of its own; they share the directory of the   *)
(* temporary files and the venv.  A call is [name, root]: the module and   *)
(* whether its arguments have a "root".  The chroot is "/" for none, ""    *)
(* for one that LocalRunner was never told, or a directory.                *)
(***************************************************************************)
EXTENDS ChrootExecutor

CONSTANTS
    StateRoots, \* the roots, in the order of SetStateRoots
    Modules,    \* root -> name -> kinds of files, for the roots with a "modules" directory
    DirOf,      \* the directory of each root's Python modules
    Inside,     \* the roots that are below the chroot
    Calls,      \* the calls there may be
    Chroots,    \* the chroots there may be
    MaxCalls    \* bound: the calls of one caller

RootSet == {StateRoots[n] : n \in DOMAIN StateRoots}
NoModule == [root |-> "", kind |-> "none"]
NoCall == [name |-> "", root |-> FALSE]

ASSUME RootsAssumption == /\ StateRoots \in Seq(RootSet)
                          /\ DOMAIN Modules \subseteq RootSet
                          /\ Inside \subseteq RootSet /\ DirOf \in [RootSet -> Dirs]
ASSUME ModulesAssumption == \A r \in DOMAIN Modules : \A name \in DOMAIN Modules[r] :
                                Modules[r][name] \subseteq {"binary", "script"}
ASSUME CallsAssumption == /\ MaxCalls \in Nat /\ Calls \subseteq [name : Names, root : BOOLEAN]

VARIABLES
    chroot,     \* AnsibleModule.chroot
    pc,         \* per caller: where it is
    nr,         \* per caller: how many calls it began
    call,       \* per caller: the current call
    mod,        \* per caller: the root and kind of the module that was found
    temp,       \* the temporary files: [owner, nr, what]
    ran,        \* per caller: whether the module of its latest call was executed
    answer      \* per caller: the answer of its latest call

callerVars == <<chroot, pc, nr, call, mod, temp, ran, answer>>

CallerInit ==
    /\ ExecutorInit
    /\ chroot \in Chroots
    /\ pc = [c \in Callers |-> "idle"] /\ nr = [c \in Callers |-> 0]
    /\ call = [c \in Callers |-> NoCall] /\ mod = [c \in Callers |-> NoModule]
    /\ temp = {}
    /\ ran = [c \in Callers |-> FALSE] /\ answer = [c \in Callers |-> "none"]

File(c, what) == [owner |-> c, nr |-> nr[c], what |-> what]
Move(c, step) == pc' = [pc EXCEPT ![c] = step]

\* NewAnsibleLocalModuleCaller and its setters
Begin(c) ==
    /\ pc[c] = "idle" /\ nr[c] < MaxCalls
    /\ \E k \in Calls : call' = [call EXCEPT ![c] = k]
    /\ nr' = [nr EXCEPT ![c] = @ + 1]
    /\ ran' = [ran EXCEPT ![c] = FALSE] /\ answer' = [answer EXCEPT ![c] = "none"]
    /\ Move(c, "resolve")
    /\ UNCHANGED <<executorVars, faults, chroot, mod, temp>>

\* The search goes from root to root until one has no "modules" directory.
\* The errors that are to end the walk of a root are skipped over as any other,
\* so that the last root with the module decides, and in that root whichever
\* file the unsorted walk meets last.
Searched == {n \in DOMAIN StateRoots : \A m \in 1..n : StateRoots[m] \in DOMAIN Modules}
KindsAt(n, name) == IF name \in DOMAIN Modules[StateRoots[n]] THEN Modules[StateRoots[n]][name] ELSE {}
Hits(name) == {n \in Searched : KindsAt(n, name) # {}}
Found(name) ==
    IF Hits(name) = {} THEN {NoModule}
    ELSE UNION {{[root |-> StateRoots[n], kind |-> kind] : kind \in KindsAt(n, name)}
                : n \in {last \in Hits(name) : \A m \in Hits(name) : m <= last}}

Resolve(c) ==
    /\ pc[c] = "resolve"
    /\ \E found \in Found(call[c].name) : mod' = [mod EXCEPT ![c] = found]
    /\ Move(c, "config")
    /\ UNCHANGED <<executorVars, faults, chroot, nr, call, temp, ran, answer>>

\* The answer; the caller's object and the output of what has ended are gone.
Return(c, ok) ==
    /\ answer' = [answer EXCEPT ![c] = IF ok THEN "ok" ELSE "error"]
    /\ call' = [call EXCEPT ![c] = NoCall] /\ mod' = [mod EXCEPT ![c] = NoModule]
    /\ ex' = [ex EXCEPT ![c] = IF At(c, "ended") THEN NoExecutor ELSE @]
    /\ Move(c, "idle")

MakeConfigFile(c) ==
    /\ pc[c] = "config" /\ mod[c] # NoModule
    /\ temp' = temp \cup {File(c, "config")}
    /\ Move(c, mod[c].kind)
    /\ UNCHANGED <<executorVars, faults, chroot, nr, call, mod, ran, answer>>

\* The file cannot be created, or is removed again as it cannot be written, or
\* stays without content as the arguments of a module are no JSON.
MakeConfigFileFails(c) ==
    /\ pc[c] = "config" /\ Fault
    /\ \/ UNCHANGED temp
       \/ mod[c] # NoModule /\ temp' = temp \cup {File(c, "config")}
    /\ Return(c, FALSE)
    /\ UNCHANGED <<venv, chroot, nr, ran>>

\* The type of the module is looked at when the file is there already.
Unresolved(c) ==
    /\ pc[c] = "config" /\ mod[c] = NoModule
    /\ temp' = temp \cup {File(c, "config")}
    /\ Move(c, "panicked")
    /\ UNCHANGED <<executorVars, faults, chroot, nr, call, mod, ran, answer>>

\* A "root" in the arguments keeps a binary out of the container.
InContainer(c) == chroot # "/" /\ ~call[c].root

\* With a chroot, the path of a binary is taken below it wherever it was found.
InReach(c) == chroot \in {"/", ""} \/ mod[c].root \in Inside

\* The module as a process of its own, which may end without its JSON.  Whether
\* a container without a root runs anything is the library's affair.
Runs(c) ==
    /\ InReach(c)
    /\ ran' = [ran EXCEPT ![c] = TRUE]
    /\ \E out \in {"json", "nothing"} : End(c, out, TRUE)
    /\ NoFault

DoesNotRun(c) ==
    /\ IF InReach(c) /\ ~(InContainer(c) /\ chroot = "") THEN Fault ELSE NoFault
    /\ End(c, "nothing", FALSE)
    /\ UNCHANGED ran

\* A binary, in a container or directly, or a Python module without a chroot
CallDirectly(c) ==
    /\ pc[c] = "binary" \/ (pc[c] = "script" /\ chroot = "/")
    /\ Runs(c) \/ DoesNotRun(c)
    /\ Move(c, "cleanup")
    /\ UNCHANGED <<venv, chroot, nr, call, mod, temp, answer>>

\* preparePCE, and the start of the executor
Job(c) == [name |-> call[c].name, dir |-> DirOf[mod[c].root],
           inside |-> chroot # "" /\ mod[c].root \in Inside, root |-> chroot # ""]

PreparePCE(c) ==
    /\ pc[c] = "script" /\ chroot # "/"
    /\ temp' = temp \cup {File(c, "pce")}
    /\ Start(c, Job(c)) /\ Move(c, "wait")
    /\ UNCHANGED <<venv, faults, chroot, nr, call, mod, ran, answer>>

\* A file that cannot be written is left behind: its removal is deferred only
\* after this return.
PreparePCEFails(c) ==
    /\ pc[c] = "script" /\ chroot # "/" /\ Fault
    /\ temp' \in {temp, temp \cup {File(c, "pce")}}
    /\ Move(c, "cleanup")
    /\ UNCHANGED <<executorVars, chroot, nr, call, mod, ran, answer>>

\* A step of the executor that started for the call
ExecutorWorks(c) ==
    /\ ExecutorStep(c)
    /\ ran' = [ran EXCEPT ![c] = @ \/ At(c, "run")]
    /\ UNCHANGED <<chroot, pc, nr, call, mod, temp, answer>>

ExecutorIsKilled(c) == Kill(c) /\ UNCHANGED callerVars

\* mutant: the caller goes on when the process it started has ended
ReturnsWithParent(c) == ex[c].pc \in {"import", "run", "ended"}

\* sh.Run returns when nothing holds the output of the process open: the child
\* that the executor forks does until its end.
Returns(c) == At(c, "ended")

\* The deferred removals, the latest first
RemovePCE(c) ==
    /\ pc[c] = "wait" /\ Returns(c)
    /\ temp' = temp \ {File(c, "pce")}
    /\ Move(c, "cleanup")
    /\ UNCHANGED <<executorVars, faults, chroot, nr, call, mod, ran, answer>>

\* mutant: the config file is not removed if the module printed nothing
RemoveConfigOfAnswered(c) ==
    /\ pc[c] = "cleanup"
    /\ temp' = IF ex[c].out = "json" THEN temp \ {File(c, "config")} ELSE temp
    /\ Return(c, ex[c].out = "json")
    /\ UNCHANGED <<venv, faults, chroot, nr, ran>>

\* mutant: the answer is what the process returned
RemoveConfigTrustsExit(c) ==
    /\ pc[c] = "cleanup"
    /\ temp' = temp \ {File(c, "config")}
    /\ Return(c, ex[c].ok)
    /\ UNCHANGED <<venv, faults, chroot, nr, ran>>

\* Whatever the process returned, the answer is an error unless there is JSON.
RemoveConfig(c) ==
    /\ pc[c] = "cleanup"
    /\ temp' = temp \ {File(c, "config")}
    /\ Return(c, ex[c].out = "json")
    /\ UNCHANGED <<venv, faults, chroot, nr, ran>>

CallStep(c) ==
    \/ Resolve(c) \/ MakeConfigFile(c) \/ MakeConfigFileFails(c) \/ Unresolved(c)
    \/ CallDirectly(c) \/ PreparePCE(c) \/ PreparePCEFails(c)
    \/ ExecutorWorks(c) \/ RemovePCE(c) \/ RemoveConfig(c)

localVars == <<executorVars, faults, callerVars>>

LocalNext == \E c \in Callers : Begin(c) \/ CallStep(c) \/ ExecutorIsKilled(c)

LocalSpec == CallerInit /\ [][LocalNext]_localVars /\ \A c \in Callers : WF_localVars(CallStep(c))

-----------------------------------------------------------------------------
(* Properties *)

Stages == {"idle", "resolve", "config", "binary", "script", "wait", "cleanup", "panicked"}

\* The values of all variables, and an executor that has something to copy
\* wherever it looks at the first of it
\* (ansiblecall.go:171-291, pce.py:126-128).
LocalTypeOK ==
    /\ ExecutorTypeOK
    /\ chroot \in Chroots
    /\ pc \in [Callers -> Stages] /\ nr \in [Callers -> 0..MaxCalls]
    /\ call \in [Callers -> Calls \cup {NoCall}]
    /\ mod \in [Callers -> {NoModule} \cup [root : RootSet, kind : {"binary", "script"}]]
    /\ \A c \in Callers : /\ pc[c] \in {"binary", "script"} => mod[c].kind = pc[c]
                          /\ pc[c] = "panicked" => mod[c] = NoModule
    /\ temp \subseteq [owner : Callers, nr : 0..MaxCalls, what : {"config", "pce"}]
    /\ ran \in [Callers -> BOOLEAN] /\ answer \in [Callers -> {"none", "ok", "error"}]

\* A module that runs behind the chroot has its config file until it ends,
\* though the process the caller started is over by then (ansiblecall.go:220,
\* pce.py:210).
ConfigWhileRead ==
    \A c \in Callers : ex[c].pc \in {"import", "run"} => File(c, "config") \in temp

\* Where nothing went wrong, a temporary file belongs to the call its caller is
\* in or panicked in (ansiblecall.go:220, 249, 294-326).
NoTempLeft ==
    faults = 0 => \A f \in temp : f.nr = nr[f.owner] /\ pc[f.owner] # "idle"

\* A call is answered without an error only if its own module ran: not if the
\* executor's parent ended well while the child failed, nor with the output of
\* the call before (ansiblecall.go:171-187, localrunner.go:61-66).
AnswersHaveRun == \A c \in Callers : answer[c] = "ok" => ran[c]

\* A call is answered or panics in the end, also when a kill left half of a
\* venv behind that others find (ansiblecall.go:171-291, pce.py:126-128).
CallsEnd == \A c \in Callers : pc[c] # "idle" ~> pc[c] \in {"idle", "panicked"}

\* "if the same module is located in a various roots, then first win": the
\* module that is called comes from the first root that has it
\* (ansiblecall.go:51).
FirstRootWins ==
    \A c \in Callers :
        mod[c] # NoModule => mod[c].root = StateRoots[Min(Hits(call[c].name))]
=============================================================================
