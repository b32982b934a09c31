---------------------------- MODULE ChrootExecutor ----------------------------
(***************************************************************************)
(* The Python chroot executor, nanorunners/wrappers/pce.py: it copies the  *)
(* Python libraries of the machine into a "venv" under the chroot, forks   *)
(* and imports the module in the child, behind the chroot.                 *)
(*                                                                         *)
(* Each caller has at most one executor at work.  All of them share the    *)
(* venv, which nothing locks.  A directory is copied in two steps: it is   *)
(* created, and it gets its content.  The interpreter is assumed to have   *)
(* the libraries that dynmod_preload asks for; -m and -l are not used by   *)
(* the caller.  A kill is a fault and counts against MaxFaults.            *)
(***************************************************************************)
EXTENDS Integers, Sequences, FiniteSets, SequencesExt

CONSTANTS
    Callers,    \* the processes that call modules
    Libs,       \* the library directories of the machine, shortest first
    Dirs,       \* the directories of modules
    Names,      \* the names of modules
    Loaded,     \* those of modules that the interpreter has loaded already
    MaxFaults   \* bound: how many things go wrong

LibSet == {Libs[n] : n \in DOMAIN Libs}

\* clone_pylib takes no directory twice.
ASSUME LibsAssumption == /\ Libs \in Seq(LibSet) /\ Libs # <<>> /\ IsInjective(Libs)
                         /\ LibSet \cap Dirs = {}
ASSUME FaultsAssumption == MaxFaults \in Nat

VARIABLES
    venv,       \* ROOT/tmp/.waka/.venv: how much of each directory is there
    ex,         \* per caller: the executor at work for it
    faults      \* how many things went wrong so far

executorVars == <<venv, ex>>

\* An executor: where it is, its job, what it has still to copy, what it
\* printed and whether the process that was started has ended well.  The job
\* is [name, dir, inside, root]: the module, its directory, whether that is
\* below the chroot, and whether -r names one at all.
Working == {"setup", "look", "create", "fill", "fork", "import", "run"}
NoJob == [name |-> "", dir |-> "", inside |-> FALSE, root |-> FALSE]
NoExecutor == [pc |-> "none", job |-> NoJob, todo |-> <<>>, out |-> "nothing", ok |-> FALSE]

ExecutorInit ==
    /\ venv = [d \in LibSet \cup Dirs |-> "none"]
    /\ ex = [c \in Callers |-> NoExecutor]
    /\ faults = 0

Fault == faults < MaxFaults /\ faults' = faults + 1
NoFault == UNCHANGED faults

At(c, step) == ex[c].pc = step
GoTo(c, step) == ex' = [ex EXCEPT ![c].pc = step]

\* The end of an executor and of all that holds its output open
End(c, out, ok) == ex' = [ex EXCEPT ![c].pc = "ended", ![c].out = out, ![c].ok = ok]

Start(c, job) == ex' = [ex EXCEPT ![c] = [NoExecutor EXCEPT !.pc = "setup", !.job = job]]

\* clone_pylib's search path: the directory of a module is part of it if the
\* machine has it, too.  Where it comes in the order of lengths is of no matter.
SysPath(job) == IF job.inside THEN Libs ELSE Append(Libs, job.dir)

\* A module with the name of a loaded one is refused.
Setup(c) ==
    /\ At(c, "setup")
    /\ IF ex[c].job.name \in Loaded
       THEN End(c, "nothing", FALSE)
       ELSE ex' = [ex EXCEPT ![c].pc = "look", ![c].todo = SysPath(ex[c].job)]
    /\ UNCHANGED <<venv, faults>>

\* Any directory of the venv is the venv.
Look(c) ==
    /\ At(c, "look")
    /\ GoTo(c, IF \E d \in DOMAIN venv : venv[d] # "none" THEN "fork" ELSE "create")
    /\ UNCHANGED <<venv, faults>>

\* copytree creates its target first.
CreateDir(c) ==
    /\ At(c, "create") /\ venv[Head(ex[c].todo)] = "none"
    /\ venv' = [venv EXCEPT ![Head(ex[c].todo)] = "part"]
    /\ GoTo(c, "fill")
    /\ UNCHANGED faults

\* mutant: an executor that cannot copy cleans up
DirIsThereCleans(c) ==
    /\ At(c, "create") /\ venv[Head(ex[c].todo)] # "none"
    /\ venv' = [d \in DOMAIN venv |-> "none"]
    /\ End(c, "nothing", FALSE)
    /\ UNCHANGED faults

\* mutant: an executor that finds a directory waits until it is whole
DirIsThereWaits(c) ==
    /\ At(c, "create") /\ venv[Head(ex[c].todo)] = "whole"
    /\ ex' = [ex EXCEPT ![c].todo = Tail(@),
                        ![c].pc = IF Len(ex[c].todo) = 1 THEN "fork" ELSE "create"]
    /\ UNCHANGED <<venv, faults>>

\* A target that is there is an error, and the end.
DirIsThere(c) ==
    /\ At(c, "create") /\ venv[Head(ex[c].todo)] # "none"
    /\ End(c, "nothing", FALSE)
    /\ UNCHANGED <<venv, faults>>

\* mutant: off by one at the last directory
FillDirOnce(c) ==
    /\ At(c, "fill")
    /\ venv' = [venv EXCEPT ![Head(ex[c].todo)] = "whole"]
    /\ ex' = [ex EXCEPT ![c].todo = Tail(@),
                        ![c].pc = IF ex[c].todo = <<>> THEN "fork" ELSE "create"]
    /\ UNCHANGED faults

FillDir(c) ==
    /\ At(c, "fill")
    /\ venv' = [venv EXCEPT ![Head(ex[c].todo)] = "whole"]
    /\ ex' = [ex EXCEPT ![c].todo = Tail(@),
                        ![c].pc = IF Len(ex[c].todo) = 1 THEN "fork" ELSE "create"]
    /\ UNCHANGED faults

\* The parent ends well whatever becomes of the child, which needs a root.
Fork(c) ==
    /\ At(c, "fork")
    /\ IF ex[c].job.root
       THEN ex' = [ex EXCEPT ![c].pc = "import", ![c].ok = TRUE]
       ELSE End(c, "nothing", TRUE)
    /\ UNCHANGED <<venv, faults>>

\* A module needs the libraries, and its own directory: behind the chroot or
\* in the venv.  Part of a directory may or may not have what it takes.
Needs(job) == LibSet \cup (IF job.inside THEN {} ELSE {job.dir})

ImportWorks(c) ==
    /\ At(c, "import") /\ \A d \in Needs(ex[c].job) : venv[d] # "none"
    /\ GoTo(c, "run")
    /\ UNCHANGED <<venv, faults>>

ImportFails(c) ==
    /\ At(c, "import") /\ \E d \in Needs(ex[c].job) : venv[d] # "whole"
    /\ End(c, "nothing", TRUE)
    /\ UNCHANGED <<venv, faults>>

\* A module may end without having printed its JSON.
RunModule(c) ==
    /\ At(c, "run")
    /\ \E out \in {"json", "nothing"} : End(c, out, TRUE)
    /\ UNCHANGED <<venv, faults>>

\* The executor, or its child, is killed, or has an error of another kind.
Kill(c) ==
    /\ ex[c].pc \in Working
    /\ End(c, "nothing", ex[c].ok)
    /\ Fault /\ UNCHANGED venv

ExecutorStep(c) ==
    \/ Setup(c) \/ Look(c) \/ CreateDir(c) \/ DirIsThere(c) \/ FillDir(c)
    \/ Fork(c) \/ ImportWorks(c) \/ ImportFails(c) \/ RunModule(c)

-----------------------------------------------------------------------------
(* Properties *)

Jobs == [name : Names \cup {""}, dir : Dirs \cup {""}, inside : BOOLEAN, root : BOOLEAN]
Executors == [pc : Working \cup {"none", "ended"}, job : Jobs, todo : Seq(LibSet \cup Dirs),
              out : {"nothing", "json"}, ok : BOOLEAN]

\* What a step of an executor takes for granted
Provided(e) == /\ e.pc = "setup" => e.job.dir \in Dirs
               /\ e.pc \in {"look", "create", "fill"} => e.todo # <<>>

ExecutorTypeOK ==
    /\ venv \in [LibSet \cup Dirs -> {"none", "part", "whole"}]
    /\ ex \in [Callers -> Executors]
    /\ \A c \in Callers : Provided(ex[c])
    /\ faults \in 0..MaxFaults

\* Without a kill, an executor that imports its module while no other one is
\* copying finds every library whole, whichever of them made the venv and
\* however they overlapped before.
LibsAreWhole ==
    \A c \in Callers :
        At(c, "import") /\ faults = 0 /\ (\A b \in Callers : ex[b].pc \notin {"create", "fill"}) =>
            \A d \in LibSet : venv[d] = "whole"
=============================================================================
