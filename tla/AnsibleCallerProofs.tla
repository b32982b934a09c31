------------------------- MODULE AnsibleCallerProofs -------------------------
(***************************************************************************)
(* AnsibleCaller with its executors, proved for every number of callers,   *)
(* calls, libraries, state roots and faults.                               *)
(*                                                                         *)
(* That the config file is there while the module reads it rests on whom   *)
(* the caller waits for: an executor at work has a caller that waits, and  *)
(* a caller that waits has its config file.  That an answer tells of the   *)
(* module of its own call rests on where output can be: only with a caller *)
(* that has not yet returned it, whose module ran.  That a library is      *)
(* whole rests on who copies: at most one executor is past its first       *)
(* directory, and what it has still to copy is not there.                  *)
(***************************************************************************)
EXTENDS AnsibleCaller, SequenceTheorems, TLAPS

WithConfig == {"binary", "script", "wait", "cleanup"}

\* Whom an executor works for, and which calls have their config file
WaitingOf(c) ==
    /\ ex[c].pc \in Working => pc[c] = "wait"
    /\ pc[c] \in WithConfig => File(c, "config") \in temp

\* Where output can be
OutputOf(c) ==
    ex[c].out = "json" => ran[c] /\ ex[c].pc = "ended" /\ pc[c] \in {"wait", "cleanup"}

RanOf(c) == answer[c] = "ok" => ran[c]

\* Where a caller is that has a file of each kind, if nothing went wrong
Stage(what) == IF what = "pce" THEN {"wait"} ELSE WithConfig \cup {"panicked"}
OwnedOf(c) ==
    faults = 0 => \A f \in temp : f.owner = c => f.nr = nr[c] /\ pc[c] \in Stage(f.what)

CallOf(c) == WaitingOf(c) /\ OutputOf(c) /\ RanOf(c) /\ OwnedOf(c)

LocalInv == LocalTypeOK /\ \A c \in Callers : CallOf(c)

-----------------------------------------------------------------------------
(* Types *)

\* ExecutorTypeOK for one executor
ExecutorOK(e) == e \in Executors /\ Provided(e)

LEMMA NoExecutorOK == ExecutorOK(NoExecutor)
<1>1. <<>> \in Seq(LibSet \cup Dirs)
    OBVIOUS
<1>2. NoJob \in Jobs
    BY DEF NoJob, Jobs
<1> QED
    BY <1>1, <1>2 DEF ExecutorOK, NoExecutor, Executors, Provided

\* One executor changes at a time.
LEMMA OneChanges ==
    ASSUME LocalTypeOK, NEW c \in Callers, NEW e, ExecutorOK(e), ex' = [ex EXCEPT ![c] = e]
    PROVE  /\ ex' \in [Callers -> Executors] /\ ex'[c] = e
           /\ \A b \in Callers : b # c => ex'[b] = ex[b]
           /\ \A b \in Callers : Provided(ex'[b])
BY DEF LocalTypeOK, ExecutorTypeOK, ExecutorOK

\* What becomes of an executor that ends, and of one that starts
LEMMA EndOK ==
    ASSUME LocalTypeOK, NEW c \in Callers, NEW out \in {"nothing", "json"}, NEW ok \in BOOLEAN,
           End(c, out, ok)
    PROVE  \E e : /\ ExecutorOK(e) /\ e.pc = "ended" /\ e.out = out
                  /\ ex' = [ex EXCEPT ![c] = e]
<1> DEFINE e == [ex[c] EXCEPT !.pc = "ended", !.out = out, !.ok = ok]
<1>1. ex[c] \in Executors
    BY DEF LocalTypeOK, ExecutorTypeOK
<1>2. e \in Executors /\ e.pc = "ended" /\ e.out = out
    BY <1>1 DEF Executors
<1>3. ex' = [ex EXCEPT ![c] = e]
    BY DEF End
<1> QED
    BY <1>2, <1>3 DEF ExecutorOK, Provided

LEMMA StartOK ==
    ASSUME NEW c \in Callers, NEW job \in Jobs, job.dir \in Dirs, Start(c, job)
    PROVE  \E e : /\ ExecutorOK(e) /\ e.pc = "setup" /\ e.out = "nothing"
                  /\ ex' = [ex EXCEPT ![c] = e]
BY NoExecutorOK DEF Start, ExecutorOK, Executors, Working, NoExecutor, Provided

\* The search path of a job is a sequence of directories with something in it.
LEMMA SysPathType ==
    ASSUME NEW job \in Jobs, job.dir \in Dirs
    PROVE  SysPath(job) \in Seq(LibSet \cup Dirs) /\ SysPath(job) # <<>>
<1>1. LibSet \subseteq LibSet \cup Dirs
    OBVIOUS
<1>2. Libs \in Seq(LibSet \cup Dirs) /\ Libs # <<>>
    BY <1>1, LibsAssumption, SeqMonotonic
<1>3. job.dir \in LibSet \cup Dirs
    OBVIOUS
<1> QED
    BY <1>2, <1>3, AppendProperties DEF SysPath

\* What becomes of an executor that moves
LEMMA GoToOK ==
    ASSUME LocalTypeOK, NEW c \in Callers, NEW step \in Working \ {"setup"},
           step \in {"look", "create", "fill"} => ex[c].todo # <<>>, GoTo(c, step)
    PROVE  \E e : /\ ExecutorOK(e) /\ e.pc \in Working /\ e.out = ex[c].out
                  /\ ex' = [ex EXCEPT ![c] = e]
<1> DEFINE e == [ex[c] EXCEPT !.pc = step]
<1>1. ex[c] \in Executors
    BY DEF LocalTypeOK, ExecutorTypeOK
<1>2. e \in Executors /\ e.pc = step /\ e.out = ex[c].out /\ e.todo = ex[c].todo
    BY <1>1 DEF Executors
<1>3. ex' = [ex EXCEPT ![c] = e]
    BY DEF GoTo
<1>4. ExecutorOK(e)
    BY <1>2 DEF ExecutorOK, Provided
<1> QED
    BY <1>2, <1>3, <1>4

\* A step of an executor: it stays in shape, its output appears as it runs the
\* module, and it was at work.
LEMMA StepOK ==
    ASSUME LocalTypeOK, NEW c \in Callers, ExecutorStep(c)
    PROVE  /\ ex[c].pc \in Working
           /\ \E e : /\ ExecutorOK(e) /\ e.pc \in Working \cup {"ended"}
                     /\ e.out = "json" => \/ At(c, "run") /\ e.pc = "ended"
                                          \/ ex[c].out = "json"
                     /\ ex' = [ex EXCEPT ![c] = e]
           /\ venv' \in [LibSet \cup Dirs -> {"none", "part", "whole"}]
           /\ UNCHANGED faults
<1>1. ex[c] \in Executors /\ Provided(ex[c])
    BY DEF LocalTypeOK, ExecutorTypeOK
<1>2. venv \in [LibSet \cup Dirs -> {"none", "part", "whole"}]
    BY DEF LocalTypeOK, ExecutorTypeOK
<1>3. CASE Setup(c)
  <2>1. CASE ex[c].job.name \in Loaded
      BY <1>2, <1>3, <2>1, EndOK DEF Setup, At, Working
  <2>2. CASE ex[c].job.name \notin Loaded
    <3> DEFINE e == [ex[c] EXCEPT !.pc = "look", !.todo = SysPath(ex[c].job)]
    <3>1. SysPath(ex[c].job) \in Seq(LibSet \cup Dirs) /\ SysPath(ex[c].job) # <<>>
        BY <1>1, <1>3, SysPathType DEF Setup, At, Executors, Provided
    <3>2. /\ e \in Executors /\ e.pc = "look" /\ e.out = ex[c].out
          /\ e.todo = SysPath(ex[c].job)
        BY <1>1, <3>1 DEF Executors, Working
    <3>3. ExecutorOK(e)
        BY <3>1, <3>2 DEF ExecutorOK, Provided
    <3>4. ex' = [ex EXCEPT ![c] = e]
        BY <1>3, <2>2 DEF Setup
    <3>5. ex[c].pc \in Working /\ UNCHANGED <<venv, faults>>
        BY <1>3 DEF Setup, At, Working
    <3> QED
        BY <1>2, <3>2, <3>3, <3>4, <3>5 DEF Working
  <2> QED
      BY <2>1, <2>2
<1>4. CASE Look(c)
  <2> DEFINE step == IF \E d \in DOMAIN venv : venv[d] # "none" THEN "fork" ELSE "create"
  <2>1. step \in Working \ {"setup"} /\ ex[c].todo # <<>> /\ ex[c].pc \in Working
      BY <1>1, <1>4 DEF Look, At, Provided, Working
  <2>2. GoTo(c, step) /\ UNCHANGED <<venv, faults>>
      BY <1>4 DEF Look
  <2> QED
      BY <1>2, <2>1, <2>2, GoToOK
<1>5. CASE CreateDir(c)
  <2>1. "fill" \in Working \ {"setup"} /\ ex[c].todo # <<>> /\ ex[c].pc \in Working
      BY <1>1, <1>5 DEF CreateDir, At, Provided, Working
  <2>2. GoTo(c, "fill") /\ UNCHANGED faults
      BY <1>5 DEF CreateDir
  <2>3. venv' \in [LibSet \cup Dirs -> {"none", "part", "whole"}]
      BY <1>2, <1>5 DEF CreateDir
  <2> QED
      BY <2>1, <2>2, <2>3, GoToOK
<1>6. CASE DirIsThere(c)
    BY <1>2, <1>6, EndOK DEF DirIsThere, At, Working
<1>7. CASE FillDir(c)
  <2> DEFINE todo == ex[c].todo
             e == [ex[c] EXCEPT !.pc = IF Len(todo) = 1 THEN "fork" ELSE "create",
                                !.todo = Tail(todo)]
  <2>1. todo \in Seq(LibSet \cup Dirs) /\ todo # <<>> /\ ex[c].pc \in Working
      BY <1>1, <1>7 DEF FillDir, At, Executors, Provided, Working
  <2>2. Tail(todo) \in Seq(LibSet \cup Dirs) /\ (Len(todo) # 1 => Tail(todo) # <<>>)
    <3> HIDE DEF todo
    <3>1. Len(Tail(todo)) = Len(todo) - 1 /\ Tail(todo) \in Seq(LibSet \cup Dirs)
        BY <2>1, HeadTailProperties
    <3>2. Len(todo) \in Nat
        BY <2>1, LenProperties
    <3>3. Len(<<>>) = 0
        OBVIOUS
    <3>4. CASE Tail(todo) = <<>>
      <4>1. Len(Tail(todo)) = 0
          BY <3>3, <3>4, Zenon
      <4>2. Len(Tail(todo)) = Len(todo) - 1
          BY <3>1, Zenon
      <4>3. Len(todo) = 1
          BY <3>2, <4>1, <4>2, SMT
      <4> QED
          BY <3>1, <4>3, Zenon
    <3>5. CASE Tail(todo) # <<>>
        BY <3>1, <3>5, Zenon
    <3> QED
        BY <3>4, <3>5
  <2>3. /\ e \in Executors /\ e.todo = Tail(todo) /\ e.out = ex[c].out
        /\ e.pc = IF Len(todo) = 1 THEN "fork" ELSE "create"
      BY <1>1, <2>2 DEF Executors, Working
  <2>4. ExecutorOK(e) /\ e.pc \in Working
      BY <2>2, <2>3 DEF ExecutorOK, Provided, Working
  <2>5. ex' = [ex EXCEPT ![c] = e]
      BY <1>7 DEF FillDir
  <2>6. venv' \in [LibSet \cup Dirs -> {"none", "part", "whole"}] /\ UNCHANGED faults
      BY <1>2, <1>7 DEF FillDir
  <2> QED
      BY <2>1, <2>3, <2>4, <2>5, <2>6
<1>8. CASE Fork(c)
  <2>1. CASE ex[c].job.root
    <3> DEFINE e == [ex[c] EXCEPT !.pc = "import", !.ok = TRUE]
    <3>1. e \in Executors /\ e.pc = "import" /\ e.out = ex[c].out
        BY <1>1 DEF Executors, Working
    <3>2. ex' = [ex EXCEPT ![c] = e]
        BY <1>8, <2>1 DEF Fork
    <3> QED
        BY <1>2, <1>8, <3>1, <3>2 DEF Fork, At, ExecutorOK, Provided, Working
  <2>2. CASE ~ex[c].job.root
      BY <1>2, <1>8, <2>2, EndOK DEF Fork, At, Working
  <2> QED
      BY <2>1, <2>2
<1>9. CASE ImportWorks(c)
  <2>1. "run" \in Working \ {"setup"} /\ ex[c].pc \in Working
      BY <1>9 DEF ImportWorks, At, Working
  <2>2. GoTo(c, "run") /\ UNCHANGED <<venv, faults>>
      BY <1>9 DEF ImportWorks
  <2> QED
      BY <1>2, <2>1, <2>2, GoToOK
<1>10. CASE ImportFails(c)
    BY <1>2, <1>10, EndOK DEF ImportFails, At, Working
<1>11. CASE RunModule(c)
  <2>1. PICK out \in {"json", "nothing"} : End(c, out, TRUE)
      BY <1>11 DEF RunModule
  <2> QED
      BY <1>2, <1>11, <2>1, EndOK DEF RunModule, At, Working
<1> QED
    BY <1>3, <1>4, <1>5, <1>6, <1>7, <1>8, <1>9, <1>10, <1>11 DEF ExecutorStep

\* The module that is found is one of a root.
LEMMA FoundType ==
    ASSUME NEW name, NEW found \in Found(name)
    PROVE  found \in {NoModule} \cup [root : RootSet, kind : {"binary", "script"}]
<1>1. CASE Hits(name) = {}
    BY <1>1 DEF Found
<1>2. CASE Hits(name) # {}
  <2>1. PICK n \in Hits(name) : \E kind \in KindsAt(n, name) :
            found = [root |-> StateRoots[n], kind |-> kind]
      BY <1>2 DEF Found
  <2>4. PICK kind \in KindsAt(n, name) : found = [root |-> StateRoots[n], kind |-> kind]
      BY <2>1
  <2>2. n \in DOMAIN StateRoots /\ StateRoots[n] \in RootSet
      BY DEF Hits, Searched, RootSet
  <2>3. kind \in {"binary", "script"}
    <3>1. name \in DOMAIN Modules[StateRoots[n]] /\ kind \in Modules[StateRoots[n]][name]
        BY DEF KindsAt
    <3>2. n \in Searched
        BY DEF Hits
    <3>3. StateRoots[n] \in DOMAIN Modules
        BY <3>2, RootsAssumption DEF Searched
    <3> QED
        BY <3>1, <3>3, ModulesAssumption
  <2> QED
      BY <2>2, <2>3, <2>4
<1> QED
    BY <1>1, <1>2

\* The executors and the venv after one executor changed
LEMMA ExecutorsStep ==
    ASSUME LocalTypeOK, NEW c \in Callers, NEW e, ExecutorOK(e), ex' = [ex EXCEPT ![c] = e],
           venv' \in [LibSet \cup Dirs -> {"none", "part", "whole"}], faults' \in 0..MaxFaults
    PROVE  ExecutorTypeOK'
BY OneChanges DEF ExecutorTypeOK

LEMMA FaultOK ==
    ASSUME LocalTypeOK, Fault \/ NoFault
    PROVE  faults' \in 0..MaxFaults
BY FaultsAssumption DEF LocalTypeOK, ExecutorTypeOK, Fault, NoFault

\* What returns leaves behind: the caller idle, and its executor as it was or gone
LEMMA ReturnOK ==
    ASSUME LocalTypeOK, NEW c \in Callers, NEW ok \in BOOLEAN, Return(c, ok)
    PROVE  /\ \E e : /\ ExecutorOK(e)
                     /\ e.out = "json" => ex[c].out = "json" /\ ~At(c, "ended")
                     /\ e.pc \in {ex[c].pc, "none"}
                     /\ ex' = [ex EXCEPT ![c] = e]
           /\ pc' = [pc EXCEPT ![c] = "idle"] /\ answer'[c] \in {"ok", "error"}
           /\ answer'[c] = "ok" => ok
           /\ \A b \in Callers : b # c => answer'[b] = answer[b]
           /\ answer' \in [Callers -> {"none", "ok", "error"}]
           /\ call' \in [Callers -> Calls \cup {NoCall}]
           /\ mod' \in [Callers -> {NoModule} \cup [root : RootSet, kind : {"binary", "script"}]]
           /\ \A b \in Callers : b # c => mod'[b] = mod[b]
<1>1. \E e : /\ ExecutorOK(e)
             /\ e.out = "json" => ex[c].out = "json" /\ ~At(c, "ended")
             /\ e.pc \in {ex[c].pc, "none"}
             /\ ex' = [ex EXCEPT ![c] = e]
  <2>1. ex[c] \in Executors /\ Provided(ex[c])
      BY DEF LocalTypeOK, ExecutorTypeOK
  <2>2. CASE At(c, "ended")
    <3>1. ex' = [ex EXCEPT ![c] = NoExecutor]
        BY <2>2 DEF Return
    <3>2. NoExecutor.out # "json" /\ NoExecutor.pc = "none"
        BY DEF NoExecutor
    <3> QED
        BY <3>1, <3>2, NoExecutorOK
  <2>3. CASE ~At(c, "ended")
    <3>1. ex' = [ex EXCEPT ![c] = ex[c]]
        BY <2>3 DEF Return
    <3> QED
        BY <2>1, <2>3, <3>1 DEF ExecutorOK
  <2> QED
      BY <2>2, <2>3
<1>2. /\ pc' = [pc EXCEPT ![c] = "idle"]
      /\ answer' = [answer EXCEPT ![c] = IF ok THEN "ok" ELSE "error"]
      /\ call' = [call EXCEPT ![c] = NoCall] /\ mod' = [mod EXCEPT ![c] = NoModule]
    BY DEF Return, Move
<1> QED
    BY <1>1, <1>2 DEF LocalTypeOK

LEMMA TypesInit == CallerInit => LocalTypeOK
<1> SUFFICES ASSUME CallerInit PROVE LocalTypeOK
    OBVIOUS
<1>1. ExecutorTypeOK
    BY NoExecutorOK, FaultsAssumption
    DEF CallerInit, ExecutorInit, ExecutorTypeOK, ExecutorOK
<1> QED
    BY <1>1, CallsAssumption DEF CallerInit, LocalTypeOK, Stages

LEMMA TypesStep == LocalTypeOK /\ [LocalNext]_localVars => LocalTypeOK'
<1> SUFFICES ASSUME LocalTypeOK, [LocalNext]_localVars PROVE LocalTypeOK'
    OBVIOUS
<1>0. CASE UNCHANGED localVars
    BY <1>0 DEF localVars, executorVars, callerVars, LocalTypeOK, ExecutorTypeOK
<1> SUFFICES ASSUME NEW c \in Callers, Begin(c) \/ CallStep(c) \/ ExecutorIsKilled(c)
             PROVE  LocalTypeOK'
    BY <1>0 DEF LocalNext
<1>u. UNCHANGED <<executorVars, faults>> => ExecutorTypeOK'
    BY DEF executorVars, LocalTypeOK, ExecutorTypeOK
<1>n. nr[c] \in 0..MaxCalls /\ MaxCalls \in Nat
    BY CallsAssumption DEF LocalTypeOK
<1>f. \A what \in {"config", "pce"} :
          File(c, what) \in [owner : Callers, nr : 0..MaxCalls, what : {"config", "pce"}]
    BY <1>n DEF File
<1>1. CASE Begin(c)
    BY <1>1, <1>u, <1>n DEF Begin, Move, LocalTypeOK, Stages
<1>2. CASE Resolve(c)
  <2>1. PICK found \in Found(call[c].name) : mod' = [mod EXCEPT ![c] = found]
      BY <1>2 DEF Resolve
  <2>2. found \in {NoModule} \cup [root : RootSet, kind : {"binary", "script"}]
      BY FoundType
  <2> QED
      BY <1>2, <1>u, <2>1, <2>2 DEF Resolve, Move, LocalTypeOK, Stages
<1>3. CASE MakeConfigFile(c)
  <2>1. mod[c] \in [root : RootSet, kind : {"binary", "script"}]
      BY <1>3 DEF MakeConfigFile, LocalTypeOK
  <2> QED
      BY <1>3, <1>u, <1>f, <2>1 DEF MakeConfigFile, Move, LocalTypeOK, Stages
<1>4. CASE MakeConfigFileFails(c)
  <2>r. PICK ok \in BOOLEAN : Return(c, ok)
      BY <1>4, Zenon DEF MakeConfigFileFails
  <2>1. PICK e : ExecutorOK(e) /\ ex' = [ex EXCEPT ![c] = e]
      BY <2>r, ReturnOK
  <2>2. ExecutorTypeOK'
      BY <1>4, <2>1, ExecutorsStep, FaultOK
      DEF MakeConfigFileFails, LocalTypeOK, ExecutorTypeOK
  <2>3. temp' \subseteq [owner : Callers, nr : 0..MaxCalls, what : {"config", "pce"}]
      BY <1>4, <1>f DEF MakeConfigFileFails, LocalTypeOK
  <2> QED
      BY <1>4, <2>r, <2>2, <2>3, ReturnOK DEF MakeConfigFileFails, LocalTypeOK, Stages
<1>5. CASE Unresolved(c)
    BY <1>5, <1>u, <1>f DEF Unresolved, Move, LocalTypeOK, Stages
<1>6. CASE CallDirectly(c)
  <2>1. PICK out \in {"nothing", "json"}, ok \in BOOLEAN :
            End(c, out, ok) /\ ran' \in {ran, [ran EXCEPT ![c] = TRUE]} /\ (Fault \/ NoFault)
      BY <1>6 DEF CallDirectly, Runs, DoesNotRun
  <2>2. PICK e : ExecutorOK(e) /\ ex' = [ex EXCEPT ![c] = e]
      BY <2>1, EndOK
  <2>3. ExecutorTypeOK'
      BY <1>6, <2>1, <2>2, ExecutorsStep, FaultOK
      DEF CallDirectly, LocalTypeOK, ExecutorTypeOK
  <2> QED
      BY <1>6, <2>1, <2>3 DEF CallDirectly, Move, LocalTypeOK, Stages
<1>7. CASE PreparePCE(c)
  <2>1. mod[c] \in [root : RootSet, kind : {"binary", "script"}]
    <3>1. mod[c].kind = "script"
        BY <1>7 DEF PreparePCE, LocalTypeOK
    <3>2. NoModule.kind = "none"
        BY DEF NoModule
    <3>3. mod[c] \in {NoModule} \cup [root : RootSet, kind : {"binary", "script"}]
        BY DEF LocalTypeOK
    <3> QED
        BY <3>1, <3>2, <3>3
  <2>2. call[c].name \in Names \cup {""}
    <3>1. CASE call[c] \in Calls
        BY <3>1, CallsAssumption
    <3>2. CASE call[c] = NoCall
      <4>1. NoCall.name = ""
          BY DEF NoCall
      <4> QED
          BY <3>2, <4>1
    <3>3. call[c] \in Calls \cup {NoCall}
        BY DEF LocalTypeOK
    <3> QED
        BY <3>1, <3>2, <3>3
  <2>3. Job(c) \in Jobs /\ Job(c).dir \in Dirs
      BY <2>1, <2>2, RootsAssumption DEF Job, Jobs
  <2>4. PICK e : ExecutorOK(e) /\ ex' = [ex EXCEPT ![c] = e]
      BY <1>7, <2>3, StartOK DEF PreparePCE
  <2>5. ExecutorTypeOK'
      BY <1>7, <2>4, ExecutorsStep DEF PreparePCE, LocalTypeOK, ExecutorTypeOK
  <2> QED
      BY <1>7, <1>f, <2>5 DEF PreparePCE, Move, LocalTypeOK, Stages
<1>8. CASE PreparePCEFails(c)
  <2>1. ExecutorTypeOK'
      BY <1>8, FaultOK DEF PreparePCEFails, executorVars, LocalTypeOK, ExecutorTypeOK
  <2>2. temp' \subseteq [owner : Callers, nr : 0..MaxCalls, what : {"config", "pce"}]
      BY <1>8, <1>f DEF PreparePCEFails, LocalTypeOK
  <2> QED
      BY <1>8, <2>1, <2>2 DEF PreparePCEFails, Move, LocalTypeOK, Stages
<1>9. CASE ExecutorWorks(c)
  <2>1. PICK e : ExecutorOK(e) /\ ex' = [ex EXCEPT ![c] = e]
      BY <1>9, StepOK DEF ExecutorWorks
  <2>2. ExecutorTypeOK'
      BY <1>9, <2>1, StepOK, ExecutorsStep DEF ExecutorWorks, LocalTypeOK, ExecutorTypeOK
  <2>3. ran' \in [Callers -> BOOLEAN]
      BY <1>9 DEF ExecutorWorks, LocalTypeOK, At
  <2> QED
      BY <1>9, <2>2, <2>3 DEF ExecutorWorks, LocalTypeOK
<1>10. CASE RemovePCE(c)
    BY <1>10, <1>u DEF RemovePCE, Move, LocalTypeOK, Stages
<1>11. CASE RemoveConfig(c)
  <2>r. PICK ok \in BOOLEAN : Return(c, ok)
      BY <1>11, Zenon DEF RemoveConfig
  <2>1. PICK e : ExecutorOK(e) /\ ex' = [ex EXCEPT ![c] = e]
      BY <2>r, ReturnOK
  <2>2. ExecutorTypeOK'
      BY <1>11, <2>1, ExecutorsStep DEF RemoveConfig, LocalTypeOK, ExecutorTypeOK
  <2> QED
      BY <1>11, <2>r, <2>2, ReturnOK DEF RemoveConfig, LocalTypeOK, Stages
<1>12. CASE ExecutorIsKilled(c)
  <2>1. ex[c].ok \in BOOLEAN
      BY DEF LocalTypeOK, ExecutorTypeOK, Executors
  <2>2. PICK e : ExecutorOK(e) /\ ex' = [ex EXCEPT ![c] = e]
      BY <1>12, <2>1, EndOK DEF ExecutorIsKilled, Kill
  <2>3. ExecutorTypeOK'
      BY <1>12, <2>2, ExecutorsStep, FaultOK
      DEF ExecutorIsKilled, Kill, LocalTypeOK, ExecutorTypeOK
  <2> QED
      BY <1>12, <2>3 DEF ExecutorIsKilled, callerVars, LocalTypeOK
<1> QED
    BY <1>1, <1>2, <1>3, <1>4, <1>5, <1>6, <1>7, <1>8, <1>9, <1>10, <1>11, <1>12 DEF CallStep

\* The types of the callers and their executors, whatever they do.
THEOREM LocalTypes == LocalSpec => []LocalTypeOK
<1>1. CallerInit => LocalTypeOK
    BY TypesInit
<1>2. LocalTypeOK /\ [LocalNext]_localVars => LocalTypeOK'
    BY TypesStep
<1> QED
    BY <1>1, <1>2, PTL DEF LocalSpec

-----------------------------------------------------------------------------
(* Who waits for whom *)

\* What a caller does
Does(c) == Begin(c) \/ CallStep(c) \/ ExecutorIsKilled(c)

\* What is of one caller is not touched as another one acts.
SameOf(b) ==
    /\ ex'[b] = ex[b] /\ pc'[b] = pc[b] /\ nr'[b] = nr[b]
    /\ ran'[b] = ran[b] /\ answer'[b] = answer[b]
    /\ \A f : f.owner = b => (f \in temp' <=> f \in temp)

LEMMA OthersStay ==
    ASSUME LocalTypeOK, NEW c \in Callers, Does(c), NEW b \in Callers, b # c
    PROVE  SameOf(b)
<1>f. \A what : File(c, what).owner # b
    BY DEF File
<1>1. CASE Begin(c)
    BY <1>1 DEF Begin, Move, LocalTypeOK, SameOf, executorVars
<1>2. CASE Resolve(c)
    BY <1>2 DEF Resolve, Move, LocalTypeOK, SameOf, executorVars
<1>3. CASE MakeConfigFile(c)
    BY <1>3, <1>f DEF MakeConfigFile, Move, LocalTypeOK, SameOf, executorVars
<1>4. CASE MakeConfigFileFails(c)
    BY <1>4, <1>f
    DEF MakeConfigFileFails, Return, Move, LocalTypeOK, ExecutorTypeOK, SameOf
<1>5. CASE Unresolved(c)
    BY <1>5, <1>f DEF Unresolved, Move, LocalTypeOK, SameOf, executorVars
<1>6. CASE CallDirectly(c)
    BY <1>6 DEF CallDirectly, Runs, DoesNotRun, End, Move, LocalTypeOK, ExecutorTypeOK, SameOf
<1>7. CASE PreparePCE(c)
    BY <1>7, <1>f DEF PreparePCE, Start, Move, LocalTypeOK, ExecutorTypeOK, SameOf
<1>8. CASE PreparePCEFails(c)
    BY <1>8, <1>f DEF PreparePCEFails, Move, LocalTypeOK, SameOf, executorVars
<1>9. CASE ExecutorWorks(c)
  <2>1. PICK e : ExecutorOK(e) /\ ex' = [ex EXCEPT ![c] = e]
      BY <1>9, StepOK DEF ExecutorWorks
  <2> QED
      BY <1>9, <2>1 DEF ExecutorWorks, LocalTypeOK, ExecutorTypeOK, SameOf
<1>10. CASE RemovePCE(c)
    BY <1>10, <1>f DEF RemovePCE, Move, LocalTypeOK, SameOf, executorVars
<1>11. CASE RemoveConfig(c)
    BY <1>11, <1>f DEF RemoveConfig, Return, Move, LocalTypeOK, ExecutorTypeOK, SameOf
<1>12. CASE ExecutorIsKilled(c)
    BY <1>12
    DEF ExecutorIsKilled, Kill, End, callerVars, LocalTypeOK, ExecutorTypeOK, SameOf
<1> QED
    BY <1>1, <1>2, <1>3, <1>4, <1>5, <1>6, <1>7, <1>8, <1>9, <1>10, <1>11, <1>12
    DEF Does, CallStep

\* An executor at work, or with output, has a caller in certain places only.
LEMMA Outside ==
    ASSUME NEW c \in Callers, CallOf(c), pc[c] \notin {"wait", "cleanup"}
    PROVE  ex[c].pc \notin Working /\ ex[c].out # "json"
BY DEF CallOf, WaitingOf, OutputOf

LEMMA WaitingStep ==
    ASSUME LocalTypeOK, NEW c \in Callers, CallOf(c), Does(c)
    PROVE  WaitingOf(c)'
<1>w. WaitingOf(c)
    BY DEF CallOf
<1>t. /\ pc \in [Callers -> Stages] /\ nr \in [Callers -> 0..MaxCalls]
      /\ ex \in [Callers -> Executors]
      /\ pc[c] \in {"binary", "script"} => mod[c].kind = pc[c]
    BY DEF LocalTypeOK, ExecutorTypeOK
<1>m. mod[c] # NoModule => mod[c].kind \in {"binary", "script"}
    BY DEF LocalTypeOK
<1>1. CASE Begin(c)
    BY <1>1, <1>t, Outside DEF Begin, Move, WaitingOf, WithConfig, executorVars
<1>2. CASE Resolve(c)
    BY <1>2, <1>t, Outside DEF Resolve, Move, WaitingOf, WithConfig, executorVars
<1>3. CASE MakeConfigFile(c)
    BY <1>3, <1>t, <1>m, Outside
    DEF MakeConfigFile, Move, WaitingOf, WithConfig, executorVars, File
<1>4. CASE MakeConfigFileFails(c)
    BY <1>4, <1>t, Outside
    DEF MakeConfigFileFails, Return, Move, WaitingOf, WithConfig, NoExecutor, Working
<1>5. CASE Unresolved(c)
    BY <1>5, <1>t, Outside DEF Unresolved, Move, WaitingOf, WithConfig, executorVars
<1>6. CASE CallDirectly(c)
  <2>1. ex'[c].pc = "ended"
    <3>1. PICK out \in {"nothing", "json"}, ok \in BOOLEAN : End(c, out, ok)
        BY <1>6 DEF CallDirectly, Runs, DoesNotRun
    <3> QED
        BY <1>t, <3>1, EndOK
  <2>2. pc[c] \in WithConfig /\ UNCHANGED <<nr, temp>>
      BY <1>6 DEF CallDirectly, WithConfig
  <2> QED
      BY <1>w, <2>1, <2>2 DEF WaitingOf, Working, File
<1>7. CASE PreparePCE(c)
    BY <1>7, <1>t, <1>w DEF PreparePCE, Move, WaitingOf, WithConfig, File
<1>8. CASE PreparePCEFails(c)
    BY <1>8, <1>t, <1>w, Outside
    DEF PreparePCEFails, Move, WaitingOf, WithConfig, executorVars, File
<1>9. CASE ExecutorWorks(c)
    BY <1>9, <1>w, StepOK DEF ExecutorWorks, WaitingOf, WithConfig, File
<1>10. CASE RemovePCE(c)
    BY <1>10, <1>t, <1>w
    DEF RemovePCE, Returns, At, Move, WaitingOf, WithConfig, Working, executorVars, File
<1>11. CASE RemoveConfig(c)
    BY <1>11, <1>t, <1>w
    DEF RemoveConfig, Return, Move, WaitingOf, WithConfig, NoExecutor, Working
<1>12. CASE ExecutorIsKilled(c)
    BY <1>12, <1>t, <1>w
    DEF ExecutorIsKilled, Kill, End, callerVars, WaitingOf, WithConfig, Working, File
<1> QED
    BY <1>1, <1>2, <1>3, <1>4, <1>5, <1>6, <1>7, <1>8, <1>9, <1>10, <1>11, <1>12
    DEF Does, CallStep

LEMMA OutputStep ==
    ASSUME LocalTypeOK, NEW c \in Callers, CallOf(c), Does(c)
    PROVE  OutputOf(c)' /\ RanOf(c)'
<1>o. OutputOf(c) /\ RanOf(c) /\ WaitingOf(c)
    BY DEF CallOf
<1>t. /\ pc \in [Callers -> Stages] /\ ran \in [Callers -> BOOLEAN]
      /\ ex \in [Callers -> Executors] /\ answer \in [Callers -> {"none", "ok", "error"}]
    BY DEF LocalTypeOK, ExecutorTypeOK
<1>1. CASE Begin(c)
    BY <1>1, <1>t, Outside DEF Begin, Move, OutputOf, RanOf, executorVars
<1>2. CASE Resolve(c)
    BY <1>2, <1>o, <1>t, Outside DEF Resolve, Move, OutputOf, RanOf, executorVars
<1>3. CASE MakeConfigFile(c)
    BY <1>3, <1>o, <1>t, Outside DEF MakeConfigFile, Move, OutputOf, RanOf, executorVars
<1>4. CASE MakeConfigFileFails(c)
    BY <1>4, <1>t, Outside
    DEF MakeConfigFileFails, Return, Move, OutputOf, RanOf, NoExecutor
<1>5. CASE Unresolved(c)
    BY <1>5, <1>o, <1>t, Outside DEF Unresolved, Move, OutputOf, RanOf, executorVars
<1>6. CASE CallDirectly(c)
  <2>1. CASE Runs(c)
    <3>1. ran'[c] /\ ex'[c].pc = "ended"
        BY <1>t, <2>1 DEF Runs, End
    <3> QED
        BY <1>6, <1>t, <3>1 DEF CallDirectly, Move, OutputOf, RanOf
  <2>2. CASE DoesNotRun(c)
    <3>1. ran' = ran /\ \E ok \in BOOLEAN : End(c, "nothing", ok)
        BY <2>2 DEF DoesNotRun
    <3>2. ex'[c].out = "nothing"
        BY <1>t, <3>1, EndOK
    <3> QED
        BY <1>6, <1>o, <3>1, <3>2 DEF CallDirectly, OutputOf, RanOf
  <2> QED
      BY <1>6, <2>1, <2>2 DEF CallDirectly
<1>7. CASE PreparePCE(c)
    BY <1>7, <1>o, <1>t DEF PreparePCE, Start, NoExecutor, Move, OutputOf, RanOf
<1>8. CASE PreparePCEFails(c)
    BY <1>8, <1>o, <1>t, Outside DEF PreparePCEFails, Move, OutputOf, RanOf, executorVars
<1>9. CASE ExecutorWorks(c)
  <2>1. ran'[c] = (ran[c] \/ At(c, "run")) /\ UNCHANGED <<pc, answer>>
      BY <1>9, <1>t DEF ExecutorWorks, At
  <2>2. /\ ex[c].pc \in Working /\ pc[c] = "wait" /\ ex[c].out # "json"
      BY <1>9, <1>o, StepOK DEF ExecutorWorks, WaitingOf, OutputOf, Working
  <2>3. ex'[c].out = "json" => ex'[c].pc = "ended" /\ At(c, "run")
      BY <1>9, <1>t, <2>2, StepOK DEF ExecutorWorks
  <2> QED
      BY <1>o, <2>1, <2>2, <2>3 DEF OutputOf, RanOf
<1>10. CASE RemovePCE(c)
    BY <1>10, <1>o, <1>t DEF RemovePCE, Move, OutputOf, RanOf, executorVars
<1>11. CASE RemoveConfig(c)
    BY <1>11, <1>o, <1>t
    DEF RemoveConfig, Return, At, Move, OutputOf, RanOf, NoExecutor
<1>12. CASE ExecutorIsKilled(c)
    BY <1>12, <1>o, <1>t
    DEF ExecutorIsKilled, Kill, End, callerVars, OutputOf, RanOf, Executors
<1> QED
    BY <1>1, <1>2, <1>3, <1>4, <1>5, <1>6, <1>7, <1>8, <1>9, <1>10, <1>11, <1>12
    DEF Does, CallStep

LEMMA OwnedStep ==
    ASSUME LocalTypeOK, NEW c \in Callers, CallOf(c), Does(c)
    PROVE  OwnedOf(c)'
<1> SUFFICES ASSUME faults' = 0, NEW f \in temp', f.owner = c
             PROVE  f.nr = nr'[c] /\ pc'[c] \in Stage(f.what)
    BY DEF OwnedOf
<1>o. OwnedOf(c)
    BY DEF CallOf
<1>t. /\ pc \in [Callers -> Stages] /\ nr \in [Callers -> 0..MaxCalls]
      /\ mod[c] # NoModule => mod[c].kind \in {"binary", "script"}
      /\ faults \in 0..MaxFaults /\ MaxFaults \in Nat
    BY FaultsAssumption DEF LocalTypeOK, ExecutorTypeOK
<1>n. ~Fault
    BY <1>t DEF Fault
<1>s. /\ Stage("pce") = {"wait"} /\ \A what : what # "pce" => Stage(what) = WithConfig \cup {"panicked"}
      /\ \A what : "idle" \notin Stage(what) /\ "resolve" \notin Stage(what) /\ "config" \notin Stage(what)
    BY DEF Stage, WithConfig
<1>r. f \in temp /\ f.nr = nr[c] => f.what \in {"config", "pce"} /\ f = File(c, f.what)
    BY DEF LocalTypeOK, File
<1>1. CASE Begin(c)
    BY <1>1, <1>o, <1>s DEF Begin, OwnedOf
<1>2. CASE Resolve(c)
    BY <1>2, <1>o, <1>s DEF Resolve, OwnedOf
<1>3. CASE MakeConfigFile(c)
    BY <1>3, <1>o, <1>t, <1>s DEF MakeConfigFile, Move, OwnedOf, File, WithConfig
<1>4. CASE MakeConfigFileFails(c)
    BY <1>4, <1>n DEF MakeConfigFileFails
<1>5. CASE Unresolved(c)
    BY <1>5, <1>o, <1>t, <1>s DEF Unresolved, Move, OwnedOf, File
<1>6. CASE CallDirectly(c)
    BY <1>6, <1>o, <1>t, <1>s, <1>n
    DEF CallDirectly, Runs, DoesNotRun, Move, OwnedOf, Stage, WithConfig, NoFault
<1>7. CASE PreparePCE(c)
    BY <1>7, <1>o, <1>t DEF PreparePCE, Move, OwnedOf, File, Stage, WithConfig
<1>8. CASE PreparePCEFails(c)
    BY <1>8, <1>n DEF PreparePCEFails
<1>9. CASE ExecutorWorks(c)
    BY <1>9, <1>o, StepOK DEF ExecutorWorks, OwnedOf
<1>10. CASE RemovePCE(c)
  <2>1. f \in temp /\ f # File(c, "pce") /\ faults = 0
      BY <1>10 DEF RemovePCE
  <2>2. f.nr = nr[c] /\ f.what # "pce"
      BY <1>o, <1>r, <2>1 DEF OwnedOf
  <2> QED
      BY <1>10, <1>t, <1>s, <2>2 DEF RemovePCE, Move, WithConfig
<1>11. CASE RemoveConfig(c)
  <2>1. f \in temp /\ f # File(c, "config") /\ faults = 0 /\ pc[c] = "cleanup"
      BY <1>11 DEF RemoveConfig
  <2>2. f.nr = nr[c] /\ pc[c] \in Stage(f.what)
      BY <1>o, <2>1 DEF OwnedOf
  <2>3. f.what = "pce"
      BY <1>r, <2>1, <2>2
  <2> QED
      BY <1>s, <2>1, <2>2, <2>3
<1>12. CASE ExecutorIsKilled(c)
    BY <1>12, <1>n DEF ExecutorIsKilled, Kill
<1> QED
    BY <1>1, <1>2, <1>3, <1>4, <1>5, <1>6, <1>7, <1>8, <1>9, <1>10, <1>11, <1>12
    DEF Does, CallStep

\* Nothing undoes a fault.
LEMMA FaultsSinceStart ==
    ASSUME LocalTypeOK, NEW c \in Callers, Does(c)
    PROVE  faults' = 0 => faults = 0
<1>1. CASE ExecutorWorks(c)
    BY <1>1, StepOK DEF ExecutorWorks
<1>2. faults \in Nat
    BY FaultsAssumption DEF LocalTypeOK, ExecutorTypeOK
<1>3. CASE Fault \/ NoFault \/ UNCHANGED faults
    BY <1>2, <1>3 DEF Fault, NoFault
<1>4. ~ExecutorWorks(c) => Fault \/ NoFault \/ UNCHANGED faults
    BY DEF Does, CallStep, Begin, Resolve, MakeConfigFile, MakeConfigFileFails, Unresolved,
           CallDirectly, Runs, DoesNotRun, PreparePCE, PreparePCEFails, RemovePCE, RemoveConfig,
           ExecutorIsKilled, Kill
<1> QED
    BY <1>1, <1>3, <1>4

LEMMA InvInit == CallerInit => LocalInv
<1> SUFFICES ASSUME CallerInit, NEW c \in Callers PROVE CallOf(c)
    BY TypesInit DEF LocalInv
<1>1. /\ ex[c] = NoExecutor /\ pc[c] = "idle" /\ answer[c] = "none" /\ temp = {}
    BY DEF CallerInit, ExecutorInit
<1>2. NoExecutor.pc = "none" /\ NoExecutor.out = "nothing"
    BY DEF NoExecutor
<1> QED
    BY <1>1, <1>2 DEF CallOf, WaitingOf, OutputOf, RanOf, OwnedOf, Working, WithConfig

LEMMA InvStep == LocalInv /\ [LocalNext]_localVars => LocalInv'
<1> SUFFICES ASSUME LocalInv, [LocalNext]_localVars PROVE LocalInv'
    OBVIOUS
<1>t. LocalTypeOK /\ LocalTypeOK'
    BY TypesStep DEF LocalInv
<1>1. CASE UNCHANGED localVars
    BY <1>1, <1>t
    DEF localVars, executorVars, callerVars, LocalInv, CallOf, WaitingOf, OutputOf, RanOf,
        OwnedOf, File
<1>2. CASE LocalNext
  <2> PICK c \in Callers : Does(c)
      BY <1>2 DEF LocalNext, Does
  <2>1. CallOf(c)'
      BY <1>t, WaitingStep, OutputStep, OwnedStep DEF LocalInv, CallOf
  <2>2. ASSUME NEW b \in Callers, b # c PROVE CallOf(b)'
    <3>1. SameOf(b) /\ CallOf(b)
        BY <1>t, <2>2, OthersStay DEF LocalInv
    <3>2. WaitingOf(b)'
      <4>1. File(b, "config")' = File(b, "config") /\ File(b, "config").owner = b
          BY <3>1 DEF SameOf, File
      <4> QED
          BY <3>1, <4>1 DEF SameOf, CallOf, WaitingOf
    <3>3. OutputOf(b)' /\ RanOf(b)'
        BY <3>1 DEF SameOf, CallOf, OutputOf, RanOf
    <3>4. OwnedOf(b)'
      <4>1. faults' = 0 => faults = 0
          BY <1>t, FaultsSinceStart
      <4> QED
          BY <3>1, <4>1 DEF SameOf, CallOf, OwnedOf
    <3> QED
        BY <3>2, <3>3, <3>4 DEF CallOf
  <2> QED
      BY <1>t, <2>1, <2>2 DEF LocalInv
<1> QED
    BY <1>1, <1>2

LEMMA InvHolds == LocalSpec => []LocalInv
<1> QED
    BY InvInit, InvStep, PTL DEF LocalSpec

\* A module behind the chroot has its config file until it ends: the output of
\* the executor is what its caller waits for, not the process it started.
THEOREM ConfigStays == LocalSpec => []ConfigWhileRead
<1>1. LocalInv => ConfigWhileRead
    BY DEF LocalInv, CallOf, WaitingOf, ConfigWhileRead, Working, WithConfig
<1> QED
    BY <1>1, InvHolds, PTL

\* An answer without an error is about a run of the module of this call,
\* whatever failed before it.
THEOREM AnswersAreRuns == LocalSpec => []AnswersHaveRun
<1>1. LocalInv => AnswersHaveRun
    BY DEF LocalInv, CallOf, RanOf, AnswersHaveRun
<1> QED
    BY <1>1, InvHolds, PTL

\* Without a fault no call leaves a temporary file behind, but for a panic.
THEOREM TempsAreGone == LocalSpec => []NoTempLeft
<1>1. ASSUME LocalInv PROVE NoTempLeft
  <2> SUFFICES ASSUME faults = 0, NEW f \in temp
               PROVE  f.nr = nr[f.owner] /\ pc[f.owner] # "idle"
      BY DEF NoTempLeft
  <2>1. f.owner \in Callers
      BY <1>1 DEF LocalInv, LocalTypeOK
  <2> QED
      BY <1>1, <2>1 DEF LocalInv, CallOf, OwnedOf, Stage, WithConfig
<1> QED
    BY <1>1, InvHolds, PTL
-----------------------------------------------------------------------------
(***************************************************************************)
(* The shared venv, proved for every number of callers and libraries.      *)
(*                                                                         *)
(* Nothing locks the venv, and every executor that finds none copies into  *)
(* it.  All of them begin with the same directory, though: whoever creates *)
(* it is the only one to go on, the others find it and end.  So at most    *)
(* one executor is past its first directory, what it has no more to copy   *)
(* is whole, and what it has still to copy is not there.                   *)
(***************************************************************************)

First == Libs[1]

\* An executor that has begun to copy
Copies(e) == e.pc = "fill" \/ (e.pc = "create" /\ Head(e.todo) # First)

\* What an executor has to copy: everything, or what follows the first one
TodoOf(e) ==
    /\ e.pc \in {"look", "create", "fill"} =>
           IsInjective(e.todo) /\ (Head(e.todo) = First => LibSet \subseteq Range(e.todo))
    /\ e.pc = "look" => Head(e.todo) = First

\* What the venv v has while e copies into it
Between(e, v) ==
    /\ v[First] # "none"
    /\ \A d \in LibSet \ Range(e.todo) : v[d] = "whole"
    /\ \A d \in Range(e.todo) : v[d] # "none" => e.pc = "fill" /\ d = Head(e.todo)

VenvOf(v, x) ==
    /\ \A c \in Callers : /\ TodoOf(x[c])
                          /\ Copies(x[c]) => Between(x[c], v)
                          /\ x[c].pc \in {"fork", "import", "run"} => v[First] # "none"
    /\ \A b, c \in Callers : Copies(x[b]) /\ Copies(x[c]) => b = c
    /\ v[First] = "none" => \A d \in LibSet \cup Dirs : v[d] = "none"
    /\ v[First] = "none" \/ (\E c \in Callers : Copies(x[c])) \/ \A d \in LibSet : v[d] = "whole"

VenvInv == faults = 0 => VenvOf(venv, ex)

-----------------------------------------------------------------------------
(* Sequences *)

\* The rest of a sequence that has nothing twice has everything but the head.
LEMMA TailOfInjective ==
    ASSUME NEW S, NEW s \in Seq(S), s # <<>>, IsInjective(s)
    PROVE  /\ Head(s) \in Range(s)
           /\ IsInjective(Tail(s))
           /\ Range(Tail(s)) = Range(s) \ {Head(s)}
<1>1. /\ Len(s) \in Nat \ {0} /\ DOMAIN s = 1..Len(s) /\ Head(s) = s[1]
      /\ Tail(s) \in Seq(S) /\ Len(Tail(s)) = Len(s) - 1
      /\ DOMAIN Tail(s) = 1..(Len(s) - 1)
      /\ \A n \in 1..(Len(s) - 1) : Tail(s)[n] = s[n + 1]
    BY HeadTailProperties, LenProperties, EmptySeq
<1> DEFINE t == Tail(s) h == Head(s)
<1> HIDE DEF t, h
<1>2. /\ DOMAIN t = 1..(Len(s) - 1) /\ h = s[1] /\ \A n \in 1..(Len(s) - 1) : t[n] = s[n + 1]
    BY <1>1 DEF t, h
<1>3. \A m, n \in 1..Len(s) : s[m] = s[n] => m = n
    BY <1>1 DEF IsInjective
<1>4. h \in Range(s)
    BY <1>1, <1>2 DEF Range
<1>5. IsInjective(t)
  <2> SUFFICES ASSUME NEW m \in 1..(Len(s) - 1), NEW n \in 1..(Len(s) - 1), t[m] = t[n]
               PROVE  m = n
      BY <1>2 DEF IsInjective
  <2>1. m + 1 \in 1..Len(s) /\ n + 1 \in 1..Len(s) /\ s[m + 1] = s[n + 1]
      BY <1>1, <1>2
  <2>2. m + 1 = n + 1
      BY <1>3, <2>1
  <2> QED
      BY <2>2
<1>6. Range(t) \subseteq Range(s) \ {h}
  <2> SUFFICES ASSUME NEW n \in 1..(Len(s) - 1) PROVE t[n] \in Range(s) /\ t[n] # h
      BY <1>2 DEF Range
  <2>1. n + 1 \in 1..Len(s) /\ 1 \in 1..Len(s) /\ n + 1 # 1 /\ t[n] = s[n + 1]
      BY <1>1, <1>2
  <2> QED
      BY <1>1, <1>2, <1>3, <2>1 DEF Range
<1>7. Range(s) \ {h} \subseteq Range(t)
  <2> SUFFICES ASSUME NEW n \in 1..Len(s), s[n] # h PROVE s[n] \in Range(t)
      BY <1>1 DEF Range
  <2>1. n - 1 \in 1..(Len(s) - 1) /\ (n - 1) + 1 = n
      BY <1>1, <1>2
  <2>2. t[n - 1] = s[n]
      BY <1>2, <2>1
  <2> QED
      BY <1>2, <2>1, <2>2 DEF Range
<1> QED
    BY <1>4, <1>5, <1>6, <1>7 DEF t, h

LEMMA TailLeft ==
    ASSUME NEW S, NEW s \in Seq(S), s # <<>>, Len(s) # 1
    PROVE  Tail(s) \in Seq(S) /\ Tail(s) # <<>>
<1>1. Tail(s) \in Seq(S) /\ Len(Tail(s)) = Len(s) - 1 /\ Len(s) \in Nat
    BY HeadTailProperties, LenProperties
<1>2. Tail(s) = <<>> => Len(Tail(s)) = 0
    BY <1>1, EmptySeq
<1> QED
    BY <1>1, <1>2

\* The search path begins with the first library, has all of them and nothing
\* twice.
LEMMA SysPathStart ==
    ASSUME NEW job \in Jobs, job.dir \in Dirs
    PROVE  /\ Head(SysPath(job)) = First
           /\ IsInjective(SysPath(job))
           /\ LibSet \subseteq Range(SysPath(job))
<1>1. /\ Libs \in Seq(LibSet) /\ Libs # <<>> /\ IsInjective(Libs) /\ LibSet \cap Dirs = {}
      /\ DOMAIN Libs = 1..Len(Libs) /\ Len(Libs) \in Nat \ {0} /\ Head(Libs) = Libs[1]
    BY LibsAssumption, LenProperties, EmptySeq
<1>2. LibSet = Range(Libs)
    BY DEF LibSet, Range
<1>3. CASE SysPath(job) = Libs
    BY <1>1, <1>2, <1>3 DEF First
<1>4. CASE SysPath(job) = Append(Libs, job.dir)
  <2> DEFINE p == Append(Libs, job.dir) n == Len(Libs)
  <2>1. /\ DOMAIN p = 1..(n + 1) /\ p[n + 1] = job.dir
        /\ \A i \in 1..n : p[i] = Libs[i]
        /\ Head(p) = Libs[1] 
      BY <1>1
  <2> HIDE DEF p, n
  <2>2. \A i \in 1..n : Libs[i] \in LibSet
      BY <1>1 DEF LibSet, n
  <2>3. \A i \in 1..n : p[i] # job.dir
      BY <1>1, <2>1, <2>2
  <2>4. n \in Nat /\ DOMAIN Libs = 1..n
      BY <1>1 DEF n
  <2>5. IsInjective(p)
    <3> SUFFICES ASSUME NEW i \in 1..(n + 1), NEW j \in 1..(n + 1), p[i] = p[j]
                 PROVE  i = j
        BY <2>1 DEF IsInjective
    <3>1. CASE i \in 1..n /\ j \in 1..n
        BY <1>1, <2>1, <2>4, <3>1 DEF IsInjective
    <3>2. CASE i = n + 1 \/ j = n + 1
        BY <2>1, <2>3, <2>4, <3>2
    <3> QED
        BY <2>4, <3>1, <3>2
  <2>6. LibSet \subseteq Range(p)
      BY <1>2, <2>1, <2>4 DEF Range
  <2> QED
      BY <1>4, <2>1, <2>5, <2>6 DEF p, First
<1> QED
    BY <1>3, <1>4 DEF SysPath

-----------------------------------------------------------------------------
(* Steps *)

\* An executor that is not copying before and after its step changes nothing.
LEMMA NotCopying ==
    ASSUME LocalTypeOK, VenvOf(venv, ex), NEW c \in Callers, NEW e,
           ex' = [ex EXCEPT ![c] = e], UNCHANGED venv,
           TodoOf(e), ~Copies(e), ~Copies(ex[c]),
           e.pc \in {"fork", "import", "run"} => venv[First] # "none"
    PROVE  VenvOf(venv', ex')
<1>1. ex'[c] = e /\ \A b \in Callers : b # c => ex'[b] = ex[b]
    BY DEF LocalTypeOK, ExecutorTypeOK
<1>2. \A b \in Callers : Copies(ex'[b]) <=> Copies(ex[b])
    BY <1>1
<1>3. \A b \in Callers : /\ TodoOf(ex'[b])
                         /\ Copies(ex'[b]) => Between(ex'[b], venv)
                         /\ ex'[b].pc \in {"fork", "import", "run"} => venv[First] # "none"
    BY <1>1 DEF VenvOf
<1>4. venv[First] = "none" \/ (\E b \in Callers : Copies(ex'[b])) \/ \A d \in LibSet : venv[d] = "whole"
    BY <1>2 DEF VenvOf
<1>5. \A a, b \in Callers : Copies(ex'[a]) /\ Copies(ex'[b]) => a = b
    BY <1>2 DEF VenvOf
<1>6. venv[First] = "none" => \A d \in LibSet \cup Dirs : venv[d] = "none"
    BY DEF VenvOf
<1> QED
    BY <1>3, <1>4, <1>5, <1>6 DEF VenvOf

\* An executor that ends, or waits for its setup, has nothing to copy.
LEMMA NotAtWork ==
    ASSUME NEW e, e.pc \in {"none", "ended", "setup", "fork", "import", "run"}
    PROVE  TodoOf(e) /\ ~Copies(e)
BY DEF TodoOf, Copies

LEMMA EndsQuietly ==
    ASSUME LocalTypeOK, VenvOf(venv, ex), NEW c \in Callers,
           NEW out \in {"nothing", "json"}, NEW ok \in BOOLEAN, End(c, out, ok),
           ~Copies(ex[c]), UNCHANGED venv
    PROVE  VenvOf(venv', ex')
<1>1. PICK e : e.pc = "ended" /\ ex' = [ex EXCEPT ![c] = e]
    BY EndOK
<1>2. TodoOf(e) /\ ~Copies(e)
    BY <1>1, NotAtWork
<1> QED
    BY <1>1, <1>2, NotCopying

\* What the sequence of an executor that has something to copy looks like
LEMMA TodoFacts ==
    ASSUME LocalTypeOK, VenvOf(venv, ex), NEW c \in Callers, ex[c].pc \in {"create", "fill"}
    PROVE  /\ ex[c].todo \in Seq(LibSet \cup Dirs) /\ ex[c].todo # <<>>
           /\ Head(ex[c].todo) \in Range(ex[c].todo) /\ Range(ex[c].todo) \subseteq LibSet \cup Dirs
           /\ IsInjective(Tail(ex[c].todo))
           /\ Range(Tail(ex[c].todo)) = Range(ex[c].todo) \ {Head(ex[c].todo)}
<1>1. ex[c].todo \in Seq(LibSet \cup Dirs) /\ ex[c].todo # <<>>
    BY DEF LocalTypeOK, ExecutorTypeOK, Executors, Provided
<1>2. IsInjective(ex[c].todo)
    BY DEF VenvOf, TodoOf
<1>3. Range(ex[c].todo) \subseteq LibSet \cup Dirs
    BY <1>1 DEF Range
<1> QED
    BY <1>1, <1>2, <1>3, TailOfInjective

\* The first directory, or the next one
LEMMA Creating ==
    ASSUME LocalTypeOK, VenvOf(venv, ex), NEW c \in Callers, CreateDir(c)
    PROVE  VenvOf(venv', ex')
<1> DEFINE todo == ex[c].todo
           h == Head(todo)
<1>1. /\ ex[c].pc = "create" /\ venv[h] = "none"
      /\ venv' = [venv EXCEPT ![h] = "part"]
    BY DEF CreateDir, At
<1>2. h \in Range(todo) /\ Range(todo) \subseteq LibSet \cup Dirs /\ TodoOf(ex[c])
    BY <1>1, TodoFacts DEF VenvOf
<1>3. First \in LibSet
    BY LibsAssumption, EmptySeq, LenProperties DEF First, LibSet
<1>4. /\ venv'[h] = "part"
      /\ \A d \in LibSet \cup Dirs : d # h => venv'[d] = venv[d]
    BY <1>1, <1>2 DEF LocalTypeOK, ExecutorTypeOK
<1>5. /\ ex'[c].pc = "fill" /\ ex'[c].todo = todo
      /\ \A b \in Callers : b # c => ex'[b] = ex[b]
    BY DEF CreateDir, GoTo, LocalTypeOK, ExecutorTypeOK, Executors
<1>6. \A b \in Callers : Copies(ex[b]) => b = c
  <2>1. CASE h = First
      BY <1>1, <2>1 DEF VenvOf, Between
  <2>2. CASE h # First
      BY <1>1, <2>2 DEF VenvOf, Copies
  <2> QED
      BY <2>1, <2>2
<1>7. Copies(ex'[c]) /\ TodoOf(ex'[c])
    BY <1>2, <1>5, <1>1 DEF Copies, TodoOf
<1>8. Between(ex'[c], venv')
  <2>1. CASE h = First
    <3>1. LibSet \subseteq Range(todo)
        BY <1>1, <1>2, <2>1 DEF TodoOf
    <3>2. \A d \in LibSet \cup Dirs : venv[d] = "none"
        BY <1>1, <2>1 DEF VenvOf
    <3> QED
        BY <1>2, <1>4, <1>5, <2>1, <3>1, <3>2 DEF Between
  <2>2. CASE h # First
    <3>1. Between(ex[c], venv)
        BY <1>1, <2>2 DEF VenvOf, Copies
    <3> QED
        BY <1>1, <1>2, <1>3, <1>4, <1>5, <2>2, <3>1 DEF Between
  <2> QED
      BY <2>1, <2>2
<1>9. venv'[First] # "none"
    BY <1>8 DEF Between
<1> QED
    BY <1>5, <1>6, <1>7, <1>8, <1>9 DEF VenvOf

\* The directory that is whole now, and what follows it, if anything does
LEMMA Filling ==
    ASSUME LocalTypeOK, VenvOf(venv, ex), NEW c \in Callers, FillDir(c)
    PROVE  VenvOf(venv', ex')
<1> DEFINE todo == ex[c].todo
           h == Head(todo)
           rest == Tail(todo)
<1>1. ex[c].pc = "fill" /\ venv' = [venv EXCEPT ![h] = "whole"]
    BY DEF FillDir, At
<1>2. /\ todo \in Seq(LibSet \cup Dirs) /\ todo # <<>>
      /\ h \in Range(todo) /\ Range(todo) \subseteq LibSet \cup Dirs
      /\ IsInjective(rest) /\ Range(rest) = Range(todo) \ {h}
    BY <1>1, TodoFacts
<1>3. First \in LibSet
    BY LibsAssumption, EmptySeq, LenProperties DEF First, LibSet
<1>4. /\ venv'[h] = "whole"
      /\ \A d \in LibSet \cup Dirs : d # h => venv'[d] = venv[d]
    BY <1>1, <1>2 DEF LocalTypeOK, ExecutorTypeOK
<1>5. /\ ex'[c].pc = IF Len(todo) = 1 THEN "fork" ELSE "create"
      /\ ex'[c].todo = rest
      /\ \A b \in Callers : b # c => ex'[b] = ex[b]
    BY DEF FillDir, LocalTypeOK, ExecutorTypeOK, Executors
<1>6. Copies(ex[c]) /\ Between(ex[c], venv)
    BY <1>1 DEF VenvOf, Copies
<1>7. \A b \in Callers : b # c => ~Copies(ex'[b])
    BY <1>5, <1>6 DEF VenvOf
<1>8. venv'[First] # "none"
    BY <1>3, <1>4, <1>6 DEF Between
<1>9. \A d \in LibSet \ Range(rest) : venv'[d] = "whole"
    BY <1>2, <1>4, <1>6 DEF Between
<1>10. \A b \in Callers : b # c => TodoOf(ex'[b])
    BY <1>5 DEF VenvOf
<1>11. CASE Len(todo) = 1
  <2>1. Range(rest) = {}
    <3>1. rest \in Seq(LibSet \cup Dirs) /\ Len(rest) = 0
        BY <1>2, <1>11, HeadTailProperties
    <3>2. DOMAIN rest = 1..Len(rest)
        BY <3>1, LenProperties
    <3>3. DOMAIN rest = {}
      <4> HIDE DEF rest
      <4> QED
          BY <3>1, <3>2
    <3> QED
        BY <3>3 DEF Range
  <2>2. ex'[c].pc = "fork"
      BY <1>5, <1>11
  <2>3. \A d \in LibSet : venv'[d] = "whole"
      BY <1>9, <2>1
  <2>4. TodoOf(ex'[c]) /\ ~Copies(ex'[c])
      BY <2>2, NotAtWork
  <2> QED
      BY <1>7, <1>8, <1>10, <2>3, <2>4 DEF VenvOf
<1>12. CASE Len(todo) # 1
  <2>1. ex'[c].pc = "create" /\ ex'[c].todo = rest
      BY <1>5, <1>12
  <2>2. First \notin Range(rest) /\ \A d \in Range(rest) : venv'[d] = "none"
      BY <1>2, <1>3, <1>4, <1>6 DEF Between
  <2>3. Head(rest) # First
    <3>1. rest \in Seq(LibSet \cup Dirs) /\ rest # <<>>
        BY <1>2, <1>12, TailLeft
    <3> QED
        BY <1>2, <2>2, <3>1, TailOfInjective
  <2>4. TodoOf(ex'[c]) /\ Copies(ex'[c])
      BY <1>2, <2>1, <2>3 DEF TodoOf, Copies
  <2>5. Between(ex'[c], venv')
      BY <1>8, <1>9, <2>1, <2>2 DEF Between
  <2> QED
      BY <1>7, <1>8, <1>10, <2>1, <2>4, <2>5 DEF VenvOf
<1> QED
    BY <1>11, <1>12

LEMMA VenvStep ==
    ASSUME LocalTypeOK, VenvOf(venv, ex), NEW c \in Callers, ExecutorStep(c)
    PROVE  VenvOf(venv', ex')
<1>t. ex[c] \in Executors /\ Provided(ex[c]) /\ TodoOf(ex[c])
    BY DEF LocalTypeOK, ExecutorTypeOK, VenvOf
<1>1. CASE Setup(c)
  <2>1. UNCHANGED venv /\ ex[c].pc = "setup" /\ ~Copies(ex[c])
      BY <1>1 DEF Setup, At, Copies
  <2>2. CASE ex[c].job.name \in Loaded
      BY <1>1, <2>1, <2>2, EndsQuietly DEF Setup
  <2>3. CASE ex[c].job.name \notin Loaded
    <3> DEFINE e == [ex[c] EXCEPT !.pc = "look", !.todo = SysPath(ex[c].job)]
    <3>1. ex' = [ex EXCEPT ![c] = e] /\ e.pc = "look" /\ e.todo = SysPath(ex[c].job)
        BY <1>1, <1>t, <2>3 DEF Setup, Executors
    <3> HIDE DEF e
    <3>2. ex[c].job \in Jobs /\ ex[c].job.dir \in Dirs
        BY <1>t, <2>1 DEF Executors, Provided
    <3>3. TodoOf(e) /\ ~Copies(e)
        BY <3>1, <3>2, SysPathStart DEF TodoOf, Copies
    <3> QED
        BY <2>1, <3>1, <3>3, NotCopying
  <2> QED
      BY <2>2, <2>3
<1>2. CASE Look(c)
  <2>1. UNCHANGED venv /\ ex[c].pc = "look" /\ ~Copies(ex[c])
      BY <1>2 DEF Look, At, Copies
  <2>2. \A d \in DOMAIN venv : d \in LibSet \cup Dirs
      BY DEF LocalTypeOK, ExecutorTypeOK
  <2>3. CASE \E d \in DOMAIN venv : venv[d] # "none"
    <3> DEFINE e == [ex[c] EXCEPT !.pc = "fork"]
    <3>1. ex' = [ex EXCEPT ![c] = e] /\ e.pc = "fork"
        BY <1>2, <1>t, <2>3 DEF Look, GoTo, Executors
    <3> HIDE DEF e
    <3>2. venv[First] # "none"
        BY <2>2, <2>3 DEF VenvOf
    <3>3. TodoOf(e) /\ ~Copies(e)
        BY <3>1, NotAtWork
    <3> QED
        BY <2>1, <3>1, <3>2, <3>3, NotCopying
  <2>4. CASE ~\E d \in DOMAIN venv : venv[d] # "none"
    <3> DEFINE e == [ex[c] EXCEPT !.pc = "create"]
    <3>1. ex' = [ex EXCEPT ![c] = e] /\ e.pc = "create" /\ e.todo = ex[c].todo
        BY <1>2, <1>t, <2>4 DEF Look, GoTo, Executors
    <3> HIDE DEF e
    <3>2. TodoOf(e) /\ ~Copies(e)
        BY <1>t, <2>1, <3>1 DEF TodoOf, Copies
    <3> QED
        BY <2>1, <3>1, <3>2, NotCopying
  <2> QED
      BY <2>3, <2>4
<1>3. CASE CreateDir(c)
    BY <1>3, Creating
<1>4. CASE DirIsThere(c)
  <2>1. /\ UNCHANGED venv /\ ex[c].pc = "create"
        /\ venv[Head(ex[c].todo)] # "none" /\ End(c, "nothing", FALSE)
      BY <1>4 DEF DirIsThere, At
  <2>2. ~Copies(ex[c])
      BY <2>1, TodoFacts DEF VenvOf, Between
  <2> QED
      BY <2>1, <2>2, EndsQuietly
<1>5. CASE FillDir(c)
    BY <1>5, Filling
<1>6. CASE Fork(c)
  <2>1. UNCHANGED venv /\ ex[c].pc = "fork" /\ ~Copies(ex[c])
      BY <1>6 DEF Fork, At, Copies
  <2>2. CASE ex[c].job.root
    <3> DEFINE e == [ex[c] EXCEPT !.pc = "import", !.ok = TRUE]
    <3>1. ex' = [ex EXCEPT ![c] = e] /\ e.pc = "import"
        BY <1>6, <1>t, <2>2 DEF Fork, Executors
    <3> HIDE DEF e
    <3>2. TodoOf(e) /\ ~Copies(e) /\ venv[First] # "none"
        BY <2>1, <3>1, NotAtWork DEF VenvOf
    <3> QED
        BY <2>1, <3>1, <3>2, NotCopying
  <2>3. CASE ~ex[c].job.root
      BY <1>6, <2>1, <2>3, EndsQuietly DEF Fork
  <2> QED
      BY <2>2, <2>3
<1>7. CASE ImportWorks(c)
  <2> DEFINE e == [ex[c] EXCEPT !.pc = "run"]
  <2>1. UNCHANGED venv /\ ex[c].pc = "import" /\ ~Copies(ex[c])
      BY <1>7 DEF ImportWorks, At, Copies
  <2>2. ex' = [ex EXCEPT ![c] = e] /\ e.pc = "run"
      BY <1>7, <1>t DEF ImportWorks, GoTo, Executors
  <2> HIDE DEF e
  <2>3. TodoOf(e) /\ ~Copies(e) /\ venv[First] # "none"
      BY <2>1, <2>2, NotAtWork DEF VenvOf
  <2> QED
      BY <2>1, <2>2, <2>3, NotCopying
<1>8. CASE ImportFails(c)
    BY <1>8, EndsQuietly DEF ImportFails, At, Copies
<1>9. CASE RunModule(c)
  <2>1. PICK out \in {"json", "nothing"} : End(c, out, TRUE)
      BY <1>9 DEF RunModule
  <2> QED
      BY <1>9, <2>1, EndsQuietly DEF RunModule, At, Copies
<1> QED
    BY <1>1, <1>2, <1>3, <1>4, <1>5, <1>6, <1>7, <1>8, <1>9 DEF ExecutorStep

\* What a caller does itself leaves the venv and the executors that copy alone.
LEMMA CallersStep ==
    ASSUME LocalInv, VenvOf(venv, ex), NEW c \in Callers, Does(c),
           ~ExecutorWorks(c), ~Fault
    PROVE  VenvOf(venv', ex')
<1>t. LocalTypeOK /\ CallOf(c)
    BY DEF LocalInv
<1>0. pc[c] \notin {"wait", "cleanup"} \/ At(c, "ended") => ~Copies(ex[c])
    BY <1>t, Outside DEF Copies, Working, At
<1>1. CASE UNCHANGED executorVars
    BY <1>1 DEF executorVars
<1>2. CASE CallDirectly(c)
  <2>1. PICK out \in {"nothing", "json"}, ok \in BOOLEAN : End(c, out, ok)
      BY <1>2 DEF CallDirectly, Runs, DoesNotRun
  <2>2. pc[c] \notin {"wait", "cleanup"} /\ UNCHANGED venv
      BY <1>2 DEF CallDirectly
  <2> QED
      BY <1>t, <1>0, <2>1, <2>2, EndsQuietly
<1>3. CASE PreparePCE(c)
  <2> DEFINE e == [NoExecutor EXCEPT !.pc = "setup", !.job = Job(c)]
  <2>1. ex' = [ex EXCEPT ![c] = e] /\ e.pc = "setup"
      BY <1>3 DEF PreparePCE, Start, NoExecutor
  <2> HIDE DEF e
  <2>2. pc[c] \notin {"wait", "cleanup"} /\ UNCHANGED venv
      BY <1>3 DEF PreparePCE
  <2>3. TodoOf(e) /\ ~Copies(e)
      BY <2>1, NotAtWork
  <2> QED
      BY <1>t, <1>0, <2>1, <2>2, <2>3, NotCopying
<1>4. CASE RemoveConfig(c)
  <2>1. UNCHANGED venv
      BY <1>4 DEF RemoveConfig
  <2>2. CASE At(c, "ended")
    <3>1. ex' = [ex EXCEPT ![c] = NoExecutor] /\ NoExecutor.pc = "none"
        BY <1>4, <2>2 DEF RemoveConfig, Return, NoExecutor
    <3>2. TodoOf(NoExecutor) /\ ~Copies(NoExecutor)
        BY <3>1, NotAtWork
    <3> QED
        BY <1>t, <1>0, <2>1, <2>2, <3>1, <3>2, NotCopying
  <2>3. CASE ~At(c, "ended")
    <3>1. ex' = ex
        BY <1>4, <1>t, <2>3 DEF RemoveConfig, Return, LocalTypeOK, ExecutorTypeOK
    <3> QED
        BY <2>1, <3>1
  <2> QED
      BY <2>2, <2>3
<1> QED
    BY <1>1, <1>2, <1>3, <1>4
    DEF Does, CallStep, Begin, Resolve, MakeConfigFile, MakeConfigFileFails, Unresolved,
        PreparePCEFails, RemovePCE, ExecutorIsKilled, Kill

LEMMA VenvInit == CallerInit => VenvInv
<1> SUFFICES ASSUME CallerInit PROVE VenvOf(venv, ex)
    BY DEF VenvInv
<1>1. /\ \A d \in LibSet \cup Dirs : venv[d] = "none"
      /\ \A c \in Callers : ex[c] = NoExecutor
    BY DEF CallerInit, ExecutorInit
<1>2. First \in LibSet
    BY LibsAssumption, EmptySeq, LenProperties DEF First, LibSet
<1>3. NoExecutor.pc = "none"
    BY DEF NoExecutor
<1>4. \A c \in Callers : TodoOf(ex[c]) /\ ~Copies(ex[c]) /\ ex[c].pc = "none"
    BY <1>1, <1>3, NotAtWork
<1> QED
    BY <1>1, <1>2, <1>4 DEF VenvOf

LEMMA VenvInvStep == LocalInv /\ VenvInv /\ [LocalNext]_localVars => VenvInv'
<1> SUFFICES ASSUME LocalInv, VenvInv, [LocalNext]_localVars, faults' = 0
             PROVE  VenvOf(venv', ex')
    BY DEF VenvInv
<1>1. CASE UNCHANGED localVars
    BY <1>1 DEF localVars, executorVars, VenvInv
<1>2. CASE LocalNext
  <2> PICK c \in Callers : Does(c)
      BY <1>2 DEF LocalNext, Does
  <2>1. LocalTypeOK
      BY DEF LocalInv
  <2>2. faults = 0 /\ ~Fault
    <3>1. faults = 0
        BY <2>1, FaultsSinceStart
    <3> QED
        BY <3>1 DEF Fault
  <2>3. VenvOf(venv, ex)
      BY <2>2 DEF VenvInv
  <2>4. CASE ExecutorWorks(c)
      BY <2>1, <2>3, <2>4, VenvStep DEF ExecutorWorks
  <2>5. CASE ~ExecutorWorks(c)
      BY <2>2, <2>3, <2>5, CallersStep
  <2> QED
      BY <2>4, <2>5
<1> QED
    BY <1>1, <1>2

\* Executors overlap as they like, and none locks the venv; still, without a
\* kill, one that imports while nobody copies finds every library whole.
THEOREM LibrariesAreWhole == LocalSpec => []LibsAreWhole
<1>1. ASSUME VenvInv PROVE LibsAreWhole
  <2> SUFFICES ASSUME NEW c \in Callers, At(c, "import"), faults = 0,
                      \A b \in Callers : ex[b].pc \notin {"create", "fill"}
               PROVE  \A d \in LibSet : venv[d] = "whole"
      BY DEF LibsAreWhole
  <2>1. VenvOf(venv, ex) /\ \A b \in Callers : ~Copies(ex[b])
      BY <1>1 DEF VenvInv, Copies
  <2>2. venv[First] # "none"
      BY <2>1 DEF VenvOf, At
  <2> QED
      BY <2>1, <2>2 DEF VenvOf
<1>2. CallerInit => LocalInv /\ VenvInv
    BY InvInit, VenvInit
<1>3. LocalInv /\ VenvInv /\ [LocalNext]_localVars => LocalInv' /\ VenvInv'
    BY InvStep, VenvInvStep
<1> QED
    BY <1>1, <1>2, <1>3, PTL DEF LocalSpec
=============================================================================
