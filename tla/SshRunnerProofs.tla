---------------------------- MODULE SshRunnerProofs ----------------------------
(***************************************************************************)
(* The SSH runner, proved for every list of hosts, every nanostate, every  *)
(* setting and any number of faults: types, the connection, the client on  *)
(* the hosts, the completeness of the report, and the log that is made of  *)
(* it.                                                                     *)
(*                                                                         *)
(* What a step does depends on where the runner is, and pc does not tell   *)
(* that alone: Located ties the stages of callHost to a module that calls  *)
(* hosts and to a host of the list, LeftToDo what installPermanentClient   *)
(* has still to do to its stage.  With the types the two are inductive.    *)
(* The client is safe because an installation that gets past its first     *)
(* directory made that itself (InstallsAfresh); the report is complete     *)
(* because at every place it covers what is before that place (Listed).    *)
(* The log is truthful because the entries of each part of the response    *)
(* are counted with the failures of that part, level by level.             *)
(***************************************************************************)
EXTENDS SshRunner, ListProofs, FiniteSetTheorems

\* There is a current module.
Place == g \in DOMAIN state /\ m \in DOMAIN state[g]

\* The stages of callHost
CallStages == {"first", "second", "shell", "record"} \cup InInstall

\* Where the runner is: a host is only under way at a module that hosts are
\* called for, and whatever callHost does is for such a module.
Located ==
    /\ g <= Len(state) => m <= Len(state[g]) + 1
    /\ h > 1 => Place /\ Module.kind # "other"
    /\ pc \in CallStages => Place /\ h <= Len(Hosts)
    /\ pc \in CallStages => Module.kind = IF pc = "shell" THEN "shell" ELSE "ansible"
    /\ pc = "done" => g = Len(state) + 1

\* What installPermanentClient has still to create or to copy
LeftToDo ==
    /\ pc = "mkdir" => left \in Seq(DirSet) /\ left # <<>>
    /\ pc \in {"dial", "copy"} => left \in Seq(Files)

SshInv == SshTypeOK /\ Located /\ LeftToDo

-----------------------------------------------------------------------------
(* Facts about the constants and the place of the runner *)

\* The list of hosts is a sequence, of the hosts of the run.
LEMMA HostFacts ==
    /\ Hosts \in Seq(STRING) /\ Len(Hosts) \in Nat /\ DOMAIN Hosts = 1..Len(Hosts)
    /\ \A k \in 1..Len(Hosts) : Hosts[k] \in HostSet
<1>1. Hosts \in Seq(STRING) /\ Len(Hosts) \in Nat /\ DOMAIN Hosts = 1..Len(Hosts)
    BY HostsAssumption, LenProperties
<1> QED
    BY <1>1 DEF HostSet

\* A nanostate is a sequence of sequences of modules.
LEMMA StateFacts ==
    ASSUME NEW s \in States
    PROVE  /\ s \in Seq(Seq(Mods)) /\ Len(s) \in Nat /\ DOMAIN s = 1..Len(s)
           /\ \A a \in DOMAIN s : s[a] \in Seq(Mods) /\ Len(s[a]) \in Nat /\ DOMAIN s[a] = 1..Len(s[a])
           /\ \A a \in DOMAIN s : \A b \in DOMAIN s[a] : s[a][b] \in Mods
<1>1. s \in Seq(Seq(Mods)) /\ Len(s) \in Nat /\ DOMAIN s = 1..Len(s)
    BY StatesAssumption, LenProperties
<1>2. \A a \in DOMAIN s : s[a] \in Seq(Mods)
    BY <1>1, ElementOfSeq
<1>3. \A a \in DOMAIN s : Len(s[a]) \in Nat /\ DOMAIN s[a] = 1..Len(s[a])
    BY <1>2, LenProperties
<1>4. \A a \in DOMAIN s : \A b \in DOMAIN s[a] : s[a][b] \in Mods
    BY <1>2, <1>3, ElementOfSeq
<1> QED
    BY <1>1, <1>2, <1>3, <1>4

\* The current module is one of the nanostate's.
LEMMA ModuleFacts ==
    ASSUME state \in States, Place
    PROVE  Module \in Mods /\ Module.id \in 1..IdBound /\ Module.kind \in {"shell", "ansible", "other"}
<1>1. state[g][m] \in Mods
    BY StateFacts DEF Place
<1> QED
    BY <1>1 DEF Mods, Module

\* There is a current module unless the group or the state is at its end.
LEMMA PlaceFacts ==
    ASSUME SshTypeOK
    PROVE  /\ Place <=> g <= Len(state) /\ m <= Len(state[g])
           /\ Len(state) \in Nat /\ (g <= Len(state) => Len(state[g]) \in Nat)
<1>1. /\ g \in 1..Len(state) + 1 /\ m \in Nat /\ m # 0 /\ state \in States
    BY DEF SshTypeOK
<1>2. Len(state) \in Nat /\ DOMAIN state = 1..Len(state)
    BY <1>1, StateFacts
<1>3. g <= Len(state) <=> g \in DOMAIN state
    BY <1>1, <1>2
<1>4. g \in DOMAIN state => Len(state[g]) \in Nat /\ DOMAIN state[g] = 1..Len(state[g])
    BY <1>1, StateFacts
<1> QED
    BY <1>1, <1>2, <1>3, <1>4 DEF Place

\* The directories are created in order, the root of all first, none twice.
LEMMA DirsFacts == Dirs \in Seq(DirSet) /\ Dirs # <<>> /\ Head(Dirs) = "" /\ IsInjective(Dirs)
<1>1. /\ DOMAIN Dirs = 1..4 /\ Len(Dirs) = 4 /\ Dirs # <<>> /\ Head(Dirs) = ""
      /\ Dirs[1] = "" /\ Dirs[2] = "bin" /\ Dirs[3] = "etc" /\ Dirs[4] = "modules"
    BY DEF Dirs
<1>2. Dirs \in Seq({"", "bin", "etc", "modules"})
    BY DEF Dirs
<1>3. Range(Dirs) = DirSet
    BY DEF DirSet, Range
<1>4. Dirs \in Seq(DirSet)
    BY <1>2, <1>3, SeqOfRange
<1>5. \A n \in 1..4 : n = 1 \/ n = 2 \/ n = 3 \/ n = 4
    OBVIOUS
<1>6. \A i, j \in 1..4 : Dirs[i] = Dirs[j] => i = j
    BY <1>1, <1>5
<1> QED
    BY <1>1, <1>4, <1>6 DEF IsInjective
-----------------------------------------------------------------------------
(* Types and the place of the runner *)

\* A run begins before the first module, with nothing to report.
LEMMA SshInitHolds == SshInit => SshInv
<1> SUFFICES ASSUME SshInit PROVE SshInv
    OBVIOUS
<1>1. Len(Hosts) \in Nat /\ Len(state) \in Nat
    BY HostFacts, StateFacts DEF SshInit
<1>2. 1 \in DOMAIN state => Len(state[1]) \in Nat
    BY StateFacts DEF SshInit
<1>3. SshTypeOK
  <2>1. dirs \in [HostSet -> SUBSET DirSet] /\ bin \in [HostSet -> [Files -> {"none", "partial", "whole"}]]
    BY DEF SshInit
  <2>2. /\ ran \in [HostSet -> Seq(1..IdBound)]
        /\ results \in Seq(HostResult) /\ modules \in Seq(ModuleResult)
        /\ groups \in Seq(GroupResult) /\ response \in Seq(GroupResult)
    BY EmptySeq DEF SshInit
  <2>3. /\ faults \in 0..MaxFaults /\ setting \in Settings /\ state \in States
        /\ g \in 1..Len(state) + 1 /\ m \in Nat \ {0} /\ h \in 1..Len(Hosts) + 1
    BY <1>1, BoundsAssumption DEF SshInit
  <2>4. /\ pc \in {"module", "first", "second", "shell", "record"} \cup InInstall \cup Ends
        /\ conn \in {"none", "open", "dead"} /\ last \in Outcomes
    BY DEF SshInit, Outcomes, Succeeded, FromModule
  <2>5. Len(results) = h - 1 /\ \A k \in DOMAIN results : results[k].host = Hosts[k]
    BY DEF SshInit
  <2> QED
    BY <2>1, <2>2, <2>3, <2>4, <2>5 DEF SshTypeOK
<1>4. Located
    BY <1>1, <1>2, StateFacts DEF SshInit, Located, CallStages, InInstall
<1>5. LeftToDo
    BY DEF SshInit, LeftToDo
<1> QED
    BY <1>3, <1>4, <1>5 DEF SshInv

\* What every step leaves alone, and how faults count
LEMMA FaultsCount == ASSUME SshInv, [RunStep]_sshVars
                     PROVE  faults' \in 0..MaxFaults /\ faults <= faults' /\ UNCHANGED input
<1>0. faults \in 0..MaxFaults
    BY DEF SshInv, SshTypeOK
<1> USE BoundsAssumption DEF Fault, NoFault, remote, input
<1>1. CASE SkipUnsupported \/ FinishModule \/ FinishGroup \/ FinishRun
    BY <1>0, <1>1 DEF SkipUnsupported, FinishModule, FinishGroup, FinishRun
<1>2. CASE ArgsPanic \/ KeysPanic \/ Connect \/ ShellPanics \/ ShellEmpty
    BY <1>0, <1>2 DEF ArgsPanic, KeysPanic, Connect, ShellPanics, ShellEmpty, Panic
<1>3. CASE NoConnection \/ ProcessExits \/ Record
    BY <1>0, <1>3 DEF NoConnection, ProcessExits, Record, Panic
<1>4. CASE FirstAttempt \/ SecondAttempt
    BY <1>0, <1>4 DEF FirstAttempt, SecondAttempt, Attempt
<1>5. CASE MakeDir \/ MakeDirFails \/ AskArch \/ UnknownArch
    BY <1>0, <1>5 DEF MakeDir, MakeDirFails, AskArch, UnknownArch, Panic
<1>6. CASE DialCopy \/ DialCopyFails \/ CopyFile \/ CopyDone
    BY <1>0, <1>6 DEF DialCopy, DialCopyFails, CopyFile, CopyDone, Panic
<1>7. CASE UNCHANGED sshVars
    BY <1>0, <1>7 DEF sshVars
<1> QED
    BY <1>1, <1>2, <1>3, <1>4, <1>5, <1>6, <1>7 DEF RunStep
\* What is known of the host and the module within callHost
LEMMA CallFacts == ASSUME SshInv, pc \in CallStages
                   PROVE  /\ Fqdn \in HostSet /\ Fqdn = Hosts[h] /\ h \in 1..Len(Hosts)
                          /\ Place /\ Module \in Mods /\ Module.id \in 1..IdBound
<1>1. h \in 1..Len(Hosts)
    BY HostFacts DEF SshInv, SshTypeOK, Located
<1>2. Place /\ state \in States
    BY DEF SshInv, SshTypeOK, Located
<1> QED
    BY <1>1, <1>2, HostFacts, ModuleFacts DEF Fqdn

\* What an attempt does: nothing to the host, or it executes the module there.
LEMMA AttemptDoes ==
    ASSUME NEW o \in Outcomes, Attempt(o), SshTypeOK
    PROVE  /\ last' = o /\ conn' \in {"none", "open", "dead"}
           /\ \/ UNCHANGED ran
              \/ /\ Installed(Fqdn) /\ Finds(Fqdn, Module.id)
                 /\ ran' = [ran EXCEPT ![Fqdn] = Append(@, Module.id)]
BY DEF Attempt, Executes, SshTypeOK

\* Each part of a host has its own steps.
LEMMA WhoChangesHosts == ASSUME [RunStep]_sshVars
                         PROVE  /\ UNCHANGED bin \/ CopyFile
                                /\ UNCHANGED dirs \/ MakeDir \/ MakeDirFails
                                /\ UNCHANGED ran \/ FirstAttempt \/ SecondAttempt
BY DEF RunStep, sshVars, remote, SkipUnsupported, FinishModule, FinishGroup, FinishRun,
       ArgsPanic, KeysPanic, Connect, ShellPanics, ShellEmpty, NoConnection, ProcessExits,
       FirstAttempt, SecondAttempt, Record, MakeDir, MakeDirFails, AskArch, UnknownArch,
       DialCopy, DialCopyFails, CopyFile, CopyDone, Panic

\* Directories, files and executions of the hosts keep their types.
LEMMA RemoteTypes == ASSUME SshInv, [RunStep]_sshVars
                     PROVE  /\ dirs' \in [HostSet -> SUBSET DirSet]
                            /\ bin' \in [HostSet -> [Files -> {"none", "partial", "whole"}]]
                            /\ ran' \in [HostSet -> Seq(1..IdBound)]
<1>1. /\ dirs \in [HostSet -> SUBSET DirSet] /\ ran \in [HostSet -> Seq(1..IdBound)]
      /\ bin \in [HostSet -> [Files -> {"none", "partial", "whole"}]]
    BY DEF SshInv, SshTypeOK
<1>2. CASE FirstAttempt \/ SecondAttempt
  <2>1. UNCHANGED <<dirs, bin>> /\ pc \in CallStages /\ \E o \in Outcomes : Attempt(o)
    BY <1>2 DEF FirstAttempt, SecondAttempt, Session, CallStages
  <2>2. Module.id \in 1..IdBound
    BY <2>1, CallFacts
  <2>3. ran' = ran \/ ran' = [ran EXCEPT ![Fqdn] = Append(@, Module.id)]
    BY <2>1, AttemptDoes DEF SshInv
  <2>4. CASE ran' = ran
    BY <1>1, <2>1, <2>4
  <2>5. CASE ran' = [ran EXCEPT ![Fqdn] = Append(@, Module.id)]
    <3>1. ran[Fqdn] \in Seq(1..IdBound) => Append(ran[Fqdn], Module.id) \in Seq(1..IdBound)
      BY <2>2, AppendProperties
    <3> QED
      BY <1>1, <2>1, <2>5, <3>1
  <2> QED
    BY <2>3, <2>4, <2>5
<1>3. CASE MakeDir \/ MakeDirFails
  <2>1. left \in Seq(DirSet) /\ left # <<>> /\ UNCHANGED <<bin, ran>>
    BY <1>3 DEF SshInv, LeftToDo, MakeDir, MakeDirFails, Session
  <2>2. Head(left) \in DirSet
    BY <2>1, HeadTailProperties
  <2>3. dirs' = dirs \/ dirs' = [dirs EXCEPT ![Fqdn] = @ \cup {Head(left)}]
    BY <1>3 DEF MakeDir, MakeDirFails
  <2> QED
    BY <1>1, <2>1, <2>2, <2>3
<1>4. CASE CopyFile
  <2>1. left \in Seq(Files) /\ left # <<>> /\ UNCHANGED <<dirs, ran>> /\ pc \in CallStages
    BY <1>4 DEF SshInv, LeftToDo, CopyFile, CallStages, InInstall
  <2>2. Head(left) \in Files /\ Fqdn \in HostSet
    BY <2>1, HeadTailProperties, CallFacts
  <2>3. bin[Fqdn][Head(left)] \in {"none", "partial", "whole"}
    BY <1>1, <2>2
  <2>4. PICK s \in {"none", "partial", "whole"} : bin' = [bin EXCEPT ![Fqdn][Head(left)] = s]
    BY <1>4, <2>3 DEF CopyFile
  <2> QED
    BY <1>1, <2>1, <2>2, <2>4
<1>5. CASE ~(FirstAttempt \/ SecondAttempt \/ MakeDir \/ MakeDirFails \/ CopyFile)
    BY <1>1, <1>5, WhoChangesHosts
<1> QED
    BY <1>2, <1>3, <1>4, <1>5

\* So do stage, connection and outcome.
LEMMA StageTypes == ASSUME SshInv, [RunStep]_sshVars
                    PROVE  /\ pc' \in {"module", "first", "second", "shell", "record"} \cup InInstall \cup Ends
                           /\ conn' \in {"none", "open", "dead"} /\ last' \in Outcomes
<1> USE DEF SshInv, SshTypeOK, InInstall, Ends, Panic, Disconnect
<1>1. CASE SkipUnsupported \/ FinishModule \/ FinishGroup \/ FinishRun
    BY <1>1 DEF SkipUnsupported, FinishModule, FinishGroup, FinishRun
<1>2. CASE ArgsPanic \/ KeysPanic \/ Connect \/ ShellPanics \/ ShellEmpty
    BY <1>2 DEF ArgsPanic, KeysPanic, Connect, ShellPanics, ShellEmpty
<1>3. CASE NoConnection \/ ProcessExits \/ Record
    BY <1>3 DEF NoConnection, ProcessExits, Record
<1>4. CASE FirstAttempt \/ SecondAttempt
  <2>1. PICK o \in Outcomes : Attempt(o) /\ pc' \in {AfterFirst(o), "record"}
    BY <1>4 DEF FirstAttempt, SecondAttempt
  <2>2. AfterFirst(o) \in {"record", "second", "mkdir"}
    BY DEF AfterFirst
  <2> QED
    BY <2>1, <2>2, AttemptDoes
<1>5. CASE MakeDir \/ MakeDirFails \/ AskArch \/ UnknownArch
    BY <1>5 DEF MakeDir, MakeDirFails, AskArch, UnknownArch
<1>6. CASE DialCopy \/ DialCopyFails \/ CopyFile \/ CopyDone
    BY <1>6 DEF DialCopy, DialCopyFails, CopyFile, CopyDone
<1>7. CASE UNCHANGED sshVars
    BY <1>7 DEF sshVars
<1> QED
    BY <1>1, <1>2, <1>3, <1>4, <1>5, <1>6, <1>7 DEF RunStep
\* The steps that move from one host, module or group to another; all others
\* leave the place and the report alone.
Moves == SkipUnsupported \/ FinishModule \/ FinishGroup \/ FinishRun \/ ShellEmpty \/ Record

\* A step that moves on ends callHost and leaves the hosts alone.
LEMMA MovesFacts == Moves => pc' \in {"module", "done"} /\ UNCHANGED <<remote, input>>
<1>1. SkipUnsupported => pc' = "module" /\ UNCHANGED <<remote, input>>
    BY DEF SkipUnsupported, AtModule
<1>2. FinishModule => pc' = "module" /\ UNCHANGED <<remote, input>>
    BY DEF FinishModule, AtModule
<1>3. FinishGroup => pc' = "module" /\ UNCHANGED <<remote, input>>
    BY DEF FinishGroup
<1>4. FinishRun => pc' = "done" /\ UNCHANGED <<remote, input>>
    BY DEF FinishRun
<1>5. ShellEmpty \/ Record => pc' = "module" /\ UNCHANGED <<remote, input>>
    BY DEF ShellEmpty, Record
<1> QED
    BY <1>1, <1>2, <1>3, <1>4, <1>5 DEF Moves

\* No other step touches place or report.
LEMMA StaysInPlace == ASSUME [RunStep]_sshVars, ~Moves
                      PROVE  UNCHANGED <<input, position, report>>
<1> USE DEF Moves, Panic
<1>1. CASE ArgsPanic \/ KeysPanic \/ Connect \/ ShellPanics \/ NoConnection \/ ProcessExits
    BY <1>1 DEF ArgsPanic, KeysPanic, Connect, ShellPanics, NoConnection, ProcessExits
<1>2. CASE FirstAttempt \/ SecondAttempt \/ MakeDir \/ MakeDirFails \/ AskArch \/ UnknownArch
    BY <1>2 DEF FirstAttempt, SecondAttempt, MakeDir, MakeDirFails, AskArch, UnknownArch
<1>3. CASE DialCopy \/ DialCopyFails \/ CopyFile \/ CopyDone
    BY <1>3 DEF DialCopy, DialCopyFails, CopyFile, CopyDone
<1>4. CASE UNCHANGED sshVars
    BY <1>4 DEF sshVars
<1> QED
    BY <1>1, <1>2, <1>3, <1>4 DEF RunStep

\* Which stages such a step connects
LEMMA StagesInPlace ==
    ASSUME [RunStep]_sshVars, ~Moves
    PROVE  \/ pc' = pc
           \/ pc' \in {"panicked", "exited"}
           \/ Calls /\ h <= Len(Hosts) /\ pc' = IF Module.kind = "shell" THEN "shell" ELSE "first"
           \/ pc \in CallStages \ {"shell"} /\ pc' \in CallStages \ {"shell"}
<1> USE DEF Moves, CallStages, InInstall, Panic
<1>1. CASE ArgsPanic \/ KeysPanic \/ ShellPanics \/ NoConnection \/ ProcessExits
    BY <1>1 DEF ArgsPanic, KeysPanic, ShellPanics, NoConnection, ProcessExits
<1>2. CASE Connect
    BY <1>2 DEF Connect, Calls, AtHost
<1>3. CASE FirstAttempt \/ SecondAttempt
    BY <1>3 DEF FirstAttempt, SecondAttempt, Session, AfterFirst
<1>4. CASE MakeDir \/ MakeDirFails \/ AskArch \/ UnknownArch
    BY <1>4 DEF MakeDir, MakeDirFails, AskArch, UnknownArch, Session
<1>5. CASE DialCopy \/ DialCopyFails \/ CopyFile \/ CopyDone
    BY <1>5 DEF DialCopy, DialCopyFails, CopyFile, CopyDone
<1>6. CASE UNCHANGED sshVars
    BY <1>6 DEF sshVars
<1> QED
    BY <1>1, <1>2, <1>3, <1>4, <1>5, <1>6 DEF RunStep

\* The place stays within the nanostate and the list of hosts.
LEMMA PlaceKept == ASSUME SshInv, [RunStep]_sshVars
                   PROVE  /\ g' \in 1..Len(state) + 1 /\ m' \in Nat \ {0} /\ h' \in 1..Len(Hosts) + 1
                          /\ Located'
<1>1. /\ g \in 1..Len(state) + 1 /\ m \in Nat \ {0} /\ h \in 1..Len(Hosts) + 1 /\ state \in States
      /\ Located /\ state' = state
    BY FaultsCount DEF SshInv, SshTypeOK, input
<1>2. /\ Len(state) \in Nat /\ Len(Hosts) \in Nat /\ (g <= Len(state) => Len(state[g]) \in Nat)
      /\ Place <=> g <= Len(state) /\ m <= Len(state[g])
    BY PlaceFacts, HostFacts DEF SshInv
<1>3. Place => Module.kind \in {"shell", "ansible", "other"}
    BY <1>1, ModuleFacts
<1>4. CASE ~Moves
  <2>1. UNCHANGED <<input, position>>
    BY <1>4, StaysInPlace
  <2>2. UNCHANGED <<g, m, h, Module, Place>>
    BY <2>1 DEF Module, Place, input, position
  <2>3. pc' \in CallStages =>
          /\ Place /\ h <= Len(Hosts)
          /\ Module.kind = IF pc' = "shell" THEN "shell" ELSE "ansible"
    <3>1. pc \in CallStages => Place /\ h <= Len(Hosts) /\ Module.kind = IF pc = "shell" THEN "shell" ELSE "ansible"
      BY <1>1 DEF Located
    <3>2. Calls => Place /\ h <= Len(Hosts) /\ Module.kind # "other"
      BY <1>2 DEF Calls, AtHost, AtModule
    <3>3. "panicked" \notin CallStages /\ "exited" \notin CallStages
      BY DEF CallStages, InInstall
    <3> QED
      BY <1>3, <1>4, <3>1, <3>2, <3>3, StagesInPlace DEF CallStages, InInstall
  <2>4. pc' = "done" => g = Len(state) + 1
    BY <1>1, <1>4, StagesInPlace DEF Located, CallStages, InInstall
  <2> QED
    BY <1>1, <2>2, <2>3, <2>4 DEF Located
<1>5. CASE SkipUnsupported
  <2>1. /\ g' = g /\ m' = m + 1 /\ h' = h /\ pc' = pc /\ pc = "module"
        /\ Place /\ Module.kind = "other"
    BY <1>2, <1>5 DEF SkipUnsupported, AtModule
  <2>2. h = 1
    BY <1>1, <1>2, <2>1 DEF Located
  <2> QED
    BY <1>1, <1>2, <2>1, <2>2 DEF Located, CallStages, InInstall
<1>6. CASE FinishModule
  <2>1. g' = g /\ m' = m + 1 /\ h' = 1 /\ pc' = pc /\ pc = "module" /\ Place
    BY <1>2, <1>6 DEF FinishModule, AtModule
  <2> QED
    BY <1>1, <1>2, <2>1 DEF Located, CallStages, InInstall
<1>7. CASE FinishGroup
  <2>1. g' = g + 1 /\ m' = 1 /\ h' = h /\ pc' = pc /\ pc = "module" /\ ~Place /\ g <= Len(state)
    BY <1>1, <1>2, <1>7 DEF FinishGroup
  <2>2. h = 1
    BY <1>1, <2>1 DEF Located
  <2>3. g' <= Len(state) => Len(state[g']) \in Nat
    BY <1>1, <2>1, StateFacts
  <2> QED
    BY <1>1, <1>2, <2>1, <2>2, <2>3 DEF Located, CallStages, InInstall
<1>8. CASE FinishRun
  <2>1. UNCHANGED <<g, m, h>> /\ pc' = "done" /\ g > Len(state)
    BY <1>8 DEF FinishRun, position
  <2>2. UNCHANGED <<Module, Place>>
    BY <1>1, <2>1 DEF Module, Place
  <2> QED
    BY <1>1, <1>2, <2>1, <2>2 DEF Located, CallStages, InInstall
<1>9. CASE ShellEmpty \/ Record
  <2>1. g' = g /\ m' = m /\ h' = h + 1 /\ pc' = "module" /\ pc \in CallStages
    BY <1>9 DEF ShellEmpty, Record, CallStages
  <2>2. UNCHANGED <<Module, Place>>
    BY <1>1, <2>1 DEF Module, Place
  <2>3. h <= Len(Hosts) /\ Place /\ Module.kind # "other"
    BY <1>1, <2>1 DEF Located
  <2> QED
    BY <1>1, <1>2, <2>1, <2>2, <2>3 DEF Located, CallStages, InInstall
<1> QED
    BY <1>4, <1>5, <1>6, <1>7, <1>8, <1>9 DEF Moves

\* A result is one of the current host.
LEMMA ResultTypes == ASSUME SshInv, ShellEmpty \/ Record
                     PROVE  \E r \in HostResult : r.host = Fqdn /\ results' = Append(results, r)
<1>1. Fqdn \in HostSet
    BY CallFacts DEF ShellEmpty, Record, CallStages
<1>2. CASE ShellEmpty
  <2> DEFINE r == [host |-> Fqdn, called |-> FALSE, errcode |-> ERR_OK, json |-> "none"]
  <2>1. results' = Append(results, r) /\ r.host = Fqdn
    BY <1>2 DEF ShellEmpty
  <2>2. r \in HostResult
    BY <1>1 DEF HostResult, Verdicts
  <2> QED
    BY <2>1, <2>2
<1>3. CASE Record
  <2> DEFINE json == IF last \in Verdicts THEN last ELSE "none"
             r == [host |-> Fqdn, called |-> TRUE, errcode |-> Code(last), json |-> json]
  <2>1. results' = Append(results, r) /\ r.host = Fqdn
    BY <1>3 DEF Record
  <2>2. json \in Verdicts /\ Code(last) \in {ERR_OK, ERR_FAILED}
    BY DEF Verdicts, Code
  <2> HIDE DEF json
  <2>3. r \in HostResult
    BY <1>1, <2>2 DEF HostResult
  <2> QED
    BY <2>1, <2>3
<1> QED
    BY <1>2, <1>3

\* The report keeps its type at all its levels.
LEMMA ReportTypes ==
    ASSUME SshInv, [RunStep]_sshVars
    PROVE  /\ results' \in Seq(HostResult) /\ modules' \in Seq(ModuleResult)
           /\ groups' \in Seq(GroupResult) /\ response' \in Seq(GroupResult)
           /\ Len(results') = h' - 1 /\ \A k \in DOMAIN results' : results'[k].host = Hosts[k]
<1>1. /\ results \in Seq(HostResult) /\ modules \in Seq(ModuleResult)
      /\ groups \in Seq(GroupResult) /\ response \in Seq(GroupResult)
      /\ Len(results) = h - 1 /\ \A k \in DOMAIN results : results[k].host = Hosts[k]
      /\ state \in States
    BY DEF SshInv, SshTypeOK
<1>2. CASE ~Moves
  <2>1. UNCHANGED <<results, modules, groups, response, h>>
    BY <1>2, StaysInPlace DEF position, report
  <2> QED
    BY <1>1, <2>1
<1>3. CASE SkipUnsupported
  <2>1. UNCHANGED <<results, modules, groups, response, h>>
    BY <1>3 DEF SkipUnsupported, report
  <2> QED
    BY <1>1, <2>1
<1>4. CASE FinishModule
  <2>1. Module.id \in 1..IdBound
    BY <1>1, <1>4, PlaceFacts, ModuleFacts DEF FinishModule, AtModule, SshInv
  <2> DEFINE r == [module |-> Module.id, errcode |-> ERR_OK, results |-> results]
  <2>2. r \in ModuleResult
    BY <1>1, <2>1 DEF ModuleResult
  <2>3. /\ modules' = Append(modules, r) /\ results' = <<>> /\ h' = 1
        /\ UNCHANGED <<groups, response>>
    BY <1>4 DEF FinishModule
  <2>4. modules' \in Seq(ModuleResult)
    BY <1>1, <2>2, <2>3, AppendProperties
  <2> QED
    BY <1>1, <2>3, <2>4, EmptySeq
<1>5. CASE FinishGroup
  <2> DEFINE r == [errcode |-> -1, modules |-> modules]
  <2>1. r \in GroupResult
    BY <1>1 DEF GroupResult
  <2>2. /\ groups' = Append(groups, r) /\ modules' = <<>>
        /\ UNCHANGED <<results, response, h>>
    BY <1>5 DEF FinishGroup
  <2>3. groups' \in Seq(GroupResult)
    BY <1>1, <2>1, <2>2, AppendProperties
  <2> QED
    BY <1>1, <2>2, <2>3, EmptySeq
<1>6. CASE FinishRun
  <2>1. UNCHANGED <<results, modules, groups, h>> /\ response' = groups
    BY <1>6 DEF FinishRun, position
  <2> QED
    BY <1>1, <2>1
<1>7. CASE ShellEmpty \/ Record
  <2>1. PICK r \in HostResult : r.host = Fqdn /\ results' = Append(results, r)
    BY <1>7, ResultTypes
  <2>2. h' = h + 1 /\ UNCHANGED <<modules, groups, response>> /\ h \in 1..Len(Hosts) /\ Fqdn = Hosts[h]
    BY <1>7, CallFacts DEF ShellEmpty, Record, CallStages
  <2>3. /\ results' \in Seq(HostResult) /\ Len(results') = Len(results) + 1
        /\ \A k \in 1..Len(results) : results'[k] = results[k]
        /\ results'[Len(results) + 1] = r
    BY <1>1, <2>1, AppendProperties
  <2>4. DOMAIN results = 1..Len(results) /\ DOMAIN results' = 1..Len(results') /\ Len(results) \in Nat
    BY <1>1, <2>3, LenProperties
  <2>5. Len(results') = h' - 1 /\ Len(results) + 1 = h
    BY <1>1, <2>2, <2>3, HostFacts
  <2>6. \A k \in DOMAIN results' : results'[k].host = Hosts[k]
    BY <1>1, <2>1, <2>2, <2>3, <2>4, <2>5
  <2> QED
    BY <1>1, <2>2, <2>3, <2>5, <2>6
<1> QED
    BY <1>2, <1>3, <1>4, <1>5, <1>6, <1>7 DEF Moves

\* Which steps begin an installation or go on with it
LEMMA WithinInstall ==
    ASSUME [RunStep]_sshVars, pc' \in InInstall
    PROVE  FirstAttempt \/ MakeDir \/ AskArch \/ DialCopy \/ CopyFile \/ UNCHANGED sshVars
<1>1. CASE MakeDirFails \/ UnknownArch \/ DialCopyFails \/ CopyDone \/ SecondAttempt
    BY <1>1 DEF MakeDirFails, UnknownArch, DialCopyFails, CopyDone, SecondAttempt, Panic, InInstall
<1>2. CASE Moves
    BY <1>2, MovesFacts DEF InInstall
<1>3. CASE ArgsPanic \/ KeysPanic \/ Connect \/ ShellPanics \/ NoConnection \/ ProcessExits
    BY <1>3 DEF ArgsPanic, KeysPanic, Connect, ShellPanics, NoConnection, ProcessExits, Panic, InInstall
<1> QED
    BY <1>1, <1>2, <1>3 DEF RunStep, Moves

\* What is left to do fits the stage of the installation.
LEMMA LeftStays == ASSUME SshInv, [RunStep]_sshVars
                   PROVE  LeftToDo'
<1> SUFFICES ASSUME pc' \in InInstall PROVE LeftToDo'
    BY DEF LeftToDo, InInstall
<1>1. LeftToDo
    BY DEF SshInv
<1>2. CASE FirstAttempt
  <2>1. left' = Dirs /\ pc' \in {"record", "second", "mkdir"}
    BY <1>2 DEF FirstAttempt, AfterFirst
  <2> QED
    BY <2>1, DirsFacts DEF LeftToDo
<1>3. CASE MakeDir
  <2>1. /\ left \in Seq(DirSet) /\ left # <<>> /\ left' = Tail(left)
        /\ pc' = IF Len(left) = 1 THEN "arch" ELSE "mkdir"
    BY <1>1, <1>3 DEF MakeDir, Session, LeftToDo
  <2>2. Tail(left) \in Seq(DirSet) /\ Len(Tail(left)) = Len(left) - 1 /\ Len(left) \in Nat
    BY <2>1, HeadTailProperties, LenProperties
  <2>3. Tail(left) = <<>> <=> Len(Tail(left)) = 0
    BY <2>2, EmptySeq
  <2>4. Tail(left) = <<>> => Len(left) = 1
    BY <2>2, <2>3
  <2> QED
    BY <2>1, <2>2, <2>4 DEF LeftToDo
<1>4. CASE AskArch
  <2>1. pc' = "dial" /\ left' \in {<<>>} \cup {Runners[a] : a \in DOMAIN Runners}
    BY <1>4 DEF AskArch
  <2>2. left' \in Seq(Files)
    BY <2>1, RunnersAssumption, EmptySeq
  <2> QED
    BY <2>1, <2>2 DEF LeftToDo
<1>5. CASE CopyFile
  <2>1. left \in Seq(Files) /\ left # <<>> /\ left' = Tail(left) /\ pc' = "copy"
    BY <1>1, <1>5 DEF CopyFile, LeftToDo
  <2>2. Tail(left) \in Seq(Files)
    BY <2>1, HeadTailProperties
  <2> QED
    BY <2>1, <2>2 DEF LeftToDo
<1>6. CASE DialCopy \/ UNCHANGED sshVars
    BY <1>1, <1>6 DEF DialCopy, sshVars, LeftToDo
<1> QED
    BY <1>2, <1>3, <1>4, <1>5, <1>6, WithinInstall

\* Every step keeps the invariant.
LEMMA SshStepHolds == SshInv /\ [RunStep]_sshVars => SshInv'
<1> SUFFICES ASSUME SshInv, [RunStep]_sshVars PROVE SshInv'
    OBVIOUS
<1>1. UNCHANGED <<setting, state>> /\ faults' \in 0..MaxFaults
    BY FaultsCount DEF input
<1>2. setting' \in Settings /\ state' \in States
    BY <1>1 DEF SshInv, SshTypeOK
<1>3. SshTypeOK'
    BY <1>1, <1>2, RemoteTypes, StageTypes, PlaceKept, ReportTypes DEF SshTypeOK
<1> QED
    BY <1>3, PlaceKept, LeftStays DEF SshInv

\* The runner, its report and the hosts have their types at every step of
\* every run, and the results of a module are those of the hosts before the
\* current one.
THEOREM SshTypes == SshSpec => []SshTypeOK
<1>1. SshSpec => []SshInv
    BY SshInitHolds, SshStepHolds, PTL DEF SshSpec
<1>2. SshInv => SshTypeOK
    BY DEF SshInv
<1> QED
    BY <1>1, <1>2, PTL
-----------------------------------------------------------------------------
(* The connection *)

\* However callHost is left, short of the end of the process, the connection
\* is closed.
THEOREM ConnectionIsClosed == SshSpec => []NoConnectionLeft
<1> USE DEF NoConnectionLeft
<1>1. SshInit => NoConnectionLeft
    BY DEF SshInit
<1>2. NoConnectionLeft /\ [RunStep]_sshVars => NoConnectionLeft'
  <2> SUFFICES ASSUME NoConnectionLeft, [RunStep]_sshVars PROVE NoConnectionLeft'
      OBVIOUS
  <2> USE DEF Panic, Disconnect
  <2>1. CASE SkipUnsupported \/ FinishModule
    BY <2>1 DEF SkipUnsupported, FinishModule
  <2>2. CASE FinishGroup \/ FinishRun
    BY <2>2 DEF FinishGroup, FinishRun
  <2>3. CASE ShellEmpty \/ Record
    BY <2>3 DEF ShellEmpty, Record
  <2>4. CASE ArgsPanic \/ KeysPanic \/ Connect \/ ShellPanics \/ NoConnection \/ ProcessExits
    BY <2>4 DEF ArgsPanic, KeysPanic, Connect, ShellPanics, NoConnection, ProcessExits
  <2>5. CASE FirstAttempt \/ SecondAttempt
    BY <2>5 DEF FirstAttempt, SecondAttempt, AfterFirst
  <2>6. CASE MakeDir \/ MakeDirFails \/ AskArch \/ UnknownArch
    BY <2>6 DEF MakeDir, MakeDirFails, AskArch, UnknownArch
  <2>7. CASE DialCopy \/ DialCopyFails \/ CopyFile \/ CopyDone
    BY <2>7 DEF DialCopy, DialCopyFails, CopyFile, CopyDone
  <2>8. CASE UNCHANGED sshVars
    BY <2>8 DEF sshVars
  <2> QED
    BY <2>1, <2>2, <2>3, <2>4, <2>5, <2>6, <2>7, <2>8 DEF RunStep
<1> QED
    BY <1>1, <1>2, PTL DEF SshSpec

-----------------------------------------------------------------------------
(* The client on the host *)

\* A client is nowhere without the first directory.
ClientHasDir == \A f \in HostSet : Installed(f) => "" \in dirs[f]

\* An installation that got past its first directory made that itself, so it
\* found no client, and it copies the client only once.
InstallsAfresh ==
    /\ (pc = "mkdir" /\ left # Dirs) \/ pc = "arch" => "" \in dirs[Fqdn] /\ ~Installed(Fqdn)
    /\ pc \in {"dial", "copy"} =>
         /\ "" \in dirs[Fqdn] /\ IsInjective(left)
         /\ Installed(Fqdn) => Client \notin Range(left)

ClientInv == ClientHasDir /\ InstallsAfresh

\* The rest of a sequence without repetition
LEMMA RestOfInjective ==
    ASSUME NEW S, NEW s \in Seq(S), s # <<>>, IsInjective(s)
    PROVE  /\ IsInjective(Tail(s))
           /\ Range(s) = Range(Tail(s)) \cup {Head(s)} /\ Head(s) \notin Range(Tail(s))
<1> DEFINE t == Tail(s)
<1>1. /\ Len(s) \in Nat \ {0} /\ DOMAIN s = 1..Len(s) /\ Head(s) = s[1]
      /\ t \in Seq(S) /\ DOMAIN t = 1..(Len(s) - 1)
      /\ \A n \in 1..(Len(s) - 1) : t[n] = s[n + 1]
    BY HeadTailProperties, LenProperties, EmptySeq
<1> HIDE DEF t
<1>2. \A i, j \in 1..Len(s) : s[i] = s[j] => i = j
    BY <1>1 DEF IsInjective
<1>3. ASSUME NEW i \in 1..(Len(s) - 1), NEW j \in 1..(Len(s) - 1), t[i] = t[j]
      PROVE  i = j
  <2>1. i + 1 \in 1..Len(s) /\ j + 1 \in 1..Len(s) /\ s[i + 1] = s[j + 1]
    BY <1>1, <1>3
  <2> QED
    BY <1>2, <2>1
<1>4. \A n \in 1..(Len(s) - 1) : n + 1 \in 1..Len(s) /\ t[n] = s[n + 1] /\ t[n] # s[1]
    BY <1>1, <1>2
<1>5. \A n \in 1..Len(s) : n = 1 \/ (n - 1 \in 1..(Len(s) - 1) /\ t[n - 1] = s[n])
    BY <1>1
<1>6. 1 \in 1..Len(s)
    BY <1>1
<1>7. IsInjective(t)
    BY <1>1, <1>3 DEF IsInjective
<1>8. Range(t) \subseteq Range(s) /\ s[1] \in Range(s) /\ s[1] \notin Range(t)
    BY <1>1, <1>4, <1>6 DEF Range
<1>9. Range(s) \subseteq Range(t) \cup {s[1]}
  <2> SUFFICES ASSUME NEW n \in 1..Len(s), n # 1 PROVE s[n] \in Range(t)
      BY <1>1 DEF Range
  <2>1. n - 1 \in DOMAIN t /\ s[n] = t[n - 1]
      BY <1>1, <1>5
  <2> QED
      BY <2>1 DEF Range
<1> QED
    BY <1>1, <1>7, <1>8, <1>9 DEF t

\* Every step keeps what is said of the clients.
LEMMA ClientStepHolds ==
    ASSUME SshInv, ClientInv, [RunStep]_sshVars
    PROVE  ClientInv' /\ \A f \in HostSet : Installed(f) => Installed(f)'
<1>1. /\ dirs \in [HostSet -> SUBSET DirSet]
      /\ bin \in [HostSet -> [Files -> {"none", "partial", "whole"}]] /\ Client \in Files
    BY DEF SshInv, SshTypeOK, Files
<1>2. pc \in CallStages /\ ~Moves => Fqdn \in HostSet /\ Fqdn' = Fqdn
    BY CallFacts, StaysInPlace DEF position, Fqdn
<1>3. CASE CopyFile
  <2>1. /\ pc = "copy" /\ pc' = "copy" /\ left \in Seq(Files) /\ left # <<>> /\ left' = Tail(left)
        /\ UNCHANGED dirs
    BY <1>3 DEF SshInv, LeftToDo, CopyFile
  <2>2. ~Moves
    BY <2>1, MovesFacts
  <2>3. Fqdn \in HostSet /\ Fqdn' = Fqdn
    BY <1>2, <2>1, <2>2 DEF CallStages, InInstall
  <2>4. /\ "" \in dirs[Fqdn] /\ IsInjective(left) /\ (Installed(Fqdn) => Client \notin Range(left))
    BY <2>1 DEF ClientInv, InstallsAfresh
  <2>5. /\ Head(left) \in Files /\ Head(left) \in Range(left) /\ IsInjective(left')
        /\ Range(left') \subseteq Range(left) /\ Head(left) \notin Range(left')
    <3>1. Head(left) \in Files
      BY <2>1, HeadTailProperties
    <3>2. /\ IsInjective(Tail(left)) /\ Range(left) = Range(Tail(left)) \cup {Head(left)}
          /\ Head(left) \notin Range(Tail(left))
      BY <2>1, <2>4, RestOfInjective
    <3> QED
      BY <2>1, <3>1, <3>2
  <2>6. PICK s : bin' = [bin EXCEPT ![Fqdn][Head(left)] = s]
    BY <1>3 DEF CopyFile
  <2>7. \A f \in HostSet : f # Fqdn => bin'[f] = bin[f]
    BY <1>1, <2>6
  <2>8. Head(left) # Client => bin'[Fqdn][Client] = bin[Fqdn][Client]
    BY <1>1, <2>3, <2>5, <2>6
  <2>9. Installed(Fqdn) => Head(left) # Client
    BY <2>4, <2>5
  <2>10. \A f \in HostSet : Installed(f) => Installed(f)'
    BY <2>7, <2>8, <2>9 DEF Installed
  <2>11. ClientHasDir'
    BY <2>1, <2>4, <2>7 DEF ClientInv, ClientHasDir, Installed
  <2>12. Installed(Fqdn)' => Client \notin Range(left')
    BY <2>3, <2>4, <2>5, <2>8 DEF Installed
  <2>13. InstallsAfresh'
    BY <2>1, <2>3, <2>4, <2>5, <2>12 DEF InstallsAfresh, Installed
  <2> QED
    BY <2>10, <2>11, <2>13 DEF ClientInv
<1>4. CASE ~CopyFile
  <2>1. bin' = bin
    BY <1>4, WhoChangesHosts
  <2>2. \A f \in HostSet : Installed(f)' <=> Installed(f)
    BY <2>1 DEF Installed
  <2>3. \A f \in HostSet : dirs[f] \subseteq dirs'[f]
    <3>1. \/ dirs' = dirs
          \/ dirs' = [dirs EXCEPT ![Fqdn] = @ \cup {Head(left)}]
      BY WhoChangesHosts DEF MakeDir, MakeDirFails
    <3> QED
      BY <1>1, <3>1
  <2>4. ClientHasDir'
    BY <2>2, <2>3 DEF ClientInv, ClientHasDir
  <2>5. CASE pc' \notin InInstall
    BY <2>2, <2>4, <2>5 DEF ClientInv, InstallsAfresh, InInstall
  <2>6. CASE UNCHANGED sshVars
    BY <2>2, <2>4, <2>6 DEF sshVars, remote, position, ClientInv, InstallsAfresh, Fqdn, Installed
  <2>7. CASE FirstAttempt
    <3>1. left' = Dirs /\ pc' \in {"record", "second", "mkdir"}
      BY <2>7 DEF FirstAttempt, AfterFirst
    <3> QED
      BY <2>2, <2>4, <3>1 DEF ClientInv, InstallsAfresh
  <2>8. CASE MakeDir \/ AskArch \/ DialCopy
    <3>1. pc \in InInstall /\ pc' \in InInstall
      BY <2>8 DEF MakeDir, AskArch, DialCopy, Session, InInstall
    <3>2. Fqdn \in HostSet /\ Fqdn' = Fqdn
      BY <1>2, <3>1, MovesFacts DEF CallStages, InInstall
    <3>3. CASE MakeDir
      <4>1. /\ pc = "mkdir" /\ pc' \in {"mkdir", "arch"} /\ Head(left) \notin dirs[Fqdn]
            /\ dirs' = [dirs EXCEPT ![Fqdn] = @ \cup {Head(left)}]
        BY <3>3 DEF MakeDir, Session
      <4>2. "" \in dirs'[Fqdn] /\ ~Installed(Fqdn)
        <5>1. CASE left = Dirs
          <6>1. "" \notin dirs[Fqdn] /\ dirs'[Fqdn] = dirs[Fqdn] \cup {""}
            BY <1>1, <3>2, <4>1, <5>1, DirsFacts
          <6> QED
            BY <3>2, <6>1 DEF ClientInv, ClientHasDir
        <5>2. CASE left # Dirs
          BY <2>3, <3>2, <4>1, <5>2 DEF ClientInv, InstallsAfresh
        <5> QED
          BY <5>1, <5>2
      <4>3. InstallsAfresh'
        BY <2>2, <3>2, <4>1, <4>2 DEF InstallsAfresh
      <4> QED
        BY <2>2, <2>4, <4>3 DEF ClientInv
    <3>4. CASE AskArch
      <4>1. /\ pc = "arch" /\ pc' = "dial" /\ UNCHANGED dirs
            /\ left' \in {<<>>} \cup {Runners[a] : a \in DOMAIN Runners}
        BY <3>4 DEF AskArch, Session
      <4>2. IsInjective(left')
        BY <4>1, RunnersAssumption DEF IsInjective
      <4>3. InstallsAfresh'
        BY <2>2, <3>2, <4>1, <4>2 DEF ClientInv, InstallsAfresh
      <4> QED
        BY <2>2, <2>4, <4>3 DEF ClientInv
    <3>5. CASE DialCopy
      <4>1. pc = "dial" /\ pc' = "copy" /\ UNCHANGED <<dirs, left>>
        BY <3>5 DEF DialCopy, remote
      <4>2. InstallsAfresh'
        BY <2>2, <3>2, <4>1 DEF ClientInv, InstallsAfresh
      <4> QED
        BY <2>2, <2>4, <4>2 DEF ClientInv
    <3> QED
      BY <2>8, <3>3, <3>4, <3>5
  <2> QED
    BY <1>4, <2>5, <2>6, <2>7, <2>8, WithinInstall
<1> QED
    BY <1>3, <1>4

\* No installation, however it fails, damages a client that is in place: one
\* that gets as far as copying made the first directory itself.
THEOREM ClientIsSafe == SshSpec => ClientStays
<1>1. SshInit => ClientInv
  <2> SUFFICES ASSUME SshInit PROVE ClientInv
      OBVIOUS
  <2>1. \A f \in HostSet : Installed(f) => dirs[f] = DirSet
    BY DEF SshInit, Installed, Files
  <2>2. "" \in DirSet
    BY DirsFacts, HeadTailProperties
  <2> QED
    BY <2>1, <2>2 DEF SshInit, ClientInv, ClientHasDir, InstallsAfresh
<1>2. SshInv /\ ClientInv /\ [RunStep]_sshVars => ClientInv'
    BY ClientStepHolds
<1>3. SshInv /\ ClientInv /\ [RunStep]_sshVars
      => [\A f \in HostSet : Installed(f) => Installed(f)']_sshVars
    BY ClientStepHolds
<1>4. SshSpec => [](SshInv /\ ClientInv)
    BY <1>1, <1>2, SshInitHolds, SshStepHolds, PTL DEF SshSpec
<1> QED
    BY <1>3, <1>4, PTL DEF SshSpec, ClientStays
-----------------------------------------------------------------------------
(* The report *)

\* Every finished group is covered, and of the current one what comes before
\* the current module.
Listed ==
    /\ Len(groups) = g - 1
    /\ \A n \in DOMAIN groups : Covers(groups[n].modules, state[n], Len(state[n]))
    /\ g <= Len(state) => Covers(modules, state[g], m - 1)
    /\ g > Len(state) => modules = <<>>
    /\ pc = "done" => response = groups

\* Nothing covers nothing.
LEMMA CoversNone == ASSUME NEW group PROVE Covers(<<>>, group, 0)
BY DEF Covers, Supported

\* The first n modules and one more
LEMMA SupportedNext ==
    ASSUME NEW group, NEW n \in Nat
    PROVE  Supported(group, n + 1) = Supported(group, n) \cup
               (IF group[n + 1].kind = "other" THEN {} ELSE {group[n + 1].id})
<1>1. \A k : k \in 1..(n + 1) <=> k \in 1..n \/ k = n + 1
    OBVIOUS
<1> QED
    BY <1>1 DEF Supported

\* An unsupported module adds nothing.
LEMMA CoversSkip ==
    ASSUME NEW mods, NEW group, NEW n \in Nat,
           Covers(mods, group, n), group[n + 1].kind = "other"
    PROVE  Covers(mods, group, n + 1)
BY SupportedNext DEF Covers

\* A supported one adds its result behind the others.
LEMMA CoversNext ==
    ASSUME NEW s \in States, NEW a \in DOMAIN s, NEW n \in Nat, n + 1 \in DOMAIN s[a],
           NEW mods \in Seq(ModuleResult), Covers(mods, s[a], n),
           NEW r \in ModuleResult, s[a][n + 1].kind # "other", r.module = s[a][n + 1].id,
           [i \in DOMAIN r.results |-> r.results[i].host] = Hosts
    PROVE  Covers(Append(mods, r), s[a], n + 1)
<1> DEFINE new == Append(mods, r)
<1>1. /\ Len(mods) \in Nat /\ DOMAIN mods = 1..Len(mods) /\ DOMAIN new = 1..(Len(mods) + 1)
      /\ \A k \in 1..Len(mods) : new[k] = mods[k]
      /\ new[Len(mods) + 1] = r
    BY AppendProperties, LenProperties
<1> HIDE DEF new
<1>2. \A k \in DOMAIN new : k \in DOMAIN mods \/ k = Len(mods) + 1
    BY <1>1
<1>3. {new[k].module : k \in DOMAIN new} = {mods[k].module : k \in DOMAIN mods} \cup {r.module}
  <2>1. DOMAIN new = DOMAIN mods \cup {Len(mods) + 1}
    BY <1>1
  <2> QED
    BY <1>1, <2>1
<1>4. Supported(s[a], n + 1) = Supported(s[a], n) \cup {r.module}
    BY SupportedNext
<1>5. {new[k].module : k \in DOMAIN new} = Supported(s[a], n + 1)
    BY <1>3, <1>4 DEF Covers
<1>6. \A id \in Supported(s[a], n) : id < r.module
  <2> SUFFICES ASSUME NEW k \in 1..n PROVE s[a][k].id < s[a][n + 1].id
      BY DEF Supported
  <2>1. DOMAIN s[a] = 1..Len(s[a]) /\ Len(s[a]) \in Nat
      BY StateFacts
  <2>2. k \in DOMAIN s[a] /\ k < n + 1 /\ Numbered(s)
      BY <2>1, StatesAssumption
  <2> QED
      BY <2>2 DEF Numbered
<1>7. ASSUME NEW j \in DOMAIN new, NEW k \in DOMAIN new, j < k PROVE new[j].module < new[k].module
  <2>1. j \in DOMAIN mods /\ new[j] = mods[j]
    BY <1>1, <1>7
  <2>2. mods[j].module < r.module
    BY <1>6, <2>1 DEF Covers
  <2>3. k \in DOMAIN mods => new[k] = mods[k] /\ mods[j].module < mods[k].module
    BY <1>1, <1>7, <2>1 DEF Covers
  <2> QED
    BY <1>1, <1>2, <2>1, <2>2, <2>3
<1>8. \A k \in DOMAIN new : [i \in DOMAIN new[k].results |-> new[k].results[i].host] = Hosts
    BY <1>1, <1>2 DEF Covers
<1> QED
    BY <1>5, <1>7, <1>8 DEF Covers, new

\* Every step keeps the report up to the place.
LEMMA ListedStepHolds == ASSUME SshInv, Listed, [RunStep]_sshVars PROVE Listed'
<1>1. /\ g \in 1..Len(state) + 1 /\ m \in Nat \ {0} /\ h \in 1..Len(Hosts) + 1 /\ state \in States
      /\ modules \in Seq(ModuleResult) /\ groups \in Seq(GroupResult) /\ results \in Seq(HostResult)
    BY DEF SshInv, SshTypeOK
<1>2. /\ Len(state) \in Nat /\ Len(Hosts) \in Nat /\ (g <= Len(state) => Len(state[g]) \in Nat)
      /\ Place <=> g <= Len(state) /\ m <= Len(state[g])
    BY PlaceFacts, HostFacts DEF SshInv
<1>3. state' = state
    BY FaultsCount DEF input
<1>4. CASE ~Moves
  <2>1. UNCHANGED <<state, g, m, modules, groups, response>>
    BY <1>4, StaysInPlace DEF input, position, report
  <2>2. pc' = "done" => pc = "done"
    BY <1>4, StagesInPlace DEF CallStages, InInstall
  <2> QED
    BY <2>1, <2>2 DEF Listed
<1>5. CASE ShellEmpty \/ Record
  <2>1. UNCHANGED <<g, m, modules, groups, response>> /\ pc' = "module"
    BY <1>5 DEF ShellEmpty, Record
  <2> QED
    BY <1>3, <2>1 DEF Listed
<1>6. CASE SkipUnsupported
  <2>1. /\ g <= Len(state) /\ state[g][m].kind = "other" /\ m' = m + 1
        /\ pc' = "module" /\ UNCHANGED <<g, modules, groups, response>>
    BY <1>6 DEF SkipUnsupported, AtModule, Module, report
  <2>2. m - 1 \in Nat /\ (m - 1) + 1 = m /\ m' - 1 = m
    BY <1>1, <2>1
  <2>3. Covers(modules, state[g], m)
    BY <2>1, <2>2, CoversSkip DEF Listed
  <2> QED
    BY <1>3, <2>1, <2>2, <2>3 DEF Listed
<1>7. CASE FinishModule
  <2> DEFINE r == [module |-> Module.id, errcode |-> ERR_OK, results |-> results]
  <2>1. /\ g <= Len(state) /\ m <= Len(state[g]) /\ Module.kind # "other" /\ m' = m + 1
        /\ pc' = "module" /\ UNCHANGED <<g, groups, response>> /\ modules' = Append(modules, r)
    BY <1>7 DEF FinishModule, AtModule
  <2>2. m - 1 \in Nat /\ (m - 1) + 1 = m /\ m' - 1 = m /\ g \in DOMAIN state /\ m \in DOMAIN state[g]
    BY <1>1, <1>2, <2>1 DEF Place
  <2>3. [i \in DOMAIN results |-> results[i].host] = Hosts
    <3>1. h = Len(Hosts) + 1
      BY <1>1, <1>2, <1>7 DEF FinishModule
    <3>2. DOMAIN results = 1..Len(Hosts) /\ \A k \in DOMAIN results : results[k].host = Hosts[k]
      BY <1>1, <1>2, <3>1, LenProperties DEF SshInv, SshTypeOK
    <3>3. Hosts = [i \in 1..Len(Hosts) |-> Hosts[i]]
      BY HostsAssumption, LenProperties
    <3> QED
      BY <3>2, <3>3
  <2>4. r \in ModuleResult /\ r.module = Module.id /\ r.results = results
    BY <1>1, <2>2, ModuleFacts DEF ModuleResult, Place
  <2> HIDE DEF r
  <2>5. Covers(Append(modules, r), state[g], (m - 1) + 1)
    <3>1. Covers(modules, state[g], m - 1)
      BY <2>1 DEF Listed
    <3>2. state[g][(m - 1) + 1].kind # "other" /\ r.module = state[g][(m - 1) + 1].id
      BY <2>1, <2>2, <2>4 DEF Module
    <3>3. [i \in DOMAIN r.results |-> r.results[i].host] = Hosts
      BY <2>3, <2>4
    <3> QED
      BY <1>1, <2>2, <2>4, <3>1, <3>2, <3>3, CoversNext
  <2>6. Covers(modules', state[g], m' - 1)
    BY <2>1, <2>2, <2>5
  <2>7. ~(g' > Len(state))
    BY <1>1, <1>2, <2>1
  <2>8. UNCHANGED <<g, groups, state>> /\ pc' # "done"
    BY <1>3, <2>1
  <2> QED
    BY <2>6, <2>7, <2>8 DEF Listed
<1>8. CASE FinishGroup
  <2> DEFINE r == [errcode |-> -1, modules |-> modules]
  <2>1. /\ g <= Len(state) /\ m > Len(state[g]) /\ g' = g + 1 /\ m' = 1 /\ modules' = <<>>
        /\ pc' = "module" /\ UNCHANGED response /\ groups' = Append(groups, r)
    BY <1>8 DEF FinishGroup
  <2>2. r \in GroupResult /\ r.modules = modules
    BY <1>1 DEF GroupResult
  <2> HIDE DEF r
  <2>3. m = Len(state[g]) + 1 /\ Len(groups) = g - 1
    <3>1. m <= Len(state[g]) + 1
      BY <2>1 DEF SshInv, Located
    <3>2. m \in Nat /\ Len(state[g]) \in Nat
      BY <1>1, <1>2, <2>1
    <3>3. m = Len(state[g]) + 1
      BY <2>1, <3>1, <3>2
    <3> QED
      BY <3>3 DEF Listed
  <2>4. Covers(modules, state[g], Len(state[g]))
    <3>1. m - 1 = Len(state[g])
      BY <1>2, <2>1, <2>3
    <3> QED
      BY <2>1, <3>1 DEF Listed
  <2>5. /\ DOMAIN groups = 1..(g - 1) /\ DOMAIN groups' = 1..g /\ Len(groups') = g
        /\ \A k \in 1..(g - 1) : groups'[k] = groups[k]
        /\ groups'[g] = r
    BY <1>1, <2>1, <2>2, <2>3, AppendProperties, LenProperties
  <2>6. \A n \in DOMAIN groups' : Covers(groups'[n].modules, state[n], Len(state[n]))
    <3> SUFFICES ASSUME NEW n \in 1..g PROVE Covers(groups'[n].modules, state[n], Len(state[n]))
        BY <2>5
    <3>1. CASE n = g
        BY <2>2, <2>4, <2>5, <3>1
    <3>2. CASE n # g
      <4>1. n \in DOMAIN groups /\ groups'[n] = groups[n]
        BY <1>1, <2>5, <3>2
      <4> QED
        BY <4>1 DEF Listed
    <3> QED
        BY <3>1, <3>2
  <2>7. Covers(modules', state[g'], m' - 1)
    BY <2>1, CoversNone
  <2> QED
    BY <1>1, <1>3, <2>1, <2>5, <2>6, <2>7 DEF Listed
<1>9. CASE FinishRun
  <2>1. UNCHANGED <<g, m, modules, groups>> /\ response' = groups
    BY <1>9 DEF FinishRun, position
  <2> QED
    BY <1>3, <2>1 DEF Listed
<1> QED
    BY <1>4, <1>5, <1>6, <1>7, <1>8, <1>9 DEF Moves

\* Before the first module nothing is to be covered.
LEMMA ReportBegins == SshInit => Listed
<1> SUFFICES ASSUME SshInit PROVE Listed
    OBVIOUS
<1>1. Len(groups) = 0 /\ DOMAIN groups = {} /\ g = 1 /\ m = 1 /\ modules = <<>> /\ pc # "done"
    BY DEF SshInit
<1> QED
    BY <1>1, CoversNone DEF Listed

\* The response of a finished run tells of every supported module of every
\* group, in order, and in it of every host.
THEOREM ReportIsComplete == SshSpec => []ReportComplete
<1>1. SshInit => Listed
    BY ReportBegins
<1>2. SshInv /\ Listed /\ [RunStep]_sshVars => Listed'
    BY ListedStepHolds
<1>3. SshInv /\ Listed => ReportComplete
  <2> SUFFICES ASSUME SshInv, Listed, pc = "done" PROVE ReportComplete
      BY DEF ReportComplete
  <2>1. g = Len(state) + 1 /\ Len(state) \in Nat /\ DOMAIN state = 1..Len(state)
    BY StateFacts DEF SshInv, SshTypeOK, Located
  <2>2. response = groups /\ Len(groups) = Len(state)
    BY <2>1 DEF Listed
  <2>3. DOMAIN groups = DOMAIN state
    BY <2>1, <2>2, LenProperties DEF SshInv, SshTypeOK
  <2> QED
    BY <2>2, <2>3 DEF Listed, ReportComplete
<1> QED
    BY <1>1, <1>2, <1>3, SshInitHolds, SshStepHolds, PTL DEF SshSpec
-----------------------------------------------------------------------------
(* The log *)

Levels == {"info", "warn", "error", "debug"}
ErrorsAt(log) == {n \in DOMAIN log : log[n] = "error"}

LEMMA ErrorsFacts ==
    ASSUME NEW log \in Seq(Levels)
    PROVE  /\ IsFiniteSet(ErrorsAt(log)) /\ Errors(log) = Cardinality(ErrorsAt(log))
           /\ Errors(log) \in Nat
<1>1. Len(log) \in Nat /\ DOMAIN log = 1..Len(log)
    BY LenProperties
<1>2. IsFiniteSet(1..Len(log)) /\ ErrorsAt(log) \in SUBSET (1..Len(log))
    BY <1>1, FS_Interval DEF ErrorsAt
<1>3. IsFiniteSet(ErrorsAt(log))
    BY <1>2, FS_Subset
<1>4. Errors(log) = Cardinality(ErrorsAt(log))
    BY DEF Errors, ErrorsAt
<1> QED
    BY <1>3, <1>4, FS_CardinalityType

LEMMA NoErrors == Errors(<<>>) = 0
<1>1. ErrorsAt(<<>>) = {}
    BY DEF ErrorsAt
<1> QED
    BY <1>1, FS_EmptySet DEF Errors, ErrorsAt

LEMMA OneEntry ==
    ASSUME NEW level \in Levels
    PROVE  <<level>> \in Seq(Levels) /\ Errors(<<level>>) = IF level = "error" THEN 1 ELSE 0
<1>1. <<level>> \in Seq(Levels)
    OBVIOUS
<1>2. ErrorsAt(<<level>>) = IF level = "error" THEN {1} ELSE {}
    BY DEF ErrorsAt
<1>3. Errors(<<level>>) = Cardinality(ErrorsAt(<<level>>))
    BY DEF Errors, ErrorsAt
<1> QED
    BY <1>1, <1>2, <1>3, FS_EmptySet, FS_Singleton

\* The errors of two logs add up.
LEMMA ErrorsAdd ==
    ASSUME NEW s \in Seq(Levels), NEW t \in Seq(Levels)
    PROVE  s \o t \in Seq(Levels) /\ Errors(s \o t) = Errors(s) + Errors(t)
<1> DEFINE A == ErrorsAt(s)
           B == ErrorsAt(t)
           C == {n \in (Len(s) + 1)..(Len(s) + Len(t)) : n - Len(s) \in B}
           f == [n \in B |-> Len(s) + n]
<1>1. /\ Len(s) \in Nat /\ Len(t) \in Nat /\ DOMAIN s = 1..Len(s) /\ DOMAIN t = 1..Len(t)
    BY LenProperties
<1>2. /\ s \o t \in Seq(Levels) /\ Len(s \o t) = Len(s) + Len(t)
      /\ \A n \in 1..(Len(s) + Len(t)) :
           (s \o t)[n] = IF n <= Len(s) THEN s[n] ELSE t[n - Len(s)]
    BY ConcatProperties
<1>3. DOMAIN (s \o t) = 1..(Len(s) + Len(t))
    BY <1>2, LenProperties
<1>4. ErrorsAt(s \o t) = A \cup C
  <2>1. ASSUME NEW n \in 1..(Len(s) + Len(t))
        PROVE  n \in ErrorsAt(s \o t) <=> n \in A \cup C
    <3>1. CASE n <= Len(s)
      <4>1. n \in DOMAIN s /\ n \notin C
          BY <1>1, <3>1
      <4> QED
          BY <1>2, <1>3, <3>1, <4>1 DEF ErrorsAt
    <3>2. CASE ~(n <= Len(s))
      <4>1. n \notin DOMAIN s /\ n - Len(s) \in DOMAIN t /\ n \in (Len(s) + 1)..(Len(s) + Len(t))
          BY <1>1, <3>2
      <4> QED
          BY <1>2, <1>3, <3>2, <4>1 DEF ErrorsAt
    <3> QED
        BY <3>1, <3>2
  <2>2. A \cup C \subseteq 1..(Len(s) + Len(t))
      BY <1>1 DEF ErrorsAt
  <2>3. ErrorsAt(s \o t) \subseteq 1..(Len(s) + Len(t))
      BY <1>3 DEF ErrorsAt
  <2> QED
      BY <2>1, <2>2, <2>3
<1>5. f \in Bijection(B, C)
  <2>1. B \subseteq 1..Len(t)
      BY <1>1 DEF ErrorsAt
  <2>2. \A n \in B : Len(s) + n \in C /\ (Len(s) + n) - Len(s) = n
      BY <1>1, <2>1
  <2>3. \A n \in C : n - Len(s) \in B /\ Len(s) + (n - Len(s)) = n
      BY <1>1
  <2>4. f \in [B -> C]
      BY <2>2
  <2>5. \A a, b \in B : f[a] = f[b] => a = b
      BY <1>1, <2>1, <2>2
  <2>6. \A n \in C : \E a \in B : f[a] = n
      BY <2>3
  <2> QED
      BY <2>4, <2>5, <2>6, Zenon DEF Bijection, Injection, Surjection, IsInjective
<1>6. IsFiniteSet(A) /\ IsFiniteSet(B) /\ IsFiniteSet(A \cup C) /\ Errors(s) = Cardinality(A)
      /\ Errors(t) = Cardinality(B) /\ Errors(s \o t) = Cardinality(A \cup C)
    BY <1>2, <1>4, ErrorsFacts
<1>7. IsFiniteSet(C) /\ Cardinality(C) = Cardinality(B)
  <2> HIDE DEF B, C, f
  <2>1. ExistsBijection(B, C)
      BY <1>5 DEF ExistsBijection
  <2> QED
      BY <1>6, <2>1, FS_Bijection
<1>8. A \cap C = {}
    BY <1>1 DEF ErrorsAt
<1>9. Cardinality(A \cup C) = Cardinality(A) + Cardinality(C)
  <2> HIDE DEF A, C
  <2>1. Cardinality(A \cup C) = Cardinality(A) + Cardinality(C) - Cardinality(A \cap C)
      BY <1>6, <1>7, FS_Union
  <2>2. Cardinality(A \cap C) = 0
      BY <1>8, FS_EmptySet
  <2>3. Cardinality(A) \in Nat /\ Cardinality(C) \in Nat
      BY <1>6, <1>7, FS_CardinalityType
  <2> QED
      BY <2>1, <2>2, <2>3
<1> QED
    BY <1>2, <1>6, <1>7, <1>9

\* If the sets G[n] do not overlap and have as many elements as the log s[n]
\* has errors, their union has as many as all these logs together.
LEMMA Counting ==
    ASSUME NEW s \in Seq(Seq(Levels)), NEW G,
           \A n \in 1..Len(s) : IsFiniteSet(G[n]) /\ Cardinality(G[n]) = Errors(s[n]),
           \A k, n \in 1..Len(s) : k # n => G[k] \cap G[n] = {}
    PROVE  /\ IsFiniteSet(UNION {G[n] : n \in 1..Len(s)})
           /\ Cardinality(UNION {G[n] : n \in 1..Len(s)}) = Errors(FlattenSeq(s))
<1> DEFINE U(n) == UNION {G[k] : k \in 1..n}
           Good == {n \in 0..Len(s) : /\ IsFiniteSet(U(n))
                                      /\ Cardinality(U(n)) = Errors(FlattenSeq(First(s, n)))}
<1>1. Len(s) \in Nat /\ \A n \in 1..Len(s) : s[n] \in Seq(Levels)
    BY LenProperties, ElementOfSeq
<1>2. 0 \in Good
  <2>1. U(0) = {}
      OBVIOUS
  <2>2. Errors(FlattenSeq(First(s, 0))) = 0
      BY FlattenFirst, NoErrors
  <2>3. IsFiniteSet(U(0)) /\ Cardinality(U(0)) = 0
      BY <2>1, FS_EmptySet
  <2>4. 0 \in 0..Len(s)
      BY <1>1
  <2> QED
      BY <2>2, <2>3, <2>4
<1>3. ASSUME NEW n \in 0..(Len(s) - 1), n \in Good PROVE n + 1 \in Good
  <2>1. n \in Nat /\ n + 1 \in 1..Len(s) /\ n + 1 \in 0..Len(s) /\ n \in 0..Len(s)
      BY <1>1
  <2>2. U(n + 1) = U(n) \cup G[n + 1]
    <3>1. \A k \in 1..(n + 1) : k \in 1..n \/ k = n + 1
        BY <2>1
    <3>2. 1..n \subseteq 1..(n + 1) /\ n + 1 \in 1..(n + 1)
        BY <2>1
    <3> QED
        BY <3>1, <3>2
  <2>3. U(n) \cap G[n + 1] = {}
    <3>1. \A k \in 1..n : k \in 1..Len(s) /\ k # n + 1
        BY <2>1
    <3> QED
        BY <2>1, <3>1
  <2>4. Errors(FlattenSeq(First(s, n + 1))) = Errors(FlattenSeq(First(s, n))) + Errors(s[n + 1])
    <3>1. FlattenSeq(First(s, n)) \in Seq(Levels) /\ s[n + 1] \in Seq(Levels)
        BY <1>1, <2>1, FlattenFirst
    <3>2. FlattenSeq(First(s, n + 1)) = FlattenSeq(First(s, n)) \o s[n + 1]
        BY FlattenFirst
    <3> QED
        BY <3>1, <3>2, ErrorsAdd
  <2>5. IsFiniteSet(U(n)) /\ Cardinality(U(n)) = Errors(FlattenSeq(First(s, n)))
      BY <1>3
  <2> HIDE DEF U
  <2>6. /\ IsFiniteSet(U(n + 1))
        /\ Cardinality(U(n + 1)) = Cardinality(U(n)) + Cardinality(G[n + 1])
    <3>1. IsFiniteSet(G[n + 1])
        BY <2>1
    <3>2. Cardinality(U(n)) \in Nat /\ Cardinality(G[n + 1]) \in Nat
        BY <2>5, <3>1, FS_CardinalityType
    <3>3. Cardinality(U(n) \cap G[n + 1]) = 0
        BY <2>3, FS_EmptySet
    <3>4. /\ IsFiniteSet(U(n) \cup G[n + 1])
          /\ Cardinality(U(n) \cup G[n + 1]) =
               Cardinality(U(n)) + Cardinality(G[n + 1]) - Cardinality(U(n) \cap G[n + 1])
        BY <2>5, <3>1, FS_Union
    <3>5. Cardinality(U(n) \cup G[n + 1]) = Cardinality(U(n)) + Cardinality(G[n + 1])
        BY <3>2, <3>3, <3>4
    <3> QED
        BY <2>2, <3>4, <3>5
  <2>7. Cardinality(U(n + 1)) = Errors(FlattenSeq(First(s, n + 1)))
      BY <2>1, <2>4, <2>5, <2>6
  <2> QED
      BY <2>1, <2>6, <2>7
<1>4. Len(s) \in Good
  <2> HIDE DEF Good
  <2>1. \A n \in 0..Len(s) : n \in Good
      BY <1>1, <1>2, <1>3, UpTo
  <2> QED
      BY <1>1, <2>1
<1> QED
    BY <1>4, FlattenFirst

LEMMA LevelFacts ==
    /\ \A j \in Verdicts : JsonLevel(j) \in Levels /\ (JsonLevel(j) = "error" <=> j = "failed")
    /\ StepLevel(ERR_OK) = "debug" /\ StepLevel(-1) = "debug"
<1>1. StepLevel(ERR_OK) = "debug" /\ StepLevel(-1) = "debug"
    BY DEF StepLevel, ERR_OK
<1>2. ASSUME NEW j \in Verdicts
      PROVE  JsonLevel(j) \in Levels /\ (JsonLevel(j) = "error" <=> j = "failed")
  <2>1. JsonLevel("failed") = "error" /\ JsonLevel("unchanged") = "warn"
        /\ JsonLevel("changed") = "info" /\ JsonLevel("none") = "info"
      BY DEF JsonLevel
  <2> QED
      BY <2>1 DEF Verdicts, Levels
<1> QED
    BY <1>1, <1>2

\* One call leaves an error if it failed, and else none.
LEMMA HostErrors ==
    ASSUME NEW r \in HostResult
    PROVE  HostLog(r) \in Seq(Levels) /\ Errors(HostLog(r)) = IF Failed(r) THEN 1 ELSE 0
<1>1. r.errcode \in {ERR_OK, ERR_FAILED} /\ r.json \in Verdicts
    BY DEF HostResult
<1>2. CallLog(r) \in Seq(Levels) /\ Errors(CallLog(r)) = IF Failed(r) THEN 1 ELSE 0
  <2>1. CASE ~r.called
    <3>1. CallLog(r) = <<>> /\ ~Failed(r)
        BY <2>1 DEF CallLog, Failed
    <3> QED
        BY <3>1, NoErrors, EmptySeq
  <2>2. CASE r.called /\ r.errcode > ERR_OK
    <3>1. CallLog(r) = <<"error">> /\ Failed(r)
        BY <2>2 DEF CallLog, Failed
    <3>2. "error" \in Levels
        BY DEF Levels
    <3> QED
        BY <3>1, <3>2, OneEntry
  <2>3. CASE r.called /\ ~(r.errcode > ERR_OK)
    <3>1. CallLog(r) = <<"info", JsonLevel(r.json), "debug">>
        BY <2>3 DEF CallLog
    <3>2. Failed(r) <=> r.json = "failed"
        BY <2>3 DEF Failed
    <3>3. PICK lv \in Levels : lv = JsonLevel(r.json) /\ (lv = "error" <=> r.json = "failed")
        BY <1>1, LevelFacts
    <3>4. <<"info", lv, "debug">> = <<"info">> \o (<<lv>> \o <<"debug">>)
        OBVIOUS
    <3>5. "info" \in Levels /\ "debug" \in Levels /\ "info" # "error" /\ "debug" # "error"
        BY DEF Levels
    <3>6. <<lv>> \o <<"debug">> \in Seq(Levels)
          /\ Errors(<<lv>> \o <<"debug">>) = IF lv = "error" THEN 1 ELSE 0
      <4>1. /\ <<lv>> \in Seq(Levels) /\ Errors(<<lv>>) = IF lv = "error" THEN 1 ELSE 0
            /\ <<"debug">> \in Seq(Levels) /\ Errors(<<"debug">>) = 0
          BY <3>5, OneEntry
      <4>2. /\ <<lv>> \o <<"debug">> \in Seq(Levels)
            /\ Errors(<<lv>> \o <<"debug">>) = Errors(<<lv>>) + Errors(<<"debug">>)
          BY <4>1, ErrorsAdd
      <4> QED
          BY <4>1, <4>2
    <3>7. <<"info">> \in Seq(Levels) /\ Errors(<<"info">>) = 0
        BY <3>5, OneEntry
    <3>8. /\ <<"info">> \o (<<lv>> \o <<"debug">>) \in Seq(Levels)
          /\ Errors(<<"info">> \o (<<lv>> \o <<"debug">>)) = IF lv = "error" THEN 1 ELSE 0
      <4>1. /\ <<"info">> \o (<<lv>> \o <<"debug">>) \in Seq(Levels)
            /\ Errors(<<"info">> \o (<<lv>> \o <<"debug">>)) =
                 Errors(<<"info">>) + Errors(<<lv>> \o <<"debug">>)
          BY <3>6, <3>7, ErrorsAdd
      <4> QED
          BY <3>6, <3>7, <4>1
    <3> QED
        BY <3>1, <3>2, <3>3, <3>4, <3>8
  <2> QED
      BY <2>1, <2>2, <2>3
<1>3. CASE r.host = "localhost"
    BY <1>2, <1>3 DEF HostLog
<1>4. CASE r.host # "localhost"
  <2>1. HostLog(r) = <<"debug">> \o CallLog(r)
      BY <1>4 DEF HostLog
  <2>2. <<"debug">> \in Seq(Levels) /\ Errors(<<"debug">>) = 0
      BY OneEntry DEF Levels
  <2>3. /\ <<"debug">> \o CallLog(r) \in Seq(Levels)
        /\ Errors(<<"debug">> \o CallLog(r)) = Errors(<<"debug">>) + Errors(CallLog(r))
      BY <1>2, <2>2, ErrorsAdd
  <2>4. Errors(CallLog(r)) \in Nat
      BY <1>2, ErrorsFacts
  <2> QED
      BY <1>2, <2>1, <2>2, <2>3, <2>4
<1> QED
    BY <1>3, <1>4

\* A level that is no error is put before the logs of what the step consists of.
LEMMA StepErrors ==
    ASSUME NEW level \in Levels, level # "error", NEW s \in Seq(Seq(Levels))
    PROVE  /\ <<level>> \o FlattenSeq(s) \in Seq(Levels)
           /\ Errors(<<level>> \o FlattenSeq(s)) = Errors(FlattenSeq(s))
<1>1. <<level>> \in Seq(Levels) /\ Errors(<<level>>) = 0
    BY OneEntry
<1>2. FlattenSeq(s) \in Seq(Levels)
    BY FlattenType
<1>3. Errors(FlattenSeq(s)) \in Nat
    BY <1>2, ErrorsFacts
<1>4. /\ <<level>> \o FlattenSeq(s) \in Seq(Levels)
      /\ Errors(<<level>> \o FlattenSeq(s)) = Errors(<<level>>) + Errors(FlattenSeq(s))
    BY <1>1, <1>2, ErrorsAdd
<1> QED
    BY <1>1, <1>3, <1>4

LEMMA ModuleErrors ==
    ASSUME NEW md \in ModuleResult, NEW a, NEW b
    PROVE  /\ ModuleLog(md) \in Seq(Levels) /\ IsFiniteSet(FailuresIn(md, a, b))
           /\ Cardinality(FailuresIn(md, a, b)) = Errors(ModuleLog(md))
<1> DEFINE rs == md.results
           s == [n \in DOMAIN md.results |-> HostLog(md.results[n])]
           G == [n \in DOMAIN md.results |-> IF Failed(rs[n]) THEN {<<a, b, n>>} ELSE {}]
<1>1. /\ md.errcode = ERR_OK /\ rs \in Seq(HostResult) /\ DOMAIN rs = 1..Len(rs)
      /\ Len(rs) \in Nat /\ \A n \in 1..Len(rs) : rs[n] \in HostResult
    BY LenProperties, ElementOfSeq DEF ModuleResult
<1>2. \A n \in 1..Len(rs) : /\ HostLog(rs[n]) \in Seq(Levels)
                            /\ Errors(HostLog(rs[n])) = IF Failed(rs[n]) THEN 1 ELSE 0
    BY <1>1, HostErrors
<1>3. s \in Seq(Seq(Levels)) /\ Len(s) = Len(rs) /\ \A n \in 1..Len(rs) : s[n] = HostLog(rs[n])
  <2>1. s \in [1..Len(rs) -> Seq(Levels)]
      BY <1>1, <1>2
  <2> QED
      BY <1>1, <2>1, LenProperties
<1>4. \A n \in 1..Len(s) : IsFiniteSet(G[n]) /\ Cardinality(G[n]) = Errors(s[n])
  <2>1. \A n \in 1..Len(rs) : G[n] = IF Failed(rs[n]) THEN {<<a, b, n>>} ELSE {}
      BY <1>1
  <2> SUFFICES ASSUME NEW n \in 1..Len(rs)
               PROVE  IsFiniteSet(G[n]) /\ Cardinality(G[n]) = Errors(s[n])
      BY <1>3
  <2>2. Errors(s[n]) = IF Failed(rs[n]) THEN 1 ELSE 0
      BY <1>2, <1>3
  <2>3. G[n] = IF Failed(rs[n]) THEN {<<a, b, n>>} ELSE {}
      BY <2>1
  <2> HIDE DEF G, s
  <2>4. CASE Failed(rs[n])
      BY <2>2, <2>3, <2>4, FS_Singleton
  <2>5. CASE ~Failed(rs[n])
      BY <2>2, <2>3, <2>5, FS_EmptySet
  <2> QED
      BY <2>4, <2>5
<1>5. \A k, n \in 1..Len(s) : k # n => G[k] \cap G[n] = {}
    BY <1>1, <1>3
<1>6. UNION {G[n] : n \in 1..Len(s)} = FailuresIn(md, a, b)
    BY <1>1, <1>3 DEF FailuresIn
<1>7. ModuleLog(md) = <<"debug">> \o FlattenSeq(s) /\ "debug" \in Levels
    BY <1>1, LevelFacts DEF ModuleLog, Levels
<1> HIDE DEF s, G
<1>8. ModuleLog(md) \in Seq(Levels) /\ Errors(ModuleLog(md)) = Errors(FlattenSeq(s))
    BY <1>3, <1>7, StepErrors
<1>9. /\ IsFiniteSet(UNION {G[n] : n \in 1..Len(s)})
      /\ Cardinality(UNION {G[n] : n \in 1..Len(s)}) = Errors(FlattenSeq(s))
    BY <1>3, <1>4, <1>5, Counting
<1> QED
    BY <1>6, <1>8, <1>9

LEMMA GroupErrors ==
    ASSUME NEW gr \in GroupResult, NEW a
    PROVE  /\ GroupLog(gr) \in Seq(Levels) /\ IsFiniteSet(FailuresOf(gr, a))
           /\ Cardinality(FailuresOf(gr, a)) = Errors(GroupLog(gr))
<1> DEFINE ms == gr.modules
           s == [n \in DOMAIN gr.modules |-> ModuleLog(gr.modules[n])]
           G == [n \in DOMAIN gr.modules |-> FailuresIn(ms[n], a, n)]
<1>1. /\ gr.errcode = -1 /\ ms \in Seq(ModuleResult) /\ DOMAIN ms = 1..Len(ms)
      /\ Len(ms) \in Nat /\ \A n \in 1..Len(ms) : ms[n] \in ModuleResult
    BY LenProperties, ElementOfSeq DEF GroupResult
<1>2. \A n \in 1..Len(ms) : /\ ModuleLog(ms[n]) \in Seq(Levels)
                            /\ IsFiniteSet(FailuresIn(ms[n], a, n))
                            /\ Cardinality(FailuresIn(ms[n], a, n)) = Errors(ModuleLog(ms[n]))
    BY <1>1, ModuleErrors
<1>3. s \in Seq(Seq(Levels)) /\ Len(s) = Len(ms) /\ \A n \in 1..Len(ms) : s[n] = ModuleLog(ms[n])
  <2>1. s \in [1..Len(ms) -> Seq(Levels)]
      BY <1>1, <1>2
  <2> QED
      BY <1>1, <2>1, LenProperties
<1>4. \A n \in 1..Len(s) : IsFiniteSet(G[n]) /\ Cardinality(G[n]) = Errors(s[n])
    BY <1>1, <1>2, <1>3
<1>5. \A k, n \in 1..Len(s) : k # n => G[k] \cap G[n] = {}
    BY <1>1, <1>3 DEF FailuresIn
<1>6. UNION {G[n] : n \in 1..Len(s)} = FailuresOf(gr, a)
    BY <1>1, <1>3 DEF FailuresOf
<1>7. GroupLog(gr) = <<"debug">> \o FlattenSeq(s) /\ "debug" \in Levels
    BY <1>1, LevelFacts DEF GroupLog, Levels
<1> HIDE DEF s, G
<1>8. GroupLog(gr) \in Seq(Levels) /\ Errors(GroupLog(gr)) = Errors(FlattenSeq(s))
    BY <1>3, <1>7, StepErrors
<1>9. /\ IsFiniteSet(UNION {G[n] : n \in 1..Len(s)})
      /\ Cardinality(UNION {G[n] : n \in 1..Len(s)}) = Errors(FlattenSeq(s))
    BY <1>3, <1>4, <1>5, Counting
<1> QED
    BY <1>6, <1>8, <1>9

\* The log of any response has one error for each failure.
LEMMA ResponseErrors ==
    ASSUME NEW resp \in Seq(GroupResult)
    PROVE  Errors(ToLog(resp)) = Cardinality(Failures(resp))
<1> DEFINE s == [n \in DOMAIN resp |-> GroupLog(resp[n])]
           G == [n \in DOMAIN resp |-> FailuresOf(resp[n], n)]
<1>1. /\ DOMAIN resp = 1..Len(resp) /\ Len(resp) \in Nat
      /\ \A n \in 1..Len(resp) : resp[n] \in GroupResult
    BY LenProperties, ElementOfSeq
<1>2. \A n \in 1..Len(resp) : /\ GroupLog(resp[n]) \in Seq(Levels)
                              /\ IsFiniteSet(FailuresOf(resp[n], n))
                              /\ Cardinality(FailuresOf(resp[n], n)) = Errors(GroupLog(resp[n]))
    BY <1>1, GroupErrors
<1>3. s \in Seq(Seq(Levels)) /\ Len(s) = Len(resp) /\ \A n \in 1..Len(resp) : s[n] = GroupLog(resp[n])
  <2>1. s \in [1..Len(resp) -> Seq(Levels)]
      BY <1>1, <1>2
  <2> QED
      BY <1>1, <2>1, LenProperties
<1>4. \A n \in 1..Len(s) : IsFiniteSet(G[n]) /\ Cardinality(G[n]) = Errors(s[n])
    BY <1>1, <1>2, <1>3
<1>5. \A k, n \in 1..Len(s) : k # n => G[k] \cap G[n] = {}
    BY <1>1, <1>3 DEF FailuresOf, FailuresIn
<1>6. UNION {G[n] : n \in 1..Len(s)} = Failures(resp)
    BY <1>1, <1>3 DEF Failures
<1>7. ToLog(resp) = <<"info">> \o FlattenSeq(s) /\ "info" \in Levels
    BY <1>1 DEF ToLog, Levels
<1> HIDE DEF s, G
<1>8. Errors(ToLog(resp)) = Errors(FlattenSeq(s))
    BY <1>3, <1>7, StepErrors
<1>9. Cardinality(UNION {G[n] : n \in 1..Len(s)}) = Errors(FlattenSeq(s))
    BY <1>3, <1>4, <1>5, Counting
<1> QED
    BY <1>6, <1>8, <1>9

\* Whatever calls failed, in whatever way: the log made of the response of a
\* finished run has one error for each of them and no other.
THEOREM LogIsTrue == SshSpec => []LogTellsTruth
<1>1. SshInv => LogTellsTruth
    BY ResponseErrors DEF SshInv, SshTypeOK, LogTellsTruth
<1> QED
    BY <1>1, SshInitHolds, SshStepHolds, PTL DEF SshSpec
=============================================================================
