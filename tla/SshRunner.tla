------------------------------- MODULE SshRunner -------------------------------
(***************************************************************************)
(* Running a nanostate over SSH: BaseRunner.Run over its groups and their  *)
(* modules (nanorunners/baserunner.go), SSHRunner over the hosts for each  *)
(* module, callHost with its second attempt and the installation of the    *)
(* permanent client in between (sshrunner.go), on the connection and the   *)
(* sessions of sshconn.go and sshsession.go, down to the runner on the     *)
(* remote host that executes the module (remote/ansiblerunner.go).         *)
(*                                                                         *)
(* The runner is one goroutine.  The hosts and the network are another     *)
(* party: every command, file copy and dial may go wrong, and a connection *)
(* may be lost at any command.  Each such fault counts against MaxFaults.  *)
(*                                                                         *)
(* A module is [id, kind, textArgs, count]: its place in the nanostate,    *)
(* "shell", "ansible" or "other", whether its arguments are all strings,   *)
(* and how many instructions a shell module lists.  The permanent          *)
(* directory, if given, is assumed to be the one whose bin/ansiblerunner   *)
(* callAnsibleModule calls.                                                *)
(***************************************************************************)
EXTENDS ResultLog, FiniteSets

CONSTANTS
    Hosts,      \* SSHRunner._hosts, the fqdns in the order of AddHost
    States,     \* the nanostates that may be run: sequences of groups
    ArchOf,     \* what "uname -i" says on each host
    Runners,    \* the runner files in the static data of each architecture
    Client,     \* the file that executes Ansible modules
    Settings,   \* [perma, static, keys]: was a permanent, a static data directory
                \* given, and are the operator's key and known_hosts there?
    NoAnsible,  \* the hosts on which no Python imports Ansible, or its directory cannot be read
    Lacks,      \* <<host, id>>: the modules Ansible does not have there
    MaxFaults,  \* bound: how many things go wrong in a run
    IdBound     \* bound: the number of modules in a nanostate

HostSet == {Hosts[n] : n \in DOMAIN Hosts}
Files == {Client} \cup UNION {{Runners[a][n] : n \in DOMAIN Runners[a]} : a \in DOMAIN Runners}

Mods == [id : 1..IdBound, kind : {"shell", "ansible", "other"}, textArgs : BOOLEAN, count : Nat]

\* The ids number the modules in the order of the nanostate.
Numbered(s) == \A a, b \in DOMAIN s : \A i \in DOMAIN s[a], j \in DOMAIN s[b] :
    a < b \/ (a = b /\ i < j) => s[a][i].id < s[b][j].id

\* A host may have been added twice.
ASSUME HostsAssumption == Hosts \in Seq(STRING) /\ HostSet \subseteq DOMAIN ArchOf
\* A directory has each file once.
ASSUME RunnersAssumption == \A a \in DOMAIN Runners :
                              Runners[a] \in Seq(Files) /\ IsInjective(Runners[a])
ASSUME StatesAssumption == States \subseteq Seq(Seq(Mods)) /\ \A s \in States : Numbered(s)
ASSUME SettingsAssumption == Settings \subseteq [perma : BOOLEAN, static : BOOLEAN, keys : BOOLEAN]
ASSUME BoundsAssumption == MaxFaults \in Nat /\ IdBound \in Nat

\* The directories of the permanent client, in the order of their creation
Dirs == <<"", "bin", "etc", "modules">>
DirSet == {Dirs[n] : n \in DOMAIN Dirs}

VARIABLES
    dirs,       \* per host: which of Dirs exist
    bin,        \* per host: the runner files and how much of each arrived
    ran,        \* per host: the modules executed there, attempt by attempt
    faults,     \* how many things went wrong so far
    setting,    \* which directories this runner was given
    state,      \* the nanostate of this run
    g, m, h,    \* the group, module and host it is at
    pc,         \* where in callHost or its callers the runner is
    conn,       \* SshShell._conn: "none", "open", or "dead" and not noticed yet
    last,       \* the outcome of the last attempt
    left,       \* the directories or files still to create
    results,    \* the results of the current module, one per host
    modules,    \* the modules of the current group
    groups,     \* the groups that are finished
    response    \* BaseRunner._response

remote == <<dirs, bin, ran, faults>>
input == <<setting, state>>
position == <<g, m, h>>
report == <<results, modules, groups, response>>
sshVars == <<remote, input, position, pc, conn, last, left, report>>

Ends == {"done", "panicked", "exited"}
InInstall == {"mkdir", "arch", "dial", "copy"}

\* What an attempt comes to.  The remote runner prints what the module says,
\* if anything, and ends with code 0 however the module ended; so it does,
\* with no output, when it did not find the module.
FromModule == {"changed", "unchanged", "failed", "none"}
Succeeded == FromModule \cup {"missing"}

\* "fatal" is its own log.Fatal, "cut" an attempt of which no exit code came
\* back, "absent" one that found no runner.
Outcomes == Succeeded \cup {"fatal", "cut", "absent"}

Module == state[g][m]
AtModule == pc = "module" /\ g <= Len(state) /\ m <= Len(state[g])
Fqdn == Hosts[h]
Installed(fqdn) == bin[fqdn][Client] = "whole"

\* FindPythonModule asks each Python for Ansible and walks the directory it
\* names; without one the walk of "" fails.
Finds(fqdn, id) == fqdn \notin NoAnsible /\ <<fqdn, id>> \notin Lacks

\* A host may have the client already.
SshInit ==
    /\ \E provisioned \in SUBSET HostSet :
         /\ dirs = [f \in HostSet |-> IF f \in provisioned THEN DirSet ELSE {}]
         /\ bin = [f \in HostSet |-> [x \in Files |->
                     IF f \in provisioned THEN "whole" ELSE "none"]]
    /\ ran = [f \in HostSet |-> <<>>] /\ faults = 0
    /\ setting \in Settings /\ state \in States
    /\ g = 1 /\ m = 1 /\ h = 1 /\ pc = "module"
    /\ conn = "none" /\ last = "none" /\ left = <<>>
    /\ results = <<>> /\ modules = <<>> /\ groups = <<>> /\ response = <<>>

Fault == faults < MaxFaults /\ faults' = faults + 1
NoFault == UNCHANGED faults

-----------------------------------------------------------------------------
(* BaseRunner.Run and runGroup *)

\* A module that is neither shell nor ansible leaves no trace in the response.
SkipUnsupported ==
    /\ AtModule /\ Module.kind = "other"
    /\ m' = m + 1
    /\ UNCHANGED <<remote, input, g, h, pc, conn, last, left, report>>

\* mutant: the results of the hosts are not started afresh
FinishModuleKeeps ==
    /\ AtModule /\ Module.kind # "other" /\ h > Len(Hosts)
    /\ modules' = Append(modules, [module |-> Module.id, errcode |-> ERR_OK,
                                   results |-> results])
    /\ m' = m + 1 /\ h' = 1
    /\ UNCHANGED <<remote, input, g, pc, conn, last, left, results, groups, response>>

\* callShell and callAnsibleModule never return an error of their own.
FinishModule ==
    /\ AtModule /\ Module.kind # "other" /\ h > Len(Hosts)
    /\ modules' = Append(modules, [module |-> Module.id, errcode |-> ERR_OK,
                                   results |-> results])
    /\ results' = <<>>
    /\ m' = m + 1 /\ h' = 1
    /\ UNCHANGED <<remote, input, g, pc, conn, last, left, groups, response>>

\* mutant: the next group starts with the modules of this one
FinishGroupKeeps ==
    /\ pc = "module" /\ g <= Len(state) /\ m > Len(state[g])
    /\ groups' = Append(groups, [errcode |-> -1, modules |-> modules])
    /\ g' = g + 1 /\ m' = 1
    /\ UNCHANGED <<remote, input, h, pc, conn, last, left, results, modules, response>>

\* runGroup never returns an error either; the code of a group stays -1.
FinishGroup ==
    /\ pc = "module" /\ g <= Len(state) /\ m > Len(state[g])
    /\ groups' = Append(groups, [errcode |-> -1, modules |-> modules])
    /\ modules' = <<>>
    /\ g' = g + 1 /\ m' = 1
    /\ UNCHANGED <<remote, input, h, pc, conn, last, left, results, response>>

\* The response gets its groups only here: a panic loses all of them.
FinishRun ==
    /\ pc = "module" /\ g > Len(state)
    /\ response' = groups
    /\ pc' = "done"
    /\ UNCHANGED <<remote, input, position, conn, last, left, results, modules, groups>>

-----------------------------------------------------------------------------
(* SSHRunner.callHost for one host and module *)

AtHost == AtModule /\ h <= Len(Hosts)

\* Closes the sessions and the connection, if there is one
Disconnect == conn' = "none"

\* The deferred Disconnect runs on the way out of a panic.
Panic ==
    /\ pc' = "panicked" /\ Disconnect
    /\ UNCHANGED <<dirs, bin, ran, input, position, last, left, report>>

\* kwargsToCli takes strings only: a list is a slice, never the array it
\* looks for.
ArgsPanic ==
    /\ AtHost /\ Module.kind = "ansible" /\ ~Module.textArgs
    /\ Panic /\ NoFault

Calls == AtHost /\ Module.kind # "other" /\ (Module.kind = "ansible" => Module.textArgs)

\* The new shell looks for the directory of the keys and for known_hosts, even
\* if hosts are not to be verified, and the configuration needs the key.
KeysPanic ==
    /\ Calls /\ ~setting.keys
    /\ Panic /\ NoFault

\* A failed dial is logged and leaves no connection.
Connect ==
    /\ Calls /\ setting.keys
    /\ \/ conn' = "open" /\ NoFault
       \/ conn' = "none" /\ Fault
    /\ pc' = IF Module.kind = "shell" THEN "shell" ELSE "first"
    /\ UNCHANGED <<dirs, bin, ran, input, position, last, left, report>>

\* A loaded nanostate holds its instructions as map[string]interface{};
\* callHost asks for map[interface{}]interface{}.
ShellPanics ==
    /\ pc = "shell" /\ Module.count > 0
    /\ Panic /\ NoFault

ShellEmpty ==
    /\ pc = "shell" /\ Module.count = 0
    /\ results' = Append(results, [host |-> Fqdn, called |-> FALSE, errcode |-> ERR_OK,
                                   json |-> "none"])
    /\ Disconnect /\ h' = h + 1 /\ pc' = "module"
    /\ UNCHANGED <<remote, input, g, m, last, left, modules, groups, response>>

\* The steps that open a session: without a connection NewSession panics, on
\* a dead one the whole process exits.
NeedsSession == {"first", "second", "mkdir", "arch"}

NoConnection ==
    /\ pc \in NeedsSession /\ conn = "none"
    /\ Panic /\ NoFault

ProcessExits ==
    /\ pc \in NeedsSession /\ conn = "dead"
    /\ pc' = "exited"
    /\ UNCHANGED <<remote, input, position, conn, last, left, report>>

Session(stage) == pc = stage /\ conn = "open"

\* The remote runner at work: log.Fatal without Ansible, or if the process it
\* started does not stay to read its arguments; the module's answer, or none.
\* What an attempt printed that was cut is left out: the log does not show it.
Executes(o, id) ==
    \/ /\ o = "fatal" /\ ~Finds(Fqdn, id)
       /\ UNCHANGED ran
    \/ /\ o = "missing" /\ Fqdn \notin NoAnsible /\ <<Fqdn, id>> \in Lacks
       /\ UNCHANGED ran
    \/ /\ o \in FromModule \cup {"fatal"} /\ Finds(Fqdn, id)
       /\ ran' = [ran EXCEPT ![Fqdn] = Append(@, id)]

\* Executing the command: outcome o, with or without having run.
Attempt(o) ==
    /\ last' = o
    /\ \/ /\ o = "absent" /\ ~Installed(Fqdn)
          /\ NoFault /\ UNCHANGED <<ran, conn>>
       \/ /\ Installed(Fqdn) /\ Executes(o, Module.id)
          /\ NoFault /\ UNCHANGED conn
       \/ /\ o = "cut" /\ Fault /\ conn' \in {"open", "dead"}
          /\ \/ UNCHANGED ran
             \/ Installed(Fqdn) /\ \E r \in FromModule : Executes(r, Module.id)

\* mutant: an answer that did not come is taken for success
ErroredIfCode(o) == o \in {"fatal", "absent"}

Errored(o) == o \notin Succeeded

\* mutant: an error is reported without a second attempt
AfterFirstReports(o) == "record"

\* mutant: with a permanent directory the attempt is always repeated
AfterFirstAlways(o) == IF setting.perma THEN "mkdir" ELSE "record"

\* Where callHost goes after the first attempt
AfterFirst(o) == CASE ~Errored(o) \/ ~setting.perma -> "record"
                   [] Errored(o) /\ setting.perma /\ ~setting.static -> "second"
                   [] OTHER -> "mkdir"

FirstAttempt ==
    /\ Session("first")
    /\ \E o \in Outcomes : Attempt(o) /\ pc' = AfterFirst(o)
    /\ left' = Dirs
    /\ UNCHANGED <<dirs, bin, input, position, report>>

\* mutant: the attempt is repeated until it succeeds
SecondAttemptAgain ==
    /\ Session("second")
    /\ \E o \in Outcomes : Attempt(o) /\ pc' = IF Errored(o) THEN "second" ELSE "record"
    /\ UNCHANGED <<dirs, bin, input, position, left, report>>

SecondAttempt ==
    /\ Session("second")
    /\ \E o \in Outcomes : Attempt(o)
    /\ pc' = "record"
    /\ UNCHANGED <<dirs, bin, input, position, left, report>>

Code(o) == IF Errored(o) THEN ERR_FAILED ELSE ERR_OK

\* mutant: the connection is kept
RecordConnected ==
    /\ pc = "record"
    /\ results' = Append(results, [host |-> Fqdn, called |-> TRUE, errcode |-> Code(last),
                                   json |-> IF last \in Verdicts THEN last ELSE "none"])
    /\ h' = h + 1 /\ pc' = "module"
    /\ UNCHANGED <<remote, input, g, m, conn, last, left, modules, groups, response>>

\* The result of the last attempt; callHost disconnects as it returns.
Record ==
    /\ pc = "record"
    /\ results' = Append(results, [host |-> Fqdn, called |-> TRUE, errcode |-> Code(last),
                                   json |-> IF last \in Verdicts THEN last ELSE "none"])
    /\ Disconnect /\ h' = h + 1 /\ pc' = "module"
    /\ UNCHANGED <<remote, input, g, m, last, left, modules, groups, response>>

-----------------------------------------------------------------------------
(* installPermanentClient: it returns into the second attempt *)

\* mutant: mkdir -p
MakeDirParents ==
    /\ Session("mkdir")
    /\ dirs' = [dirs EXCEPT ![Fqdn] = @ \cup {Head(left)}]
    /\ left' = Tail(left)
    /\ pc' = IF Len(left) = 1 THEN "arch" ELSE "mkdir"
    /\ UNCHANGED <<bin, ran, faults, input, position, conn, last, report>>

MakeDir ==
    /\ Session("mkdir") /\ Head(left) \notin dirs[Fqdn]
    /\ dirs' = [dirs EXCEPT ![Fqdn] = @ \cup {Head(left)}]
    /\ left' = Tail(left)
    /\ pc' = IF Len(left) = 1 THEN "arch" ELSE "mkdir"
    /\ UNCHANGED <<bin, ran, faults, input, position, conn, last, report>>

\* mutant: a directory that cannot be created is tried again
MakeDirFailsAgain ==
    /\ Session("mkdir")
    /\ \/ Head(left) \in dirs[Fqdn] /\ NoFault /\ UNCHANGED <<dirs, conn>>
       \/ /\ Fault /\ conn' \in {"open", "dead"}
          /\ dirs' \in {dirs, [dirs EXCEPT ![Fqdn] = @ \cup {Head(left)}]}
    /\ UNCHANGED <<bin, ran, input, position, pc, last, left, report>>

\* A directory that is there already ends the installation, as any error.
MakeDirFails ==
    /\ Session("mkdir")
    /\ \/ Head(left) \in dirs[Fqdn] /\ NoFault /\ UNCHANGED <<dirs, conn>>
       \/ /\ Fault /\ conn' \in {"open", "dead"}
          /\ dirs' \in {dirs, [dirs EXCEPT ![Fqdn] = @ \cup {Head(left)}]}
    /\ pc' = "second"
    /\ UNCHANGED <<bin, ran, input, position, last, left, report>>

\* The error of "uname" is ignored; the empty architecture names a directory
\* that holds no files.
AskArch ==
    /\ Session("arch")
    /\ \/ /\ ArchOf[Fqdn] \in DOMAIN Runners
          /\ left' = Runners[ArchOf[Fqdn]] /\ NoFault /\ UNCHANGED conn
       \/ left' = <<>> /\ Fault /\ conn' \in {"open", "dead"}
    /\ pc' = "dial"
    /\ UNCHANGED <<dirs, bin, ran, input, position, last, report>>

\* There are no runners for this architecture.
UnknownArch ==
    /\ Session("arch") /\ ArchOf[Fqdn] \notin DOMAIN Runners
    /\ Panic /\ NoFault

\* The copies go over a connection of their own.
DialCopy ==
    /\ pc = "dial" /\ pc' = "copy"
    /\ UNCHANGED <<remote, input, position, conn, last, left, report>>

DialCopyFails ==
    /\ pc = "dial"
    /\ Panic /\ Fault

\* A copy that fails is logged, and the next file is next.
CopyFile ==
    /\ pc = "copy" /\ left # <<>>
    /\ \/ bin' = [bin EXCEPT ![Fqdn][Head(left)] = "whole"] /\ NoFault
       \/ Fault /\ \E s \in {bin[Fqdn][Head(left)], "partial"} :
                     bin' = [bin EXCEPT ![Fqdn][Head(left)] = s]
    /\ left' = Tail(left)
    /\ UNCHANGED <<dirs, ran, input, position, pc, conn, last, report>>

CopyDone ==
    /\ pc = "copy" /\ left = <<>>
    /\ pc' = "second"
    /\ UNCHANGED <<remote, input, position, conn, last, left, report>>

-----------------------------------------------------------------------------
RunStep == \/ SkipUnsupported \/ FinishModule \/ FinishGroup \/ FinishRun
           \/ ArgsPanic \/ KeysPanic \/ Connect \/ ShellPanics \/ ShellEmpty
           \/ NoConnection \/ ProcessExits
           \/ FirstAttempt \/ SecondAttempt \/ Record
           \/ MakeDir \/ MakeDirFails \/ AskArch \/ UnknownArch
           \/ DialCopy \/ DialCopyFails \/ CopyFile \/ CopyDone

\* Every call of the SSH library comes back at some time, with an error if
\* need be.
SshSpec == SshInit /\ [][RunStep]_sshVars /\ WF_sshVars(RunStep)

-----------------------------------------------------------------------------
(* Properties *)

Results(mods) == UNION {{<<mods[n].module, mods[n].results[k]>> :
                           k \in DOMAIN mods[n].results} : n \in DOMAIN mods}

\* The results so far, each with the number of its module
Reported ==
    UNION {{<<Module.id, results[k]>> : k \in DOMAIN results},
           Results(modules),
           UNION {Results(groups[n].modules) : n \in DOMAIN groups}}

HostResult == [host : HostSet, called : BOOLEAN, errcode : {ERR_OK, ERR_FAILED}, json : Verdicts]
ModuleResult == [module : 1..IdBound, errcode : {ERR_OK}, results : Seq(HostResult)]
GroupResult == [errcode : {-1}, modules : Seq(ModuleResult)]

\* Types, and: the results of the current module are those of the hosts before
\* the current one, none of an earlier module among them.
SshTypeOK ==
    /\ dirs \in [HostSet -> SUBSET DirSet]
    /\ bin \in [HostSet -> [Files -> {"none", "partial", "whole"}]]
    /\ ran \in [HostSet -> Seq(1..IdBound)] /\ faults \in 0..MaxFaults
    /\ setting \in Settings /\ state \in States
    /\ g \in 1..Len(state) + 1 /\ m \in Nat \ {0} /\ h \in 1..Len(Hosts) + 1
    /\ pc \in {"module", "first", "second", "shell", "record"} \cup InInstall \cup Ends
    /\ conn \in {"none", "open", "dead"} /\ last \in Outcomes
    /\ results \in Seq(HostResult) /\ modules \in Seq(ModuleResult)
    /\ groups \in Seq(GroupResult) /\ response \in Seq(GroupResult)
    /\ Len(results) = h - 1 /\ \A k \in DOMAIN results : results[k].host = Hosts[k]

\* How often n is in a sequence
Count(s, n) == Cardinality({k \in DOMAIN s : s[k] = n})

\* How often module n was executed on host f
Runs(f, n) == Count(ran[f], n)

\* How often host f is among the first n
Times(f, n) == Cardinality({k \in 1..n : Hosts[k] = f})

\* The second attempt of callHost may repeat a module that did run, when only
\* the answer was lost; but never is one executed a third time, nor twice
\* without a permanent directory, for each time the host was added.
AtMostTwice ==
    \A f \in HostSet, n \in 1..IdBound :
        Runs(f, n) <= (IF setting.perma THEN 2 ELSE 1) * Times(f, Len(Hosts))

\* installPermanentClient never damages a client that is in place: copies over
\* it are out of reach, whatever went wrong before.
ClientStays == [][\A f \in HostSet : Installed(f) => Installed(f)']_sshVars

\* A result without an error tells of a module that was executed on that host,
\* if it shows an answer, and whenever the host has the module.  (For a module
\* the host does not have, the remote runner ends with code 0 and nothing was
\* executed.)
AnswersAreTrue ==
    \A r \in Reported :
        r[2].called /\ r[2].errcode = ERR_OK /\ (r[2].json # "none" \/ Finds(r[2].host, r[1])) =>
            \E k \in DOMAIN ran[r[2].host] : ran[r[2].host][k] = r[1]

\* The ids of those of the first n modules of a group that leave a trace
Supported(group, n) == {group[k].id : k \in {k \in 1..n : group[k].kind # "other"}}

\* mods reports the first n modules of a group, in their order, each with one
\* result per host in the order of the hosts.
Covers(mods, group, n) ==
    /\ {mods[k].module : k \in DOMAIN mods} = Supported(group, n)
    /\ \A j, k \in DOMAIN mods : j < k => mods[j].module < mods[k].module
    /\ \A k \in DOMAIN mods : [i \in DOMAIN mods[k].results |-> mods[k].results[i].host] = Hosts

\* The response of a finished run has an entry for each supported module of
\* each group, in the order of the nanostate, and in it one result per host in
\* the order of the hosts.
ReportComplete ==
    pc = "done" =>
        /\ Len(response) = Len(state)
        /\ \A n \in DOMAIN state : Covers(response[n].modules, state[n], Len(state[n]))

\* A result claims that module n was executed if it is no error, and shows a
\* verdict or is of a host that has the module.
Claims(r, n) == r.errcode = ERR_OK /\ (r.json # "none" \/ Finds(r.host, n))

\* What a sequence of results tells of the calls of module n
Tells(n, rs) == {<<n, k, Claims(rs[k], n)>> : k \in {k \in DOMAIN rs : rs[k].called}}
ToldBy(mods) == UNION {Tells(mods[k].module, mods[k].results) : k \in DOMAIN mods}
ToldByGroups(gs) == UNION {ToldBy(gs[a].modules) : a \in DOMAIN gs}

Told == Tells(Module.id, results) \cup ToldBy(modules) \cup ToldByGroups(groups)

\* Every Ansible module is asked for on every host.
AnsibleIds == UNION {{state[a][b].id : b \in {b \in DOMAIN state[a] : state[a][b].kind = "ansible"}} :
                       a \in DOMAIN state}
Asked == AnsibleIds \X DOMAIN Hosts

\* callHost has two attempts if there is a permanent directory; the second one
\* is left while the client is installed.
Limit == IF setting.perma THEN 2 ELSE 1
Again == {"second"} \cup InInstall
Calling == IF pc \in {"first", "record"} \cup Again THEN {<<Module.id, h>>} ELSE {}
Chances == CASE pc = "first" -> Limit [] pc \in Again -> 1 [] OTHER -> 0
Known == pc \in {"record"} \cup Again /\ last \in FromModule
Progress == CASE pc = "done" -> "finished"
              [] pc \in {"panicked", "exited"} -> "broken"
              [] OTHER -> "running"

\* The runner as an implementation of RemoteCalls
Promise == INSTANCE RemoteCalls WITH
    asked <- Asked, limit <- Limit, calling <- Calling, chances <- Chances, known <- Known,
    told <- Told, shown <- ToldByGroups(response), stage <- Progress

\* Modules are called on hosts one by one in order; a call has at most two
\* attempts, and no second one after it was answered; what is reported as
\* executed was executed in that very call; and the caller sees all answers of
\* a run that called everything, or none.
KeepsPromise == Promise!CallsSpec

\* The log made of the response has exactly as many errors as calls failed.
LogTellsTruth == pc = "done" => Errors(ToLog(response)) = Cardinality(Failures(response))

\* Without faults a fresh host gets the client by the first module that needs
\* it, in time for that module: every Ansible module runs on every host that has it.
FreshHostServed ==
    pc = "done" /\ faults = 0 /\ setting.perma /\ setting.static =>
        \A f \in HostSet : \A n \in DOMAIN state : \A k \in DOMAIN state[n] :
            state[n][k].kind = "ansible" /\ Finds(f, state[n][k].id) =>
                \E i \in DOMAIN ran[f] : ran[f][i] = state[n][k].id

\* No connection outlives callHost, by whichever way it is left, short of the
\* end of the process.
NoConnectionLeft == pc \in {"module", "done", "panicked"} => conn = "none"

\* Every run ends: there is neither a retry without end nor a step in which
\* the runner is stuck.
RunEnds == <>(pc \in Ends)

\* "SetPermanentMode takes a root path where it will will create the following
\* structure" (sshrunner.go): two Ansible modules and one fault are enough for
\* the structure to be there at the end; what one installation leaves undone
\* the next one does.
PermanentModeCreates ==
    pc = "done" /\ faults <= 1 /\ setting.perma /\ setting.static =>
        \A f \in HostSet : dirs[f] = DirSet
=============================================================================
