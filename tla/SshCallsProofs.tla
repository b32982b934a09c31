---------------------------- MODULE SshCallsProofs ----------------------------
(***************************************************************************)
(* What the SSH runner does on the hosts, proved for every list of hosts,  *)
(* every nanostate and any number of faults: what an answer says, how      *)
(* often a module is executed, and that fresh hosts are served.            *)
(*                                                                         *)
(* An answer is true because the outcome in hand is (InHand), and what is  *)
(* executed stays executed.  The bound on executions is a budget: Allowed  *)
(* is what the call in hand may have used up, one attempt before the       *)
(* second and two behind it, Bounded adds it for the current host to what  *)
(* the earlier ones of the list have had, and says that later modules have *)
(* none.  Without faults Prepared says what each stage of an installation  *)
(* has put in place, so that the second attempt finds the client, and      *)
(* PastServed that the hosts before the current one are served.            *)
(***************************************************************************)
EXTENDS SshRunnerProofs

\* Module n was executed on host f.
Ran(f, n) == \E k \in DOMAIN ran[f] : ran[f][k] = n

-----------------------------------------------------------------------------
(* Executions *)

\* What was executed stays executed.
LEMMA RanGrows == ASSUME SshInv, [RunStep]_sshVars
                  PROVE  \A f \in HostSet : \A n : Ran(f, n) => Ran(f, n)'
<1>1. ran \in [HostSet -> Seq(1..IdBound)]
    BY DEF SshInv, SshTypeOK
<1>2. CASE UNCHANGED ran
    BY <1>2 DEF Ran
<1>3. CASE FirstAttempt \/ SecondAttempt
  <2>1. pc \in CallStages /\ \E o \in Outcomes : Attempt(o)
    BY <1>3 DEF FirstAttempt, SecondAttempt, Session, CallStages
  <2>2. Fqdn \in HostSet /\ Module.id \in 1..IdBound
    BY <2>1, CallFacts
  <2>3. ran' = ran \/ ran' = [ran EXCEPT ![Fqdn] = Append(@, Module.id)]
    BY <2>1, AttemptDoes DEF SshInv
  <2>4. CASE ran' = [ran EXCEPT ![Fqdn] = Append(@, Module.id)]
    <3>1. \A f \in HostSet : f # Fqdn => ran'[f] = ran[f]
      BY <1>1, <2>4
    <3>2. ran'[Fqdn] = Append(ran[Fqdn], Module.id) /\ ran[Fqdn] \in Seq(1..IdBound)
      BY <1>1, <2>2, <2>4
    <3>3. \A k \in DOMAIN ran[Fqdn] : k \in DOMAIN ran'[Fqdn] /\ ran'[Fqdn][k] = ran[Fqdn][k]
      BY <2>2, <3>2, AppendProperties, LenProperties
    <3> QED
      BY <2>2, <3>1, <3>3 DEF Ran
  <2> QED
    BY <1>2, <2>3, <2>4
<1> QED
    BY <1>2, <1>3, WhoChangesHosts

\* An attempt that executed the module
LEMMA AttemptRan == ASSUME SshInv, pc \in CallStages, UNCHANGED <<state, position>>,
                           ran' = [ran EXCEPT ![Fqdn] = Append(@, Module.id)]
                    PROVE  Ran(Fqdn, Module.id)'
<1>1. Fqdn \in HostSet /\ Module.id \in 1..IdBound /\ Fqdn' = Fqdn /\ Module.id' = Module.id
    BY CallFacts DEF position, Fqdn, Module
<1>2. ran[Fqdn] \in Seq(1..IdBound) /\ ran'[Fqdn] = Append(ran[Fqdn], Module.id)
    BY <1>1 DEF SshInv, SshTypeOK
<1>3. \E k \in DOMAIN ran'[Fqdn] : ran'[Fqdn][k] = Module.id
    BY <1>1, <1>2, AppendProperties, LenProperties
<1> QED
    BY <1>1, <1>3 DEF Ran

-----------------------------------------------------------------------------
(* Answers *)

\* AnswersAreTrue, of one result, of a module, and of the report
TrueOf(r, id) == r.called /\ r.errcode = ERR_OK /\ (r.json # "none" \/ Finds(r.host, id)) =>
                     Ran(r.host, id)
TrueResults(id, rs) == \A k \in DOMAIN rs : TrueOf(rs[k], id)
TrueModules(mods) == \A n \in DOMAIN mods : TrueResults(mods[n].module, mods[n].results)

\* The outcome that Record is about to report
InHand == pc = "record" /\ ~Errored(last)
          /\ (last \in Verdicts \ {"none"} \/ Finds(Fqdn, Module.id)) => Ran(Fqdn, Module.id)

AnswersInv ==
    /\ InHand /\ TrueResults(Module.id, results) /\ TrueModules(modules)
    /\ \A n \in DOMAIN groups : TrueModules(groups[n].modules)

\* What is true of every level of the report is true of all that is in it.
LEMMA ReportTells == AnswersInv => AnswersAreTrue
<1> SUFFICES ASSUME AnswersInv, NEW t \in Reported PROVE TrueOf(t[2], t[1])
    BY DEF AnswersAreTrue, TrueOf, Ran
<1>1. CASE t \in {<<Module.id, results[k]>> : k \in DOMAIN results}
    BY <1>1 DEF AnswersInv, TrueResults
<1>2. ASSUME NEW mods, TrueModules(mods), t \in Results(mods) PROVE TrueOf(t[2], t[1])
  <2>1. PICK n \in DOMAIN mods : t \in {<<mods[n].module, mods[n].results[k]>> : k \in DOMAIN mods[n].results}
    BY <1>2 DEF Results
  <2> QED
    BY <1>2, <2>1 DEF TrueModules, TrueResults
<1>3. \/ t \in {<<Module.id, results[k]>> : k \in DOMAIN results}
      \/ t \in Results(modules)
      \/ \E n \in DOMAIN groups : t \in Results(groups[n].modules)
    BY DEF Reported
<1> QED
    BY <1>1, <1>2, <1>3 DEF AnswersInv

\* What the report says of executions stays true.
LEMMA StaysTrue ==
    ASSUME SshInv, [RunStep]_sshVars
    PROVE  /\ \A id : \A rs \in Seq(HostResult) : TrueResults(id, rs) => TrueResults(id, rs)'
           /\ \A mods \in Seq(ModuleResult) : TrueModules(mods) => TrueModules(mods)'
<1>1. ASSUME NEW id, NEW r \in HostResult, TrueOf(r, id) PROVE TrueOf(r, id)'
  <2>1. r.host \in HostSet
    BY DEF HostResult
  <2> QED
    BY <1>1, <2>1, RanGrows DEF TrueOf
<1>2. ASSUME NEW id, NEW rs \in Seq(HostResult), TrueResults(id, rs) PROVE TrueResults(id, rs)'
  <2>1. \A k \in DOMAIN rs : rs[k] \in HostResult
    BY LenProperties, ElementOfSeq
  <2> QED
    BY <1>1, <1>2, <2>1 DEF TrueResults
<1>3. ASSUME NEW mods \in Seq(ModuleResult), TrueModules(mods) PROVE TrueModules(mods)'
  <2>1. \A n \in DOMAIN mods : mods[n] \in ModuleResult
    BY LenProperties, ElementOfSeq
  <2>2. \A n \in DOMAIN mods : mods[n].results \in Seq(HostResult)
    BY <2>1 DEF ModuleResult
  <2> QED
    BY <1>2, <1>3, <2>2 DEF TrueModules
<1> QED
    BY <1>2, <1>3

\* Only an attempt leads to a record.
LEMMA IntoRecord == ASSUME [RunStep]_sshVars, pc' = "record"
                    PROVE  FirstAttempt \/ SecondAttempt \/ UNCHANGED sshVars
<1>1. ~Moves
    BY MovesFacts
<1>2. CASE ArgsPanic \/ KeysPanic \/ Connect \/ ShellPanics \/ NoConnection \/ ProcessExits
    BY <1>2 DEF ArgsPanic, KeysPanic, Connect, ShellPanics, NoConnection, ProcessExits, Panic
<1>3. CASE MakeDir \/ MakeDirFails \/ AskArch \/ UnknownArch
    BY <1>3 DEF MakeDir, MakeDirFails, AskArch, UnknownArch, Panic
<1>4. CASE DialCopy \/ DialCopyFails \/ CopyFile \/ CopyDone
    BY <1>4 DEF DialCopy, DialCopyFails, CopyFile, CopyDone, Panic
<1> QED
    BY <1>1, <1>2, <1>3, <1>4 DEF RunStep, Moves

\* The outcome that is to be reported is true when it gets there.
LEMMA InHandHolds == ASSUME SshInv, InHand, [RunStep]_sshVars PROVE InHand'
<1> SUFFICES ASSUME pc' = "record", ~Errored(last'),
                    last' \in Verdicts \ {"none"} \/ Finds(Fqdn', Module.id')
             PROVE  Ran(Fqdn, Module.id)'
    BY DEF InHand
<1>1. CASE FirstAttempt \/ SecondAttempt
  <2>1. pc \in CallStages /\ UNCHANGED <<input, position>> /\ \E o \in Outcomes : Attempt(o)
    BY <1>1 DEF FirstAttempt, SecondAttempt, Session, CallStages
  <2>2. UNCHANGED <<state, position>> /\ Fqdn' = Fqdn /\ Module.id' = Module.id
    BY <2>1 DEF input, position, Fqdn, Module
  <2>3. PICK o \in Outcomes : Attempt(o)
    BY <2>1
  <2>4. last' = o /\ ~Errored(o)
    BY <2>3 DEF Attempt
  <2>5. Executes(o, Module.id) /\ o # "fatal"
    BY <2>3, <2>4 DEF Attempt, Errored, Succeeded, FromModule
  <2>6. o # "missing"
    <3>1. "missing" \notin Verdicts
      BY DEF Verdicts
    <3>2. o = "missing" => ~Finds(Fqdn, Module.id)
      BY <2>5 DEF Executes, Finds, FromModule
    <3> QED
      BY <2>2, <2>4, <3>1, <3>2
  <2>7. ran' = [ran EXCEPT ![Fqdn] = Append(@, Module.id)]
    BY <2>5, <2>6 DEF Executes
  <2> QED
    BY <2>1, <2>2, <2>7, AttemptRan
<1>2. CASE ~(FirstAttempt \/ SecondAttempt)
  <2>1. UNCHANGED sshVars
    BY <1>2, IntoRecord
  <2> QED
    BY <2>1 DEF sshVars, remote, input, position, InHand, Ran, Fqdn, Module
<1> QED
    BY <1>1, <1>2

\* The result that ShellEmpty and Record add is true.
LEMMA AddsTruth == ASSUME SshInv, InHand, ShellEmpty \/ Record
                   PROVE  \E r \in HostResult : results' = Append(results, r) /\ TrueOf(r, Module.id)'
<1>1. Fqdn \in HostSet /\ UNCHANGED ran
    BY CallFacts DEF ShellEmpty, Record, CallStages, remote
<1>2. CASE ShellEmpty
  <2> DEFINE r == [host |-> Fqdn, called |-> FALSE, errcode |-> ERR_OK, json |-> "none"]
  <2>1. results' = Append(results, r) /\ ~r.called
    BY <1>2 DEF ShellEmpty
  <2>2. r \in HostResult
    BY <1>1 DEF HostResult, Verdicts
  <2>3. UNCHANGED Module
    BY <1>2 DEF ShellEmpty, input, Module
  <2> HIDE DEF r
  <2> QED
    BY <2>1, <2>2, <2>3 DEF TrueOf
<1>3. CASE Record
  <2> DEFINE json == IF last \in Verdicts THEN last ELSE "none"
             r == [host |-> Fqdn, called |-> TRUE, errcode |-> Code(last), json |-> json]
  <2>1. results' = Append(results, r) /\ r.host = Fqdn /\ r.json = json /\ r.errcode = Code(last)
    BY <1>3 DEF Record
  <2>2. json \in Verdicts /\ Code(last) \in {ERR_OK, ERR_FAILED} /\ (json # "none" => last \in Verdicts \ {"none"})
    BY DEF Verdicts, Code
  <2>3. Code(last) = ERR_OK => ~Errored(last)
    BY DEF Code, ERR_OK, ERR_FAILED
  <2>4. pc = "record" /\ UNCHANGED Module
    BY <1>3 DEF Record, input, Module
  <2> HIDE DEF json
  <2>5. r \in HostResult
    BY <1>1, <2>2 DEF HostResult
  <2> HIDE DEF r
  <2>6. r.errcode = ERR_OK /\ (r.json # "none" \/ Finds(r.host, Module.id)) => Ran(Fqdn, Module.id)
    BY <2>1, <2>2, <2>3, <2>4 DEF InHand
  <2>7. PICK q \in HostResult : q = r
    BY <2>5
  <2>8. Ran(q.host, Module.id) => Ran(q.host, Module.id)'
    BY <1>1, <2>4 DEF Ran
  <2>9. TrueOf(q, Module.id)'
    BY <2>1, <2>4, <2>6, <2>7, <2>8 DEF TrueOf
  <2> QED
    BY <2>1, <2>7, <2>9
<1> QED
    BY <1>2, <1>3

\* Every step keeps the report true.
LEMMA AnswersStepHolds == ASSUME SshInv, AnswersInv, [RunStep]_sshVars PROVE AnswersInv'
<1>1. /\ state \in States /\ g \in Nat /\ m \in Nat /\ h \in Nat
      /\ modules \in Seq(ModuleResult) /\ groups \in Seq(GroupResult) /\ results \in Seq(HostResult)
      /\ Len(results) = h - 1
    BY HostFacts, StateFacts DEF SshInv, SshTypeOK
<1>2. \A n \in DOMAIN groups : groups[n].modules \in Seq(ModuleResult)
  <2>1. \A n \in DOMAIN groups : groups[n] \in GroupResult
    BY <1>1, LenProperties, ElementOfSeq
  <2> QED
    BY <2>1 DEF GroupResult
<1>3. InHand'
    BY InHandHolds DEF AnswersInv
<1>4. TrueResults(Module.id, results) /\ TrueModules(modules)
      /\ \A n \in DOMAIN groups : TrueModules(groups[n].modules)
    BY DEF AnswersInv
<1>5. UNCHANGED modules => TrueModules(modules)'
    BY <1>1, <1>4, StaysTrue DEF TrueModules, TrueResults, TrueOf
<1>6. UNCHANGED groups => \A n \in DOMAIN groups' : TrueModules(groups[n].modules)'
    BY <1>1, <1>2, <1>4, StaysTrue DEF TrueModules, TrueResults, TrueOf
<1>7. results' = <<>> => TrueResults(Module.id, results)'
    BY DEF TrueResults
<1>8. UNCHANGED <<results, Module>> => TrueResults(Module.id, results)'
    BY <1>1, <1>4, StaysTrue DEF TrueResults, TrueOf
<1>9. h = 1 => results = <<>>
    BY <1>1, EmptySeq
<1>10. CASE ~Moves
  <2>1. UNCHANGED <<results, modules, groups, Module>>
    BY <1>10, StaysInPlace DEF report, position, input, Module
  <2> QED
    BY <1>3, <1>5, <1>6, <1>8, <2>1 DEF AnswersInv
<1>11. CASE SkipUnsupported
  <2>1. h = 1
    BY <1>11, PlaceFacts DEF SkipUnsupported, AtModule, SshInv, SshTypeOK, Located
  <2>2. UNCHANGED <<results, modules, groups>>
    BY <1>11 DEF SkipUnsupported, report
  <2> QED
    BY <1>3, <1>5, <1>6, <1>7, <1>9, <2>1, <2>2 DEF AnswersInv
<1>12. CASE FinishModule
  <2> DEFINE q == [module |-> Module.id, errcode |-> ERR_OK, results |-> results]
  <2>1. modules' = Append(modules, q) /\ results' = <<>> /\ UNCHANGED <<groups, ran>>
    BY <1>12 DEF FinishModule, remote
  <2>2. PICK e : e = q
    OBVIOUS
  <2>3. e.module = Module.id /\ e.results = results
    BY <2>2
  <2>4. TrueResults(e.module, e.results)'
    BY <1>4, <2>1, <2>3 DEF TrueResults, TrueOf, Ran
  <2>5. DOMAIN modules' = 1..Len(modules) + 1 /\ modules'[Len(modules) + 1] = e
        /\ \A n \in 1..Len(modules) : modules'[n] = modules[n] /\ n \in DOMAIN modules
    BY <1>1, <2>1, <2>2, AppendProperties, LenProperties
  <2>6. \A n \in DOMAIN modules' : n \in 1..Len(modules) \/ n = Len(modules) + 1
    BY <1>1, <2>5, LenProperties
  <2>7. \A n \in 1..Len(modules) : TrueResults(modules[n].module, modules[n].results)
    BY <1>4, <2>5 DEF TrueModules
  <2>8. \A n \in DOMAIN modules' : TrueResults(modules[n].module, modules[n].results)'
    <3>1. \A k, rs : TrueResults(k, rs) => TrueResults(k, rs)'
      BY <2>1 DEF TrueResults, TrueOf, Ran
    <3> SUFFICES ASSUME NEW n \in DOMAIN modules'
                 PROVE TrueResults(modules[n].module, modules[n].results)'
        OBVIOUS
    <3>2. PICK r : r = modules'[n]
        OBVIOUS
    <3>3. TrueResults(r.module, r.results)'
      <4>1. CASE n = Len(modules) + 1
        <5>1. r = e
          BY <2>5, <3>2, <4>1, Zenon
        <5> QED
          BY <2>4, <5>1
      <4>2. CASE n \in 1..Len(modules)
        <5>1. r = modules[n]
          BY <2>5, <3>2, <4>2, Zenon
        <5>2. TrueResults(r.module, r.results)
          BY <2>7, <4>2, <5>1, Zenon
        <5> QED
          BY <3>1, <5>2
      <4> QED
        BY <2>6, <4>1, <4>2, Zenon
    <3> QED
        BY <3>2, <3>3
  <2>9. TrueModules(modules)'
    BY <2>8 DEF TrueModules
  <2> QED
    BY <1>3, <1>6, <1>7, <2>1, <2>9 DEF AnswersInv
<1>13. CASE FinishGroup
  <2> DEFINE q == [errcode |-> -1, modules |-> modules]
  <2>1. groups' = Append(groups, q) /\ modules' = <<>> /\ UNCHANGED <<results, ran>> /\ ~Place
    BY <1>1, <1>13, PlaceFacts DEF FinishGroup, remote, SshInv
  <2>2. PICK e : e = q
    OBVIOUS
  <2>3. e.modules = modules
    BY <2>2
  <2>4. TrueModules(e.modules)'
    BY <1>4, <2>1, <2>3 DEF TrueModules, TrueResults, TrueOf, Ran
  <2>5. DOMAIN groups' = 1..Len(groups) + 1 /\ groups'[Len(groups) + 1] = e
        /\ \A n \in 1..Len(groups) : groups'[n] = groups[n] /\ n \in DOMAIN groups
    BY <1>1, <2>1, <2>2, AppendProperties, LenProperties
  <2>6. \A n \in DOMAIN groups' : n \in 1..Len(groups) \/ n = Len(groups) + 1
    BY <1>1, <2>5, LenProperties
  <2>7. \A n \in DOMAIN groups' : TrueModules(groups[n].modules)'
    <3>1. \A mods : TrueModules(mods) => TrueModules(mods)'
      BY <2>1 DEF TrueModules, TrueResults, TrueOf, Ran
    <3> SUFFICES ASSUME NEW n \in DOMAIN groups' PROVE TrueModules(groups[n].modules)'
        OBVIOUS
    <3>2. PICK mods : mods = groups'[n].modules
        OBVIOUS
    <3>3. CASE n = Len(groups) + 1
      <4>1. mods = modules
        BY <2>3, <2>5, <3>2, <3>3
      <4> QED
        BY <1>4, <3>1, <3>2, <4>1 DEF TrueModules
    <3>4. CASE n \in 1..Len(groups)
      <4>1. TrueModules(mods)
        BY <1>4, <2>5, <3>2, <3>4
      <4> QED
        BY <3>1, <3>2, <4>1 DEF TrueModules
    <3> QED
        BY <2>6, <3>3, <3>4
  <2>8. h = 1
    BY <1>1, <2>1 DEF SshInv, Located, SshTypeOK
  <2>9. TrueModules(modules)' /\ TrueResults(Module.id, results)'
    BY <1>7, <1>9, <2>1, <2>8 DEF TrueModules
  <2> QED
    BY <1>3, <2>7, <2>9 DEF AnswersInv
<1>14. CASE FinishRun
  <2>1. UNCHANGED <<results, modules, groups, Module>>
    BY <1>14 DEF FinishRun, position, input, Module
  <2> QED
    BY <1>3, <1>5, <1>6, <1>8, <2>1 DEF AnswersInv
<1>15. CASE ShellEmpty \/ Record
  <2>1. PICK r \in HostResult : results' = Append(results, r) /\ TrueOf(r, Module.id)'
    BY <1>15, AddsTruth DEF AnswersInv
  <2>2. UNCHANGED <<modules, groups, Module, ran>>
    BY <1>15 DEF ShellEmpty, Record, input, remote, Module
  <2>3. DOMAIN results' = 1..Len(results) + 1 /\ results'[Len(results) + 1] = r
        /\ \A n \in 1..Len(results) : results'[n] = results[n] /\ n \in DOMAIN results
    BY <1>1, <2>1, AppendProperties, LenProperties
  <2>4. \A n \in DOMAIN results' : n \in 1..Len(results) \/ n = Len(results) + 1
    BY <1>1, <2>3, LenProperties
  <2>5. TrueResults(Module.id, results)'
    BY <1>4, <2>1, <2>2, <2>3, <2>4 DEF TrueResults, TrueOf, Ran
  <2> QED
    BY <1>3, <1>5, <1>6, <2>2, <2>5 DEF AnswersInv
<1> QED
    BY <1>10, <1>11, <1>12, <1>13, <1>14, <1>15 DEF Moves

\* A result without an error tells of a module that was executed on that host,
\* whatever went wrong before the answer.
THEOREM AnswersHold == SshSpec => []AnswersAreTrue
<1>1. SshInit => AnswersInv
  <2> SUFFICES ASSUME SshInit PROVE AnswersInv
    OBVIOUS
  <2>1. results = <<>> /\ modules = <<>> /\ groups = <<>> /\ pc = "module"
    BY DEF SshInit
  <2> QED
    BY <2>1 DEF AnswersInv, InHand, TrueResults, TrueModules
<1>2. SshInv /\ AnswersInv /\ [RunStep]_sshVars => AnswersInv'
    BY AnswersStepHolds
<1> QED
    BY <1>1, <1>2, SshInitHolds, SshStepHolds, ReportTells, PTL DEF SshSpec

-----------------------------------------------------------------------------
(* How often a module is executed *)

\* Module n comes after the current one; and: it is the current one.
Later(n) == \E a \in DOMAIN state : \E b \in DOMAIN state[a] :
                (a > g \/ (a = g /\ b > m)) /\ state[a][b].id = n
IsCurrent(n) == Place /\ Module.id = n

\* How many attempts the call in hand may have made
Allowed == IF pc = "record" THEN Limit ELSE IF pc \in {"second"} \cup InInstall THEN 1 ELSE 0
Here(f) == IF pc \in CallStages /\ f = Fqdn THEN Allowed ELSE 0

\* An attempt never starts beyond the budget of its call, and what comes after
\* the current module was not yet executed.
Bounded ==
    /\ pc \in {"second"} \cup InInstall => Limit = 2
    /\ \A f \in HostSet, n \in 1..IdBound :
         /\ Runs(f, n) <= Limit * Times(f, Len(Hosts))
         /\ Later(n) => Runs(f, n) = 0
         /\ IsCurrent(n) /\ pc \notin {"panicked", "exited"} =>
              Runs(f, n) <= Limit * Times(f, h - 1) + Here(f)

\* How often an element is in a sequence is a number.
LEMMA CountType == ASSUME NEW S, NEW s \in Seq(S), NEW n
                   PROVE  Count(s, n) \in Nat
<1>1. DOMAIN s = 1..Len(s) /\ Len(s) \in Nat
    BY LenProperties
<1>2. IsFiniteSet(1..Len(s))
    BY <1>1, FS_Interval
<1>3. {k \in DOMAIN s : s[k] = n} \subseteq 1..Len(s)
    BY <1>1
<1> QED
    BY <1>2, <1>3, FS_Subset, FS_CardinalityType DEF Count

\* One more element counts once.
LEMMA CountAppend == ASSUME NEW s \in Seq(1..IdBound), NEW e \in 1..IdBound, NEW n
                     PROVE  Count(Append(s, e), n) = Count(s, n) + IF n = e THEN 1 ELSE 0
<1> DEFINE t == Append(s, e)
           At(q) == {k \in DOMAIN q : q[k] = n}
<1>1. /\ Len(s) \in Nat /\ DOMAIN s = 1..Len(s) /\ DOMAIN t = 1..(Len(s) + 1)
      /\ \A k \in 1..Len(s) : t[k] = s[k]
      /\ t[Len(s) + 1] = e
    BY AppendProperties, LenProperties
<1> HIDE DEF t
<1>2. IsFiniteSet(At(s)) /\ Len(s) + 1 \notin At(s) /\ Cardinality(At(s)) \in Nat
  <2>1. IsFiniteSet(1..Len(s)) /\ At(s) \subseteq 1..Len(s)
    BY <1>1, FS_Interval
  <2> QED
    BY <1>1, <2>1, FS_Subset, FS_CardinalityType
<1>3. Count(s, n) = Cardinality(At(s)) /\ Count(Append(s, e), n) = Cardinality(At(t))
    BY DEF Count, t
<1>4. CASE n = e
  <2>1. At(t) = At(s) \cup {Len(s) + 1}
    BY <1>1, <1>4
  <2>2. Cardinality(At(t)) = Cardinality(At(s)) + 1
    BY <1>2, <2>1, FS_AddElement
  <2> HIDE DEF At
  <2> QED
    BY <1>3, <1>4, <2>2
<1>5. CASE n # e
  <2>1. At(t) = At(s)
    BY <1>1, <1>5
  <2> HIDE DEF At
  <2> QED
    BY <1>2, <1>3, <1>5, <2>1
<1> QED
    BY <1>4, <1>5

\* Times counts the places of a host.
LEMMA TimesFacts ==
    ASSUME NEW f, NEW n \in 0..Len(Hosts)
    PROVE  /\ Times(f, n) \in Nat /\ Times(f, n) <= Times(f, Len(Hosts))
           /\ n > 0 => Times(f, n) = Times(f, n - 1) + IF Hosts[n] = f THEN 1 ELSE 0
<1> DEFINE At(k) == {i \in 1..k : Hosts[i] = f}
<1>1. Len(Hosts) \in Nat /\ n \in Nat
    BY HostFacts
<1>2. \A k \in Nat : IsFiniteSet(At(k)) /\ Cardinality(At(k)) \in Nat
  <2> SUFFICES ASSUME NEW k \in Nat PROVE IsFiniteSet(At(k)) /\ Cardinality(At(k)) \in Nat
    OBVIOUS
  <2>1. IsFiniteSet(1..k) /\ At(k) \subseteq 1..k
    BY FS_Interval
  <2> QED
    BY <2>1, FS_Subset, FS_CardinalityType
<1>3. At(n) \subseteq At(Len(Hosts))
    BY <1>1
<1>4. Times(f, n) <= Times(f, Len(Hosts))
    BY <1>1, <1>2, <1>3, FS_Subset DEF Times
<1>5. ASSUME n > 0 PROVE Cardinality(At(n)) = Cardinality(At(n - 1)) + IF Hosts[n] = f THEN 1 ELSE 0
  <2>1. n - 1 \in Nat /\ n \notin At(n - 1) /\ \A i : i \in 1..n <=> i \in 1..(n - 1) \/ i = n
    BY <1>1, <1>5
  <2>2. CASE Hosts[n] = f
    <3>1. At(n) = At(n - 1) \cup {n}
      BY <2>1, <2>2
    <3>2. IsFiniteSet(At(n - 1))
      BY <1>2, <2>1
    <3> HIDE DEF At
    <3>3. Cardinality(At(n)) = Cardinality(At(n - 1)) + 1
      BY <2>1, <3>1, <3>2, FS_AddElement
    <3> QED
      BY <2>2, <3>3
  <2>3. CASE Hosts[n] # f
    <3>1. At(n) = At(n - 1)
      BY <2>1, <2>3
    <3>2. Cardinality(At(n - 1)) \in Nat
      BY <1>2, <2>1
    <3> HIDE DEF At
    <3> QED
      BY <2>3, <3>1, <3>2
  <2> QED
    BY <2>2, <2>3
<1> QED
    BY <1>1, <1>2, <1>4, <1>5 DEF Times

\* One attempt, or two
LEMMA LimitFacts == /\ Limit \in {1, 2}
                    /\ \A x, y \in Nat : x <= y => Limit * x <= Limit * y
                    /\ \A x \in Nat : Limit * x \in Nat /\ Limit * (x + 1) = Limit * x + Limit
<1>1. Limit \in {1, 2}
    BY DEF Limit
<1>2. CASE Limit = 1
    BY <1>2
<1>3. CASE Limit = 2
    BY <1>3
<1> QED
    BY <1>1, <1>2, <1>3

\* What comes later is another module.
LEMMA LaterIds == ASSUME SshInv, Place, NEW n, Later(n) PROVE n # Module.id
<1>1. /\ state \in States /\ g \in DOMAIN state /\ m \in DOMAIN state[g]
      /\ Numbered(state)
    BY StatesAssumption DEF SshInv, SshTypeOK, Place
<1>2. PICK a \in DOMAIN state : \E b \in DOMAIN state[a] :
                (a > g \/ (a = g /\ b > m)) /\ state[a][b].id = n
    BY DEF Later
<1>3. PICK b \in DOMAIN state[a] : (a > g \/ (a = g /\ b > m)) /\ state[a][b].id = n
    BY <1>2
<1>4. a \in Nat /\ g \in Nat /\ b \in Nat /\ m \in Nat
    BY <1>1, <1>3, StateFacts
<1>5. g < a \/ (g = a /\ m < b)
    BY <1>3, <1>4
<1>6. state[g][m].id < state[a][b].id
    BY <1>1, <1>2, <1>3, <1>5 DEF Numbered
<1>7. state[g][m].id \in Nat /\ state[a][b].id \in Nat
  <2>1. state[g][m] \in Mods /\ state[a][b] \in Mods
    BY <1>1, <1>2, <1>3, StateFacts
  <2> QED
    BY <2>1, BoundsAssumption DEF Mods
<1> QED
    BY <1>3, <1>6, <1>7 DEF Module

\* The place only moves on: to modules that were later.
LEMMA LaterComes ==
    ASSUME SshInv, [RunStep]_sshVars, NEW n
    PROVE  /\ Later(n)' => Later(n)
           /\ IsCurrent(n)' => \/ IsCurrent(n) /\ UNCHANGED <<g, m>>
                               \/ Later(n) /\ h' = 1 /\ pc' = "module"
<1>1. /\ state \in States /\ g \in Nat /\ m \in Nat /\ h \in Nat /\ state' = state
      /\ DOMAIN state = 1..Len(state) /\ Len(state) \in Nat
      /\ \A a \in DOMAIN state : DOMAIN state[a] = 1..Len(state[a]) /\ Len(state[a]) \in Nat
    BY StateFacts, HostFacts, FaultsCount DEF SshInv, SshTypeOK, input
<1>2. CASE UNCHANGED <<g, m>>
    BY <1>1, <1>2 DEF Later, IsCurrent, Place, Module
<1>3. CASE SkipUnsupported \/ FinishModule
  <2>1. g' = g /\ m' = m + 1 /\ pc' = "module"
    BY <1>3 DEF SkipUnsupported, FinishModule, AtModule
  <2>2. h' = 1
    <3>1. SkipUnsupported => h' = h /\ Place /\ Module.kind = "other"
      BY PlaceFacts DEF SkipUnsupported, AtModule, SshInv
    <3>2. FinishModule => h' = 1
      BY DEF FinishModule
    <3>3. h \in 1..Len(Hosts) + 1 /\ (h > 1 => Place /\ Module.kind # "other")
      BY DEF SshInv, SshTypeOK, Located
    <3> QED
      BY <1>1, <1>3, <3>1, <3>2, <3>3, HostFacts
  <2>3. Later(n)' => Later(n)
    BY <1>1, <2>1 DEF Later
  <2>4. IsCurrent(n)' => Later(n)
    BY <1>1, <2>1 DEF Later, IsCurrent, Place, Module
  <2> QED
    BY <2>1, <2>2, <2>3, <2>4
<1>4. CASE FinishGroup
  <2>1. g' = g + 1 /\ m' = 1 /\ pc' = "module" /\ h' = h /\ ~Place
    BY <1>1, <1>4, PlaceFacts DEF FinishGroup, SshInv
  <2>2. h' = 1
    BY <1>1, <2>1, HostFacts DEF SshInv, SshTypeOK, Located
  <2>3. Later(n)' => Later(n)
    BY <1>1, <2>1 DEF Later
  <2>4. IsCurrent(n)' => Later(n)
    BY <1>1, <2>1 DEF Later, IsCurrent, Place, Module
  <2> QED
    BY <2>1, <2>2, <2>3, <2>4
<1>5. CASE FinishRun \/ ShellEmpty \/ Record
    BY <1>2, <1>5 DEF FinishRun, ShellEmpty, Record, position
<1>6. CASE ~Moves
    BY <1>2, <1>6, StaysInPlace DEF position
<1> QED
    BY <1>3, <1>4, <1>5, <1>6 DEF Moves

\* Short of an attempt, no stage takes anything off the budget of the call.
LEMMA StagesAllow ==
    ASSUME [RunStep]_sshVars, ~Moves, ~(FirstAttempt \/ SecondAttempt),
           pc' \notin {"panicked", "exited"}
    PROVE  \/ pc' = pc
           \/ pc = "module"
           \/ pc \in InInstall /\ pc' \in {"second"} \cup InInstall
<1> USE DEF Panic, InInstall, Session
<1>1. CASE ArgsPanic \/ KeysPanic \/ ShellPanics \/ NoConnection \/ ProcessExits \/ DialCopyFails
    BY <1>1 DEF ArgsPanic, KeysPanic, ShellPanics, NoConnection, ProcessExits, DialCopyFails
<1>2. CASE Connect
    BY <1>2 DEF Connect, Calls, AtHost, AtModule
<1>3. CASE MakeDir \/ MakeDirFails \/ AskArch \/ UnknownArch
    BY <1>3 DEF MakeDir, MakeDirFails, AskArch, UnknownArch
<1>4. CASE DialCopy \/ CopyFile \/ CopyDone
    BY <1>4 DEF DialCopy, CopyFile, CopyDone
<1>5. CASE UNCHANGED sshVars
    BY <1>5 DEF sshVars
<1> QED
    BY <1>1, <1>2, <1>3, <1>4, <1>5 DEF RunStep, Moves

\* Budgets are numbers.
LEMMA BudgetType == ASSUME SshTypeOK, NEW f
                    PROVE  /\ Limit * Times(f, h - 1) \in Nat
                           /\ Here(f) \in Nat
<1>1. h - 1 \in 0..Len(Hosts)
    BY HostFacts DEF SshTypeOK
<1>2. Times(f, h - 1) \in Nat
    BY <1>1, TimesFacts
<1> QED
    BY <1>2, LimitFacts DEF Here, Allowed

\* Short of an attempt, the budget of the current module does not shrink.
LEMMA BudgetKept ==
    ASSUME SshInv, [RunStep]_sshVars, ~(FirstAttempt \/ SecondAttempt),
           pc' \notin {"panicked", "exited"}, UNCHANGED <<g, m>>, NEW f \in HostSet
    PROVE  Limit * Times(f, h - 1) + Here(f) <= (Limit * Times(f, h - 1) + Here(f))'
<1>1. /\ h \in 1..Len(Hosts) + 1 /\ Len(Hosts) \in Nat /\ Limit' = Limit /\ Limit \in {1, 2}
      /\ g \in Nat /\ m \in Nat
    BY HostFacts, LimitFacts, FaultsCount, StateFacts DEF SshInv, SshTypeOK, input, Limit
<1>2. \A k \in 1..Len(Hosts) + 1 : Times(f, k - 1) \in Nat /\ Limit * Times(f, k - 1) \in Nat
    BY <1>1, TimesFacts, LimitFacts
<1>3. Times(f, h - 1)' = Times(f, h' - 1)
    BY DEF Times
<1>4. CASE ~Moves
  <2>1. UNCHANGED h /\ Fqdn' = Fqdn
    BY <1>4, StaysInPlace DEF position, Fqdn
  <2>2. Here(f) <= Here(f)'
    <3>1. CASE pc' = pc
      BY <1>1, <2>1, <3>1 DEF Here, Allowed
    <3>2. CASE pc = "module"
      BY <1>1, <2>1, <3>2 DEF Here, Allowed, CallStages, InInstall
    <3>3. CASE pc \in InInstall /\ pc' \in {"second"} \cup InInstall
      BY <1>1, <2>1, <3>3 DEF Here, Allowed, CallStages, InInstall
    <3> QED
      BY <1>4, <3>1, <3>2, <3>3, StagesAllow
  <2>3. Here(f) \in Nat /\ Here(f)' \in Nat
    BY <1>1 DEF Here, Allowed
  <2> QED
    BY <1>1, <1>2, <1>3, <2>1, <2>2, <2>3
<1>5. CASE ShellEmpty \/ Record
  <2>1. h' = h + 1 /\ h <= Len(Hosts) /\ Fqdn = Hosts[h] /\ pc' = "module" /\ pc \in {"shell", "record"}
    BY <1>5, CallFacts DEF ShellEmpty, Record, CallStages
  <2>2. Times(f, h) = Times(f, h - 1) + IF Hosts[h] = f THEN 1 ELSE 0
    BY <1>1, <2>1, TimesFacts
  <2>3. Here(f) \in {0, IF Hosts[h] = f THEN Limit ELSE 0} /\ Here(f)' = 0
    BY <2>1 DEF Here, Allowed, CallStages, InInstall
  <2>4. Limit * Times(f, h) = Limit * Times(f, h - 1) + IF Hosts[h] = f THEN Limit ELSE 0
    BY <1>1, <1>2, <2>2, LimitFacts
  <2> QED
    BY <1>1, <1>2, <1>3, <2>1, <2>3, <2>4
<1>6. CASE FinishRun
  <2>1. UNCHANGED h /\ pc = "module" /\ pc' = "done"
    BY <1>6 DEF FinishRun, position
  <2> QED
    BY <1>1, <1>2, <1>3, <2>1 DEF Here, CallStages, InInstall
<1>7. CASE SkipUnsupported \/ FinishModule \/ FinishGroup
    BY <1>1, <1>7 DEF SkipUnsupported, FinishModule, FinishGroup
<1> QED
    BY <1>4, <1>5, <1>6, <1>7 DEF Moves

\* The attempts
LEMMA AttemptBounded ==
    ASSUME SshInv, Bounded, FirstAttempt \/ SecondAttempt
    PROVE  Bounded'
<1>1. /\ pc \in {"first", "second"} /\ UNCHANGED <<input, position>>
      /\ \E o \in Outcomes : Attempt(o) /\ pc' \in {"record", "second", "mkdir"}
                             /\ (pc' # "record" => pc = "first" /\ Errored(o) /\ setting.perma)
    BY DEF FirstAttempt, SecondAttempt, Session, AfterFirst
<1>2. pc \in CallStages /\ pc' \in CallStages
    BY <1>1 DEF CallStages, InInstall
<1>3. /\ Fqdn \in HostSet /\ Fqdn = Hosts[h] /\ h \in 1..Len(Hosts) /\ Place /\ Module.id \in 1..IdBound
      /\ Len(Hosts) \in Nat
    BY <1>2, CallFacts, HostFacts
<1>4. UNCHANGED <<setting, state, g, m, h, Fqdn, Module, Place, Limit>>
    BY <1>1 DEF input, position, Fqdn, Module, Place, Limit
<1>5. Limit \in {1, 2} /\ (pc = "second" => Limit = 2)
    BY LimitFacts DEF Bounded
<1>6. pc' \in {"second"} \cup InInstall => Limit' = 2
    BY <1>1, <1>4 DEF Limit, InInstall
<1>7. \A f \in HostSet : Here(f) = IF f = Fqdn /\ pc = "second" THEN 1 ELSE 0
    BY <1>1, <1>2 DEF Here, Allowed, InInstall
<1>8. \A f \in HostSet : f = Fqdn => Here(f)' >= Here(f) + 1
    BY <1>1, <1>2, <1>4, <1>5, <1>7 DEF Here, Allowed, InInstall
<1>9. \A f \in HostSet : f # Fqdn => Here(f)' = 0 /\ Here(f) = 0
    BY <1>4, <1>7 DEF Here
<1>10. \A f \in HostSet, n \in 1..IdBound :
           /\ Runs(f, n) \in Nat /\ Runs(f, n)' \in Nat
           /\ Runs(f, n)' <= Runs(f, n) + 1
           /\ f # Fqdn \/ n # Module.id => Runs(f, n)' = Runs(f, n)
  <2>1. PICK o \in Outcomes : Attempt(o)
    BY <1>1
  <2>2. ran \in [HostSet -> Seq(1..IdBound)]
    BY DEF SshInv, SshTypeOK
  <2>3. \A f \in HostSet, n \in 1..IdBound : Count(ran[f], n) \in Nat
    BY <2>2, CountType
  <2>4. \A s \in Seq(1..IdBound), id \in 1..IdBound, n \in 1..IdBound :
            Count(Append(s, id), n) = Count(s, n) + IF n = id THEN 1 ELSE 0
    BY CountAppend
  <2>5. CASE ran' = ran
    BY <2>3, <2>5 DEF Runs, Count
  <2>6. CASE ran' = [ran EXCEPT ![Fqdn] = Append(@, Module.id)]
    <3> SUFFICES ASSUME NEW f \in HostSet, NEW n \in 1..IdBound
                 PROVE  /\ Count(ran'[f], n) <= Count(ran[f], n) + 1 /\ Count(ran'[f], n) \in Nat
                        /\ f # Fqdn \/ n # Module.id => Count(ran'[f], n) = Count(ran[f], n)
        BY <2>3 DEF Runs, Count
    <3>1. CASE f # Fqdn
        BY <2>2, <2>3, <2>6, <3>1
    <3>2. CASE f = Fqdn
      <4>1. ran'[f] = Append(ran[f], Module.id) /\ ran[f] \in Seq(1..IdBound)
        BY <2>2, <2>6, <3>2
      <4>2. Count(Append(ran[f], Module.id), n) = Count(ran[f], n) + IF n = Module.id THEN 1 ELSE 0
        BY <1>3, <2>4, <4>1
      <4> QED
        BY <1>3, <2>3, <3>2, <4>1, <4>2
    <3> QED
        BY <3>1, <3>2
  <2> QED
    BY <2>1, <2>5, <2>6, AttemptDoes DEF SshInv
<1>11. ASSUME NEW f \in HostSet, NEW n \in 1..IdBound
       PROVE  /\ Runs(f, n)' <= (Limit * Times(f, Len(Hosts)))'
              /\ Later(n)' => Runs(f, n)' = 0
              /\ IsCurrent(n)' => Runs(f, n)' <= (Limit * Times(f, h - 1) + Here(f))'
  <2>1. /\ (Limit * Times(f, Len(Hosts)))' = Limit * Times(f, Len(Hosts))
        /\ (Limit * Times(f, h - 1))' = Limit * Times(f, h - 1)
    BY <1>4 DEF Times
  <2>2. (Later(n)' <=> Later(n)) /\ (IsCurrent(n)' <=> IsCurrent(n))
    BY <1>4 DEF Later, IsCurrent
  <2>3. /\ Runs(f, n) <= Limit * Times(f, Len(Hosts))
        /\ Later(n) => Runs(f, n) = 0
        /\ IsCurrent(n) => Runs(f, n) <= Limit * Times(f, h - 1) + Here(f)
    BY <1>1 DEF Bounded
  <2>4. Limit * Times(f, h - 1) \in Nat /\ Limit * Times(f, Len(Hosts)) \in Nat
    BY <1>3, TimesFacts, LimitFacts
  <2>5. Later(n) => n # Module.id
    BY <1>3, LaterIds
  <2>6. CASE f # Fqdn \/ n # Module.id
    <3>1. Runs(f, n)' = Runs(f, n) /\ Runs(f, n) \in Nat
      BY <1>10, <2>6
    <3>2. IsCurrent(n) => Here(f) = Here(f)'
      BY <1>9, <2>6 DEF IsCurrent
    <3> QED
      BY <2>1, <2>2, <2>3, <3>1, <3>2
  <2>7. CASE f = Fqdn /\ n = Module.id
    <3>1. Runs(f, n)' <= Runs(f, n) + 1 /\ Runs(f, n) \in Nat /\ Runs(f, n)' \in Nat
      BY <1>10
    <3>2. IsCurrent(n) /\ ~Later(n)
      BY <1>3, <2>5, <2>7 DEF IsCurrent
    <3>3. Here(f) + 1 <= Limit /\ Here(f) \in Nat /\ Here(f)' \in Nat /\ Here(f)' >= Here(f) + 1
      BY <1>4, <1>5, <1>7, <1>8, <2>7 DEF Here, Allowed
    <3>4. Limit * Times(f, h) = Limit * Times(f, h - 1) + Limit /\ Times(f, h) <= Times(f, Len(Hosts))
      <4>1. Times(f, h) = Times(f, h - 1) + 1 /\ Times(f, h) <= Times(f, Len(Hosts))
            /\ Times(f, h - 1) \in Nat
        BY <1>3, <2>7, TimesFacts
      <4> QED
        BY <4>1, LimitFacts
    <3>5. Limit * Times(f, h) <= Limit * Times(f, Len(Hosts)) /\ Limit * Times(f, h) \in Nat
      BY <1>3, <3>4, TimesFacts, LimitFacts
    <3>6. Runs(f, n) <= Limit * Times(f, h - 1) + Here(f)
      BY <2>3, <3>2
    <3>7. Runs(f, n)' <= Limit * Times(f, Len(Hosts))
      BY <1>5, <2>4, <3>1, <3>3, <3>4, <3>5, <3>6
    <3>8. Runs(f, n)' <= Limit * Times(f, h - 1) + Here(f)'
      BY <2>4, <3>1, <3>3, <3>6
    <3> QED
      BY <2>1, <2>2, <3>2, <3>7, <3>8
  <2> QED
    BY <2>6, <2>7
<1> QED
    BY <1>6, <1>11 DEF Bounded

\* Nothing follows the end of a run.
LEMMA EndsStay == ASSUME pc \in Ends, [RunStep]_sshVars PROVE UNCHANGED sshVars
<1> USE DEF Ends, Session, NeedsSession, Calls, AtHost, AtModule
<1>1. CASE SkipUnsupported \/ FinishModule \/ FinishGroup \/ FinishRun \/ ShellEmpty \/ Record
    BY <1>1 DEF SkipUnsupported, FinishModule, FinishGroup, FinishRun, ShellEmpty, Record
<1>2. CASE ArgsPanic \/ KeysPanic \/ Connect \/ ShellPanics \/ NoConnection \/ ProcessExits
    BY <1>2 DEF ArgsPanic, KeysPanic, Connect, ShellPanics, NoConnection, ProcessExits
<1>3. CASE FirstAttempt \/ SecondAttempt \/ MakeDir \/ MakeDirFails \/ AskArch \/ UnknownArch
    BY <1>3 DEF FirstAttempt, SecondAttempt, MakeDir, MakeDirFails, AskArch, UnknownArch
<1>4. CASE DialCopy \/ DialCopyFails \/ CopyFile \/ CopyDone
    BY <1>4 DEF DialCopy, DialCopyFails, CopyFile, CopyDone
<1> QED
    BY <1>1, <1>2, <1>3, <1>4 DEF RunStep

\* Every step keeps the bound.
LEMMA BoundedStepHolds == ASSUME SshInv, Bounded, [RunStep]_sshVars PROVE Bounded'
<1>1. CASE FirstAttempt \/ SecondAttempt
    BY <1>1, AttemptBounded
<1>2. CASE ~(FirstAttempt \/ SecondAttempt)
  <2>1. UNCHANGED <<ran, setting, Limit>> /\ Limit \in {1, 2} /\ Len(Hosts) \in Nat
    BY <1>2, WhoChangesHosts, FaultsCount, LimitFacts, HostFacts DEF input, Limit
  <2>2. pc' \in {"second"} \cup InInstall => Limit' = 2
    <3>1. ASSUME pc' \in {"second"} \cup InInstall PROVE pc \in {"second"} \cup InInstall
      <4>1. ~Moves
        BY <3>1, MovesFacts DEF InInstall
      <4>2. pc # "module"
        BY <1>2, <3>1, <4>1, StagesInPlace DEF CallStages, InInstall
      <4> QED
        BY <1>2, <3>1, <4>1, <4>2, StagesAllow DEF InInstall
    <3> QED
      BY <2>1, <3>1 DEF Bounded
  <2>3. \A f \in HostSet, n \in 1..IdBound : Runs(f, n) \in Nat
    BY CountType DEF Runs, SshInv, SshTypeOK
  <2>4. \A f : /\ Limit * Times(f, h - 1) + Here(f) \in Nat
                /\ (Limit * Times(f, h - 1) + Here(f))' \in Nat
    <3>1. \A f : Limit * Times(f, h - 1) + Here(f) \in Nat
      BY BudgetType DEF SshInv
    <3>2. h' - 1 \in 0..Len(Hosts)
      BY <2>1, PlaceKept
    <3>3. \A f : Times(f, h' - 1) \in Nat /\ Limit * Times(f, h' - 1) \in Nat
      BY <3>2, TimesFacts, LimitFacts
    <3>4. \A f : Here(f)' \in Nat /\ Times(f, h - 1)' = Times(f, h' - 1)
      BY <2>1 DEF Here, Allowed, Times
    <3> QED
      BY <2>1, <3>1, <3>3, <3>4
  <2>5. ASSUME NEW f \in HostSet, NEW n \in 1..IdBound
        PROVE  /\ Runs(f, n)' <= (Limit * Times(f, Len(Hosts)))'
               /\ Later(n)' => Runs(f, n)' = 0
               /\ IsCurrent(n)' /\ pc' \notin {"panicked", "exited"} =>
                    Runs(f, n)' <= (Limit * Times(f, h - 1) + Here(f))'
    <3>1. Runs(f, n)' = Runs(f, n) /\ (Limit * Times(f, Len(Hosts)))' = Limit * Times(f, Len(Hosts))
      BY <2>1 DEF Runs, Count, Times
    <3>2. /\ Runs(f, n) <= Limit * Times(f, Len(Hosts))
          /\ Later(n) => Runs(f, n) = 0
          /\ IsCurrent(n) /\ pc \notin {"panicked", "exited"} =>
               Runs(f, n) <= Limit * Times(f, h - 1) + Here(f)
      BY DEF Bounded
    <3>3. ASSUME IsCurrent(n)', pc' \notin {"panicked", "exited"}
          PROVE  Runs(f, n) <= (Limit * Times(f, h - 1) + Here(f))'
      <4>1. CASE Later(n) /\ h' = 1 /\ pc' = "module"
        <5>1. Here(f)' = 0
          BY <4>1 DEF Here, CallStages, InInstall
        <5>2. Times(f, h - 1)' = Times(f, 0)
          BY <4>1 DEF Times
        <5>3. Limit * Times(f, 0) \in Nat
          BY <2>1, TimesFacts, LimitFacts
        <5>4. Runs(f, n) = 0
          BY <3>2, <4>1
        <5> QED
          BY <2>1, <5>1, <5>2, <5>3, <5>4
      <4>2. CASE IsCurrent(n) /\ UNCHANGED <<g, m>>
        <5>1. pc \notin {"panicked", "exited"}
          BY <3>3, EndsStay DEF Ends, sshVars
        <5>2. Runs(f, n) <= Limit * Times(f, h - 1) + Here(f)
          BY <3>2, <4>2, <5>1
        <5>3. Limit * Times(f, h - 1) + Here(f) <= (Limit * Times(f, h - 1) + Here(f))'
          BY <1>2, <3>3, <4>2, BudgetKept
        <5>4. Runs(f, n) \in Nat /\ Limit * Times(f, h - 1) + Here(f) \in Nat
              /\ (Limit * Times(f, h - 1) + Here(f))' \in Nat
          BY <2>3, <2>4
        <5> QED
          BY <5>2, <5>3, <5>4
      <4> QED
        BY <3>3, <4>1, <4>2, LaterComes
    <3> QED
      BY <3>1, <3>2, <3>3, LaterComes
  <2> QED
    BY <2>2, <2>5 DEF Bounded
<1> QED
    BY <1>1, <1>2

\* No module is executed more than twice for each time that a host was added,
\* nor more than once without a permanent directory, for all faults of the
\* network.
THEOREM NeverAThirdTime == SshSpec => []AtMostTwice
<1>1. SshInit => Bounded
  <2> SUFFICES ASSUME SshInit PROVE Bounded
    OBVIOUS
  <2>1. pc = "module" /\ h = 1 /\ Len(Hosts) \in Nat /\ \A f \in HostSet : ran[f] = <<>>
    BY HostFacts DEF SshInit
  <2>2. \A f \in HostSet, n \in 1..IdBound : Runs(f, n) = 0
    <3>1. \A n : {k \in DOMAIN <<>> : <<>>[k] = n} = {}
      OBVIOUS
    <3> QED
      BY <2>1, <3>1, FS_EmptySet DEF Runs, Count
  <2>3. \A f : Limit * Times(f, Len(Hosts)) \in Nat /\ Limit * Times(f, h - 1) \in Nat /\ Here(f) = 0
    BY <2>1, TimesFacts, LimitFacts DEF Here, CallStages, InInstall
  <2> QED
    BY <2>1, <2>2, <2>3 DEF Bounded, InInstall
<1>2. SshInv /\ Bounded /\ [RunStep]_sshVars => Bounded'
    BY BoundedStepHolds
<1>3. Bounded => AtMostTwice
    BY DEF Bounded, AtMostTwice, Limit
<1> QED
    BY <1>1, <1>2, <1>3, SshInitHolds, SshStepHolds, PTL DEF SshSpec

-----------------------------------------------------------------------------
(* Fresh hosts *)

\* The static data of every architecture has the client.
ClientShips == \A a \in DOMAIN Runners : Client \in Range(Runners[a])

\* Nothing went wrong so far, and the client may be installed.
Smooth == faults = 0 /\ setting.perma /\ setting.static

\* The host has what the stage needs, or has nothing of the client yet.
Prepared ==
    /\ pc \notin {"panicked", "exited"} =>
         \A f \in HostSet : Installed(f) \/ dirs[f] = {} \/ (pc \in InInstall /\ f = Fqdn)
    /\ pc = "second" => Installed(Fqdn)
    /\ pc = "mkdir" => IsInjective(left) /\ (Installed(Fqdn) \/ dirs[Fqdn] \cap Range(left) = {})
    /\ pc \in {"dial", "copy"} => Installed(Fqdn) \/ Client \in Range(left)

Served(mod, f) == mod.kind = "ansible" /\ Finds(f, mod.id) => Ran(f, mod.id)

\* The hosts before the current one, and all hosts for the modules before the
\* current one, are served.
PastServed ==
    /\ \A a \in DOMAIN state : \A b \in DOMAIN state[a] :
         a < g \/ (a = g /\ b < m) => \A f \in HostSet : Served(state[a][b], f)
    /\ Place => \A k \in 1..(h - 1) : Served(Module, Hosts[k])
    /\ pc = "record" => Served(Module, Fqdn)

\* Without faults no step counts one.
LEMMA SmoothBefore == ASSUME SshInv, [RunStep]_sshVars, Smooth'
                      PROVE  Smooth /\ faults' = faults /\ ~Fault
<1>1. faults \in Nat /\ faults <= faults' /\ faults' = 0 /\ UNCHANGED setting
    BY FaultsCount, BoundsAssumption DEF SshInv, SshTypeOK, Smooth, input
<1>2. setting'.perma /\ setting'.static
    BY DEF Smooth
<1>3. setting.perma /\ setting.static
    BY <1>1, <1>2
<1> QED
    BY <1>1, <1>3 DEF Smooth, Fault

\* What is in a sequence is its head or in its rest.
LEMMA HeadAndRest == ASSUME NEW S, NEW s \in Seq(S), s # <<>>
                     PROVE  Range(s) \subseteq Range(Tail(s)) \cup {Head(s)}
<1> DEFINE t == Tail(s)
<1>1. /\ Len(s) \in Nat /\ DOMAIN s = 1..Len(s) /\ Head(s) = s[1]
      /\ DOMAIN t = 1..(Len(s) - 1)
      /\ \A n \in 1..(Len(s) - 1) : t[n] = s[n + 1]
    BY HeadTailProperties, LenProperties, EmptySeq
<1> HIDE DEF t
<1> SUFFICES ASSUME NEW n \in 1..Len(s), n # 1 PROVE s[n] \in Range(t)
    BY <1>1 DEF Range, t
<1>2. n - 1 \in DOMAIN t /\ t[n - 1] = s[n]
    BY <1>1
<1> QED
    BY <1>2 DEF Range

\* Without faults an installation puts in place what the second attempt needs.
LEMMA PreparedStepHolds ==
    ASSUME ClientShips, SshInv, Prepared, [RunStep]_sshVars, Smooth'
    PROVE  Prepared'
<1>1. Smooth /\ ~Fault
    BY SmoothBefore
<1>2. /\ dirs \in [HostSet -> SUBSET DirSet] /\ bin \in [HostSet -> [Files -> {"none", "partial", "whole"}]]
      /\ Client \in Files /\ LeftToDo
    BY DEF SshInv, SshTypeOK, Files
<1>3. pc \in CallStages => Fqdn \in HostSet
    BY CallFacts
<1>4. CASE Moves \/ Connect
  <2>1. UNCHANGED <<dirs, bin>> /\ pc' \in {"module", "done", "shell", "first"}
    BY <1>4, MovesFacts DEF Connect, remote
  <2>2. pc \in {"module", "shell", "record"}
    BY <1>4 DEF Moves, SkipUnsupported, FinishModule, FinishGroup, FinishRun, ShellEmpty, Record,
                Connect, Calls, AtHost, AtModule
  <2>3. \A f \in HostSet : Installed(f) \/ dirs[f] = {}
    BY <2>2 DEF Prepared, InInstall
  <2> QED
    BY <2>1, <2>3 DEF Prepared, Installed
<1>5. CASE pc' \in {"panicked", "exited"}
    BY <1>5 DEF Prepared
<1>6. CASE UNCHANGED sshVars
    BY <1>6 DEF sshVars, remote, position, Prepared, Installed, Fqdn
<1>7. CASE FirstAttempt
  <2>1. pc = "first" /\ pc' \in {"record", "mkdir"} /\ left' = Dirs
    BY <1>1, <1>7 DEF FirstAttempt, Session, AfterFirst, Smooth
  <2>2. UNCHANGED <<dirs, bin>> /\ Fqdn' = Fqdn
    BY <1>7 DEF FirstAttempt, position, Fqdn
  <2>3. \A f \in HostSet : Installed(f) \/ dirs[f] = {}
    BY <2>1 DEF Prepared, InInstall
  <2>4. Fqdn \in HostSet /\ IsInjective(left')
    BY <1>3, <2>1, DirsFacts DEF CallStages
  <2>5. Installed(Fqdn) \/ dirs[Fqdn] \cap Range(left') = {}
    BY <2>3, <2>4
  <2> QED
    BY <2>1, <2>2, <2>3, <2>4, <2>5 DEF Prepared, Installed
<1>8. CASE SecondAttempt
  <2>1. pc = "second" /\ pc' = "record" /\ UNCHANGED <<dirs, bin>>
    BY <1>8 DEF SecondAttempt, Session
  <2> QED
    BY <2>1 DEF Prepared, Installed, InInstall
<1>9. ASSUME MakeDir \/ MakeDirFails \/ AskArch \/ DialCopy \/ CopyFile \/ CopyDone
      PROVE  pc \in CallStages \cap InInstall /\ Fqdn \in HostSet /\ Fqdn' = Fqdn
  <2>1. pc \in CallStages \cap InInstall /\ UNCHANGED position
    BY <1>9 DEF MakeDir, MakeDirFails, AskArch, DialCopy, CopyFile, CopyDone, Session, CallStages, InInstall
  <2> QED
    BY <1>3, <2>1 DEF Fqdn, position
<1>10. CASE MakeDir
  <2>1. /\ pc = "mkdir" /\ left \in Seq(DirSet) /\ left # <<>> /\ left' = Tail(left)
        /\ dirs' = [dirs EXCEPT ![Fqdn] = @ \cup {Head(left)}]
        /\ pc' \in {"mkdir", "arch"} /\ UNCHANGED bin
    BY <1>2, <1>10 DEF MakeDir, Session, LeftToDo
  <2>2. IsInjective(left) /\ (Installed(Fqdn) \/ dirs[Fqdn] \cap Range(left) = {})
    BY <2>1 DEF Prepared
  <2>3. /\ IsInjective(left')
        /\ Range(left) = Range(left') \cup {Head(left)} /\ Head(left) \notin Range(left')
    BY <2>1, <2>2, RestOfInjective
  <2>4. dirs'[Fqdn] = dirs[Fqdn] \cup {Head(left)} /\ \A f \in HostSet : f # Fqdn => dirs'[f] = dirs[f]
    BY <1>2, <1>9, <1>10, <2>1
  <2>5. Installed(Fqdn) \/ dirs'[Fqdn] \cap Range(left') = {}
    BY <2>2, <2>3, <2>4
  <2>6. \A f \in HostSet : Installed(f) \/ dirs'[f] = {} \/ f = Fqdn
    BY <2>1, <2>4 DEF Prepared
  <2> QED
    BY <1>9, <1>10, <2>1, <2>3, <2>5, <2>6 DEF Prepared, Installed, InInstall
<1>11. CASE MakeDirFails
  <2>1. /\ pc = "mkdir" /\ Head(left) \in dirs[Fqdn] /\ UNCHANGED <<dirs, bin>> /\ pc' = "second"
        /\ left \in Seq(DirSet) /\ left # <<>>
    BY <1>1, <1>2, <1>11 DEF MakeDirFails, Session, LeftToDo
  <2>2. IsInjective(left) /\ (Installed(Fqdn) \/ dirs[Fqdn] \cap Range(left) = {})
    BY <2>1 DEF Prepared
  <2>3. Head(left) \in Range(left)
    BY <2>1, <2>2, RestOfInjective
  <2>4. Installed(Fqdn)
    BY <2>1, <2>2, <2>3
  <2>5. \A f \in HostSet : Installed(f) \/ dirs[f] = {}
    BY <2>1, <2>4 DEF Prepared
  <2> QED
    BY <1>9, <1>11, <2>1, <2>4, <2>5 DEF Prepared, Installed
<1>12. CASE AskArch
  <2>1. /\ pc = "arch" /\ pc' = "dial" /\ UNCHANGED <<dirs, bin>>
        /\ ArchOf[Fqdn] \in DOMAIN Runners /\ left' = Runners[ArchOf[Fqdn]]
    BY <1>1, <1>12 DEF AskArch, Session
  <2>2. Client \in Range(left')
    BY <2>1 DEF ClientShips
  <2>3. \A f \in HostSet : Installed(f) \/ dirs[f] = {} \/ f = Fqdn
    BY <2>1 DEF Prepared
  <2> QED
    BY <1>9, <1>12, <2>1, <2>2, <2>3 DEF Prepared, Installed, InInstall
<1>13. CASE DialCopy
  <2>1. pc = "dial" /\ pc' = "copy" /\ UNCHANGED <<dirs, bin, left>>
    BY <1>13 DEF DialCopy, remote
  <2>2. \A f \in HostSet : Installed(f) \/ dirs[f] = {} \/ f = Fqdn
    BY <2>1 DEF Prepared
  <2> QED
    BY <1>9, <1>13, <2>1, <2>2 DEF Prepared, Installed, InInstall
<1>14. CASE CopyFile
  <2>1. /\ pc = "copy" /\ pc' = "copy" /\ UNCHANGED dirs /\ left' = Tail(left)
        /\ left \in Seq(Files) /\ left # <<>>
        /\ bin' = [bin EXCEPT ![Fqdn][Head(left)] = "whole"]
    BY <1>1, <1>2, <1>14 DEF CopyFile, LeftToDo
  <2>2. Installed(Fqdn) \/ Client \in Range(left)
    BY <2>1 DEF Prepared
  <2>3. \A f \in HostSet : Installed(f) \/ dirs[f] = {} \/ f = Fqdn
    BY <2>1 DEF Prepared
  <2>4. /\ Head(left) \in Files /\ \A f \in HostSet : f # Fqdn => bin'[f] = bin[f]
        /\ bin'[Fqdn] = [bin[Fqdn] EXCEPT ![Head(left)] = "whole"]
    BY <1>2, <1>9, <1>14, <2>1, HeadTailProperties
  <2>5. Installed(Fqdn) \/ Client = Head(left) => Installed(Fqdn)'
    BY <1>2, <1>9, <1>14, <2>4 DEF Installed
  <2>6. Range(left) \subseteq Range(Tail(left)) \cup {Head(left)}
    BY <2>1, HeadAndRest
  <2>7. \A f \in HostSet : f # Fqdn => (Installed(f)' <=> Installed(f))
    BY <2>4 DEF Installed
  <2> QED
    BY <1>9, <1>14, <2>1, <2>2, <2>3, <2>5, <2>6, <2>7 DEF Prepared, InInstall
<1>15. CASE CopyDone
  <2>1. pc = "copy" /\ pc' = "second" /\ UNCHANGED <<dirs, bin>> /\ left = <<>>
    BY <1>15 DEF CopyDone, remote
  <2>2. Range(left) = {}
    BY <2>1 DEF Range
  <2>3. Installed(Fqdn)
    BY <2>1, <2>2 DEF Prepared
  <2>4. \A f \in HostSet : Installed(f) \/ dirs[f] = {}
    BY <2>1, <2>3 DEF Prepared
  <2> QED
    BY <1>9, <1>15, <2>1, <2>3, <2>4 DEF Prepared, Installed
<1>16. CASE ArgsPanic \/ KeysPanic \/ ShellPanics \/ NoConnection \/ ProcessExits \/ UnknownArch \/ DialCopyFails
    BY <1>5, <1>16 DEF ArgsPanic, KeysPanic, ShellPanics, NoConnection, ProcessExits, UnknownArch,
                       DialCopyFails, Panic
<1> QED
    BY <1>4, <1>6, <1>7, <1>8, <1>10, <1>11, <1>12, <1>13, <1>14, <1>15, <1>16 DEF RunStep, Moves

\* Without faults the attempt that is reported served the host.
LEMMA AttemptServes ==
    ASSUME SshInv, [RunStep]_sshVars, FirstAttempt \/ SecondAttempt, ~Fault,
           pc = "second" => Installed(Fqdn), pc' = "record", Smooth
    PROVE  Served(Module, Fqdn)'
<1>1. /\ pc \in {"first", "second"} /\ UNCHANGED <<input, position>>
      /\ \E o \in Outcomes : Attempt(o) /\ (pc = "second" \/ pc' = AfterFirst(o))
    BY DEF FirstAttempt, SecondAttempt, Session
<1>2. pc \in CallStages /\ UNCHANGED <<state, position>> /\ Fqdn' = Fqdn /\ Module' = Module
    BY <1>1 DEF CallStages, input, position, Fqdn, Module
<1>3. PICK o \in Outcomes : Attempt(o) /\ (pc = "second" \/ pc' = AfterFirst(o))
    BY <1>1
<1>4. CASE Installed(Fqdn)
  <2>1. Executes(o, Module.id)
    BY <1>3, <1>4 DEF Attempt
  <2>2. CASE Finds(Fqdn, Module.id)
    <3>1. ran' = [ran EXCEPT ![Fqdn] = Append(@, Module.id)]
      BY <2>1, <2>2 DEF Executes, Finds
    <3>2. Ran(Fqdn, Module.id)'
      BY <1>2, <3>1, AttemptRan
    <3> QED
      BY <3>2 DEF Served
  <2>3. CASE ~Finds(Fqdn, Module.id)
    BY <1>2, <2>3 DEF Served
  <2> QED
    BY <2>2, <2>3
<1>5. CASE ~Installed(Fqdn)
  <2>1. o = "absent" /\ pc' = "record"
    BY <1>3, <1>5 DEF Attempt
  <2>2. CASE pc = "first"
    <3>1. pc' = AfterFirst(o) /\ Errored(o)
      BY <1>3, <2>1, <2>2 DEF Errored, Succeeded, FromModule
    <3> QED
      BY <2>1, <3>1 DEF AfterFirst, Smooth
  <2>3. CASE pc = "second"
    BY <1>5, <2>3
  <2> QED
    BY <1>1, <2>2, <2>3
<1> QED
    BY <1>4, <1>5

\* Without faults the hosts behind the place are served.
LEMMA PastServedStepHolds ==
    ASSUME SshInv, Prepared, PastServed, [RunStep]_sshVars, Smooth'
    PROVE  PastServed'
<1>1. Smooth /\ ~Fault /\ state' = state
    BY SmoothBefore, FaultsCount DEF input
<1>2. /\ state \in States /\ g \in Nat /\ m \in Nat /\ h \in 1..Len(Hosts) + 1
      /\ DOMAIN state = 1..Len(state) /\ Len(state) \in Nat
      /\ \A a \in DOMAIN state : DOMAIN state[a] = 1..Len(state[a]) /\ Len(state[a]) \in Nat
      /\ Place <=> g <= Len(state) /\ m <= Len(state[g])
    BY StateFacts, HostFacts, PlaceFacts DEF SshInv, SshTypeOK
<1>3. Len(Hosts) \in Nat /\ \A k \in 1..Len(Hosts) : Hosts[k] \in HostSet
    BY HostFacts
<1>4. \A mod : \A f \in HostSet : Served(mod, f) => Served(mod, f)'
    BY RanGrows DEF Served
<1>4a. ASSUME NEW a \in DOMAIN state, NEW b \in DOMAIN state[a], NEW f \in HostSet,
              Served(state[a][b], f)
       PROVE  Served(state[a][b], f)'
  <2>1. PICK mod : mod = state[a][b]
    OBVIOUS
  <2>2. Served(mod, f)'
    BY <1>4, <1>4a, <2>1
  <2> QED
    BY <1>1, <2>1, <2>2 DEF Served
\* What is behind the place stays served.
<1>5. UNCHANGED <<g, m>> =>
        \A a \in DOMAIN state : \A b \in DOMAIN state[a] :
          a < g' \/ (a = g' /\ b < m') => \A f \in HostSet : Served(state[a][b], f)'
    BY <1>4a DEF PastServed
<1>6. UNCHANGED <<g, m, h>> => (Place' => \A k \in 1..(h' - 1) : Served(Module, Hosts[k])')
  <2> SUFFICES ASSUME UNCHANGED <<g, m, h>>, Place', NEW k \in 1..(h - 1)
               PROVE  Served(Module, Hosts[k])'
    BY <1>2
  <2>1. Place /\ Module' = Module /\ Hosts[k] \in HostSet
    BY <1>1, <1>2, <1>3 DEF Place, Module
  <2> QED
    BY <1>4, <2>1 DEF PastServed
<1>7. CASE ~Moves
  <2>1. UNCHANGED <<g, m, h, state, Fqdn, Module>>
    BY <1>7, StaysInPlace DEF position, input, Fqdn, Module
  <2>2. ASSUME pc' = "record" PROVE Served(Module, Fqdn)'
    <3>1. CASE FirstAttempt \/ SecondAttempt
      <4>1. pc = "second" => Installed(Fqdn)
        BY DEF Prepared
      <4> QED
        BY <1>1, <2>2, <3>1, <4>1, AttemptServes
    <3>2. CASE UNCHANGED sshVars
      <4>1. Served(Module, Fqdn)
        BY <2>2, <3>2 DEF PastServed, sshVars
      <4> QED
        BY <3>2, <4>1 DEF Served, Ran, sshVars, remote, input, position, Fqdn, Module
    <3> QED
      BY <2>2, <3>1, <3>2, IntoRecord
  <2> QED
    BY <1>1, <1>5, <1>6, <2>1, <2>2 DEF PastServed
<1>8. CASE ShellEmpty \/ Record
  <2>1. UNCHANGED <<g, m, ran>> /\ h' = h + 1 /\ pc' = "module" /\ pc \in {"shell", "record"}
    BY <1>8 DEF ShellEmpty, Record, remote
  <2>2. Place /\ Module' = Module /\ Fqdn = Hosts[h] /\ h \in 1..Len(Hosts)
    BY <1>1, <2>1, CallFacts DEF CallStages, Module
  <2>3. Served(Module, Hosts[h])
    <3>1. pc = "shell" => Module.kind = "shell"
      BY DEF SshInv, Located, CallStages
    <3> QED
      BY <2>1, <2>2, <3>1 DEF PastServed, Served
  <2>4. \A k \in 1..h : Hosts[k] \in HostSet /\ Served(Module, Hosts[k])
    <3>1. \A k \in 1..h : k = h \/ k \in 1..(h - 1)
      BY <1>2
    <3> QED
      BY <1>3, <2>2, <2>3, <3>1 DEF PastServed
  <2>5. \A k \in 1..h : Served(Module, Hosts[k])'
    BY <1>4, <2>2, <2>4
  <2>6. h' - 1 = h
    BY <1>2, <2>1
  <2> QED
    BY <1>1, <1>5, <2>1, <2>5, <2>6 DEF PastServed
<1>9. CASE SkipUnsupported \/ FinishModule
  <2>1. g' = g /\ m' = m + 1 /\ pc' = "module" /\ Place
    BY <1>2, <1>9 DEF SkipUnsupported, FinishModule, AtModule
  <2>2. \A f \in HostSet : Served(Module, f)
    <3>1. CASE SkipUnsupported
      BY <3>1 DEF SkipUnsupported, Served
    <3>2. CASE FinishModule
      <4>1. h = Len(Hosts) + 1
        BY <1>2, <1>3, <3>2 DEF FinishModule
      <4>2. \A k \in 1..Len(Hosts) : Served(Module, Hosts[k])
        BY <1>3, <2>1, <4>1 DEF PastServed
      <4> QED
        BY <4>2, HostFacts DEF HostSet
    <3> QED
      BY <1>9, <3>1, <3>2
  <2>3. h' = 1
    <3>1. SkipUnsupported => h' = h /\ Module.kind = "other"
      BY DEF SkipUnsupported
    <3>2. FinishModule => h' = 1
      BY DEF FinishModule
    <3>3. h > 1 => Module.kind # "other"
      BY DEF SshInv, Located
    <3> QED
      BY <1>2, <1>3, <1>9, <3>1, <3>2, <3>3
  <2>4. \A a \in DOMAIN state : \A b \in DOMAIN state[a] :
          a < g \/ (a = g /\ b < m + 1) => \A f \in HostSet : Served(state[a][b], f)
    <3> SUFFICES ASSUME NEW a \in DOMAIN state, NEW b \in DOMAIN state[a],
                        a < g \/ (a = g /\ b < m + 1), NEW f \in HostSet
                 PROVE  Served(state[a][b], f)
        OBVIOUS
    <3>1. a < g \/ (a = g /\ b < m) \/ (a = g /\ b = m)
        BY <1>2
    <3> QED
        BY <2>2, <3>1 DEF PastServed, Module
  <2>5. \A a \in DOMAIN state : \A b \in DOMAIN state[a] :
          a < g \/ (a = g /\ b < m + 1) => \A f \in HostSet : Served(state[a][b], f)'
    BY <1>4a, <2>4
  <2> QED
    BY <1>1, <2>1, <2>3, <2>5 DEF PastServed
<1>10. CASE FinishGroup
  <2>1. g' = g + 1 /\ m' = 1 /\ pc' = "module" /\ h' = h /\ ~Place /\ g <= Len(state) /\ m > Len(state[g])
    BY <1>2, <1>10 DEF FinishGroup
  <2>2. h' = 1
    BY <1>2, <1>3, <2>1 DEF SshInv, Located
  <2>3. \A a \in DOMAIN state : \A b \in DOMAIN state[a] :
          a < g + 1 \/ (a = g + 1 /\ b < 1) => a < g \/ (a = g /\ b < m)
    BY <1>2, <2>1
  <2>4. \A a \in DOMAIN state : \A b \in DOMAIN state[a] :
          a < g + 1 \/ (a = g + 1 /\ b < 1) => \A f \in HostSet : Served(state[a][b], f)'
    BY <1>4a, <2>3 DEF PastServed
  <2> QED
    BY <1>1, <2>1, <2>2, <2>4 DEF PastServed
<1>11. CASE FinishRun
  <2>1. UNCHANGED <<g, m, h>> /\ pc' = "done"
    BY <1>11 DEF FinishRun, position
  <2> QED
    BY <1>1, <1>5, <1>6, <2>1 DEF PastServed
<1> QED
    BY <1>7, <1>8, <1>9, <1>10, <1>11 DEF Moves

\* Without faults every Ansible module of a finished run was executed on every
\* host that has it, a host without the client included: the first module that
\* needs the client installs it.  The static data has to have the client.
THEOREM FreshHostsAreServed == ASSUME ClientShips PROVE SshSpec => []FreshHostServed
<1> DEFINE Inv == Smooth => Prepared /\ PastServed
<1>1. SshInit => Inv
  <2> SUFFICES ASSUME SshInit PROVE Prepared /\ PastServed
    OBVIOUS
  <2>1. /\ pc = "module" /\ g = 1 /\ m = 1 /\ h = 1 /\ state \in States
        /\ \A f \in HostSet : bin[f][Client] = "whole" \/ dirs[f] = {}
    BY DEF SshInit, Files
  <2>2. \A a \in DOMAIN state : \A b \in DOMAIN state[a] : ~(a < 1) /\ ~(b < 1)
    BY <2>1, StateFacts
  <2>3. 1..(h - 1) = {}
    BY <2>1
  <2> QED
    BY <2>1, <2>2, <2>3 DEF Prepared, PastServed, Installed
<1>2. SshInv /\ Inv /\ [RunStep]_sshVars => Inv'
    BY SmoothBefore, PreparedStepHolds, PastServedStepHolds
<1>3. SshInv /\ Inv => FreshHostServed
  <2> SUFFICES ASSUME SshInv, PastServed, pc = "done" PROVE
        \A f \in HostSet : \A n \in DOMAIN state : \A k \in DOMAIN state[n] : Served(state[n][k], f)
    BY DEF FreshHostServed, Smooth, Served, Ran
  <2>1. \A n \in DOMAIN state : n < g
    BY StateFacts DEF SshInv, SshTypeOK, Located
  <2> QED
    BY <2>1 DEF PastServed
<1> HIDE DEF Inv
<1> QED
    BY <1>1, <1>2, <1>3, SshInitHolds, SshStepHolds, PTL DEF SshSpec

-----------------------------------------------------------------------------
(* The calls that RemoteCalls promises *)

\* The calls made so far: those of earlier modules, and those of the current
\* one on earlier hosts
EarlierIds == {n \in AnsibleIds : \E a \in DOMAIN state : \E b \in DOMAIN state[a] :
                  /\ a < g \/ (a = g /\ b < m)
                  /\ state[a][b].kind = "ansible" /\ state[a][b].id = n}
MadeHere == IF Place /\ Module.kind = "ansible" THEN {Module.id} \X (1..(h - 1)) ELSE {}
Made == (EarlierIds \X DOMAIN Hosts) \cup MadeHere

\* The calls made are those that were told of.
CallsInv ==
    /\ {<<t[1], t[2]>> : t \in Told} = Made
    /\ pc \in Again => Errored(last)
    /\ pc = "record" /\ last = "missing" => ~Finds(Fqdn, Module.id)

\* One more result
LEMMA TellsMore ==
    ASSUME NEW n, NEW rs \in Seq(HostResult), NEW r \in HostResult
    PROVE  Tells(n, Append(rs, r)) =
             Tells(n, rs) \cup IF r.called THEN {<<n, Len(rs) + 1, Claims(r, n)>>} ELSE {}
<1> DEFINE more == Append(rs, r)
<1>1. /\ DOMAIN more = 1..(Len(rs) + 1) /\ more[Len(rs) + 1] = r
      /\ \A k \in 1..Len(rs) : more[k] = rs[k] /\ DOMAIN rs = 1..Len(rs) /\ Len(rs) \in Nat
    BY AppendProperties, LenProperties
<1> HIDE DEF more
<1>2. \A k : k \in DOMAIN more <=> k \in DOMAIN rs \/ k = Len(rs) + 1
    BY <1>1, LenProperties
<1>3. \A k \in DOMAIN rs : more[k] = rs[k]
    BY <1>1, LenProperties
<1>4. Tells(n, more) = Tells(n, rs) \cup IF r.called THEN {<<n, Len(rs) + 1, Claims(r, n)>>} ELSE {}
    BY <1>1, <1>2, <1>3 DEF Tells
<1> QED
    BY <1>4 DEF more

\* One more module
LEMMA ToldByMore ==
    ASSUME NEW S, NEW mods \in Seq(S), NEW e \in S
    PROVE  ToldBy(Append(mods, e)) = ToldBy(mods) \cup Tells(e.module, e.results)
<1> DEFINE more == Append(mods, e)
<1>1. /\ DOMAIN more = 1..(Len(mods) + 1) /\ more[Len(mods) + 1] = e
      /\ \A k \in 1..Len(mods) : more[k] = mods[k]
      /\ DOMAIN mods = 1..Len(mods) /\ Len(mods) \in Nat
    BY AppendProperties, LenProperties
<1> HIDE DEF more
<1>2. \A k : k \in DOMAIN more <=> k \in DOMAIN mods \/ k = Len(mods) + 1
    BY <1>1
<1>3. ToldBy(more) = ToldBy(mods) \cup Tells(e.module, e.results)
    BY <1>1, <1>2 DEF ToldBy
<1> QED
    BY <1>3 DEF more

\* One more group
LEMMA ToldByGroupsMore ==
    ASSUME NEW S, NEW gs \in Seq(S), NEW e \in S
    PROVE  ToldByGroups(Append(gs, e)) = ToldByGroups(gs) \cup ToldBy(e.modules)
<1> DEFINE more == Append(gs, e)
<1>1. /\ DOMAIN more = 1..(Len(gs) + 1) /\ more[Len(gs) + 1] = e
      /\ \A k \in 1..Len(gs) : more[k] = gs[k]
      /\ DOMAIN gs = 1..Len(gs) /\ Len(gs) \in Nat
    BY AppendProperties, LenProperties
<1> HIDE DEF more
<1>2. \A k : k \in DOMAIN more <=> k \in DOMAIN gs \/ k = Len(gs) + 1
    BY <1>1
<1>3. ToldByGroups(more) = ToldByGroups(gs) \cup ToldBy(e.modules)
    BY <1>1, <1>2 DEF ToldByGroups
<1> QED
    BY <1>3 DEF more

\* Nothing tells of nothing.
LEMMA NothingTold == /\ \A n : Tells(n, <<>>) = {}
                     /\ ToldBy(<<>>) = {} /\ ToldByGroups(<<>>) = {}
BY DEF Tells, ToldBy, ToldByGroups

\* The result that ShellEmpty and Record add, and what it tells: nothing of a
\* shell module, and of an Ansible module an execution only if that is known.
LEMMA RecordTells ==
    ASSUME SshInv, CallsInv, ShellEmpty \/ Record
    PROVE  \E r \in HostResult :
             /\ results' = Append(results, r) /\ (r.called <=> Record)
             /\ Record => Claims(r, Module.id) \in BOOLEAN /\ (Claims(r, Module.id) => Known)
<1>1. Fqdn \in HostSet
    BY CallFacts DEF ShellEmpty, Record, CallStages
<1>2. CASE ShellEmpty
  <2> DEFINE r == [host |-> Fqdn, called |-> FALSE, errcode |-> ERR_OK, json |-> "none"]
  <2>1. results' = Append(results, r) /\ ~r.called /\ ~Record
    BY <1>2 DEF ShellEmpty, Record
  <2>2. r \in HostResult
    BY <1>1 DEF HostResult, Verdicts
  <2> HIDE DEF r
  <2> QED
    BY <2>1, <2>2
<1>3. CASE Record
  <2> DEFINE json == IF last \in Verdicts THEN last ELSE "none"
             r == [host |-> Fqdn, called |-> TRUE, errcode |-> Code(last), json |-> json]
  <2>1. results' = Append(results, r)
    BY <1>3 DEF Record
  <2>2. r.host = Fqdn /\ r.json = json /\ r.errcode = Code(last) /\ r.called
    OBVIOUS
  <2>3. json \in Verdicts /\ Code(last) \in {ERR_OK, ERR_FAILED}
        /\ (json # "none" => last \in Verdicts \ {"none"})
    BY DEF Verdicts, Code
  <2>4. Code(last) = ERR_OK => last \in Succeeded
    BY DEF Code, ERR_OK, ERR_FAILED, Errored
  <2> HIDE DEF json
  <2>5. r \in HostResult
    BY <1>1, <2>3 DEF HostResult
  <2> HIDE DEF r
  <2>6. pc = "record" /\ (last = "missing" => ~Finds(Fqdn, Module.id))
    BY <1>3 DEF Record, CallsInv
  <2>7. Claims(r, Module.id) => last \in FromModule
    <3>1. Claims(r, Module.id) => last \in Succeeded /\ (json # "none" \/ Finds(Fqdn, Module.id))
      BY <2>2, <2>4 DEF Claims
    <3>2. "missing" \notin Verdicts
      BY DEF Verdicts
    <3> QED
      BY <2>3, <2>6, <3>1, <3>2 DEF Succeeded
  <2>8. Claims(r, Module.id) \in BOOLEAN
    BY DEF Claims
  <2> QED
    BY <1>3, <2>1, <2>2, <2>5, <2>6, <2>7, <2>8 DEF Known
<1> QED
    BY <1>2, <1>3

\* Results, modules and groups are passed on without a word lost; only Record
\* has something new to tell.
LEMMA ToldGrows ==
    ASSUME SshInv, CallsInv, [RunStep]_sshVars
    PROVE  /\ ~Record => Told' = Told
           /\ Record => \E x \in BOOLEAN : (x => Known) /\ Told' = Told \cup {<<Module.id, h, x>>}
<1>1. /\ modules \in Seq(ModuleResult) /\ groups \in Seq(GroupResult) /\ results \in Seq(HostResult)
      /\ Len(results) = h - 1 /\ h \in Nat
      /\ modules' \in Seq(ModuleResult) /\ groups' \in Seq(GroupResult)
    BY ReportTypes, HostFacts DEF SshInv, SshTypeOK
<1>2. h = 1 => results = <<>>
    BY <1>1, EmptySeq
<1>3. CASE ~Moves
  <2>1. UNCHANGED <<Module, results, modules, groups>> /\ ~Record
    BY <1>3, StaysInPlace DEF input, position, report, Module, Moves
  <2> QED
    BY <2>1 DEF Told
<1>4. CASE SkipUnsupported
  <2>1. h = 1 /\ UNCHANGED <<results, modules, groups>> /\ ~Record
    BY <1>4, PlaceFacts DEF SkipUnsupported, AtModule, report, Record, SshInv, SshTypeOK, Located
  <2> QED
    BY <1>2, <2>1, NothingTold DEF Told
<1>5. CASE FinishModule
  <2> DEFINE e == [module |-> Module.id, errcode |-> ERR_OK, results |-> results]
  <2>1. modules' = Append(modules, e) /\ results' = <<>> /\ UNCHANGED groups /\ ~Record
    BY <1>5 DEF FinishModule, Record, AtModule
  <2>2. e \in ModuleResult /\ e.module = Module.id /\ e.results = results
    <3>1. Module.id \in 1..IdBound
      BY <1>5, PlaceFacts, ModuleFacts DEF FinishModule, AtModule, SshInv, SshTypeOK
    <3> QED
      BY <1>1, <3>1 DEF ModuleResult
  <2> HIDE DEF e
  <2>3. ToldBy(modules') = ToldBy(modules) \cup Tells(Module.id, results)
    BY <1>1, <2>1, <2>2, ToldByMore
  <2> QED
    BY <2>1, <2>3, NothingTold DEF Told
<1>6. CASE FinishGroup
  <2> DEFINE e == [errcode |-> -1, modules |-> modules]
  <2>1. /\ groups' = Append(groups, e) /\ modules' = <<>> /\ UNCHANGED results /\ ~Record
        /\ g <= Len(state) /\ m > Len(state[g])
    BY <1>6 DEF FinishGroup, Record
  <2>2. e \in GroupResult /\ e.modules = modules
    BY <1>1 DEF GroupResult
  <2> HIDE DEF e
  <2>3. ToldByGroups(groups') = ToldByGroups(groups) \cup ToldBy(modules)
    BY <1>1, <2>1, <2>2, ToldByGroupsMore
  <2>4. results = <<>>
    <3>1. ~Place
      <4>1. Len(state[g]) \in Nat /\ m \in Nat /\ (Place <=> g <= Len(state) /\ m <= Len(state[g]))
        BY <2>1, PlaceFacts DEF SshInv, SshTypeOK
      <4> QED
        BY <2>1, <4>1
    <3>2. h = 1
      BY <3>1, <1>1, HostFacts DEF SshInv, SshTypeOK, Located
    <3> QED
      BY <1>2, <3>2
  <2> QED
    BY <2>1, <2>3, <2>4, NothingTold DEF Told
<1>7. CASE FinishRun
  <2>1. UNCHANGED <<Module, results, modules, groups>> /\ ~Record
    BY <1>7 DEF FinishRun, input, position, Module, Record
  <2> QED
    BY <2>1 DEF Told
<1>8. CASE ShellEmpty \/ Record
  <2>1. PICK r \in HostResult :
             /\ results' = Append(results, r) /\ (r.called <=> Record)
             /\ Record => Claims(r, Module.id) \in BOOLEAN /\ (Claims(r, Module.id) => Known)
    BY <1>8, RecordTells
  <2>2. UNCHANGED <<Module, modules, groups>>
    BY <1>8 DEF ShellEmpty, Record, input, Module
  <2>3. Tells(Module.id, results') = Tells(Module.id, results)
               \cup IF r.called THEN {<<Module.id, h, Claims(r, Module.id)>>} ELSE {}
    <3>1. Len(results) + 1 = h
      BY <1>1
    <3>2. \A n : Tells(n, Append(results, r)) = Tells(n, results)
               \cup IF r.called THEN {<<n, Len(results) + 1, Claims(r, n)>>} ELSE {}
      BY <1>1, TellsMore
    <3> QED
      BY <2>1, <3>1, <3>2
  <2>4. CASE ~Record
    BY <2>1, <2>2, <2>3, <2>4 DEF Told
  <2>5. CASE Record
    <3>1. PICK x \in BOOLEAN : x = Claims(r, Module.id)
      BY <2>1, <2>5
    <3>2. x => Known
      BY <2>1, <2>5, <3>1
    <3>3. Told' = Told \cup {<<Module.id, h, x>>}
      BY <2>1, <2>2, <2>3, <2>5, <3>1 DEF Told
    <3> QED
      BY <2>5, <3>2, <3>3
  <2> QED
    BY <2>4, <2>5
<1> QED
    BY <1>3, <1>4, <1>5, <1>6, <1>7, <1>8 DEF Moves

\* An id asked for is that of an Ansible module.
LEMMA AnsibleIdsFacts ==
    ASSUME SshInv
    PROVE  /\ \A n : n \in AnsibleIds <=> \E a \in DOMAIN state : \E b \in DOMAIN state[a] :
                        state[a][b].kind = "ansible" /\ state[a][b].id = n
           /\ AnsibleIds \subseteq 1..IdBound
<1>1. \A n : n \in AnsibleIds <=> \E a \in DOMAIN state : \E b \in DOMAIN state[a] :
                        state[a][b].kind = "ansible" /\ state[a][b].id = n
    BY DEF AnsibleIds
<1>2. state \in States
    BY DEF SshInv, SshTypeOK
<1>3. \A a \in DOMAIN state : \A b \in DOMAIN state[a] : state[a][b].id \in 1..IdBound
    BY <1>2, StateFacts DEF Mods
<1> QED
    BY <1>1, <1>3

\* The place moves over an Ansible module when it was called on every host.
LEMMA EarlierGrows ==
    ASSUME SshInv, [RunStep]_sshVars
    PROVE  /\ ~FinishModule => EarlierIds' = EarlierIds
           /\ FinishModule => EarlierIds' = EarlierIds \cup
                                IF Module.kind = "ansible" THEN {Module.id} ELSE {}
<1>1. /\ state \in States /\ g \in Nat \ {0} /\ m \in Nat /\ h \in Nat /\ state' = state
      /\ DOMAIN state = 1..Len(state) /\ Len(state) \in Nat
      /\ \A a \in DOMAIN state : DOMAIN state[a] = 1..Len(state[a]) /\ Len(state[a]) \in Nat
    BY StateFacts, HostFacts, FaultsCount DEF SshInv, SshTypeOK, input
<1>2. AnsibleIds' = AnsibleIds
    BY <1>1 DEF AnsibleIds
<1>3. CASE UNCHANGED <<g, m>>
  <2>1. ~FinishModule
    BY <1>1, <1>3 DEF FinishModule
  <2> QED
    BY <1>1, <1>2, <1>3, <2>1 DEF EarlierIds
<1>4. CASE SkipUnsupported \/ FinishModule
  <2>1. g' = g /\ m' = m + 1 /\ g \in DOMAIN state /\ m \in DOMAIN state[g]
    BY <1>4, PlaceFacts DEF SkipUnsupported, FinishModule, AtModule, SshInv, Place
  <2>2. \A a \in DOMAIN state : \A b \in DOMAIN state[a] :
          a < g \/ (a = g /\ b < m + 1) <=> (a < g \/ (a = g /\ b < m)) \/ (a = g /\ b = m)
    BY <1>1, <2>1
  <2>3. Module.kind = "ansible" => Module.id \in AnsibleIds
    BY <2>1, AnsibleIdsFacts DEF Module
  <2>4. EarlierIds' = EarlierIds \cup IF Module.kind = "ansible" THEN {Module.id} ELSE {}
    <3>1. \A n \in AnsibleIds : n \in EarlierIds' <=>
            \E a \in DOMAIN state : \E b \in DOMAIN state[a] :
                (a < g \/ (a = g /\ b < m + 1)) /\ state[a][b].kind = "ansible" /\ state[a][b].id = n
      BY <1>1, <1>2, <2>1 DEF EarlierIds
    <3>2. \A n \in AnsibleIds : n \in EarlierIds' <=>
            n \in EarlierIds \/ (state[g][m].kind = "ansible" /\ state[g][m].id = n)
      BY <2>1, <2>2, <3>1 DEF EarlierIds
    <3>3. EarlierIds \subseteq AnsibleIds /\ EarlierIds' \subseteq AnsibleIds
      BY <1>2 DEF EarlierIds
    <3> QED
      BY <2>3, <3>2, <3>3 DEF Module
  <2>5. SkipUnsupported => Module.kind = "other" /\ UNCHANGED h
    BY DEF SkipUnsupported
  <2>6. FinishModule => Module.kind # "other"
    BY DEF FinishModule
  <2> QED
    BY <1>4, <2>4, <2>5, <2>6
<1>5. CASE FinishGroup
  <2>1. g' = g + 1 /\ m' = 1 /\ g \in DOMAIN state /\ m > Len(state[g])
    BY <1>1, <1>5 DEF FinishGroup
  <2>2. \A a \in DOMAIN state : \A b \in DOMAIN state[a] :
          a < g + 1 \/ (a = g + 1 /\ b < 1) <=> a < g \/ (a = g /\ b < m)
    BY <1>1, <2>1
  <2>3. EarlierIds' = EarlierIds
    BY <1>1, <1>2, <2>1, <2>2 DEF EarlierIds
  <2>4. ~FinishModule
    BY <1>1, <1>5, <2>1 DEF FinishModule
  <2> QED
    BY <2>3, <2>4
<1>6. CASE FinishRun \/ ShellEmpty \/ Record
    BY <1>3, <1>6 DEF FinishRun, ShellEmpty, Record, position
<1>7. CASE ~Moves
    BY <1>3, <1>7, StaysInPlace DEF position
<1> QED
    BY <1>4, <1>5, <1>6, <1>7 DEF Moves

\* Only Record makes it one call more.
LEMMA MadeGrows ==
    ASSUME SshInv, [RunStep]_sshVars
    PROVE  /\ ~Record => Made' = Made
           /\ Record => Made' = Made \cup {<<Module.id, h>>}
<1>1. /\ state \in States /\ g \in Nat /\ m \in Nat /\ h \in 1..Len(Hosts) + 1 /\ state' = state
      /\ Len(Hosts) \in Nat /\ DOMAIN Hosts = 1..Len(Hosts)
    BY HostFacts, StateFacts, FaultsCount DEF SshInv, SshTypeOK, input
<1>2. h = 1 => MadeHere = {}
    BY <1>1 DEF MadeHere
<1>3. CASE UNCHANGED <<g, m, h>>
  <2>1. ~FinishModule /\ ~Record
    BY <1>1, <1>3 DEF FinishModule, Record
  <2>2. MadeHere' = MadeHere
    BY <1>1, <1>3 DEF MadeHere, Place, Module
  <2> QED
    BY <2>1, <2>2, EarlierGrows DEF Made
<1>4. CASE SkipUnsupported
  <2>1. h = 1 /\ h' = 1 /\ ~FinishModule /\ ~Record
    BY <1>1, <1>4, PlaceFacts
    DEF SkipUnsupported, AtModule, FinishModule, Record, SshInv, Located
  <2>2. MadeHere = {} /\ MadeHere' = {}
    BY <2>1 DEF MadeHere
  <2> QED
    BY <2>1, <2>2, EarlierGrows DEF Made
<1>5. CASE FinishModule
  <2>1. Place /\ h = Len(Hosts) + 1 /\ h' = 1 /\ ~Record
    BY <1>1, <1>5, PlaceFacts DEF FinishModule, AtModule, Record, SshInv
  <2>2. MadeHere' = {}
    BY <2>1 DEF MadeHere
  <2>3. MadeHere = (IF Module.kind = "ansible" THEN {Module.id} ELSE {}) \X DOMAIN Hosts
    BY <1>1, <2>1 DEF MadeHere
  <2> HIDE DEF MadeHere
  <2>4. EarlierIds' = EarlierIds \cup IF Module.kind = "ansible" THEN {Module.id} ELSE {}
    BY <1>5, EarlierGrows
  <2>5. Made' = Made
    BY <2>2, <2>3, <2>4 DEF Made
  <2> QED
    BY <2>1, <2>5
<1>6. CASE FinishGroup
  <2>1. g <= Len(state) /\ m > Len(state[g]) /\ h' = h /\ ~FinishModule /\ ~Record
    BY <1>6 DEF FinishGroup, Record, FinishModule, AtModule
  <2>2. Len(state[g]) \in Nat /\ (Place <=> g <= Len(state) /\ m <= Len(state[g]))
    BY <2>1, PlaceFacts DEF SshInv
  <2>3. ~Place
    BY <1>1, <2>1, <2>2
  <2>4. h = 1
    BY <1>1, <2>3 DEF SshInv, Located
  <2>5. MadeHere = {} /\ MadeHere' = {}
    BY <2>1, <2>4 DEF MadeHere
  <2> QED
    BY <1>1, <2>1, <2>5, EarlierGrows DEF Made
<1>7. CASE FinishRun
    BY <1>3, <1>7 DEF FinishRun, position
<1>8. CASE ShellEmpty \/ Record
  <2>1. /\ h' = h + 1 /\ UNCHANGED <<g, m>> /\ pc \in CallStages
        /\ ~FinishModule
    BY <1>1, <1>8 DEF ShellEmpty, Record, FinishModule, CallStages
  <2>2. Place /\ Module.kind = (IF ShellEmpty THEN "shell" ELSE "ansible") /\ (ShellEmpty <=> ~Record)
    BY <1>8, <2>1 DEF SshInv, Located, ShellEmpty, Record
  <2>3. Place' /\ Module' = Module /\ (Place' <=> Place)
    BY <1>1, <2>1, <2>2 DEF Place, Module
  <2>4. CASE ShellEmpty
    <3>1. MadeHere = {} /\ MadeHere' = {}
      BY <2>2, <2>3, <2>4 DEF MadeHere
    <3> QED
      BY <2>1, <2>2, <2>4, <3>1, EarlierGrows DEF Made
  <2>5. CASE Record
    <3>1. MadeHere = {Module.id} \X (1..(h - 1)) /\ MadeHere' = {Module.id} \X (1..h)
      BY <1>1, <2>1, <2>2, <2>3, <2>5 DEF MadeHere
    <3>2. 1..h = (1..(h - 1)) \cup {h}
      BY <1>1
    <3>3. MadeHere' = MadeHere \cup {<<Module.id, h>>}
      BY <3>1, <3>2
    <3> QED
      BY <2>1, <2>5, <3>3, EarlierGrows DEF Made
  <2> QED
    BY <1>8, <2>4, <2>5
<1>9. CASE ~Moves
    BY <1>3, <1>9, StaysInPlace DEF position
<1> QED
    BY <1>4, <1>5, <1>6, <1>7, <1>8, <1>9 DEF Moves

\* As modules are numbered in their order, the calls before a call are those
\* of smaller numbers, and those of the same number on earlier hosts.
LEMMA BeforeIsMade ==
    ASSUME SshInv, Place, Module.kind = "ansible", h <= Len(Hosts)
    PROVE  /\ {d \in Asked : Promise!Before(d, <<Module.id, h>>)} = Made
           /\ <<Module.id, h>> \in Asked
<1>1. /\ state \in States /\ g \in DOMAIN state /\ m \in DOMAIN state[g] /\ Numbered(state)
      /\ h \in 1..Len(Hosts) /\ Len(Hosts) \in Nat /\ DOMAIN Hosts = 1..Len(Hosts)
    BY StatesAssumption, HostFacts DEF SshInv, SshTypeOK, Place
<1>2. AnsibleIds \subseteq 1..IdBound /\ 1..IdBound \subseteq Nat
      /\ Module.id \in AnsibleIds
    BY <1>1, AnsibleIdsFacts, BoundsAssumption DEF Module
<1>3. \A a \in DOMAIN state : \A b \in DOMAIN state[a] :
        a \in Nat /\ b \in Nat /\ g \in Nat /\ m \in Nat /\ state[a][b].id \in Nat
  <2>1. \A a \in DOMAIN state : \A b \in DOMAIN state[a] : state[a][b].id \in 1..IdBound
    BY <1>1, StateFacts DEF Mods
  <2> QED
    BY <1>1, <1>2, <2>1, StateFacts
<1>4. \A a \in DOMAIN state : \A b \in DOMAIN state[a] :
        state[a][b].id < Module.id <=> a < g \/ (a = g /\ b < m)
  <2> SUFFICES ASSUME NEW a \in DOMAIN state, NEW b \in DOMAIN state[a]
               PROVE  state[a][b].id < Module.id <=> a < g \/ (a = g /\ b < m)
      OBVIOUS
  <2>1. a \in Nat /\ b \in Nat /\ g \in Nat /\ m \in Nat /\ state[a][b].id \in Nat
        /\ state[g][m].id \in Nat
    BY <1>1, <1>3
  <2>2. a < g \/ (a = g /\ b < m) => state[a][b].id < state[g][m].id
    BY <1>1 DEF Numbered
  <2>3. g < a \/ (a = g /\ m < b) => state[g][m].id < state[a][b].id
    BY <1>1 DEF Numbered
  <2>4. a = g /\ b = m => state[a][b].id = state[g][m].id
    OBVIOUS
  <2> QED
    BY <2>1, <2>2, <2>3, <2>4 DEF Module
<1>5. \A n \in AnsibleIds : n \in EarlierIds <=> n < Module.id
    BY <1>4, AnsibleIdsFacts DEF EarlierIds
<1>6. MadeHere = {Module.id} \X (1..(h - 1))
    BY DEF MadeHere
<1>7. \A n \in AnsibleIds : \A k \in DOMAIN Hosts :
        <<n, k>> \in Made <=> n < Module.id \/ (n = Module.id /\ k < h)
  <2>1. \A n \in AnsibleIds : \A k \in DOMAIN Hosts : k \in 1..(h - 1) <=> k < h
    BY <1>1
  <2> QED
    BY <1>5, <1>6, <2>1 DEF Made
<1>8. \A n \in AnsibleIds : \A k \in DOMAIN Hosts :
        Promise!Before(<<n, k>>, <<Module.id, h>>) <=> n < Module.id \/ (n = Module.id /\ k < h)
    BY DEF Promise!Before
<1>9. Made \subseteq AnsibleIds \X DOMAIN Hosts
    BY <1>1, <1>2, <1>6 DEF Made, EarlierIds
<1>10. \A d \in AnsibleIds \X DOMAIN Hosts : \E n \in AnsibleIds : \E k \in DOMAIN Hosts : d = <<n, k>>
    OBVIOUS
<1>11. \A d \in AnsibleIds \X DOMAIN Hosts : d \in Made <=> Promise!Before(d, <<Module.id, h>>)
    BY <1>7, <1>8, <1>10
<1> QED
    BY <1>1, <1>2, <1>9, <1>11 DEF Asked

\* At the end of the nanostate every call was made.
LEMMA AllMade ==
    ASSUME SshInv, g > Len(state)
    PROVE  Made = Asked
<1>1. state \in States /\ g \in Nat /\ m \in Nat /\ DOMAIN state = 1..Len(state) /\ Len(state) \in Nat
    BY StateFacts DEF SshInv, SshTypeOK
<1>2. EarlierIds = AnsibleIds
    BY <1>1, AnsibleIdsFacts DEF EarlierIds
<1>3. MadeHere = {}
    BY <1>1 DEF MadeHere, Place
<1> QED
    BY <1>2, <1>3 DEF Made, Asked

\* Nothing is called or told of before the first module.
LEMMA CallsBegin == SshInit => CallsInv /\ Promise!CallsInit
<1> SUFFICES ASSUME SshInit PROVE CallsInv /\ Promise!CallsInit
    OBVIOUS
<1>1. SshInv /\ h = 1 /\ g = 1 /\ m = 1
    BY SshInitHolds DEF SshInit
<1>2. Told = {} /\ ToldByGroups(response) = {}
    BY NothingTold DEF SshInit, Told
<1>3. EarlierIds = {}
  <2>1. \A a \in DOMAIN state : \A b \in DOMAIN state[a] : a \in Nat \ {0} /\ b \in Nat \ {0}
    BY <1>1, StateFacts DEF SshInv, SshTypeOK
  <2> QED
    BY <1>1, <2>1 DEF EarlierIds
<1>4. Made = {}
    BY <1>1, <1>3 DEF Made, MadeHere
<1>5. /\ Calling = {} /\ Chances = 0 /\ Known = FALSE /\ Progress = "running"
      /\ Limit \in {1, 2} /\ pc = "module"
    BY DEF SshInit, Calling, Chances, Known, Progress, Limit, Again, InInstall
<1>6. Asked \subseteq Nat \X DOMAIN Hosts
    BY <1>1, AnsibleIdsFacts, BoundsAssumption DEF Asked
<1>7. ran = [f \in {Hosts[k] : k \in DOMAIN Hosts} |-> <<>>]
    BY DEF SshInit, HostSet
<1>8. CallsInv
    BY <1>2, <1>4, <1>5 DEF CallsInv, Again, InInstall
<1>9. Promise!CallsInit
    BY <1>2, <1>5, <1>6, <1>7 DEF Promise!CallsInit
<1> QED
    BY <1>8, <1>9

\* Every step keeps the account of what was called.
LEMMA CallsStepHolds == ASSUME SshInv, CallsInv, [RunStep]_sshVars PROVE CallsInv'
<1>1. {<<t[1], t[2]>> : t \in Told}' = Made'
  <2>1. CASE ~Record
    BY <2>1, ToldGrows, MadeGrows DEF CallsInv
  <2>2. CASE Record
    <3>1. PICK x \in BOOLEAN : Told' = Told \cup {<<Module.id, h, x>>}
      BY <2>2, ToldGrows
    <3>2. PICK c : c = <<Module.id, h, x>>
      OBVIOUS
    <3>3. c[1] = Module.id /\ c[2] = h
      BY <3>2
    <3>4. \A t : t \in Told' <=> t \in Told \/ t = c
      BY <3>1, <3>2
    <3>5. {<<t[1], t[2]>> : t \in Told'} = {<<t[1], t[2]>> : t \in Told} \cup {<<Module.id, h>>}
      BY <3>3, <3>4
    <3> QED
      BY <2>2, <3>5, MadeGrows DEF CallsInv
  <2> QED
    BY <2>1, <2>2
<1>2. (pc \in Again => Errored(last))'
  <2> SUFFICES ASSUME pc' \in Again PROVE Errored(last')
      BY DEF Errored, Succeeded, FromModule
  <2>1. CASE FirstAttempt
    BY <2>1 DEF FirstAttempt, Attempt, AfterFirst, Again, InInstall
  <2>2. CASE SecondAttempt
    BY <2>2 DEF SecondAttempt, Again, InInstall
  <2>3. CASE MakeDir \/ MakeDirFails \/ AskArch \/ DialCopy \/ CopyFile \/ CopyDone
    BY <2>3 DEF MakeDir, MakeDirFails, AskArch, DialCopy, CopyFile, CopyDone, Session,
                CallsInv, Again, InInstall
  <2>4. CASE UNCHANGED sshVars
    BY <2>4 DEF sshVars, CallsInv
  <2>5. CASE ArgsPanic \/ KeysPanic \/ Connect \/ ShellPanics \/ NoConnection \/ ProcessExits
    BY <2>5 DEF ArgsPanic, KeysPanic, Connect, ShellPanics, NoConnection, ProcessExits, Panic,
                Again, InInstall
  <2>6. CASE UnknownArch \/ DialCopyFails
    BY <2>6 DEF UnknownArch, DialCopyFails, Panic, Again, InInstall
  <2>7. CASE Moves
    BY <2>7, MovesFacts DEF Again, InInstall
  <2> QED
    BY <2>1, <2>2, <2>3, <2>4, <2>5, <2>6, <2>7 DEF RunStep, Moves
<1>3. (pc = "record" /\ last = "missing" => ~Finds(Fqdn, Module.id))'
  <2> SUFFICES ASSUME pc' = "record", last' = "missing" PROVE ~Finds(Fqdn', Module.id')
      OBVIOUS
  <2>1. CASE UNCHANGED sshVars
    BY <2>1 DEF sshVars, input, position, CallsInv, Fqdn, Module
  <2>2. CASE FirstAttempt \/ SecondAttempt
    <3>1. Attempt("missing") /\ UNCHANGED <<input, position>>
      BY <2>2 DEF FirstAttempt, SecondAttempt, Attempt
    <3>2. Executes("missing", Module.id)
      BY <3>1 DEF Attempt
    <3>3. <<Fqdn, Module.id>> \in Lacks
      BY <3>2 DEF Executes, FromModule
    <3> QED
      BY <3>1, <3>3 DEF input, position, Fqdn, Module, Finds
  <2> QED
    BY <2>1, <2>2, IntoRecord
<1> QED
    BY <1>1, <1>2, <1>3 DEF CallsInv

\* The calls asked for and their limit are those of the nanostate and the
\* setting, and only the end of the run shows something.
LEMMA FrameFacts ==
    ASSUME SshInv, CallsInv, [RunStep]_sshVars
    PROVE  /\ UNCHANGED <<Asked, Limit>>
           /\ ~FinishRun => UNCHANGED ToldByGroups(response)
           /\ ~Record => UNCHANGED Told
           /\ ~(FirstAttempt \/ SecondAttempt) => UNCHANGED ran
<1>1. UNCHANGED <<setting, state>>
    BY FaultsCount DEF input
<1>2. ~FinishRun => UNCHANGED response
  <2>1. CASE ~Moves
    BY <2>1, StaysInPlace DEF report
  <2>2. CASE Moves
    BY <2>2 DEF Moves, SkipUnsupported, FinishModule, FinishGroup, ShellEmpty, Record, report
  <2> QED
    BY <2>1, <2>2
<1>3. UNCHANGED Asked
    BY <1>1 DEF Asked, AnsibleIds
<1>4. UNCHANGED Limit
    BY <1>1 DEF Limit
<1>5. ~FinishRun => UNCHANGED ToldByGroups(response)
    BY <1>2 DEF ToldByGroups
<1> QED
    BY <1>3, <1>4, <1>5, ToldGrows, WhoChangesHosts

\* A call under way is one of those asked for.
LEMMA UnderWay ==
    ASSUME SshInv, pc \in {"first", "record"} \cup Again
    PROVE  <<Module.id, h>> \in Asked /\ Calling = {<<Module.id, h>>} /\ Progress = "running"
<1>1. pc \in CallStages /\ pc # "shell"
    BY DEF CallStages, Again, InInstall
<1>2. Place /\ Module.kind = "ansible" /\ h <= Len(Hosts)
    BY <1>1 DEF SshInv, Located
<1> QED
    BY <1>2, BeforeIsMade DEF Calling, Progress, Again, InInstall

\* Between two attempts, and between two calls, RemoteCalls sees nothing.
LEMMA StepsUnseen ==
    ASSUME SshInv, CallsInv, [RunStep]_sshVars,
           \/ MakeDir \/ MakeDirFails \/ AskArch \/ DialCopy \/ CopyFile \/ CopyDone
           \/ SkipUnsupported \/ FinishModule \/ FinishGroup \/ ShellEmpty
           \/ Connect /\ pc' = "shell"
           \/ UNCHANGED sshVars
    PROVE  UNCHANGED Promise!callVars
<1>1. CASE MakeDir \/ MakeDirFails \/ AskArch \/ DialCopy \/ CopyFile \/ CopyDone
  <2>1. /\ pc \in Again /\ pc' \in Again /\ UNCHANGED <<last, position, input>>
        /\ ~FinishRun /\ ~Record /\ ~FirstAttempt /\ ~SecondAttempt
    BY <1>1 DEF MakeDir, MakeDirFails, AskArch, DialCopy, CopyFile, CopyDone, Session, Again,
                InInstall, FinishRun, Record, FirstAttempt, SecondAttempt
  <2>2. UNCHANGED <<Module, h, last>>
    BY <2>1 DEF Module, position, input
  <2>3. UNCHANGED <<Calling, Chances, Known, Progress>>
    BY <2>1, <2>2 DEF Calling, Chances, Known, Progress, Again, InInstall
  <2> QED
    BY <2>1, <2>3, FrameFacts DEF Promise!callVars
<1>2. CASE \/ SkipUnsupported \/ FinishModule \/ FinishGroup \/ ShellEmpty
           \/ Connect /\ pc' = "shell"
  <2>1. /\ pc \in {"module", "shell"} /\ pc' \in {"module", "shell"}
        /\ ~FinishRun /\ ~Record /\ ~FirstAttempt /\ ~SecondAttempt
    BY <1>2 DEF SkipUnsupported, FinishModule, FinishGroup, ShellEmpty, Connect, Calls, AtHost,
                AtModule, FinishRun, Record, FirstAttempt, SecondAttempt, Session
  <2>2. UNCHANGED <<Calling, Chances, Known, Progress>>
    BY <2>1 DEF Calling, Chances, Known, Progress, Again, InInstall
  <2> QED
    BY <2>1, <2>2, FrameFacts DEF Promise!callVars
<1>3. CASE UNCHANGED sshVars
  <2>1. UNCHANGED <<Module, h, last, pc, ran, results, modules, groups, response>>
    BY <1>3 DEF sshVars, remote, input, position, report, Module
  <2>2. UNCHANGED Told /\ UNCHANGED ToldByGroups(response)
    BY <2>1 DEF Told
  <2>3. UNCHANGED <<Calling, Chances, Known, Progress>>
    BY <2>1, FrameFacts DEF Calling, Chances, Known, Progress
  <2> QED
    BY <2>1, <2>2, <2>3, FrameFacts DEF Promise!callVars
<1> QED
    BY <1>1, <1>2, <1>3

\* A new connection for an Ansible module begins its call: the calls told of
\* are just those before it.
LEMMA ConnectBegins ==
    ASSUME SshInv, CallsInv, [RunStep]_sshVars, Connect, pc' # "shell"
    PROVE  Promise!Begin(<<Module.id, h>>) /\ <<Module.id, h>> \in Asked
<1>1. /\ AtModule /\ h <= Len(Hosts) /\ Module.kind # "other" /\ pc = "module"
      /\ pc' = "first" /\ Module.kind # "shell" /\ UNCHANGED <<input, position>>
      /\ ~FinishRun /\ ~Record /\ ~FirstAttempt /\ ~SecondAttempt
    BY DEF Connect, Calls, AtHost, AtModule, FinishRun, Record, FirstAttempt, SecondAttempt, Session
<1>2. Place /\ Module.kind = "ansible"
    BY <1>1, PlaceFacts, ModuleFacts DEF AtModule, SshInv, SshTypeOK
<1>3. {d \in Asked : Promise!Before(d, <<Module.id, h>>)} = Made /\ <<Module.id, h>> \in Asked
    BY <1>1, <1>2, BeforeIsMade
<1>4. Promise!Answered = Made
    BY DEF CallsInv, Promise!Answered
<1>5. UNCHANGED <<Module, h, setting>>
    BY <1>1 DEF input, position, Module
<1>6. /\ Progress = "running" /\ Progress' = "running" /\ Calling = {} /\ Known = FALSE /\ Known' = FALSE
      /\ Calling' = {<<Module.id, h>>} /\ Chances' = Limit
    BY <1>1, <1>5 DEF Progress, Calling, Chances, Limit, Known, Again, InInstall
<1> QED
    BY <1>1, <1>3, <1>4, <1>6, FrameFacts DEF Promise!Begin

\* Each attempt takes a chance; one that succeeded is the last one.
LEMMA AttemptTries ==
    ASSUME SshInv, CallsInv, [RunStep]_sshVars, FirstAttempt \/ SecondAttempt
    PROVE  Promise!Try(<<Module.id, h>>) /\ <<Module.id, h>> \in Asked
<1>1. /\ pc \in {"first", "second"} /\ UNCHANGED <<input, position>>
      /\ ~FinishRun /\ ~Record /\ (pc = "first" <=> FirstAttempt)
    BY DEF FinishRun, Record, FirstAttempt, SecondAttempt, Session
<1>2. PICK o \in Outcomes : Attempt(o) /\ (pc = "first" => pc' = AfterFirst(o))
                                       /\ (pc = "second" => pc' = "record")
    BY <1>1 DEF FirstAttempt, SecondAttempt
<1>3. UNCHANGED <<Module, h, setting>> /\ last' = o
    BY <1>1, <1>2 DEF input, position, Module, Attempt
<1>4. pc' \in {"record"} \cup Again /\ (pc' \in Again => pc = "first" /\ setting.perma /\ Errored(o))
    BY <1>1, <1>2 DEF AfterFirst, Again, InInstall
<1>5. <<Module.id, h>> \in Asked /\ Calling = {<<Module.id, h>>} /\ Progress = "running"
    BY <1>1, UnderWay DEF Again
<1>6. Calling' = Calling /\ Progress' = Progress
    BY <1>1, <1>3, <1>4, <1>5 DEF Calling, Progress, Again, InInstall
<1>7. Known = FALSE
    BY <1>1 DEF Known, CallsInv, Again, InInstall, Errored, Succeeded
<1>8. Chances' \in 0..(Chances - 1)
  <2>1. Chances \in 1..2 /\ (pc = "first" /\ setting.perma => Chances = 2)
    <3>1. Limit \in 1..2 /\ (setting.perma => Limit = 2)
      BY DEF Limit
    <3>2. Chances = IF pc = "first" THEN Limit ELSE 1
      BY <1>1 DEF Chances, Again, InInstall
    <3> QED
      BY <3>1, <3>2
  <2>2. Chances' = IF pc' \in Again THEN 1 ELSE 0
    BY <1>4 DEF Chances, Again, InInstall
  <2> QED
    BY <1>4, <2>1, <2>2
<1>9. Known' <=> o \in FromModule
    BY <1>3, <1>4 DEF Known, Errored, Succeeded
<1>10. Known' \in BOOLEAN
    BY DEF Known
<1>11. \/ ran' = [ran EXCEPT ![Fqdn] = Append(@, Module.id)]
       \/ UNCHANGED ran /\ o \notin FromModule
  <2>1. \A r \in Outcomes : Executes(r, Module.id) =>
          \/ ran' = [ran EXCEPT ![Fqdn] = Append(@, Module.id)]
          \/ UNCHANGED ran /\ r \notin FromModule
    BY DEF Executes, FromModule
  <2>2. FromModule \subseteq Outcomes /\ "absent" \notin FromModule /\ "cut" \notin FromModule
    BY DEF FromModule, Outcomes, Succeeded
  <2> QED
    BY <1>2, <2>1, <2>2 DEF Attempt
<1>12. UNCHANGED Known \/ Known' = TRUE
    BY <1>7, <1>10
<1>13. \/ ran' = [ran EXCEPT ![Hosts[h]] = Append(@, Module.id)] /\ Known' \in BOOLEAN
       \/ UNCHANGED <<ran, Known>>
    BY <1>7, <1>9, <1>10, <1>11 DEF Fqdn
<1> DEFINE c == <<Module.id, h>>
<1>14. c[1] = Module.id /\ c[2] = h /\ c \in Calling
    BY <1>5
<1> HIDE DEF c
<1>15. Promise!Try(c)
    BY <1>1, <1>6, <1>7, <1>8, <1>13, <1>14, FrameFacts DEF Promise!Try
<1> QED
    BY <1>5, <1>15 DEF c

\* The result of a call is its answer.
LEMMA RecordAnswers ==
    ASSUME SshInv, CallsInv, [RunStep]_sshVars, Record
    PROVE  Promise!Answer(<<Module.id, h>>) /\ <<Module.id, h>> \in Asked
<1>1. pc = "record" /\ pc' = "module" /\ ~FinishRun /\ ~FirstAttempt /\ ~SecondAttempt
    BY DEF Record, FinishRun, FirstAttempt, SecondAttempt, Session
<1>2. <<Module.id, h>> \in Asked /\ Calling = {<<Module.id, h>>} /\ Progress = "running"
    BY <1>1, UnderWay
<1>3. Calling' = {} /\ Chances' = 0 /\ Known' = FALSE /\ Progress' = "running"
    BY <1>1 DEF Calling, Chances, Known, Progress, Again, InInstall
<1>4. PICK x \in BOOLEAN : (x => Known) /\ Told' = Told \cup {<<Module.id, h, x>>}
    BY ToldGrows
<1> DEFINE c == <<Module.id, h>>
<1>5. c[1] = Module.id /\ c[2] = h /\ c \in Calling
    BY <1>2
<1> HIDE DEF c
<1>6. Promise!Answer(c)
    BY <1>1, <1>2, <1>3, <1>4, <1>5, FrameFacts DEF Promise!Answer
<1> QED
    BY <1>2, <1>6 DEF c

\* At the end everything asked for was called, and all of it is shown.
LEMMA RunFinishes ==
    ASSUME SshInv, CallsInv, Listed, [RunStep]_sshVars, FinishRun
    PROVE  Promise!Finish
<1>1. /\ pc = "module" /\ pc' = "done" /\ g > Len(state) /\ response' = groups
      /\ ~Record /\ ~FirstAttempt /\ ~SecondAttempt
    BY DEF FinishRun, Record, FirstAttempt, SecondAttempt, Session
<1>2. Calling = {} /\ Calling' = {} /\ Chances = 0 /\ Chances' = 0 /\ Known = FALSE /\ Known' = FALSE
      /\ Progress = "running" /\ Progress' = "finished"
    BY <1>1 DEF Calling, Chances, Known, Progress, Again, InInstall
<1>3. Promise!Answered = Asked
    BY <1>1, AllMade DEF CallsInv, Promise!Answered
<1>4. modules = <<>> /\ results = <<>>
  <2>1. g \in Nat /\ Len(state) \in Nat /\ h \in Nat /\ h # 0 /\ results \in Seq(HostResult)
        /\ Len(results) = h - 1
    BY HostFacts, StateFacts DEF SshInv, SshTypeOK
  <2>2. ~Place
    BY <1>1, <2>1, PlaceFacts DEF SshInv
  <2>3. h = 1
    BY <2>1, <2>2 DEF SshInv, Located
  <2> QED
    BY <1>1, <2>1, <2>3, EmptySeq DEF Listed
<1>5. Told = ToldByGroups(groups)
    BY <1>4, NothingTold DEF Told
<1>6. ToldByGroups(response') = Told
    BY <1>1, <1>5
<1> QED
    BY <1>1, <1>2, <1>3, <1>6, FrameFacts DEF Promise!Finish

\* A panic, and the end of the process, break the run off.
LEMMA PanicBreaksOff ==
    ASSUME SshInv, CallsInv, [RunStep]_sshVars,
           \/ ArgsPanic \/ KeysPanic \/ ShellPanics \/ NoConnection \/ ProcessExits
           \/ UnknownArch \/ DialCopyFails
    PROVE  Promise!BreakOff
<1>1. /\ pc \notin {"done", "panicked", "exited"} /\ pc' \in {"panicked", "exited"}
  <2>1. CASE ArgsPanic \/ KeysPanic \/ ShellPanics
    BY <2>1 DEF ArgsPanic, KeysPanic, ShellPanics, Panic, Calls, AtHost, AtModule
  <2>2. CASE NoConnection \/ ProcessExits \/ UnknownArch \/ DialCopyFails
    BY <2>2 DEF NoConnection, ProcessExits, UnknownArch, DialCopyFails, Panic, NeedsSession, Session
  <2> QED
    BY <2>1, <2>2
<1>2. ~FinishRun /\ ~Record /\ ~FirstAttempt /\ ~SecondAttempt
  <2>1. FinishRun \/ Record => pc' \in {"module", "done"}
    BY DEF FinishRun, Record
  <2>2. FirstAttempt => pc' \in {"record"} \cup Again
    BY DEF FirstAttempt, AfterFirst, Again, InInstall
  <2>3. SecondAttempt => pc' = "record"
    BY DEF SecondAttempt
  <2> QED
    BY <1>1, <2>1, <2>2, <2>3 DEF Again, InInstall
<1>3. Calling' = {} /\ Chances' = 0 /\ Known' = FALSE /\ Progress = "running" /\ Progress' = "broken"
    BY <1>1 DEF Calling, Chances, Known, Progress, Again, InInstall
<1> QED
    BY <1>2, <1>3, FrameFacts DEF Promise!BreakOff

\* Every step of the runner is one of RemoteCalls, or unseen.
LEMMA StepKeepsPromise ==
    SshInv /\ CallsInv /\ Listed /\ [RunStep]_sshVars => [Promise!CallsNext]_Promise!callVars
<1> SUFFICES ASSUME SshInv, CallsInv, Listed, [RunStep]_sshVars
             PROVE  Promise!CallsNext \/ UNCHANGED Promise!callVars
    OBVIOUS
<1>1. CASE FirstAttempt \/ SecondAttempt
    BY <1>1, AttemptTries DEF Promise!CallsNext
<1>2. CASE Record
    BY <1>2, RecordAnswers DEF Promise!CallsNext
<1>3. CASE FinishRun
    BY <1>3, RunFinishes DEF Promise!CallsNext
<1>4. CASE \/ ArgsPanic \/ KeysPanic \/ ShellPanics \/ NoConnection \/ ProcessExits
           \/ UnknownArch \/ DialCopyFails
    BY <1>4, PanicBreaksOff DEF Promise!CallsNext
<1>5. CASE Connect
    BY <1>5, ConnectBegins, StepsUnseen DEF Promise!CallsNext
<1>6. CASE \/ MakeDir \/ MakeDirFails \/ AskArch \/ DialCopy \/ CopyFile \/ CopyDone
           \/ SkipUnsupported \/ FinishModule \/ FinishGroup \/ ShellEmpty
           \/ UNCHANGED sshVars
    BY <1>6, StepsUnseen
<1> QED
    BY <1>1, <1>2, <1>3, <1>4, <1>5, <1>6 DEF RunStep

\* The SSH runner implements RemoteCalls: its groups, connections, second
\* attempts and installations are a way to keep that promise.
THEOREM RunnerKeepsPromise == SshSpec => KeepsPromise
<1>1. SshInit => Listed
    BY ReportBegins
<1>2. SshInv /\ Listed /\ [RunStep]_sshVars => Listed'
    BY ListedStepHolds
<1>3. SshInv /\ CallsInv /\ [RunStep]_sshVars => CallsInv'
    BY CallsStepHolds
<1>4. SshSpec => [](SshInv /\ CallsInv /\ Listed)
    BY <1>1, <1>2, <1>3, SshInitHolds, SshStepHolds, CallsBegin, PTL DEF SshSpec
<1> QED
    BY <1>4, CallsBegin, StepKeepsPromise, PTL DEF SshSpec, KeepsPromise, Promise!CallsSpec
=============================================================================
