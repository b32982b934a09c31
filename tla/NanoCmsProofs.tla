---------------------------- MODULE NanoCmsProofs ----------------------------
(***************************************************************************)
(* The facade, proved for every number of hosts, users, files and faults   *)
(* and for every sequence of Bootstrap calls.                              *)
(*                                                                         *)
(* Three chains of facts, one per stage Bootstrap is in, carry the         *)
(* properties.  Keys compares the faults so far with those there were when *)
(* the call began: a call that met none has a whole copy in hand when it   *)
(* appends it.  Answering says that such a call, for Root, ends with the   *)
(* flag.  Compiling says that the compiler is a fresh one and holds the    *)
(* file the index names, and as the index rests while a call is under way, *)
(* that file is the one asked for.                                         *)
(***************************************************************************)
EXTENDS NanoCms, ResolverProofs

AtWork == {"load", "tree", "run"}

\* The index rests while a call is under way, and the call has a host.
Calling ==
    /\ at \in Copying \cup AtWork \cup {"lookup"} =>
         phase = "ready" /\ host \in Hosts /\ user \in Users
    /\ at \in AtWork => Known(asked)
    /\ at = "load" => stage = "load"

\* What is on its way as long as nothing goes wrong
Keys ==
    /\ sshKeysDeployed => at \notin Copying
    /\ at = "append" /\ user = Root /\ faults = since => tempkey[host] = "whole"
    /\ faults = 0 => \A h \in Hosts :
         tempkey[h] = IF at = "append" /\ user = Root /\ h = host THEN "whole" ELSE "none"
    /\ faults = 0 /\ sshKeysDeployed => claim.clean

\* A call for Root that nothing went wrong with has set the flag or found it
\* set.
Answering == at \in AtWork \cup {"lookup"} /\ faults = 0 => sshKeysDeployed \/ user # Root

\* The file the call is about
File == disk[MetaOf(asked).path]

Compiling ==
    /\ at = "load" => /\ next = MetaOf(asked).path
                      /\ states = NoEntries /\ rootStateId = Blank
                      /\ included = {} /\ optional = {}
    /\ at \in {"tree", "run"} /\ edits = 0 =>
         /\ File.kind = "state" /\ ~FindRefsPanics(File.lines) /\ File.fn # "bad"
         /\ File.id = asked /\ rootStateId = asked
         /\ states = Put(NoEntries, asked, File)
         /\ included = Refs(File) \ {asked} /\ optional = OptionalIn(File.lines)

CmsInv == /\ FinderInv /\ CmsTypeOK /\ IndexTrue /\ Calling /\ Keys /\ Answering /\ Compiling
          /\ KeyDeployed /\ RunsWhatWasAsked

-----------------------------------------------------------------------------
(* The index under the facade *)

\* Whatever the facade does, the index makes a step of its own or none, and
\* a step of its own changes nothing else.
LEMMA FinderUnderneath ==
    ASSUME CmsNext
    PROVE  \/ FinderNext /\ UNCHANGED <<resolverVars, cmsVars>>
           \/ UNCHANGED finderVars
<1>1. CmsStep => UNCHANGED finderVars
    BY DEF CmsStep, CopyStep, ProbeWorks, ProbeFails, MakeSshDir, MakeSshDirFails,
           NoPasswordLogin, ConnectScp, CopyKey, AppendKey, AppendFails, LookUp,
           LookUpPanics, LoadEntry, LoadNext, TreeOfEntry, RunStateSSH, RunPanics,
           RunExits, RunVars, Deployed, GoOn, vars
<1>2. \A h \in Hosts, u \in Users, i \in Wanted : Bootstrap(h, u, i) => UNCHANGED finderVars
    BY DEF Bootstrap
<1> QED
    BY <1>1, <1>2 DEF CmsNext, IndexStep, IndexCalled, FinderNext

\* What a call relies on stays as it is unless the call itself moves: the
\* index rests, and an edit voids what is said of an untouched disk.
LEMMA AsideHolds ==
    ASSUME CmsInv, FinderNext, UNCHANGED <<resolverVars, cmsVars>>,
           at \notin Copying \cup AtWork \cup {"lookup"} \/ Environment
    PROVE  CmsInv'
<1> USE DEF CmsInv
<1>1. FinderInv' /\ FinderTypeOK' /\ IndexTrue'
    BY StepHolds, IndexStaysTrue DEF FinderInv
<1>2. UNCHANGED <<states, threads, rootStateId, included, optional, visited, stage, next,
                  compiles, sshKeysDeployed, keys, open, spoilt, tempkey, faults, at, host,
                  user, asked, served, since, claim>>
    BY DEF resolverVars, loaderVars, refVars, cmsVars, remote, args
<1>3. CmsTypeOK'
    BY <1>1, <1>2 DEF CmsTypeOK, ResolverTypeOK
<1>4. KeyDeployed' /\ Keys' /\ Answering'
    BY <1>2 DEF KeyDeployed, Keys, Answering
<1>5. edits' = 0 => edits = 0
    BY DEF FinderNext, FinderCall, AddStateRoot, StartIndex, WalkStep, WalkPanics,
           EnterMissingRoot, EnterRoot, VisitVanished, VisitBadId, SkipFile,
           IndexFile, FinishIndex, Environment, Edit, envVars, FinderInv, FinderTypeOK
<1>6. RunsWhatWasAsked'
    BY <1>2, <1>5 DEF RunsWhatWasAsked
<1>7. CASE at \notin Copying \cup AtWork \cup {"lookup"}
    BY <1>1, <1>2, <1>3, <1>4, <1>6, <1>7 DEF Calling, Compiling, AtWork
<1>8. CASE Environment
  <2>1. edits' # 0 /\ UNCHANGED <<tables, walkVars>>
    BY <1>8 DEF Environment, Edit, FinderInv, FinderTypeOK
  <2>2. Calling' /\ Compiling'
    BY <1>2, <2>1 DEF Calling, Compiling, Known, MetaOf, tables, walkVars
  <2> QED
    BY <1>1, <1>3, <1>4, <1>6, <2>2
<1> QED
    BY <1>7, <1>8

\* The index is a bystander of every step of a call.
LEMMA IndexBystands ==
    ASSUME CmsInv, UNCHANGED finderVars
    PROVE  /\ FinderInv' /\ FinderTypeOK' /\ IndexTrue'
           /\ UNCHANGED <<disk, edits, id_index, mt_index, phase>>
<1>1. UNCHANGED <<disk, edits, id_index, mt_index, phase>>
    BY DEF finderVars, envVars, tables, walkVars
<1>2. IndexTrue'
    BY <1>1 DEF CmsInv, IndexTrue, HasId, Exists
<1> QED
    BY <1>1, <1>2, FinderAlone DEF CmsInv

\* The compiler keeps its types while the copying, or nothing, goes on.
LEMMA CompilerBystands ==
    ASSUME CmsInv, UNCHANGED vars
    PROVE  ResolverTypeOK'
BY IndexBystands
DEF CmsInv, CmsTypeOK, ResolverTypeOK, vars, resolverVars, loaderVars, refVars

-----------------------------------------------------------------------------
(* One step of a call *)

\* The facade starts with nothing indexed and nothing asked.
LEMMA CmsInitHolds == CmsInit => CmsInv
<1> SUFFICES ASSUME CmsInit PROVE CmsInv
    OBVIOUS
<1>1. FinderInv /\ ResolverTypeOK /\ IndexTrue
    BY ResolverInitHolds DEF CmsInit, ResolverInv, QuietInv
<1>2. CmsTypeOK
  <2>1. keys \in [Hosts -> SUBSET Users] /\ open \subseteq Hosts
    BY HostsAssumption DEF CmsInit
  <2>2. faults \in 0..MaxFaults /\ since \in 0..faults
    BY FaultsAssumption DEF CmsInit
  <2> QED
    BY <1>1, <2>1, <2>2, SourcesAssumption DEF CmsInit, CmsTypeOK, Free
<1>3. Keys /\ KeyDeployed
    BY DEF CmsInit, Keys, KeyDeployed
<1> QED
    BY <1>1, <1>2, <1>3
    DEF CmsInit, CmsInv, Calling, Answering, Compiling, AtWork, Copying, RunsWhatWasAsked

\* A call goes for the keys first, unless the flag is set.
LEMMA BootstrapHolds ==
    ASSUME CmsInv, NEW h \in Hosts, NEW u \in Users, NEW i \in Wanted, Bootstrap(h, u, i)
    PROVE  CmsInv'
<1> USE DEF CmsInv
<1>1. /\ at \in {"idle", "panicked"} /\ phase = "ready" /\ host' = h /\ user' = u /\ asked' = i
      /\ since' = faults /\ at' = IF sshKeysDeployed THEN "lookup" ELSE "probe"
      /\ compiles' = compiles + 1 /\ compiles < MaxCompiles
      /\ UNCHANGED <<finderVars, states, threads, rootStateId, included, optional, visited,
                     stage, next, sshKeysDeployed, keys, open, spoilt, tempkey, faults,
                     served, claim>>
    BY DEF Bootstrap, loaderVars, refVars, remote, Free
<1>2. FinderInv' /\ FinderTypeOK' /\ IndexTrue' /\ UNCHANGED <<disk, edits, phase>>
    BY <1>1, IndexBystands
<1>3. i \in Ids
    BY FaultsAssumption
<1>4. compiles' \in 0..MaxCompiles /\ since' \in 0..faults'
    BY <1>1, CompilesAssumption, FaultsAssumption DEF CmsTypeOK, ResolverTypeOK
<1>5. CmsTypeOK'
  <2>1. ResolverTypeOK'
    BY <1>1, <1>2, <1>4 DEF CmsTypeOK, ResolverTypeOK
  <2>2. at' \in Copying \cup Free \cup {"lookup", "load", "tree", "run", "exited"}
    BY <1>1 DEF Copying
  <2> QED
    BY <1>1, <1>3, <1>4, <2>1, <2>2 DEF CmsTypeOK
<1>6. Keys' /\ KeyDeployed'
    BY <1>1 DEF Keys, KeyDeployed, Copying
<1> QED
    BY <1>1, <1>2, <1>5, <1>6
    DEF Calling, Answering, Compiling, AtWork, Copying, RunsWhatWasAsked

\* What SshCopyId changes has the right type.
KeyTypes ==
    /\ sshKeysDeployed \in BOOLEAN /\ (sshKeysDeployed => claim \in Claims)
    /\ keys \in [Hosts -> SUBSET Users] /\ open \subseteq Hosts /\ spoilt \subseteq Hosts
    /\ tempkey \in [Hosts -> {"none", "part", "whole"}] /\ faults \in 0..MaxFaults
    /\ since \in 0..faults

\* Without a fault it ends with the flag, if it is for Root.
Faultless == at = "lookup" /\ faults = 0 => sshKeysDeployed \/ user # Root

\* SshCopyId leaves index, compiler and arguments alone.  What it does to the
\* host is for Keys to tell, and without a fault it ends with the flag.
LEMMA CopyKeeps ==
    ASSUME CmsInv, at \in Copying, UNCHANGED <<vars, host, user, asked, served>>,
           at' \in Copying \cup {"lookup", "panicked", "exited"},
           KeyTypes', Faultless', Keys', KeyDeployed'
    PROVE  CmsInv'
<1> USE DEF CmsInv
<1>1. /\ FinderInv' /\ IndexTrue' /\ UNCHANGED <<disk, edits, id_index, mt_index, phase>>
    BY IndexBystands DEF vars
<1>2. CmsTypeOK'
    BY CompilerBystands DEF CmsTypeOK, KeyTypes, Free
<1>3. at' \notin AtWork
    BY DEF Copying, AtWork
<1>4. Calling' /\ Answering' /\ Compiling' /\ RunsWhatWasAsked'
    BY <1>1, <1>3
    DEF Calling, Answering, Compiling, RunsWhatWasAsked, AtWork, Faultless
<1> QED
    BY <1>1, <1>2, <1>4

\* One more thing went wrong, or nothing did.
LEMMA FaultsCount ==
    ASSUME CmsTypeOK, Fault \/ NoFault
    PROVE  /\ faults \in Nat /\ faults' \in 0..MaxFaults /\ faults' >= faults
           /\ since \in Nat /\ since \in 0..faults'
           /\ Fault => faults' > 0 /\ faults' # since
           /\ NoFault => faults' = faults
           /\ faults' = 0 => faults = 0 /\ since = 0
           /\ faults' = since => faults = since
<1>1. faults \in Nat /\ since \in Nat /\ since <= faults /\ MaxFaults \in Nat
    BY FaultsAssumption DEF CmsTypeOK
<1> QED
    BY <1>1 DEF CmsTypeOK, Fault, NoFault

\* What cat wrote may let Root in and spoil a line, but puts nobody out.
LEMMA WriteKeeps ==
    ASSUME NEW w, Write(w), host \in Hosts,
           keys \in [Hosts -> SUBSET Users], open \subseteq Hosts, spoilt \subseteq Hosts
    PROVE  /\ keys' \in [Hosts -> SUBSET Users] /\ open' \subseteq Hosts /\ spoilt' \subseteq Hosts
           /\ \A h \in Hosts : keys[h] \subseteq keys'[h]
           /\ spoilt \subseteq spoilt'
           /\ w = "whole" => Root \in keys'[host] \/ host \in spoilt'
<1>1. keys' = keys \/ keys' = [keys EXCEPT ![host] = @ \cup {Root}]
    BY DEF Write
<1>2. Root \in Users
    BY HostsAssumption
<1>3. keys' \in [Hosts -> SUBSET Users] /\ \A h \in Hosts : keys[h] \subseteq keys'[h]
    BY <1>1, <1>2
<1>4. open' \subseteq Hosts /\ spoilt' \subseteq Hosts /\ spoilt \subseteq spoilt'
    BY DEF Write
<1>5. w = "whole" => Root \in keys'[host] \/ host \in spoilt'
    BY DEF Write
<1> QED
    BY <1>3, <1>4, <1>5

\* Every step of SshCopyId keeps what is known of the keys.
LEMMA CopyHolds ==
    ASSUME CmsInv, CopyStep
    PROVE  CmsInv'
<1>0. CmsTypeOK /\ Keys /\ Calling /\ KeyDeployed
    BY DEF CmsInv
<1>1. /\ at \in Copying /\ sshKeysDeployed = FALSE /\ host \in Hosts /\ user \in Users
      /\ NoFault \/ Fault
    BY <1>0 DEF CmsTypeOK, CopyStep, ProbeWorks, ProbeFails, MakeSshDir, MakeSshDirFails, NoPasswordLogin,
           ConnectScp, CopyKey, AppendKey, AppendFails, Copying, Keys, Calling
<1>2. /\ keys \in [Hosts -> SUBSET Users] /\ open \subseteq Hosts /\ spoilt \subseteq Hosts
      /\ tempkey \in [Hosts -> {"none", "part", "whole"}]
    BY <1>0 DEF CmsTypeOK
<1>3. /\ faults \in Nat /\ faults' \in 0..MaxFaults /\ since \in Nat /\ since \in 0..faults'
      /\ Fault => faults' > 0 /\ faults' # since
      /\ NoFault => faults' = faults
      /\ faults' = 0 => faults = 0 /\ since = 0
      /\ faults' = since => faults = since
    BY <1>0, <1>1, FaultsCount
<1>4. CASE ProbeWorks
  <2>1. /\ at = "probe" /\ user \in keys[host]
        /\ UNCHANGED <<vars, host, user, asked, served, since, keys, open, spoilt, tempkey>>
        /\ sshKeysDeployed' = TRUE /\ at' = "lookup"
        /\ claim' = [host |-> host, user |-> user, clean |-> faults' = since]
    BY <1>4 DEF ProbeWorks, Deployed, remote, args
  <2>2. claim' \in Claims /\ claim'.host = host /\ claim'.user = user
        /\ (faults' = 0 => claim'.clean)
    BY <1>1, <1>3, <2>1 DEF Claims
  <2>3. Keys'
    BY <1>0, <1>3, <2>1, <2>2 DEF Keys, Copying
  <2>4. KeyDeployed'
    BY <1>0, <1>3, <2>1, <2>2 DEF KeyDeployed
  <2>5. KeyTypes' /\ Faultless'
    BY <1>2, <1>3, <2>1, <2>2 DEF KeyTypes, Faultless
  <2> QED
    BY <1>1, <2>1, <2>3, <2>4, <2>5, CopyKeeps
<1>5. CASE ProbeFails \/ MakeSshDir \/ NoPasswordLogin \/ (ConnectScp /\ at' = "copy")
  <2>1. /\ at \in {"probe", "mkdir", "connect"}
        /\ at' \in {"mkdir", "connect", "copy", "panicked", "exited"}
        /\ UNCHANGED <<vars, host, user, asked, served, since, keys, open, spoilt, tempkey,
                       sshKeysDeployed, claim>>
    BY <1>5 DEF ProbeFails, MakeSshDir, NoPasswordLogin, ConnectScp, GoOn, Deployed, remote, args
  <2>2. at' \in Copying \cup {"panicked", "exited"} /\ at # "append" /\ at' \notin {"append", "lookup"}
    BY <2>1 DEF Copying
  <2>3. Keys'
    BY <1>0, <1>1, <1>3, <2>1, <2>2 DEF Keys
  <2>4. KeyDeployed'
    BY <1>0, <1>1, <1>3, <2>1, <2>2 DEF KeyDeployed
  <2>5. KeyTypes' /\ Faultless'
    BY <1>1, <1>2, <1>3, <2>1, <2>2 DEF KeyTypes, Faultless
  <2> QED
    BY <1>1, <2>1, <2>2, <2>3, <2>4, <2>5, CopyKeeps
<1>6. CASE MakeSshDirFails \/ AppendFails \/ (ConnectScp /\ at' = "lookup")
  <2>1. /\ UNCHANGED <<vars, host, user, asked, served, since, keys, open, spoilt, tempkey, claim>>
        /\ at' = "lookup" /\ sshKeysDeployed' = FALSE
        /\ \/ Fault
           \/ NoFault /\ at = "append" /\ (user # Root \/ tempkey[host] = "none")
    BY <1>6 DEF MakeSshDirFails, AppendFails, ConnectScp, GoOn, Deployed, remote, args
  <2>2. faults' = 0 => user # Root /\ at = "append"
    BY <1>0, <1>3, <2>1 DEF Keys
  <2>3. Keys'
    BY <1>0, <1>1, <1>3, <2>1, <2>2 DEF Keys, Copying
  <2>4. KeyDeployed'
    BY <1>0, <1>1, <1>3, <2>1, <2>2, <2>3 DEF KeyDeployed, Keys
  <2>5. KeyTypes' /\ Faultless'
    BY <1>2, <1>3, <2>1, <2>2 DEF KeyTypes, Faultless
  <2> QED
    BY <1>1, <2>1, <2>3, <2>4, <2>5, CopyKeeps
<1>7. CASE CopyKey
  <2>1. /\ at = "copy" /\ at' = "append"
        /\ UNCHANGED <<vars, host, user, asked, served, since, keys, open, spoilt,
                       sshKeysDeployed, claim>>
    BY <1>7 DEF CopyKey, GoOn, args
  <2>2. \/ user = Root /\ NoFault /\ tempkey' = [tempkey EXCEPT ![host] = "whole"]
        \/ user # Root /\ tempkey' = tempkey
        \/ Fault /\ \E s \in {tempkey[host], "part", "whole"} : tempkey' = [tempkey EXCEPT ![host] = s]
    BY <1>7 DEF CopyKey
  <2>3. /\ tempkey' \in [Hosts -> {"none", "part", "whole"}]
        /\ \A h \in Hosts : h # host => tempkey'[h] = tempkey[h]
        /\ tempkey'[host] = "whole" \/ Fault \/ (user # Root /\ tempkey' = tempkey)
        /\ user # Root \/ Fault \/ tempkey'[host] = "whole"
    BY <1>1, <1>2, <2>2
  <2>4. /\ faults' = since => user # Root \/ tempkey'[host] = "whole"
        /\ faults' = 0 /\ user = Root => tempkey'[host] = "whole"
        /\ faults' = 0 /\ user # Root => tempkey' = tempkey
    BY <1>3, <2>2, <2>3
  <2>5. Keys'
    BY <1>0, <1>1, <1>3, <2>1, <2>3, <2>4 DEF Keys
  <2>6. KeyDeployed'
    BY <1>1, <2>1 DEF KeyDeployed
  <2>7. KeyTypes' /\ Faultless'
    BY <1>1, <1>2, <1>3, <2>1, <2>3 DEF KeyTypes, Faultless
  <2> QED
    BY <1>1, <2>1, <2>5, <2>6, <2>7, CopyKeeps DEF Copying
<1>8. CASE AppendKey
  <2>1. /\ at = "append" /\ at' = "lookup" /\ user = Root
        /\ UNCHANGED <<vars, host, user, asked, served, since>>
        /\ sshKeysDeployed' \in BOOLEAN
        /\ sshKeysDeployed' => claim' = [host |-> host, user |-> user, clean |-> faults' = since]
        /\ tempkey' = [tempkey EXCEPT ![host] = "none"] \/ (Fault /\ tempkey' = tempkey)
        /\ sshKeysDeployed' = TRUE \/ Fault
    BY <1>8 DEF AppendKey, Deployed, args
  <2>2. PICK w : Write(w) /\ (w = tempkey[host] \/ Fault)
    BY <1>8 DEF AppendKey
  <2>3. /\ keys' \in [Hosts -> SUBSET Users] /\ open' \subseteq Hosts /\ spoilt' \subseteq Hosts
        /\ w = "whole" => Root \in keys'[host] \/ host \in spoilt'
    BY <1>1, <1>2, <2>2, WriteKeeps
  <2>4. /\ tempkey' \in [Hosts -> {"none", "part", "whole"}]
        /\ \A h \in Hosts : h # host => tempkey'[h] = tempkey[h]
        /\ tempkey'[host] = "none" \/ Fault
    BY <1>1, <1>2, <2>1
  <2>5. sshKeysDeployed' => /\ claim' \in Claims /\ claim'.host = host /\ claim'.user = Root
                           /\ claim'.clean = (faults' = since)
    <3>1. (faults' = since) \in BOOLEAN
      OBVIOUS
    <3>2. \A c \in BOOLEAN : LET r == [host |-> host, user |-> user, clean |-> c]
                            IN  r \in Claims /\ r.host = host /\ r.user = user /\ r.clean = c
      BY <1>1 DEF Claims
    <3> QED
      BY <2>1, <3>1, <3>2
  <2>6. faults' = since => w = "whole"
    BY <1>0, <1>3, <2>1, <2>2 DEF Keys
  <2>7. Keys'
    BY <1>0, <1>3, <2>1, <2>4, <2>5 DEF Keys, Copying
  <2>8. KeyDeployed'
    <3>1. sshKeysDeployed' /\ claim'.clean => claim'.user \in keys'[claim'.host] \/ claim'.host \in spoilt'
      BY <2>3, <2>5, <2>6
    <3>2. faults' = 0 => \A h \in Hosts : tempkey'[h] = "none"
      BY <2>1, <2>7 DEF Keys
    <3> QED
      BY <3>1, <3>2 DEF KeyDeployed
  <2>9. KeyTypes' /\ Faultless'
    <3>1. Faultless'
      BY <1>3, <2>1 DEF Faultless
    <3>2. KeyTypes'
      BY <1>3, <2>1, <2>3, <2>4, <2>5 DEF KeyTypes
    <3> QED
      BY <3>1, <3>2
  <2> QED
    BY <1>1, <2>1, <2>7, <2>8, <2>9, CopyKeeps
<1> QED
    BY <1>4, <1>5, <1>6, <1>7, <1>8
    DEF CopyStep, ConnectScp, GoOn, Deployed

-----------------------------------------------------------------------------
(* Look-up, compilation and run *)

\* The keys are not touched behind the copying.
LEMMA KeysRest ==
    ASSUME CmsInv, at \notin Copying, at' \notin Copying,
           UNCHANGED <<sshKeysDeployed, keys, spoilt, tempkey, claim>>,
           faults' = faults \/ faults' = faults + 1
    PROVE  Keys' /\ KeyDeployed'
<1> USE DEF CmsInv
<1>1. at # "append" /\ at' # "append" /\ faults \in Nat
    BY FaultsAssumption DEF Copying, CmsTypeOK
<1>2. faults' = 0 => faults = 0
    BY <1>1
<1> QED
    BY <1>1, <1>2 DEF Keys, KeyDeployed

\* A look-up leads to the meta the index has for that very id.
LEMMA MetaTells ==
    ASSUME CmsInv, Known(asked)
    PROVE  /\ MetaOf(asked).path \in Paths
           /\ edits = 0 => HasId(MetaOf(asked).path) /\ File.id = asked
BY DEF CmsInv, FinderInv, FinderTypeOK, Coherent, Known, MetaOf, Metas, IndexTrue, File

\* A look-up leads to a fresh compiler, or nowhere.
LEMMA LookUpHolds ==
    ASSUME CmsInv, LookUp \/ LookUpPanics
    PROVE  CmsInv'
<1> USE DEF CmsInv
<1>1. /\ at = "lookup" /\ at' \in {"load", "panicked"}
      /\ UNCHANGED <<finderVars, compiles, sshKeysDeployed, keys, open, spoilt, tempkey, faults,
                     host, user, asked, served, since, claim>>
    BY DEF LookUp, LookUpPanics, GoOn, vars, resolverVars, remote, args, NoFault
<1>2. /\ FinderInv' /\ FinderTypeOK' /\ IndexTrue'
      /\ UNCHANGED <<disk, edits, id_index, mt_index, phase>>
    BY <1>1, IndexBystands
<1>3. Keys' /\ KeyDeployed' /\ RunsWhatWasAsked'
    BY <1>1, <1>2, KeysRest DEF Copying, RunsWhatWasAsked
<1>4. CASE LookUp
  <2>1. /\ at' = "load" /\ stage' = "load" /\ next' = MetaOf(asked).path /\ Known(asked)
        /\ states' = NoEntries /\ threads' = NoEntries /\ rootStateId' = Blank
        /\ included' = {} /\ optional' = {} /\ visited' = [i \in Ids |-> 0]
    BY <1>4 DEF LookUp, FreshCompiler
  <2>2. ResolverTypeOK'
    BY <1>1, <1>2, <2>1, MetaTells, SourcesAssumption
    DEF CmsTypeOK, ResolverTypeOK, Stages, NoEntries
  <2>3. CmsTypeOK'
    BY <1>1, <2>1, <2>2 DEF CmsTypeOK
  <2>4. Calling' /\ Compiling' /\ Answering'
    BY <1>1, <1>2, <2>1 DEF Calling, Compiling, Answering, AtWork, Copying, Known, MetaOf
  <2> QED
    BY <1>2, <1>3, <2>3, <2>4
<1>5. CASE LookUpPanics
  <2>1. at' = "panicked" /\ UNCHANGED vars
    BY <1>5 DEF LookUpPanics, GoOn
  <2>2. CmsTypeOK'
    BY <1>1, <2>1, CompilerBystands DEF CmsTypeOK, Free
  <2>3. Calling' /\ Compiling' /\ Answering'
    BY <1>1, <1>2, <2>1 DEF Calling, Compiling, Answering, AtWork, Copying
  <2> QED
    BY <1>2, <1>3, <2>2, <2>3
<1> QED
    BY <1>4, <1>5

\* LoadFile on a fresh compiler: over a file that is there, what is left
\* without a panic is that one state with its references.
LEMMA FreshLoad ==
    ASSUME ResolverTypeOK, states = NoEntries, rootStateId = Blank,
           included = {}, optional = {},
           NEW p \in Paths, Exists(p), LoadFile(p)
    PROVE  \/ /\ stage' = "cycle"
              /\ disk[p].kind = "state" /\ ~FindRefsPanics(disk[p].lines) /\ disk[p].fn # "bad"
              /\ states' = Put(NoEntries, disk[p].id, disk[p]) /\ rootStateId' = disk[p].id
              /\ included' = Refs(disk[p]) \ {disk[p].id}
              /\ optional' = OptionalIn(disk[p].lines)
           \/ /\ stage' = "panicked"
              /\ disk[p].kind # "state" \/ FindRefsPanics(disk[p].lines) \/ disk[p].fn = "bad"
<1>1. CASE LoadState(p)
  <2>1. /\ states' = Put(states, disk[p].id, disk[p]) /\ rootStateId' = disk[p].id
        /\ included' = (included \cup Refs(disk[p])) \ {disk[p].id}
        /\ optional' = optional \cup OptionalIn(disk[p].lines)
        /\ disk[p].kind = "state" /\ ~FindRefsPanics(disk[p].lines)
        /\ stage' = IF disk[p].fn = "bad" THEN "panicked" ELSE "cycle"
    BY <1>1 DEF LoadState, Adopt, MarkStateResolved
  <2> QED
    BY <2>1
<1>2. CASE ~LoadState(p)
    BY <1>2 DEF LoadFile, LoadNothing, LoadUnreadable, LoadNoId, LoadNoBranch, LoadDangling
<1> QED
    BY <1>1, <1>2

\* What the one LoadFile of a call makes of the file the index names
LEMMA EntryTells ==
    ASSUME CmsInv, LoadEntry, edits = 0
    PROVE  \/ /\ stage' # "panicked"
              /\ File.kind = "state" /\ ~FindRefsPanics(File.lines) /\ File.fn # "bad"
              /\ File.id = asked /\ rootStateId' = asked
              /\ states' = Put(NoEntries, asked, File)
              /\ included' = Refs(File) \ {asked} /\ optional' = OptionalIn(File.lines)
           \/ stage' = "panicked" /\ ~Alone(File)
<1> USE DEF CmsInv
<1>1. at = "load" /\ LoadFile(next) /\ next = MetaOf(asked).path /\ next \in Paths /\ Known(asked)
    BY MetaTells DEF LoadEntry, LoadNext, Calling, Compiling, AtWork
<1>2. Exists(next) /\ disk[next] = File /\ File.id = asked
    BY <1>1, MetaTells DEF File, HasId
<1> QED
    BY <1>1, <1>2, FreshLoad DEF Compiling, CmsTypeOK, Alone

\* The one file there is to load
LEMMA LoadEntryHolds ==
    ASSUME CmsInv, LoadEntry
    PROVE  CmsInv'
<1> USE DEF CmsInv
<1>1. /\ at = "load" /\ stage = "load" /\ LoadFile(next) /\ next' = Absent
      /\ at' = IF stage' = "panicked" THEN "panicked" ELSE "tree"
      /\ UNCHANGED <<finderVars, compiles, sshKeysDeployed, keys, open, spoilt, tempkey, faults,
                     host, user, asked, served, since, claim>>
    BY DEF LoadEntry, LoadNext, remote, args
<1>2. /\ FinderInv' /\ FinderTypeOK' /\ IndexTrue'
      /\ UNCHANGED <<disk, edits, id_index, mt_index, phase>>
    BY <1>1, IndexBystands
<1>3. Keys' /\ KeyDeployed' /\ RunsWhatWasAsked'
    BY <1>1, <1>2, KeysRest DEF Copying, RunsWhatWasAsked
<1>4. ResolverTypeOK /\ Known(asked) /\ next = MetaOf(asked).path /\ next \in Paths
    BY <1>1, MetaTells DEF CmsTypeOK, Calling, Compiling, AtWork
<1>5. ResolverTypeOK'
    BY <1>1, <1>2, <1>4, LoadFileType DEF ResolverTypeOK, Stages
<1>6. CmsTypeOK'
    BY <1>1, <1>5 DEF CmsTypeOK, Free
<1>7. Calling' /\ Answering'
    BY <1>1, <1>2, <1>4 DEF Calling, Answering, AtWork, Copying, Known
<1>8. Compiling'
  <2>1. File' = File
    BY <1>1, <1>2 DEF File, MetaOf
  <2> QED
    BY <1>1, <1>2, <2>1, EntryTells DEF Compiling
<1> QED
    BY <1>2, <1>3, <1>6, <1>7, <1>8

\* Tree() touches neither index nor hosts.
LEMMA TreeHolds ==
    ASSUME CmsInv, TreeOfEntry
    PROVE  CmsInv'
<1> USE DEF CmsInv
<1>1. /\ at = "tree" /\ at' \in {"run", "exited", "panicked"}
      /\ UNCHANGED <<vars, sshKeysDeployed, keys, open, spoilt, tempkey, faults, host, user,
                     asked, served, since, claim>>
    BY DEF TreeOfEntry, GoOn, remote, args, NoFault
<1>2. /\ FinderInv' /\ FinderTypeOK' /\ IndexTrue'
      /\ UNCHANGED <<disk, edits, id_index, mt_index, phase, states, threads, rootStateId,
                     included, optional>>
    BY <1>1, IndexBystands DEF vars, resolverVars, loaderVars, refVars
<1>3. Keys' /\ KeyDeployed' /\ RunsWhatWasAsked'
    BY <1>1, <1>2, KeysRest DEF Copying, RunsWhatWasAsked
<1>4. CmsTypeOK'
    BY <1>1, CompilerBystands DEF CmsTypeOK, Free
<1>5. Calling' /\ Answering'
    BY <1>1, <1>2 DEF Calling, Answering, AtWork, Copying, Known
<1>6. Compiling'
    BY <1>1, <1>2 DEF Compiling, File, MetaOf
<1> QED
    BY <1>2, <1>3, <1>4, <1>5, <1>6

\* What is run is the root state.
LEMMA RunHolds ==
    ASSUME CmsInv, RunStateSSH \/ RunPanics \/ RunExits
    PROVE  CmsInv'
<1> USE DEF CmsInv
<1> DEFINE run == [host |-> host, asked |-> asked, id |-> rootStateId]
<1>1. /\ at = "run" /\ at' \in {"idle", "panicked", "exited"}
      /\ UNCHANGED <<vars, sshKeysDeployed, keys, open, spoilt, tempkey, host, user, asked,
                     since, claim>>
      /\ NoFault \/ Fault
      /\ served' = served \cup {run}
    BY DEF RunStateSSH, RunPanics, RunExits, Run, RunVars, remote, args
<1>2. /\ FinderInv' /\ FinderTypeOK' /\ IndexTrue'
      /\ UNCHANGED <<disk, edits, id_index, mt_index, phase, rootStateId, stage>>
    BY <1>1, IndexBystands DEF vars, resolverVars, loaderVars
<1>3. faults' \in 0..MaxFaults /\ since \in 0..faults'
    BY <1>1, FaultsCount
<1>4. Keys' /\ KeyDeployed'
    BY <1>1, KeysRest DEF Copying, NoFault, Fault
<1>5. Calling' /\ Answering' /\ Compiling'
    BY <1>1, <1>2 DEF Calling, Answering, Compiling, AtWork, Copying
<1>6. run \in [host : Hosts, asked : Ids, id : Ids]
    BY <1>1 DEF CmsTypeOK, ResolverTypeOK, Calling, AtWork
<1>7. edits = 0 => run.id = run.asked
    BY <1>1 DEF Compiling
<1> HIDE DEF run
<1>8. CmsTypeOK'
    BY <1>1, <1>3, <1>6, CompilerBystands DEF CmsTypeOK, Free
<1>9. RunsWhatWasAsked'
    BY <1>1, <1>2, <1>7 DEF RunsWhatWasAsked
<1> QED
    BY <1>2, <1>4, <1>5, <1>8, <1>9

-----------------------------------------------------------------------------
(* The theorems *)

\* Every step of the facade, its index and its surroundings keeps all of it.
LEMMA CmsStepHolds == CmsInv /\ [CmsNext]_allVars => CmsInv'
<1> SUFFICES ASSUME CmsInv, [CmsNext]_allVars PROVE CmsInv'
    OBVIOUS
<1>1. CASE CmsStep
    BY <1>1, CopyHolds, LookUpHolds, LoadEntryHolds, TreeHolds, RunHolds DEF CmsStep
<1>2. ASSUME NEW h \in Hosts, NEW u \in Users, NEW i \in Wanted, Bootstrap(h, u, i)
      PROVE  CmsInv'
    BY <1>2, BootstrapHolds
<1>3. CASE IndexStep
  <2>1. phase = "walking"
    BY <1>3 DEF IndexStep, WalkStep, EnterMissingRoot, EnterRoot, VisitVanished, VisitBadId,
                SkipFile, IndexFile, FinishIndex
  <2>2. at \notin Copying \cup AtWork \cup {"lookup"}
    BY <2>1 DEF CmsInv, Calling
  <2> QED
    BY <1>3, <2>2, AsideHolds DEF IndexStep, FinderNext
<1>4. CASE IndexCalled
  <2>1. at \notin Copying \cup AtWork \cup {"lookup"}
    BY <1>4 DEF IndexCalled, Free, Copying, AtWork
  <2> QED
    BY <1>4, <2>1, AsideHolds DEF IndexCalled, FinderNext
<1>5. CASE Environment /\ UNCHANGED <<resolverVars, cmsVars>>
    BY <1>5, AsideHolds DEF FinderNext
<1>6. CASE UNCHANGED allVars
  <2>1. UNCHANGED vars /\ UNCHANGED cmsVars
    BY <1>6 DEF allVars
  <2>2. /\ UNCHANGED finderVars
        /\ UNCHANGED <<states, threads, rootStateId, included, optional, visited, stage, next,
                       compiles, sshKeysDeployed, keys, open, spoilt, tempkey, faults, at, host,
                       user, asked, served, since, claim>>
    BY <2>1 DEF vars, resolverVars, loaderVars, refVars, cmsVars, remote, args
  <2>3. /\ FinderInv' /\ IndexTrue' /\ ResolverTypeOK'
        /\ UNCHANGED <<disk, edits, id_index, mt_index, phase>>
    BY <2>1, <2>2, IndexBystands, CompilerBystands
  <2>4. CmsTypeOK' /\ Keys' /\ KeyDeployed' /\ Answering'
    BY <2>2, <2>3 DEF CmsInv, CmsTypeOK, Keys, KeyDeployed, Answering
  <2>5. Calling' /\ Compiling' /\ RunsWhatWasAsked'
    BY <2>2, <2>3
    DEF CmsInv, Calling, Compiling, RunsWhatWasAsked, Known, MetaOf, File
  <2> QED
    BY <2>3, <2>4, <2>5 DEF CmsInv
<1> QED
    BY <1>1, <1>2, <1>3, <1>4, <1>5, <1>6 DEF CmsNext

\* It holds of every state the facade gets to.
LEMMA CmsInvariant == CmsSpec => []CmsInv
<1> QED
    BY CmsInitHolds, CmsStepHolds, PTL DEF CmsSpec

\* The flag, the hosts, the index and the compiler of every call keep their
\* types.
THEOREM CmsTypes == CmsSpec => []CmsTypeOK
<1>1. CmsInv => CmsTypeOK
    BY DEF CmsInv
<1> QED
    BY <1>1, CmsInvariant, PTL

\* A SshCopyId that nothing went wrong in tells the truth of its host and
\* user from then on, unless authorized_keys had no end of line.
THEOREM TheKeyIsDeployed == CmsSpec => []KeyDeployed
<1>1. CmsInv => KeyDeployed
    BY DEF CmsInv
<1> QED
    BY <1>1, CmsInvariant, PTL

\* Bootstrap runs the state it was asked for, whichever were asked for
\* before and whatever else the files hold.
THEOREM TheStateIsTheOneAsked == CmsSpec => []RunsWhatWasAsked
<1>1. CmsInv => RunsWhatWasAsked
    BY DEF CmsInv
<1> QED
    BY <1>1, CmsInvariant, PTL

\* Tree() without a cycle refuses just what cannot be compiled alone, and the
\* root state it goes on with is the file.
LEMMA TreeTells ==
    ASSUME CmsInv, at \in {"tree", "run"}, edits = 0
    PROVE  /\ Alone(File) => Compiles
           /\ states[rootStateId] = File
<1> USE DEF CmsInv
<1>1. /\ File.kind = "state" /\ ~FindRefsPanics(File.lines) /\ File.fn # "bad"
      /\ File.id = asked /\ rootStateId = asked
      /\ states = Put(NoEntries, asked, File)
      /\ included = Refs(File) \ {asked} /\ optional = OptionalIn(File.lines)
    BY DEF Compiling
<1>2. rootStateId \in DOMAIN states /\ states[rootStateId] = File
    BY <1>1 DEF Put
<1> QED
    BY <1>1, <1>2 DEF Alone, Compiles, Starts

\* A call that nothing went wrong with, for Root and after a call for Root of
\* the same host or none, finds the key, but behind an unfinished line.
LEMMA LockedIsTold ==
    ASSUME CmsInv, at = "run", faults = 0, Root \notin keys[host]
    PROVE  Locked
<1>1. sshKeysDeployed \/ user # Root
    BY DEF CmsInv, Answering, AtWork
<1>2. sshKeysDeployed => Root \in keys[host] \/ host \in spoilt
                           \/ claim.host # host \/ claim.user # Root
    BY DEF CmsInv, Keys, KeyDeployed
<1> QED
    BY <1>1, <1>2 DEF Locked

\* Over a session in which nothing goes wrong every panic of Bootstrap has one
\* of the reasons that its arguments, its file or the host are good for.
THEOREM PanicsHaveReasons == CmsSpec => PanicsAreExplained
<1> DEFINE Explained ==
        \/ ~Known(asked)
        \/ LET file == disk[MetaOf(asked).path]
           IN  \/ ~Alone(file)
               \/ file.asks \cap {"shell", "nostring"} # {}
               \/ "ansible" \in file.asks /\ (Locked \/ host \in Foreign)
<1> DEFINE Step == at # "panicked" /\ at' = "panicked" /\ faults' = 0 /\ edits = 0 => Explained
<1>1. ASSUME CmsInv, CmsNext, at # "panicked", at' = "panicked", faults' = 0, edits = 0
      PROVE  Explained
  <2>1. CmsTypeOK
    BY <1>1 DEF CmsInv
  <2>2. NoFault \/ Fault => faults = 0 /\ ~Fault
    BY <1>1, <2>1, FaultsCount
  <2>3. CASE CopyStep
    <3>1. ~Fault
      BY <2>2
    <3> QED
      BY <1>1, <2>3, <3>1
      DEF CopyStep, ProbeWorks, ProbeFails, MakeSshDir, MakeSshDirFails, NoPasswordLogin,
          ConnectScp, CopyKey, AppendKey, AppendFails, Deployed, GoOn
  <2>4. CASE LookUp \/ LookUpPanics
    BY <1>1, <2>4 DEF LookUp, LookUpPanics
  <2>5. CASE LoadEntry
    <3>1. ~Alone(File)
      BY <1>1, <2>5, EntryTells DEF LoadEntry
    <3> QED
      BY <3>1 DEF File
  <2>6. CASE TreeOfEntry
    <3>1. at = "tree" /\ ~Compiles
      BY <1>1, <2>6 DEF TreeOfEntry, GoOn
    <3>2. ~Alone(File)
      BY <1>1, <3>1, TreeTells
    <3> QED
      BY <3>2 DEF File
  <2>7. CASE RunStateSSH \/ RunPanics \/ RunExits
    <3>1. at = "run" /\ RunPanics
      BY <1>1, <2>7 DEF RunStateSSH, RunPanics, RunExits
    <3>2. faults = 0 /\ (RunRefuses \/ (Asks("ansible") /\ host \in Foreign))
      BY <2>2, <3>1 DEF RunPanics
    <3>3. states[rootStateId] = File
      BY <1>1, <3>1, TreeTells
    <3>4. Root \notin keys[host] => Locked
      BY <1>1, <3>1, <3>2, LockedIsTold
    <3> QED
      BY <3>2, <3>3, <3>4 DEF RunRefuses, Asks, File
  <2>8. ASSUME NEW h \in Hosts, NEW u \in Users, NEW i \in Wanted, Bootstrap(h, u, i)
        PROVE  FALSE
    BY <1>1, <2>8 DEF Bootstrap
  <2>9. CASE UNCHANGED cmsVars
    BY <1>1, <2>9 DEF cmsVars
  <2> QED
    BY <1>1, <2>3, <2>4, <2>5, <2>6, <2>7, <2>8, <2>9
    DEF CmsNext, CmsStep, IndexStep, IndexCalled
<1>2. CmsInv /\ [CmsNext]_allVars => [Step]_allVars
    BY <1>1
<1> HIDE DEF Explained
<1> QED
    BY <1>2, CmsInvariant, PTL DEF CmsSpec, PanicsAreExplained, Step, Explained

\* The files Bootstrap is led to are those of the last root, too.
THEOREM TheLaterRootServes == CmsSpec => []LaterRootOverrides
<1>1. CmsInit => FinderHistory
    BY HistoryInit DEF CmsInit, ResolverInit
<1>2. CmsInv /\ FinderHistory /\ [CmsNext]_allVars => FinderHistory'
  <2> SUFFICES ASSUME CmsInv, FinderHistory, [CmsNext]_allVars PROVE FinderHistory'
    OBVIOUS
  <2>1. [FinderNext]_finderVars
    BY FinderUnderneath DEF allVars, vars
  <2> QED
    BY <2>1, HistoryStepHolds DEF CmsInv
<1>3. CmsInv /\ FinderHistory => LaterRootOverrides
    BY HistoryTells DEF CmsInv
<1> QED
    BY <1>1, <1>2, <1>3, CmsInvariant, PTL DEF CmsSpec
=============================================================================
