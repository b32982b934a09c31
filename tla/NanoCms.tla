-------------------------------- MODULE NanoCms --------------------------------
(***************************************************************************)
(* The facade of nanocms/nanocms.go: Bootstrap makes sure of the SSH keys  *)
(* (SshCopyId), asks the state index for a state, compiles its file alone  *)
(* (LoadNstFile: one LoadFile and Tree(), no Cycle) and runs the result    *)
(* on one host as root (RunStateSSH, whose inside is module SshRunner).    *)
(*                                                                         *)
(* Bootstrap is one call at a time; the hosts, the network and the files   *)
(* are other parties.  The operator's own key pair is assumed to be there, *)
(* the password to be right, and what lies below /root to be Root's alone. *)
(* A part of the public key is a line that breaks off within the key and   *)
(* lets nobody in.  "compiles" counts the calls.                           *)
(***************************************************************************)
EXTENDS Resolver

CONSTANTS
    Hosts,          \* the fqdns that may be bootstrapped
    Users, Root,    \* whom SshCopyId may log in as; the user a state is run as
    Fleets,         \* how the hosts may be at first: [keys, open], see below
    Foreign,        \* hosts for whose architecture there are no runners
    Wanted,         \* the ids of the states that may be asked for
    MaxFaults       \* bound: how many things go wrong in a session

ASSUME FaultsAssumption == MaxFaults \in Nat /\ Wanted \subseteq Ids

ASSUME HostsAssumption ==
    /\ Root \in Users /\ Foreign \subseteq Hosts
    /\ \A f \in Fleets : f.keys \in [Hosts -> SUBSET Users] /\ f.open \subseteq Hosts

\* Of a file the facade also sees the function of the first loop in the body
\* of each line ("" without a loop, Absent without a body), the description,
\* and what the groups compiled from it ask of the SSH runner: a shell with
\* instructions, arguments that are no strings, or Ansible at all.
ASSUME FilesAssumption ==
    \A s \in Sources : /\ DOMAIN s.loops = DOMAIN s.lines
                       /\ s.descr \in {"missing", "empty", "given"}
                       /\ s.asks \subseteq {"shell", "nostring", "ansible"}

VARIABLES
    sshKeysDeployed,
    keys,       \* host -> the users that the operator's key lets in
    open,       \* hosts where Root's authorized_keys ends without an end of line
    spoilt,     \* hosts where the key was appended to such a line
    tempkey,    \* host -> the copy of the public key: "none", "part" or "whole"
    faults,     \* how many things went wrong so far
    at,         \* where Bootstrap is
    host, user, asked,  \* its arguments
    served,     \* history: what runners were started on: [host, asked, id]
    since,      \* history: the faults there were when Bootstrap was called
    claim       \* history: whom SshCopyId set the flag for, and whether anything
                \* went wrong in that call: [host, user, clean]

remote == <<keys, open, spoilt, tempkey>>
args == <<host, user, asked>>
cmsVars == <<sshKeysDeployed, remote, faults, at, args, served, since, claim>>
allVars == <<vars, cmsVars>>

Copying == {"probe", "mkdir", "connect", "copy", "append"}
Free == {"idle", "panicked"}

CmsInit ==
    /\ ResolverInit
    /\ sshKeysDeployed = FALSE /\ claim = Absent
    /\ \E f \in Fleets : keys = f.keys /\ open = f.open
    /\ spoilt = {} /\ tempkey = [h \in Hosts |-> "none"] /\ faults = 0 /\ since = 0
    /\ at = "idle" /\ host = Absent /\ user = Absent /\ asked = Blank /\ served = {}

Fault == faults < MaxFaults /\ faults' = faults + 1
NoFault == UNCHANGED faults

\* A caller may recover from a panic.
Bootstrap(h, u, i) ==
    /\ at \in Free /\ phase = "ready" /\ compiles < MaxCompiles
    /\ compiles' = compiles + 1
    /\ host' = h /\ user' = u /\ asked' = i /\ since' = faults
    /\ at' = IF sshKeysDeployed THEN "lookup" ELSE "probe"
    /\ UNCHANGED <<finderVars, loaderVars, refVars, stage, next, sshKeysDeployed, remote,
                   faults, served, claim>>

-----------------------------------------------------------------------------
(* SshCopyId *)

\* mutant: the flag is set whatever it returns
DeployedAnyway(ok) ==
    /\ sshKeysDeployed' = TRUE
    /\ claim' = [host |-> host, user |-> user, clean |-> faults' = since]
    /\ at' = "lookup"
    /\ UNCHANGED <<vars, args, served, since>>

\* What it returns becomes the flag, whichever host and user it was for.
Deployed(ok) ==
    /\ sshKeysDeployed' = ok
    /\ claim' = IF ok THEN [host |-> host, user |-> user, clean |-> faults' = since] ELSE claim
    /\ at' = "lookup"
    /\ UNCHANGED <<vars, args, served, since>>

GoOn(step) ==
    /\ at' = step
    /\ UNCHANGED <<vars, sshKeysDeployed, args, served, since, claim>>

\* The key may be there already; an SSH connection as the user tells.
ProbeWorks ==
    /\ at = "probe" /\ user \in keys[host]
    /\ NoFault /\ Deployed(TRUE) /\ UNCHANGED remote

ProbeFails ==
    /\ at = "probe"
    /\ \/ user \notin keys[host] /\ NoFault
       \/ Fault
    /\ GoOn("mkdir") /\ UNCHANGED remote

\* In the user's home
MakeSshDir ==
    /\ at = "mkdir"
    /\ GoOn("connect") /\ NoFault /\ UNCHANGED remote

\* The command fails, or its answer is lost.
MakeSshDirFails ==
    /\ at = "mkdir"
    /\ Fault /\ Deployed(FALSE) /\ UNCHANGED remote

\* Without a connection NewSession panics; one that opens no session ends
\* the process.
NoPasswordLogin ==
    /\ at = "mkdir"
    /\ \E way \in {"panicked", "exited"} : GoOn(way)
    /\ Fault /\ UNCHANGED remote

ConnectScp ==
    /\ at = "connect"
    /\ \/ GoOn("copy") /\ NoFault
       \/ Fault /\ Deployed(FALSE)
    /\ UNCHANGED remote

\* The copy goes below /root, whoever the user is.  An error is logged, and
\* the key appended all the same.
CopyKey ==
    /\ at = "copy"
    /\ \/ user = Root /\ NoFault /\ tempkey' = [tempkey EXCEPT ![host] = "whole"]
       \/ user # Root /\ NoFault /\ UNCHANGED tempkey
       \/ /\ user = Root /\ Fault
          /\ \E s \in {tempkey[host], "part", "whole"} : tempkey' = [tempkey EXCEPT ![host] = s]
    /\ GoOn("append") /\ UNCHANGED <<keys, open, spoilt>>

\* What ">> authorized_keys" leaves there, if w is what cat wrote: a key
\* behind a line without an end is part of that line.
Write(w) ==
    /\ keys' = IF w = "whole" /\ host \notin open
               THEN [keys EXCEPT ![host] = @ \cup {Root}] ELSE keys
    /\ spoilt' = IF w = "whole" /\ host \in open THEN spoilt \cup {host} ELSE spoilt
    /\ open' = CASE w = "whole" -> open \ {host}
                 [] w = "part" -> open \cup {host}
                 [] OTHER -> open

\* "cat copy >> authorized_keys; rm copy" where only Root may do either.
\* The answer is that of rm: cat may have failed and the answer be good.
AppendKey ==
    /\ at = "append" /\ user = Root /\ tempkey[host] # "none"
    /\ \/ /\ NoFault
          /\ Write(tempkey[host]) /\ tempkey' = [tempkey EXCEPT ![host] = "none"]
          /\ Deployed(TRUE)
       \/ /\ Fault
          /\ \E w \in {"none", "part", tempkey[host]} : Write(w)
          /\ \E removed, answered \in BOOLEAN :
               /\ tempkey' = IF removed THEN [tempkey EXCEPT ![host] = "none"] ELSE tempkey
               /\ Deployed(removed /\ answered)

\* mutant: it is tried again
AppendFailsAgain ==
    /\ at = "append"
    /\ \/ (user # Root \/ tempkey[host] = "none") /\ NoFault
       \/ Fault
    /\ GoOn("append") /\ UNCHANGED remote

\* There is nothing to append or no right to, or neither connection nor
\* session.
AppendFails ==
    /\ at = "append"
    /\ \/ (user # Root \/ tempkey[host] = "none") /\ NoFault
       \/ Fault
    /\ Deployed(FALSE) /\ UNCHANGED remote

-----------------------------------------------------------------------------
(* The look-up and LoadNstFile *)

\* mutant: one compiler for all calls
FreshCompilerOnce ==
    IF compiles = 1
    THEN /\ states' = NoEntries /\ threads' = NoEntries /\ rootStateId' = Blank
         /\ included' = {} /\ optional' = {} /\ visited' = [i \in Ids |-> 0]
    ELSE UNCHANGED <<loaderVars, refVars>>

\* NewNstCompiler
FreshCompiler ==
    /\ states' = NoEntries /\ threads' = NoEntries /\ rootStateId' = Blank
    /\ included' = {} /\ optional' = {} /\ visited' = [i \in Ids |-> 0]

LookUp ==
    /\ at = "lookup" /\ Known(asked)
    /\ FreshCompiler
    /\ stage' = "load" /\ next' = MetaOf(asked).path
    /\ at' = "load"
    /\ UNCHANGED <<finderVars, compiles, sshKeysDeployed, remote, faults, args, served,
                   since, claim>>

\* The error is logged, and the path of a nil meta read.
LookUpPanics ==
    /\ at = "lookup" /\ ~Known(asked)
    /\ GoOn("panicked") /\ NoFault /\ UNCHANGED remote

\* The one LoadFile there is; Tree() follows instead of Cycle.
LoadEntry ==
    /\ at = "load" /\ stage = "load" /\ LoadNext
    /\ at' = IF stage' = "panicked" THEN "panicked" ELSE "tree"
    /\ UNCHANGED <<sshKeysDeployed, remote, faults, args, served, since, claim>>

(* What compileState makes of the lines of s where no other state is loaded: *)
(* TreeCompiler without its stack, as all there is to descend into is s.     *)

Defines(s, fn) == s.fn = "good" /\ fn \in DOMAIN s.funcs
SaysYes(s, fn) == Defines(s, fn) /\ s.funcs[fn] > 0

\* The conditions of line n are asked in turn until one says yes.
ConditionPanics(s, n) ==
    LET conds == Conditions(s.lines[n])
    IN  \E k \in DOMAIN conds : /\ ~Defines(s, conds[k].id)
                                /\ \A m \in 1..(k - 1) : ~SaysYes(s, conds[m].id)
Permits(s, n) ==
    LET conds == Conditions(s.lines[n])
    IN  ~ConditionPanics(s, n) /\ (conds = <<>> \/ \E k \in DOMAIN conds : SaysYes(s, conds[k].id))

\* Line n makes compileState call itself for s again.
Leads(s, n) ==
    LET line == s.lines[n]
    IN  /\ Permits(s, n)
        /\ \/ BlockType(line) = "inclusion" /\ GetInclusion(line).id = s.id
           \/ BlockType(line) = "dependency" /\ IsDependency(line) /\ GetDependency(line).id = s.id

\* Line n makes it panic.
IsWrong(s, n) ==
    LET line == s.lines[n]
    IN  \/ ConditionPanics(s, n)
        \/ /\ Permits(s, n) /\ ~Leads(s, n)
           /\ CASE BlockType(line) \in {"error", "dependency"} -> TRUE
                [] BlockType(line) = "inclusion" -> GetInclusion(line).id \notin OptionalIn(s.lines)
                [] OTHER -> s.loops[n] = Absent \/ (s.loops[n] # "" /\ ~Defines(s, s.loops[n]))

\* It gets no further than the first of these.
Stops(s) == {n \in DOMAIN s.lines : Leads(s, n) \/ IsWrong(s, n)}
Recurs(s) == Stops(s) # {} /\ Leads(s, Min(Stops(s)))

\* mutant: the optional references have to be loaded, too
StartsStrictly ==
    included = {} /\ rootStateId \in DOMAIN states /\ states[rootStateId].descr # "missing"

\* Tree() wants nothing mandatory pending, and compile() a root state with a
\* description.
Starts ==
    /\ included \subseteq optional
    /\ rootStateId \in DOMAIN states /\ states[rootStateId].descr # "missing"

\* Load refuses an empty id or description.
Compiles ==
    /\ Starts /\ Stops(states[rootStateId]) = {}
    /\ rootStateId # Blank /\ states[rootStateId].descr = "given"

\* A state that includes itself exhausts the stack, which ends the process.
Overflows == Starts /\ Recurs(states[rootStateId])

TreeOfEntry ==
    /\ at = "tree"
    /\ GoOn(IF Compiles THEN "run" ELSE IF Overflows THEN "exited" ELSE "panicked")
    /\ NoFault /\ UNCHANGED remote

-----------------------------------------------------------------------------
(* RunStateSSH: a new runner for this host alone, as Root *)

Asks(what) == what \in states[rootStateId].asks

Run == served' = served \cup {[host |-> host, asked |-> asked, id |-> rootStateId]}

RunVars == <<vars, sshKeysDeployed, remote, args, since, claim>>

\* The runner asserts types that shell instructions and such arguments do
\* not have, and without a connection its first session panics.
RunRefuses ==
    Asks("shell") \/ Asks("nostring") \/ (Asks("ansible") /\ Root \notin keys[host])

\* Whether anything in it failed is told in the response.
RunStateSSH ==
    /\ at = "run" /\ ~RunRefuses /\ Run
    /\ NoFault \/ Fault
    /\ at' = "idle"
    /\ UNCHANGED RunVars

\* On a host of an unknown architecture that has neither client nor its
\* directories the installation panics.
RunPanics ==
    /\ at = "run" /\ Run
    /\ \/ (RunRefuses \/ (Asks("ansible") /\ host \in Foreign)) /\ NoFault
       \/ Asks("ansible") /\ Fault
    /\ at' = "panicked"
    /\ UNCHANGED RunVars

\* No session on a connection that is there
RunExits ==
    /\ at = "run" /\ Run
    /\ Asks("ansible") /\ Root \in keys[host] /\ Fault
    /\ at' = "exited"
    /\ UNCHANGED RunVars

-----------------------------------------------------------------------------
CopyStep == \/ ProbeWorks \/ ProbeFails \/ MakeSshDir \/ MakeSshDirFails \/ NoPasswordLogin
            \/ ConnectScp \/ CopyKey \/ AppendKey \/ AppendFails

CmsStep == \/ CopyStep \/ LookUp \/ LookUpPanics \/ LoadEntry \/ TreeOfEntry
           \/ RunStateSSH \/ RunPanics \/ RunExits

IndexStep == WalkStep /\ UNCHANGED <<resolverVars, cmsVars>>

IndexCalled ==
    /\ at \in Free /\ (compiles = 0 \/ IndexAgain) /\ FinderCall
    /\ UNCHANGED <<resolverVars, cmsVars>>

CmsNext == \/ CmsStep \/ IndexStep \/ IndexCalled
           \/ \E h \in Hosts, u \in Users, i \in Wanted : Bootstrap(h, u, i)
           \/ (Environment /\ UNCHANGED <<resolverVars, cmsVars>>)

\* Index and Bootstrap are straight-line code, and every call of the SSH
\* library comes back.
CmsSpec == CmsInit /\ [][CmsNext]_allVars /\ WF_allVars(CmsStep) /\ WF_allVars(IndexStep)

-----------------------------------------------------------------------------
(* Properties *)

Claims == [host : Hosts, user : Users, clean : BOOLEAN]

CmsTypeOK ==
    /\ ResolverTypeOK
    /\ sshKeysDeployed \in BOOLEAN /\ (sshKeysDeployed => claim \in Claims)
    /\ keys \in [Hosts -> SUBSET Users] /\ open \subseteq Hosts /\ spoilt \subseteq Hosts
    /\ tempkey \in [Hosts -> {"none", "part", "whole"}]
    /\ faults \in 0..MaxFaults /\ since \in 0..faults
    /\ at \in Copying \cup Free \cup {"lookup", "load", "tree", "run", "exited"}
    /\ asked \in Ids /\ served \subseteq [host : Hosts, asked : Ids, id : Ids]

\* If nothing went wrong in the SshCopyId that set the flag, the user it was
\* called for is let in by key from then on, whatever earlier calls left on
\* that host and later ones do to it, unless authorized_keys had no end of
\* line.  And while nothing at all went wrong no copy of a key is left.
KeyDeployed ==
    /\ sshKeysDeployed /\ claim.clean => claim.user \in keys[claim.host] \/ claim.host \in spoilt
    /\ faults = 0 /\ at # "append" => \A h \in Hosts : tempkey[h] = "none"

\* What is run on a host is the state that was asked for, in any sequence of
\* calls, unless somebody edited a file since it was indexed: neither an
\* earlier state nor one that the file of another id holds.
RunsWhatWasAsked == edits = 0 => \A run \in served : run.id = run.asked

\* The files that LoadNstFile can make a nanostate of on their own
Alone(s) == /\ s.kind = "state" /\ ~FindRefsPanics(s.lines) /\ s.fn # "bad"
            /\ Refs(s) \ {s.id} \subseteq OptionalIn(s.lines)
            /\ s.id # Blank /\ s.descr = "given" /\ Stops(s) = {}

\* Why Root may have no key on the host of the call: SshCopyId was called for
\* another user, or appended the key to an unfinished line, or was not called
\* as an earlier call for another host or user had set the flag.
Locked ==
    /\ Root \notin keys[host]
    /\ \/ user # Root \/ host \in spoilt
       \/ sshKeysDeployed /\ (claim.host # host \/ claim.user # Root)

\* While nothing goes wrong and nobody edits, Bootstrap panics only if the
\* index does not know the id, its file is not fit to be compiled alone, the
\* SSH runner cannot do what it asks for, or Root has no key for one of the
\* reasons above: never as what was compiled, copied or found earlier is in
\* the way.
PanicsAreExplained ==
    [][at # "panicked" /\ at' = "panicked" /\ faults' = 0 /\ edits = 0 =>
         \/ ~Known(asked)
         \/ LET file == disk[MetaOf(asked).path]
            IN  \/ ~Alone(file)
                \/ file.asks \cap {"shell", "nostring"} # {}
                \/ "ansible" \in file.asks /\ (Locked \/ host \in Foreign)]_allVars

\* Every Bootstrap comes back, panics, or takes the process with it.
BootstrapEnds == at \notin Free ~> at \in Free \cup {"exited"}
=============================================================================
