------------------------------ MODULE MCSshRunner ------------------------------
(***************************************************************************)
(* Instances of SshRunner: two hosts of which one may have an architecture *)
(* the static data knows nothing of, and nanostates of up to three modules *)
(* in one or two groups.                                                   *)
(***************************************************************************)
EXTENDS SshRunner

MCHosts == <<"h1", "h2">>
MCRunners == [x86_64 |-> <<"ansiblerunner", "helper">>]
KnownArch == [h1 |-> "x86_64", h2 |-> "x86_64"]
OneUnknownArch == [h1 |-> "x86_64", h2 |-> "riscv"]

Ansible(n) == [id |-> n, kind |-> "ansible", textArgs |-> TRUE, count |-> 0]
TypedArgs(n) == [id |-> n, kind |-> "ansible", textArgs |-> FALSE, count |-> 0]
Shell(n, count) == [id |-> n, kind |-> "shell", textArgs |-> TRUE, count |-> count]
Other(n) == [id |-> n, kind |-> "other", textArgs |-> TRUE, count |-> 0]

\* Groups that end, an empty one, one with an unsupported module, and two
\* nanostates that end in a panic
MixedStates == {<< <<Ansible(1)>>, <<Ansible(2)>> >>,
                << <<Other(1), Ansible(2)>>, <<>> >>,
                << <<Ansible(3)>> >>,
                << <<Shell(1, 0), Ansible(2)>> >>,
                << <<Ansible(1)>>, <<Shell(2, 1)>> >>,
                << <<Ansible(1), TypedArgs(2)>> >>}

TwoModules == {<< <<Ansible(1)>>, <<Ansible(2)>> >>}

Permanent == {[perma |-> TRUE, static |-> TRUE, keys |-> TRUE]}
NoKeys == {[perma |-> TRUE, static |-> TRUE, keys |-> FALSE]}
AllSettings == [perma : BOOLEAN, static : BOOLEAN, keys : {TRUE}] \cup NoKeys

\* The third module is not part of the Ansible of the first host.
MCLacks == {<<"h1", 3>>}

\* The end of the run is no deadlock.
Over == pc \in Ends /\ UNCHANGED sshVars
MCSpec == SshInit /\ [][RunStep \/ Over]_sshVars /\ WF_sshVars(RunStep)
=============================================================================
