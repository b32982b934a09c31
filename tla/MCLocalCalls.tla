----------------------------- MODULE MCLocalCalls -----------------------------
(***************************************************************************)
(* Two callers over four state roots: the first is below the chroot, the   *)
(* second is not, the third has no "modules" directory and ends the        *)
(* search.  "both" is a binary and a Python module of the first root;      *)
(* "dup" is a Python module of the first two; "re" has the name of a       *)
(* module that Python has loaded; "late" is behind the end of the search.  *)
(***************************************************************************)
EXTENDS AnsibleCaller

MCRoots == <<"target", "host", "none", "late">>
MCModules == [target |-> [both |-> {"binary", "script"}, dup |-> {"script"}, re |-> {"script"}],
              host |-> [dup |-> {"script"}],
              late |-> [late |-> {"script"}]]
MCNames == {"both", "dup", "re", "late"}
MCDirOf == [r \in RootSet |-> IF r = "host" THEN "hostdir" ELSE "otherdir"]
MCInside == {"target", "late"}
MCLibs == <<"lib", "site">>
MCCalls == {[name |-> "both", root |-> FALSE], [name |-> "both", root |-> TRUE],
            [name |-> "dup", root |-> FALSE], [name |-> "re", root |-> FALSE],
            [name |-> "late", root |-> FALSE]}
MCChroots == {"/", "", "/target"}
=============================================================================
