------------------------------- MODULE Nanostate -------------------------------
(***************************************************************************)
(* From the compiled tree to what a runner works through: Load of          *)
(* nanostate/nstate.go, which serialises the tree to Go maps, loads the    *)
(* groups in whatever order a map gives them and sorts them again.         *)
(***************************************************************************)
EXTENDS TreeCompiler

VARIABLES
    groupIndex,  \* Nanostate.GroupIndex, the keys of the tree
    groups,      \* Nanostate.Groups: [id, group], a group the names of its modules
    todo,        \* the keys of the serialised "state" still to come
    nano         \* "new", "loading", "loaded" or "panicked"

nanoVars == <<groupIndex, groups, todo, nano>>

NanoInit ==
    /\ TreeInit
    /\ groupIndex = <<>> /\ groups = <<>> /\ todo = {} /\ nano = "new"

\* Load begins with what Tree() returned.
StartLoad ==
    /\ status = "done" /\ nano = "new" /\ built = "whole"
    /\ groupIndex' = [n \in DOMAIN tree |-> tree[n].key]
    /\ groups' = <<>> /\ todo' = Keys(tree)
    /\ nano' = "loading"
    /\ UNCHANGED treeVars

\* GetBranch finds no "state" in a header, and its Keys() is a nil reference.
LoadPanics ==
    /\ status = "done" /\ nano = "new" /\ built # "whole"
    /\ nano' = "panicked"
    /\ UNCHANGED <<treeVars, groupIndex, groups, todo>>

\* What loadModuleInstructions may make of an item: a module for whichever of
\* its names the map gives last, nothing for an item without any.
ModuleOf(item) == IF item = <<>> THEN {<<>>} ELSE {<<item[n]>> : n \in DOMAIN item}

\* What loadGroup may make of a body
LoadGroup(body) ==
    LET picks == {p \in [DOMAIN body -> UNION {ModuleOf(body[n]) : n \in DOMAIN body}] :
                    \A n \in DOMAIN body : p[n] \in ModuleOf(body[n])}
    IN  {FlattenSeq(p) : p \in picks}

\* loadState: the groups as they come
LoadState(k) ==
    \E group \in LoadGroup(OGet(tree, k)) :
        groups' = Append(groups, [id |-> k, group |-> group])

LoadNextGroup ==
    /\ nano = "loading"
    /\ \E k \in todo : LoadState(k) /\ todo' = todo \ {k}
    /\ UNCHANGED <<treeVars, groupIndex, nano>>

\* mutant: the groups stay as they came
OrderedGroupsAsIs == groups

OrderedGroups ==
    FlattenSeq([n \in DOMAIN groupIndex |->
        FlattenSeq([k \in DOMAIN groups |->
            IF groups[k].id = groupIndex[n] THEN <<groups[k]>> ELSE <<>>])])

\* A missing description would be an error here, but was a panic before.
FinishLoad ==
    /\ nano = "loading" /\ todo = {}
    /\ groups' = OrderedGroups
    /\ nano' = "loaded"
    /\ UNCHANGED <<treeVars, groupIndex, todo>>

NanoStep == StartLoad \/ LoadPanics \/ LoadNextGroup \/ FinishLoad
Step == (TreeStep /\ UNCHANGED nanoVars) \/ NanoStep
Again == nano = "new" /\ CallAgain /\ UNCHANGED nanoVars

\* Nothing holds up a call of Tree() or of Load.
NanoSpec == /\ NanoInit /\ [][Step \/ Again]_<<treeVars, nanoVars>>
            /\ WF_<<treeVars, nanoVars>>(Step)

-----------------------------------------------------------------------------
(* Properties *)

\* The items of a body that name a module, in their order
Naming(body) ==
    FlattenSeq([n \in DOMAIN body |-> IF body[n] = <<>> THEN <<>> ELSE <<body[n]>>])

\* Whatever order the maps have, a loaded nanostate lists the groups in the
\* order of the compiled tree, and OrderedGroups() does not change it again;
\* in each group every item of its body that names a module is there once, in
\* its place, as one of the modules it names.
GroupsAreTree ==
    nano = "loaded" =>
        /\ [n \in DOMAIN groups |-> groups[n].id] = [n \in DOMAIN tree |-> tree[n].key]
        /\ OrderedGroups = groups
        /\ \A n \in DOMAIN groups :
             LET items == Naming(tree[n].val) IN
             /\ DOMAIN groups[n].group = DOMAIN items
             /\ \A k \in DOMAIN items :
                  groups[n].group[k] \in {items[k][i] : i \in DOMAIN items[k]}
=============================================================================
