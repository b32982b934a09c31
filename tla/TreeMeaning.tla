----------------------------- MODULE TreeMeaning -----------------------------
(***************************************************************************)
(* What a set of loaded states means, without stack, frames and partial    *)
(* trees: the states that can be compiled at all, and the blocks each of   *)
(* these contributes, in the order in which its lines and those of the     *)
(* states it includes stand.                                               *)
(***************************************************************************)
EXTENDS TreeCompiler

\* Line n of state i, and the state it makes compileState descend into
LineOf(i, n) == states[i].lines[n]
BodyOf(i, n) == states[i].bodies[n]
Target(i, n) == IF BlockType(LineOf(i, n)) = "inclusion"
                THEN GetInclusion(LineOf(i, n)).id
                ELSE GetDependency(LineOf(i, n)).id
Leads(i, n) ==
    /\ Permits(i, LineOf(i, n))
    /\ \/ BlockType(LineOf(i, n)) = "inclusion"
       \/ BlockType(LineOf(i, n)) = "dependency" /\ IsDependency(LineOf(i, n))
    /\ Target(i, n) \in DOMAIN states

\* A line that cannot be compiled, whatever it leads to
IsWrong(i, n) ==
    \/ ConditionPanics(i, LineOf(i, n))
    \/ /\ Permits(i, LineOf(i, n))
       /\ CASE BlockType(LineOf(i, n)) = "error" -> TRUE
            [] BlockType(LineOf(i, n)) = "inclusion" -> ~Leads(i, n) /\ Target(i, n) \notin optional
            [] BlockType(LineOf(i, n)) = "dependency" -> ~Leads(i, n) \/ BodyOf(i, n) = <<>>
            [] OTHER -> BlockPanics(i, BodyOf(i, n))

\* The least set of states such that a state is in it if none of its lines is
\* wrong and they lead into the set.  No state on a cycle is.
Sound ==
    LET clean == {i \in DOMAIN states : \A n \in DOMAIN states[i].lines : ~IsWrong(i, n)}
        leads == UNION {{<<i, Target(i, n)>> : n \in {n \in DOMAIN states[i].lines : Leads(i, n)}}
                          : i \in clean}
        closed == {S \in SUBSET DOMAIN states :
                     \A i \in clean : (\A l \in leads : l[1] = i => l[2] \in S) => i \in S}
    IN  {i \in DOMAIN states : \A S \in closed : i \in S}

-----------------------------------------------------------------------------
\* Where key k is contributed first, and the value its last contribution gives it
Places(cs, k) == {n \in DOMAIN cs : cs[n].key = k}
FirstOf(cs, k) == Min(Places(cs, k))
LastOf(cs, k) == cs[Max(Places(cs, k))].val

\* The blocks of cs that are asked for, in the order in which they are
Chosen(cs, blocks) ==
    FlattenSeq([b \in DOMAIN blocks |->
        IF blocks[b] \in Keys(cs) THEN <<[key |-> blocks[b], val |-> LastOf(cs, blocks[b])]>>
                                  ELSE <<>>])

\* The body of a job that depends on blocks of cs: its own behind each of them
JobBody(own, cs, blocks) ==
    FlattenSeq([b \in DOMAIN blocks |->
        (IF blocks[b] \in Keys(cs) THEN LastOf(cs, blocks[b]) ELSE <<>>) \o own])

\* What line n of state i contributes, if c is what the states contribute
From(c, i, n) == IF Leads(i, n) THEN c[Target(i, n)] ELSE <<>>
LineMeans(c, i, n) ==
    LET line == LineOf(i, n)
        incl == GetInclusion(line)
        dep == GetDependency(line)
    IN  CASE ~Permits(i, line) -> <<>>
          [] Permits(i, line) /\ BlockType(line) = "inclusion" ->
               IF incl.blocks = <<>> THEN From(c, i, n) ELSE Chosen(From(c, i, n), incl.blocks)
          [] Permits(i, line) /\ BlockType(line) = "dependency" ->
               <<[key |-> dep.anchor,
                  val |-> JobBody(RawBlock(BodyOf(i, n)), From(c, i, n), dep.blocks)]>>
          [] OTHER -> <<[key |-> ToCDLKey(line), val |-> CompileBlock(i, BodyOf(i, n))]>>

Contributes[i \in Sound] ==
    FlattenSeq([n \in DOMAIN states[i].lines |-> LineMeans(Contributes, i, n)])

\* The keys of the tree are those of the contributions, in the order of their
\* first one, each with the body of its last one.
Means(t, cs) ==
    /\ Keys(t) = Keys(cs)
    /\ \A n \in DOMAIN t : t[n].val = LastOf(cs, t[n].key)
    /\ \A m, n \in DOMAIN t : m < n => FirstOf(cs, t[m].key) < FirstOf(cs, t[n].key)

\* Whatever the nesting, the compiled tree is what its parts mean: nothing is
\* lost, doubled or displaced on the way through the inner trees; and Tree()
\* comes back with a tree only where all that is reached is right, and panics
\* only where it is not.
TreeIsMeaning ==
    /\ status = "done" /\ built = "whole" =>
         rootStateId \in Sound /\ Means(tree, Contributes[rootStateId])
    /\ status = "panicked" => rootStateId \notin Sound \/ ~described
=============================================================================
