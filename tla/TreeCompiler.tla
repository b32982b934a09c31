----------------------------- MODULE TreeCompiler -----------------------------
(***************************************************************************)
(* How the loaded states become one tree: compileState and its helpers of  *)
(* compiler/ncmp.go, which descend from the root state into every state a  *)
(* line includes or depends on, and OTree (compiler/otree.go), the ordered *)
(* map the result is built in.                                             *)
(*                                                                         *)
(* The recursion is a stack of frames, one per compileState call that has  *)
(* not returned.  A state is its lines and their bodies; a body is a list  *)
(* of items, an item the list of its module calls, and a call with a       *)
(* function name in "loop" is repeated for each element that one returns.  *)
(* What a function returns is the length of its list, zero for false.      *)
(***************************************************************************)
EXTENDS Cdl, FiniteSets

CONSTANTS
    Programs,    \* what may have been loaded before Tree() is called
    MaxCalls     \* bound: how often Tree() is called

\* Each line of a state has a body, and a function returns a list or false.
ModuleCall == [name : STRING, loop : STRING]
LoadedState == {s \in [lines : Seq(Seq(Token)), bodies : Seq(Seq(Seq(ModuleCall)))] :
                  Len(s.bodies) = Len(s.lines)}

ASSUME ProgramsAssumption ==
    \A p \in Programs :
        /\ \A i \in DOMAIN p.states : p.states[i] \in LoadedState
        /\ \A i \in DOMAIN p.threads : \A fn \in DOMAIN p.threads[i] : p.threads[i][fn] \in Nat

ASSUME MaxCallsAssumption == MaxCalls \in Nat

VARIABLES
    states,      \* NstCompiler._states: id -> [lines, bodies]
    threads,     \* CDLFunc.threads: id -> functions
    optional,    \* RefList.optional
    rootStateId, \* NstCompiler.rootStateId
    described,   \* has the root state a description?
    stack,       \* the compileState calls in progress, the innermost first
    built,       \* NstCompiler.tree: "nil", the "header" alone, or the "whole" of it
    tree,        \* its "state" branch; <<>> as yet
    status,      \* Tree(): "called", "compiling", "done" or "panicked"
    calls        \* how often Tree() was called

program == <<states, threads, optional, rootStateId, described>>
treeVars == <<program, stack, built, tree, status, calls>>

-----------------------------------------------------------------------------
(* OTree: a sequence of entries with distinct keys, in the order in which   *)
(* the keys came                                                            *)

Keys(t) == {t[n].key : n \in DOMAIN t}

\* mutant: a key that is set again moves to the end
OSetMoves(t, k, v) ==
    Append(SelectSeq(t, LAMBDA e : e.key # k), [key |-> k, val |-> v])

\* A key that is there keeps its place and gets the new value.
OSet(t, k, v) ==
    IF k \in Keys(t)
    THEN [n \in DOMAIN t |-> IF t[n].key = k THEN [key |-> k, val |-> v] ELSE t[n]]
    ELSE Append(t, [key |-> k, val |-> v])

OGet(t, k) == (CHOOSE e \in {t[n] : n \in DOMAIN t} : e.key = k).val

-----------------------------------------------------------------------------
(* Bodies *)

IsLoop(call) == call.loop # ""
Names(item) == [m \in DOMAIN item |-> item[m].name]

\* Where among its calls a body has loops, and the call it meets first
Loops(body) == {n \in DOMAIN FlattenSeq(body) : IsLoop(FlattenSeq(body)[n])}
FirstLoop(body) == FlattenSeq(body)[Min(Loops(body))]

\* compileBlock panics over a missing value, or over a function that isn't
\* there for the first loop.
BlockPanics(id, body) ==
    \/ body = <<>>
    \/ /\ Loops(body) # {}
       /\ id \in DOMAIN threads => FirstLoop(body).loop \notin DOMAIN threads[id]

\* compileBlock returns from within the first loop: what a body lists before
\* and after it is not part of the result.
CompileBlock(id, body) ==
    IF Loops(body) = {}
    THEN [n \in DOMAIN body |-> Names(body[n])]
    ELSE [n \in 1..threads[id][FirstLoop(body).loop] |-> <<FirstLoop(body).name>>]

\* A body that is taken over as it stands, the raw keys of its items
RawName(call) == IF IsLoop(call) THEN call.name \o " []" \o call.loop ELSE call.name
RawBlock(body) == [n \in DOMAIN body |-> [m \in DOMAIN body[n] |-> RawName(body[n][m])]]

-----------------------------------------------------------------------------
(* Conditions: CDLFunc.Condition for a line of state id *)

Defined(id, fn) == id \in DOMAIN threads /\ fn \in DOMAIN threads[id]
SaysYes(id, fn) == Defined(id, fn) /\ threads[id][fn] > 0

\* The functions are asked in turn until one says yes, so that an undefined
\* one behind it does no harm.
ConditionPanics(id, line) ==
    LET fn == [n \in DOMAIN Conditions(line) |-> Conditions(line)[n].id]
    IN  \E n \in DOMAIN fn : ~Defined(id, fn[n]) /\ \A m \in 1..(n - 1) : ~SaysYes(id, fn[m])

Permits(id, line) ==
    /\ ~ConditionPanics(id, line)
    /\ \/ Conditions(line) = <<>>
       \/ \E n \in DOMAIN Conditions(line) : SaysYes(id, Conditions(line)[n].id)

-----------------------------------------------------------------------------
(* One line of the innermost call *)

Frame(id) == [id |-> id, at |-> 1, out |-> <<>>]
Top == stack[1]
Line == states[Top.id].lines[Top.at]
Body == states[Top.id].bodies[Top.at]

AtLine == status = "compiling" /\ stack # <<>> /\ Top.at <= Len(states[Top.id].lines)

Passed == AtLine /\ Permits(Top.id, Line)

\* mutant: what is passed over is looked at again
ProceedStays(out) ==
    /\ stack' = [stack EXCEPT ![1] = [Top EXCEPT !.out = out]]
    /\ UNCHANGED <<program, built, tree, status, calls>>

\* The innermost call goes on to its next line, with out as its tree.
Proceed(out) ==
    /\ stack' = [stack EXCEPT ![1] = [Top EXCEPT !.at = @ + 1, !.out = out]]
    /\ UNCHANGED <<program, built, tree, status, calls>>

Call(id) == stack' = <<Frame(id)>> \o stack /\ UNCHANGED <<program, built, tree, status, calls>>

Panic == status' = "panicked" /\ UNCHANGED <<program, stack, built, tree, calls>>

SkipLine ==
    /\ AtLine /\ ~ConditionPanics(Top.id, Line) /\ ~Permits(Top.id, Line)
    /\ Proceed(Top.out)

\* A condition nobody defines, or a line that is both ~ and &
LineIsWrong ==
    /\ AtLine
    /\ ConditionPanics(Top.id, Line) \/ (Permits(Top.id, Line) /\ BlockType(Line) = "error")
    /\ Panic

\* Inclusions. What is missing is passed over if any reference to it is
\* optional.
Include ==
    /\ Passed /\ BlockType(Line) = "inclusion"
    /\ LET to == GetInclusion(Line).id
       IN  CASE to \in DOMAIN states -> Call(to)
             [] to \notin DOMAIN states /\ to \in optional -> Proceed(Top.out)
             [] OTHER -> Panic

Depend ==
    /\ Passed /\ BlockType(Line) = "dependency"
    /\ IF IsDependency(Line) /\ GetDependency(Line).id \in DOMAIN states
       THEN Call(GetDependency(Line).id)
       ELSE Panic

TakeBlock ==
    /\ Passed /\ BlockType(Line) \in {"plain", "loop"}
    /\ IF BlockPanics(Top.id, Body)
       THEN Panic
       ELSE Proceed(OSet(Top.out, ToCDLKey(Line), CompileBlock(Top.id, Body)))

\* The chosen blocks of an included tree, or all of them
Merge(into, from, blocks) ==
    LET wanted == IF blocks = <<>> THEN [n \in DOMAIN from |-> from[n].key] ELSE blocks
        merged[n \in 0..Len(wanted)] ==
            IF n = 0 THEN into
            ELSE IF wanted[n] \in Keys(from)
            THEN OSet(merged[n - 1], wanted[n], OGet(from, wanted[n]))
            ELSE merged[n - 1]
    IN  merged[Len(wanted)]

\* Every block depended on brings a copy of the job's own body behind it.
DependencyBody(own, from, blocks) ==
    FlattenSeq([n \in DOMAIN blocks |->
        IF blocks[n] \in Keys(from) THEN OGet(from, blocks[n]) \o own ELSE own])

\* compileState returns to the line of the outer call that asked for it.
Return ==
    /\ status = "compiling" /\ Len(stack) > 1 /\ Top.at > Len(states[Top.id].lines)
    /\ LET outer == stack[2]
           line == states[outer.id].lines[outer.at]
           body == states[outer.id].bodies[outer.at]
           resume(out) == /\ stack' = <<[outer EXCEPT !.at = @ + 1, !.out = out]>>
                                        \o Tail(Tail(stack))
                          /\ UNCHANGED <<program, built, tree, status, calls>>
       IN  IF BlockType(line) = "inclusion"
           THEN resume(Merge(outer.out, Top.out, GetInclusion(line).blocks))
           ELSE LET dep == GetDependency(line)
                IN  IF body = <<>>
                    THEN Panic
                    ELSE resume(OSet(outer.out, dep.anchor,
                                     DependencyBody(RawBlock(body), Top.out, dep.blocks)))

-----------------------------------------------------------------------------
(* Tree(), compile() *)

\* The tree is there, as the header alone, before any state is compiled; and
\* it needs a description.
StartCompile ==
    /\ status = "called" /\ built = "nil" /\ rootStateId \in DOMAIN states
    /\ built' = "header"
    /\ IF described
       THEN stack' = <<Frame(rootStateId)>> /\ status' = "compiling"
       ELSE status' = "panicked" /\ UNCHANGED stack
    /\ UNCHANGED <<program, tree, calls>>

NoRoot ==
    /\ status = "called" /\ built = "nil" /\ rootStateId \notin DOMAIN states
    /\ Panic

FinishCompile ==
    /\ status = "compiling" /\ Len(stack) = 1 /\ Top.at > Len(states[Top.id].lines)
    /\ tree' = Top.out /\ built' = "whole"
    /\ stack' = <<>>
    /\ status' = "done"
    /\ UNCHANGED <<program, calls>>

\* What is there is not compiled again.
ReturnTree ==
    /\ status = "called" /\ built # "nil"
    /\ status' = "done"
    /\ UNCHANGED <<program, stack, built, tree, calls>>

\* A caller may recover from a panic, and may ask again at any rate.
CallAgain ==
    /\ status \in {"done", "panicked"} /\ calls < MaxCalls
    /\ status' = "called" /\ calls' = calls + 1
    /\ stack' = <<>>
    /\ UNCHANGED <<program, built, tree>>

TreeInit ==
    /\ \E p \in Programs : /\ states = p.states /\ threads = p.threads
                           /\ optional = p.optional /\ rootStateId = p.root
                           /\ described = p.described
    /\ stack = <<>> /\ tree = <<>> /\ built = "nil" /\ status = "called" /\ calls = 1

TreeStep == \/ StartCompile \/ NoRoot \/ SkipLine \/ LineIsWrong \/ Include \/ Depend
            \/ TakeBlock \/ Return \/ FinishCompile \/ ReturnTree

-----------------------------------------------------------------------------
(* Properties *)

\* Over references without a cycle Tree() returns or panics, however the
\* inclusions and dependencies nest.  (A state that includes itself passes
\* the loader and makes compileState recurse without end.)
TreeEnds == status = "called" ~> status \in {"done", "panicked"}

\* "reference of job dependency (should be performed before)"
\* (definition.st:7): in a job of the root with a dependency, nothing of its
\* own is performed before something it depends on.
DependencyFirst ==
    status = "done" /\ built = "whole" =>
      \A n \in DOMAIN states[rootStateId].lines :
        LET line == states[rootStateId].lines[n]
            own == RawBlock(states[rootStateId].bodies[n])
            job == OGet(tree, GetDependency(line).anchor)
        IN  BlockType(line) = "dependency" =>
              \A j, k \in DOMAIN job :
                job[j] \in {own[x] : x \in DOMAIN own}
                  /\ job[k] \notin {own[x] : x \in DOMAIN own} => k < j
=============================================================================
