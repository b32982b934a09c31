------------------------------- MODULE Resolver -------------------------------
(***************************************************************************)
(* How a state and everything it refers to gets loaded: the loop of        *)
(* StateCompiler.Compile (nanostate/compiler_factory.go) over the loading  *)
(* half of NstCompiler (compiler/ncmp.go) and the bookkeeping of RefList   *)
(* (compiler/reflist.go), on top of the state index.                       *)
(*                                                                         *)
(* Compile is one goroutine: after the entry file, every round asks Cycle  *)
(* for a pending id in the random order of a Go map, looks it up in the    *)
(* index, and either loads its file or squashes it.  Files may change      *)
(* between the index, the look-up and the load.                            *)
(***************************************************************************)
EXTENDS StateFinder, Cdl

CONSTANTS
    IndexAgain,     \* may the caller extend the index after a Compile?
    MaxCompiles     \* bound: calls of Compile on one StateCompiler

\* The lines of a file are the keys of its "state" branch; fn tells whether
\* its ".fn" companion is missing, loads, or fails to load, and funcs what
\* the functions in it return.
Refs(s) == Referenced(s.lines)

ASSUME RefsAssumption == \A s \in Sources : /\ Refs(s) \subseteq Ids
                                            /\ OptionalIn(s.lines) \subseteq Ids
                                            /\ s.fn \in {"none", "good", "bad"}
ASSUME CompilesAssumption == MaxCompiles \in Nat /\ IndexAgain \in BOOLEAN

VARIABLES
    states,      \* NstCompiler._states: id -> source of the loaded file
    threads,     \* CDLFunc.threads: id -> functions of the ".fn" file
    rootStateId, \* NstCompiler.rootStateId
    included,    \* RefList.included
    optional,    \* RefList.optional
    visited,     \* RefList.visited, a list whose order nothing depends on
    stage,       \* where Compile is
    next,        \* the path that Cycle's id led to, Absent outside a round
    compiles     \* how often Compile was called

loaderVars == <<states, threads, rootStateId>>
refVars == <<included, optional, visited>>
resolverVars == <<loaderVars, refVars, stage, next, compiles>>
vars == <<finderVars, resolverVars>>

\* "idle" no Compile yet, "cycle" head of the loop, "load" a file was found,
\* "tree" the loop was left; then one of three ends: "resolved" when Tree()
\* goes on to put the tree together, "failed" when Compile returned an
\* error, and "panicked".
Stages == {"idle", "cycle", "load", "tree", "resolved", "failed", "panicked"}

Callable == stage \in {"idle", "resolved", "failed"} /\ phase = "ready"

ResolverInit ==
    /\ FinderInit
    /\ states = NoEntries /\ threads = NoEntries /\ rootStateId = Blank
    /\ included = {} /\ optional = {} /\ visited = [i \in Ids |-> 0]
    /\ stage = "idle" /\ next = Absent /\ compiles = 0

-----------------------------------------------------------------------------
(* NstCompiler.LoadFile: one disjunct per outcome *)

\* loadBytes: the file becomes the state of its id, and the root state if it
\* is the first one.
Adopt(s) ==
    /\ states' = Put(states, s.id, s)
    /\ rootStateId' = IF rootStateId = Blank THEN s.id ELSE rootStateId

\* FindRefs
NameRefs(s) ==
    /\ included' = included \cup Refs(s)
    /\ optional' = optional \cup OptionalIn(s.lines)

\* mutant: the mark of a request outlives its answer
MarkStateResolvedKeepsMark(i, inc) ==
    /\ included' = inc \ {i}
    /\ UNCHANGED visited

\* mutant: the request is answered but stays pending
MarkStateResolvedKeepsRequest(i, inc) ==
    /\ included' = inc
    /\ visited' = [visited EXCEPT ![i] = IF @ > 0 THEN @ - 1 ELSE 0]

\* mutant: the answer to one request clears the list
MarkStateResolvedFlushes(i, inc) ==
    /\ included' = {}
    /\ visited' = [visited EXCEPT ![i] = IF @ > 0 THEN @ - 1 ELSE 0]

\* mutant: a mark is taken off whether or not there is one
MarkStateResolvedUnchecked(i, inc) ==
    /\ included' = inc \ {i}
    /\ visited' = [visited EXCEPT ![i] = @ - 1]

\* MarkStateResolved, called when "included" is inc: only the first mark goes.
MarkStateResolved(i, inc) ==
    /\ included' = inc \ {i}
    /\ visited' = [visited EXCEPT ![i] = IF @ > 0 THEN @ - 1 ELSE 0]

\* The file is gone or cannot be read; the error stays in the inner scope
\* and nil is returned (ncmp.go:47-59).
LoadNothing(p) ==
    /\ ~Exists(p)
    /\ stage' = "cycle"
    /\ UNCHANGED <<loaderVars, refVars>>

LoadUnreadable(p) ==
    /\ Exists(p) /\ disk[p].kind \in {"badvalue", "badyaml", "badid"}
    /\ stage' = "panicked"
    /\ UNCHANGED <<loaderVars, refVars>>

\* The references are taken in, then GetString("id") panics: the error
\* "State has no ID" is never returned.
LoadNoId(p) ==
    /\ Exists(p) /\ disk[p].kind = "noid"
    /\ NameRefs(disk[p])
    /\ stage' = "panicked"
    /\ UNCHANGED <<loaderVars, visited>>

\* FindRefs on a state without a "state" branch
LoadNoBranch(p) ==
    /\ Exists(p) /\ disk[p].kind = "nobranch"
    /\ Adopt(disk[p])
    /\ stage' = "panicked"
    /\ UNCHANGED <<threads, refVars>>

\* FindRefs meets a dependency without a "/".
LoadDangling(p) ==
    /\ Exists(p) /\ disk[p].kind = "state" /\ FindRefsPanics(disk[p].lines)
    /\ Adopt(disk[p])
    /\ NameRefs(disk[p])
    /\ stage' = "panicked"
    /\ UNCHANGED <<threads, visited>>

LoadState(p) ==
    LET s == disk[p]
    IN  /\ Exists(p) /\ s.kind = "state" /\ ~FindRefsPanics(s.lines)
        /\ Adopt(s)
        /\ optional' = optional \cup OptionalIn(s.lines)
        /\ MarkStateResolved(s.id, included \cup Refs(s))
        /\ threads' = IF s.fn = "good" THEN Put(threads, s.id, s.funcs) ELSE threads
        /\ stage' = IF s.fn = "bad" THEN "panicked" ELSE "cycle"

LoadFile(p) == \/ LoadNothing(p) \/ LoadUnreadable(p) \/ LoadNoId(p)
               \/ LoadNoBranch(p) \/ LoadDangling(p) \/ LoadState(p)

-----------------------------------------------------------------------------
(* StateCompiler.Compile *)

\* The entry file of a wrong suffix is the one error that is returned.
CompileRefused(p) ==
    /\ Callable /\ compiles < MaxCompiles /\ p \notin StPaths
    /\ stage' = "failed" /\ compiles' = compiles + 1
    /\ UNCHANGED <<finderVars, loaderVars, refVars, next>>

Compile(p) ==
    /\ Callable /\ compiles < MaxCompiles /\ p \in StPaths
    /\ LoadFile(p)
    /\ compiles' = compiles + 1
    /\ UNCHANGED <<finderVars, next>>

\* The ids Cycle may take: the first one of a map's random order, "" if none.
Candidates == IF included = {} THEN {Blank} ELSE included

\* MarkStateRequested of an id that already has a mark
CyclePanics(i) ==
    /\ stage = "cycle" /\ i \in Candidates \ {Blank} /\ visited[i] > 0
    /\ stage' = "panicked"
    /\ UNCHANGED <<finderVars, loaderVars, refVars, next, compiles>>

\* MarkStateRequested, which lets "" pass without a mark
Requested(i) == IF i = Blank THEN visited ELSE [visited EXCEPT ![i] = @ + 1]

\* mutant: a requested id is taken off the list before it was loaded
CycleFoundForgets(i) ==
    /\ stage = "cycle" /\ i \in Candidates /\ Known(i)
    /\ i = Blank \/ visited[i] = 0
    /\ visited' = Requested(i) /\ included' = included \ {i}
    /\ next' = MetaOf(i).path
    /\ stage' = "load"
    /\ UNCHANGED <<finderVars, loaderVars, optional, compiles>>

\* mutant: a mark does not stop the next request
CycleFoundAgain(i) ==
    /\ stage = "cycle" /\ i \in Candidates /\ Known(i)
    /\ visited' = IF visited[i] > 0 THEN visited ELSE Requested(i)
    /\ next' = MetaOf(i).path
    /\ stage' = "load"
    /\ UNCHANGED <<finderVars, loaderVars, included, optional, compiles>>

CycleFound(i) ==
    /\ stage = "cycle" /\ i \in Candidates /\ Known(i)
    /\ i = Blank \/ visited[i] = 0
    /\ visited' = Requested(i)
    /\ next' = MetaOf(i).path
    /\ stage' = "load"
    /\ UNCHANGED <<finderVars, loaderVars, included, optional, compiles>>

\* mutant: what is not loaded yet is squashed, in the index or not
CycleSquashBlindly(i) ==
    /\ stage = "cycle" /\ i \in Candidates \ {Blank} /\ visited[i] = 0
    /\ visited' = [Requested(i) EXCEPT ![i] = @ + 1]
    /\ included' = included \ {i}
    /\ UNCHANGED <<finderVars, loaderVars, optional, stage, next, compiles>>

\* mutant: what is given up gets no second mark
CycleSquashOnce(i) ==
    /\ stage = "cycle" /\ i \in Candidates \ {Blank} /\ ~Known(i) /\ visited[i] = 0
    /\ visited' = Requested(i)
    /\ included' = included \ {i}
    /\ UNCHANGED <<finderVars, loaderVars, optional, stage, next, compiles>>

\* Not in the index: SquashState marks the id once more and gives it up.
CycleSquash(i) ==
    /\ stage = "cycle" /\ i \in Candidates \ {Blank} /\ ~Known(i) /\ visited[i] = 0
    /\ visited' = [Requested(i) EXCEPT ![i] = @ + 1]
    /\ included' = included \ {i}
    /\ UNCHANGED <<finderVars, loaderVars, optional, stage, next, compiles>>

\* Cycle answered "" and the index has no state of that id.
CycleDone ==
    /\ stage = "cycle" /\ Blank \in Candidates /\ ~Known(Blank)
    /\ stage' = "tree"
    /\ UNCHANGED <<finderVars, loaderVars, refVars, next, compiles>>

LoadNext ==
    /\ stage = "load"
    /\ LoadFile(next)
    /\ next' = Absent
    /\ UNCHANGED <<finderVars, compiles>>

\* Tree() refuses to go on while mandatory ids are pending.
TreeGuard ==
    /\ stage = "tree"
    /\ stage' = IF included \subseteq optional THEN "resolved" ELSE "panicked"
    /\ UNCHANGED <<finderVars, loaderVars, refVars, next, compiles>>

CycleStep == (\E i \in Ids : CyclePanics(i) \/ CycleFound(i) \/ CycleSquash(i)) \/ CycleDone

ResolveStep == CycleStep \/ LoadNext \/ TreeGuard

ResolverCall == \E p \in Paths : CompileRefused(p) \/ Compile(p)

IndexCall == Callable /\ (compiles = 0 \/ IndexAgain) /\ FinderCall

ResolverNext == \/ (IndexCall \/ WalkStep \/ Environment) /\ UNCHANGED resolverVars
                \/ ResolverCall \/ ResolveStep

\* Nothing in Index or Compile waits for anybody.
ResolverSpec == /\ ResolverInit /\ [][ResolverNext]_vars
                /\ WF_vars(WalkStep /\ UNCHANGED resolverVars) /\ WF_vars(ResolveStep)

-----------------------------------------------------------------------------
(* Properties *)

ResolverTypeOK ==
    /\ FinderTypeOK
    /\ DOMAIN states \subseteq Ids
    /\ \A i \in DOMAIN states : states[i] \in Sources /\ states[i].id = i
    /\ DOMAIN threads \subseteq DOMAIN states
    /\ rootStateId \in Ids
    /\ included \subseteq Ids /\ optional \subseteq Ids
    /\ visited \in [Ids -> Nat]
    /\ stage \in Stages
    /\ IF stage = "load" THEN next \in Paths ELSE next = Absent
    /\ compiles \in 0..MaxCompiles

\* Once Compile got as far as the tree, every id that a loaded state refers
\* to is loaded itself or was given up after the index did not know it, in
\* whatever order the map handed the ids out and whatever happened to the
\* files meanwhile.  (A reference without an id, whose id is "", makes Cycle
\* answer "" though other ids may be pending, and Compile leaves the loop.)
ResolvedClosed ==
    stage = "resolved" /\ Blank \notin included =>
      \A i \in DOMAIN states : \A r \in Refs(states[i]) :
        r \in DOMAIN states \/ visited[r] > 1

\* An id that was given up is one the index does not know, unless the index
\* grew after the fact.
GivenUpIsUnknown ==
    ~IndexAgain => \A i \in Ids : visited[i] > 1 => ~Known(i)

\* The breaker in MarkStateRequested stops on an id the index knows only if
\* files changed since it was indexed: over a quiet disk a state that can be
\* loaded is never refused as "still wasn't resolved".
BreakerMeansUnknown ==
    stage = "cycle" /\ edits = 0 /\ ~IndexAgain =>
      \A i \in included : visited[i] > 0 => ~Known(i)

\* What the index, with the entry file, has to say
Nodes == DOMAIN id_index \cup {rootStateId}
SourceOf(i) == IF i = rootStateId THEN states[i] ELSE disk[MetaOf(i).path]

\* S has every node that one of its own refers to.
Follows(S) == \A i \in S : Refs(SourceOf(i)) \cap Nodes \subseteq S

\* The outcome does not depend on the order of the map: over a quiet disk the
\* first Compile that gets to the tree has loaded exactly the states that can
\* be reached from the entry through references the index can follow (the
\* least set with the entry that follows them), each from the file the index
\* holds for it, and nothing else.  (Unless another state refers back to the
\* entry, for then the file the index has for it is loaded as well.)
ExactlyReachable ==
    /\ stage = "resolved" /\ edits = 0 /\ compiles = 1 /\ ~IndexAgain
    /\ states # NoEntries /\ Blank \notin DOMAIN states \cup included
    /\ \A i \in DOMAIN states \ {rootStateId} : rootStateId \notin Refs(states[i])
    =>
    /\ rootStateId \in DOMAIN states /\ DOMAIN states \subseteq Nodes
    /\ Follows(DOMAIN states)
    /\ \A S \in SUBSET Nodes : rootStateId \in S /\ Follows(S) => DOMAIN states \subseteq S
    /\ \A i \in DOMAIN states : states[i] = SourceOf(i)

\* Every Compile ends, with a tree, an error or a panic.
CompileTerminates ==
    stage \in {"cycle", "load", "tree"} ~> stage \in {"resolved", "failed", "panicked"}

\* Some states that are loaded name one another in a circle.
Circular == \E S \in SUBSET DOMAIN states \ {{}} : \A i \in S : Refs(states[i]) \cap (S \ {i}) # {}

\* A file that vanishes, changes its id or cannot be opened (an error that
\* LoadFile loses) never has Compile ask for it for ever: it ends, unless the
\* states themselves go round in a circle or the index knows the empty id,
\* which is also the answer that nothing is left.
RetriesEnd == stage \in {"cycle", "load", "tree"} ~>
    stage \in {"resolved", "failed", "panicked"} \/ Circular \/ Known(Blank)

Verdict == IF stage = "resolved" THEN "closed"
           ELSE IF stage = "panicked" THEN "broken" ELSE "open"

\* The resolver as an implementation of Closure
Promise == INSTANCE Closure WITH
    names <- [i \in DOMAIN states |-> Refs(states[i])],
    dropped <- {i \in Ids : visited[i] > 1},
    void <- (Blank \in included),
    verdict <- Verdict

\* Resolving takes in one state at a time, never loses or half-takes one, and
\* never closes over an id that is named but neither loaded nor given up.
KeepsPromise == Promise!ClosureSpec

-----------------------------------------------------------------------------
(* Why the properties hold: the parts of the inductive invariant *)

\* Nothing is pending before the first Compile.
Fresh == compiles = 0 =>
           stage = "idle" /\ included = {} /\ visited = [i \in Ids |-> 0]

\* The index does not grow under a Compile, nor after it if the caller
\* keeps to one index.
IndexRests == /\ stage \in {"cycle", "load", "tree"} => phase = "ready"
              /\ ~IndexAgain /\ compiles > 0 => phase # "walking"

\* No reference of a loaded state is forgotten on the way.
Accounted ==
    stage # "panicked" =>
      \A i \in DOMAIN states : \A r \in Refs(states[i]) :
        r \in DOMAIN states \/ r \in included \/ visited[r] > 1

\* One mark is a request, two are an id given up, and there are no more.
TwoMarks == \A i \in Ids : visited[i] <= 2

\* The loop is left with something pending only over a reference without id.
LeftWhenDone ==
    stage \in {"tree", "resolved"} => included = {} \/ Blank \in included

\* While nobody edits, the index describes the files.
IndexTrue ==
    edits = 0 =>
      \A k \in DOMAIN mt_index :
        HasId(mt_index[k].path) /\ disk[mt_index[k].path].id = mt_index[k].id

\* While nobody edits, the only known id with a mark is the one being loaded.
OneRequest ==
    edits = 0 /\ ~IndexAgain /\ stage # "panicked" =>
      \A i \in Ids : visited[i] > 0 /\ Known(i) =>
        /\ stage = "load" /\ visited[i] = 1
        /\ HasId(next) /\ disk[next].id = i

-----------------------------------------------------------------------------
(* What the comments of the repository say and the code does not do *)

\* A file that can't be found by its id counts as optional if any state of
\* the compilation includes it optionally (definition.st:5, "ignored if not
\* found"): an id that only optional references name never stops Compile.
OptionalNeverPanics ==
    [][stage = "cycle" /\ stage' = "panicked" =>
         \E i \in included \ {Blank} : visited[i] > 0 /\
           \E j \in DOMAIN states : i \in Refs(states[j]) \ OptionalIn(states[j].lines)]_vars
=============================================================================
