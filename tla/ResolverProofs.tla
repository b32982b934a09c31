---------------------------- MODULE ResolverProofs ----------------------------
(***************************************************************************)
(* The resolver, proved for every reference graph, every file content and  *)
(* every order in which the map of pending ids is walked: its invariants,  *)
(* what it has loaded in the end, and that it implements Closure.          *)
(***************************************************************************)
EXTENDS Resolver, StateFinderProofs

ResolverInv ==
    /\ FinderInv /\ ResolverTypeOK /\ Fresh /\ IndexRests
    /\ Accounted /\ TwoMarks /\ LeftWhenDone

\* Why the index of a caller that keeps to one Index tells the truth about
\* what was given up and, over a quiet disk, about what the files hold
QuietInv == GivenUpIsUnknown /\ IndexTrue /\ OneRequest

\* The invariant holds before anything was indexed or compiled.
LEMMA ResolverInitHolds == ResolverInit => ResolverInv /\ QuietInv
<1> SUFFICES ASSUME ResolverInit PROVE ResolverInv /\ QuietInv
    OBVIOUS
<1>1. FinderInv
    BY InitHolds DEF ResolverInit
<1>2. ResolverTypeOK
    BY <1>1, SourcesAssumption, CompilesAssumption
    DEF FinderInv, ResolverTypeOK, ResolverInit, Stages, NoEntries
<1>3. Fresh /\ IndexRests /\ Accounted /\ TwoMarks /\ LeftWhenDone
    BY DEF ResolverInit, FinderInit, NoEntries, Fresh, IndexRests, Accounted, TwoMarks, LeftWhenDone
<1>4. QuietInv
    BY DEF ResolverInit, FinderInit, NoEntries, QuietInv, GivenUpIsUnknown, IndexTrue,
           OneRequest, Known
<1> QED
    BY <1>1, <1>2, <1>3, <1>4 DEF ResolverInv

-----------------------------------------------------------------------------
(* Loading one file *)

\* What LoadFile leaves behind is well-typed.
LEMMA LoadFileType ==
    ASSUME ResolverTypeOK, NEW p \in Paths, LoadFile(p)
    PROVE  /\ DOMAIN states' \subseteq Ids
           /\ \A i \in DOMAIN states' : states'[i] \in Sources /\ states'[i].id = i
           /\ DOMAIN threads' \subseteq DOMAIN states'
           /\ rootStateId' \in Ids
           /\ included' \subseteq Ids /\ optional' \subseteq Ids
           /\ visited' \in [Ids -> Nat]
           /\ stage' \in {"cycle", "panicked"}
<1> DEFINE s == disk[p]
<1>1. Exists(p) => /\ s \in Sources /\ s.id \in Ids
                   /\ Refs(s) \subseteq Ids /\ OptionalIn(s.lines) \subseteq Ids
    BY SourcesAssumption, RefsAssumption DEF ResolverTypeOK, FinderTypeOK, Exists
<1>2. ASSUME Exists(p), Adopt(s)
      PROVE  /\ DOMAIN states' = DOMAIN states \cup {s.id}
             /\ \A i \in DOMAIN states' : states'[i] \in Sources /\ states'[i].id = i
             /\ rootStateId' \in Ids
    BY <1>1, <1>2 DEF Adopt, Put, ResolverTypeOK
<1> HIDE DEF s
<1>3. CASE LoadNothing(p) \/ LoadUnreadable(p)
    BY <1>3 DEF LoadNothing, LoadUnreadable, loaderVars, refVars, ResolverTypeOK
<1>4. CASE LoadNoId(p)
    BY <1>1, <1>4 DEF LoadNoId, NameRefs, loaderVars, ResolverTypeOK, s
<1>5. CASE LoadNoBranch(p)
    BY <1>1, <1>2, <1>5 DEF LoadNoBranch, refVars, ResolverTypeOK, s
<1>6. CASE LoadDangling(p)
    BY <1>1, <1>2, <1>6 DEF LoadDangling, NameRefs, ResolverTypeOK, s
<1>7. CASE LoadState(p)
  <2>1. Adopt(s) /\ Exists(p)
    BY <1>7 DEF LoadState, s
  <2>2. included' \subseteq Ids /\ optional' \subseteq Ids
    BY <1>1, <1>7, <2>1 DEF LoadState, MarkStateResolved, ResolverTypeOK, s
  <2>3. visited' \in [Ids -> Nat]
    BY <1>1, <1>7, <2>1 DEF LoadState, MarkStateResolved, ResolverTypeOK, s
  <2>4. DOMAIN threads' \subseteq DOMAIN states \cup {s.id} /\ stage' \in {"cycle", "panicked"}
    BY <1>7 DEF LoadState, Put, ResolverTypeOK, s
  <2> QED
    BY <1>1, <1>2, <2>1, <2>2, <2>3, <2>4 DEF ResolverTypeOK
<1> QED
    BY <1>3, <1>4, <1>5, <1>6, <1>7 DEF LoadFile

\* No reference gets lost and no mark is added when a file is loaded.
LEMMA LoadFileAccounts ==
    ASSUME ResolverTypeOK, Accounted, TwoMarks, stage # "panicked",
           NEW p \in Paths, LoadFile(p)
    PROVE  Accounted' /\ TwoMarks' /\ \A i \in Ids : visited'[i] <= visited[i]
<1> DEFINE s == disk[p]
<1>1. CASE LoadNothing(p) \/ LoadUnreadable(p)
    BY <1>1 DEF LoadNothing, LoadUnreadable, loaderVars, refVars, ResolverTypeOK,
                Accounted, TwoMarks
<1>2. CASE LoadNoId(p) \/ LoadNoBranch(p) \/ LoadDangling(p)
    BY <1>2 DEF LoadNoId, LoadNoBranch, LoadDangling, refVars, ResolverTypeOK,
                Accounted, TwoMarks
<1>3. CASE LoadState(p)
  <2>1. /\ s.id \in Ids
        /\ states' = Put(states, s.id, s)
        /\ included' = (included \cup Refs(s)) \ {s.id}
        /\ visited' = [visited EXCEPT ![s.id] = IF @ > 0 THEN @ - 1 ELSE 0]
    BY <1>3, SourcesAssumption
    DEF LoadState, Adopt, MarkStateResolved, ResolverTypeOK, FinderTypeOK, Exists
  <2> HIDE DEF s
  <2>2. /\ DOMAIN states' = DOMAIN states \cup {s.id}
        /\ states'[s.id] = s
        /\ \A i \in DOMAIN states : i # s.id => states'[i] = states[i]
    BY <2>1 DEF Put
  <2>3. \A i \in Ids : visited'[i] <= visited[i] /\ (i # s.id => visited'[i] = visited[i])
    BY <2>1 DEF ResolverTypeOK
  <2>4. TwoMarks'
    BY <2>1, <2>3 DEF TwoMarks, ResolverTypeOK
  <2>5. ASSUME NEW i \in DOMAIN states', NEW r \in Refs(states'[i])
        PROVE  r \in DOMAIN states' \/ r \in included' \/ visited'[r] > 1
    <3>1. CASE i = s.id
      BY <3>1, <2>1, <2>2
    <3>2. CASE i # s.id
      <4>1. i \in DOMAIN states /\ r \in Refs(states[i])
        BY <3>2, <2>2
      <4>2. r \in DOMAIN states \/ r \in included \/ visited[r] > 1
        BY <4>1 DEF Accounted
      <4>3. r \in Ids
        BY <4>1, RefsAssumption DEF ResolverTypeOK
      <4> QED
        BY <4>2, <4>3, <2>1, <2>2, <2>3
    <3> QED
      BY <3>1, <3>2
  <2> QED
    BY <2>3, <2>4, <2>5 DEF Accounted
<1> QED
    BY <1>1, <1>2, <1>3 DEF LoadFile

-----------------------------------------------------------------------------
(* Every step keeps the invariant *)

\* Steps of the index or the environment
IndexMoves == (IndexCall \/ WalkStep \/ Environment) /\ UNCHANGED resolverVars

\* An index in the course of a Compile, or after it if the caller keeps to
\* one, is not touched by such a step.
LEMMA IndexStepRests ==
    ASSUME ResolverTypeOK, IndexRests, IndexMoves
    PROVE  /\ IndexRests'
           /\ ~IndexAgain /\ compiles > 0 => UNCHANGED tables
<1>1. ASSUME IndexCall
      PROVE  /\ stage \notin {"cycle", "load", "tree"} /\ (compiles = 0 \/ IndexAgain)
             /\ UNCHANGED <<id_index, fn_index, mt_index>>
    BY <1>1 DEF IndexCall, Callable, FinderCall, AddStateRoot, StartIndex, tables
<1>2. WalkStep => phase = "walking"
    BY DEF WalkStep, EnterMissingRoot, EnterRoot, VisitVanished, VisitBadId, SkipFile,
           IndexFile, FinishIndex
<1>3. Environment => phase' = phase /\ UNCHANGED tables
    BY DEF Environment, Edit, walkVars
<1> QED
    BY <1>1, <1>2, <1>3 DEF IndexMoves, IndexRests, resolverVars, ResolverTypeOK

\* Indexing and editing keep what is known of the pending references.
LEMMA IndexStepHolds ==
    ASSUME ResolverInv, IndexMoves
    PROVE  ResolverInv'
<1>1. FinderInv'
    BY StepHolds DEF ResolverInv, IndexMoves, IndexCall, FinderNext
<1>2. ResolverTypeOK'
    BY <1>1 DEF ResolverInv, FinderInv, ResolverTypeOK, IndexMoves, resolverVars,
                loaderVars, refVars
<1>3. IndexRests'
    BY IndexStepRests DEF ResolverInv
<1>4. Fresh' /\ Accounted' /\ TwoMarks' /\ LeftWhenDone'
    BY DEF ResolverInv, IndexMoves, resolverVars, loaderVars, refVars,
           Fresh, Accounted, TwoMarks, LeftWhenDone
<1> QED
    BY <1>1, <1>2, <1>3, <1>4 DEF ResolverInv

\* The index is a bystander of every step of Compile.
LEMMA FinderAlone ==
    ASSUME FinderInv, UNCHANGED finderVars
    PROVE  FinderInv' /\ FinderTypeOK'
BY StepHolds DEF FinderInv

\* So does the call of Compile that loads the entry file.
LEMMA CallHolds ==
    ASSUME ResolverInv, ResolverCall
    PROVE  ResolverInv'
<1> USE DEF ResolverInv
<1>1. PICK p \in Paths : CompileRefused(p) \/ Compile(p)
    BY DEF ResolverCall
<1>2. /\ UNCHANGED finderVars /\ compiles' = compiles + 1 /\ compiles < MaxCompiles
      /\ Callable /\ next' = next
    BY <1>1 DEF CompileRefused, Compile
<1>3. FinderInv' /\ FinderTypeOK'
    BY <1>2, FinderAlone
<1>4. /\ compiles' \in 0..MaxCompiles /\ compiles' > 0
      /\ phase' = "ready" /\ next' = Absent
    BY <1>2, CompilesAssumption DEF Callable, ResolverTypeOK, finderVars, walkVars
<1>5. Fresh' /\ IndexRests'
    BY <1>4 DEF Fresh, IndexRests
<1>6. CASE CompileRefused(p)
  <2>1. stage' = "failed" /\ UNCHANGED <<loaderVars, refVars>>
    BY <1>6 DEF CompileRefused
  <2>2. ResolverTypeOK'
    BY <1>3, <1>4, <2>1 DEF ResolverTypeOK, Stages, loaderVars, refVars
  <2>3. Accounted' /\ TwoMarks' /\ LeftWhenDone'
    BY <1>2, <2>1 DEF Accounted, TwoMarks, LeftWhenDone, loaderVars, refVars, Callable
  <2> QED
    BY <1>3, <1>5, <2>2, <2>3
<1>7. CASE Compile(p)
  <2>1. LoadFile(p) /\ stage # "panicked"
    BY <1>2, <1>7 DEF Compile, Callable
  <2>2. ResolverTypeOK' /\ LeftWhenDone'
    BY <1>3, <1>4, <2>1, LoadFileType DEF ResolverTypeOK, Stages, LeftWhenDone
  <2>3. Accounted' /\ TwoMarks'
    BY <2>1, LoadFileAccounts
  <2> QED
    BY <1>3, <1>5, <2>2, <2>3
<1> QED
    BY <1>1, <1>6, <1>7

\* So does every step of the loop in Compile and the guard in Tree().
LEMMA RoundHolds ==
    ASSUME ResolverInv, ResolveStep
    PROVE  ResolverInv'
<1> USE DEF ResolverInv
<1>1. /\ UNCHANGED finderVars /\ compiles' = compiles
      /\ stage \in {"cycle", "load", "tree"}
    BY DEF ResolveStep, CycleStep, CyclePanics, CycleFound, CycleSquash, CycleDone,
           LoadNext, TreeGuard
<1>2. FinderInv' /\ FinderTypeOK'
    BY <1>1, FinderAlone
<1>3. Fresh' /\ IndexRests'
  <2>1. compiles # 0 /\ phase = "ready" /\ phase' = "ready"
    BY <1>1 DEF Fresh, IndexRests, finderVars, walkVars
  <2> QED
    BY <1>1, <2>1 DEF Fresh, IndexRests
<1>4. ASSUME NEW i \in Ids, CyclePanics(i) PROVE ResolverInv'
  <2>1. stage' = "panicked" /\ UNCHANGED <<loaderVars, refVars, next>> /\ stage = "cycle"
    BY <1>4 DEF CyclePanics
  <2>2. ResolverTypeOK' /\ Accounted' /\ TwoMarks' /\ LeftWhenDone'
    BY <1>1, <1>2, <2>1 DEF ResolverTypeOK, Stages, Accounted, TwoMarks, LeftWhenDone,
                            loaderVars, refVars
  <2> QED
    BY <1>2, <1>3, <2>2
<1>5. ASSUME NEW i \in Ids, CycleFound(i) PROVE ResolverInv'
  <2>1. /\ stage = "cycle" /\ stage' = "load" /\ UNCHANGED <<loaderVars, included, optional>>
        /\ Known(i) /\ next' = MetaOf(i).path
        /\ visited' = visited \/ (visited[i] = 0 /\ visited' = [visited EXCEPT ![i] = @ + 1])
    BY <1>5 DEF CycleFound, Requested
  <2>2. next' \in Paths
    BY <2>1 DEF FinderInv, FinderTypeOK, Coherent, Known, MetaOf, Metas
  <2>3. \A j \in Ids : /\ visited'[j] \in Nat /\ visited'[j] >= visited[j] /\ visited'[j] <= 2
    BY <2>1 DEF ResolverTypeOK, TwoMarks
  <2>4. ResolverTypeOK'
    BY <1>1, <1>2, <2>1, <2>2 DEF ResolverTypeOK, Stages, loaderVars
  <2>5. Accounted'
    BY <2>1, <2>3, RefsAssumption DEF Accounted, ResolverTypeOK, loaderVars
  <2>6. TwoMarks' /\ LeftWhenDone'
    BY <2>1, <2>3 DEF TwoMarks, LeftWhenDone
  <2> QED
    BY <1>2, <1>3, <2>4, <2>5, <2>6
<1>6. ASSUME NEW i \in Ids, CycleSquash(i) PROVE ResolverInv'
  <2>1. /\ stage = "cycle" /\ stage' = stage /\ UNCHANGED <<loaderVars, optional, next>>
        /\ included' = included \ {i} /\ visited[i] = 0
        /\ visited' = [visited EXCEPT ![i] = 2]
    BY <1>6 DEF CycleSquash, Requested, ResolverTypeOK
  <2>2. \A j \in Ids : visited'[j] = IF j = i THEN 2 ELSE visited[j]
    BY <2>1 DEF ResolverTypeOK
  <2>3. ResolverTypeOK'
    BY <1>1, <1>2, <2>1 DEF ResolverTypeOK, Stages, loaderVars
  <2>4. Accounted'
    BY <2>1, <2>2, RefsAssumption DEF Accounted, ResolverTypeOK, loaderVars
  <2>5. TwoMarks' /\ LeftWhenDone'
    BY <2>1, <2>2 DEF TwoMarks, LeftWhenDone
  <2> QED
    BY <1>2, <1>3, <2>3, <2>4, <2>5
<1>7. CASE CycleDone
  <2>1. /\ stage = "cycle" /\ stage' = "tree" /\ UNCHANGED <<loaderVars, refVars, next>>
        /\ included = {} \/ Blank \in included
    BY <1>7 DEF CycleDone, Candidates
  <2>2. ResolverTypeOK' /\ Accounted' /\ TwoMarks' /\ LeftWhenDone'
    BY <1>1, <1>2, <2>1 DEF ResolverTypeOK, Stages, Accounted, TwoMarks, LeftWhenDone,
                            loaderVars, refVars
  <2> QED
    BY <1>2, <1>3, <2>2
<1>8. CASE LoadNext
  <2>1. LoadFile(next) /\ next \in Paths /\ next' = Absent /\ stage # "panicked"
    BY <1>8 DEF LoadNext, ResolverTypeOK
  <2>2. ResolverTypeOK' /\ LeftWhenDone'
    BY <1>1, <1>2, <2>1, LoadFileType DEF ResolverTypeOK, Stages, LeftWhenDone
  <2>3. Accounted' /\ TwoMarks'
    BY <2>1, LoadFileAccounts
  <2> QED
    BY <1>2, <1>3, <2>2, <2>3
<1>9. CASE TreeGuard
  <2>1. /\ stage = "tree" /\ stage' \in {"resolved", "panicked"}
        /\ UNCHANGED <<loaderVars, refVars, next>>
    BY <1>9 DEF TreeGuard
  <2>2. ResolverTypeOK' /\ Accounted' /\ TwoMarks' /\ LeftWhenDone'
    BY <1>1, <1>2, <2>1 DEF ResolverTypeOK, Stages, Accounted, TwoMarks, LeftWhenDone,
                            loaderVars, refVars
  <2> QED
    BY <1>2, <1>3, <2>2
<1> QED
    BY <1>4, <1>5, <1>6, <1>7, <1>8, <1>9 DEF ResolveStep, CycleStep

\* The invariant is inductive.
LEMMA ResolverStepHolds == ResolverInv /\ [ResolverNext]_vars => ResolverInv'
<1> SUFFICES ASSUME ResolverInv, [ResolverNext]_vars PROVE ResolverInv'
    OBVIOUS
<1>1. CASE IndexMoves
    BY <1>1, IndexStepHolds
<1>2. CASE ResolverCall
    BY <1>2, CallHolds
<1>3. CASE ResolveStep
    BY <1>3, RoundHolds
<1>4. CASE UNCHANGED vars
  <2>1. FinderInv' /\ FinderTypeOK'
    BY <1>4, FinderAlone DEF vars, ResolverInv
  <2> QED
    BY <1>4, <2>1 DEF ResolverInv, ResolverTypeOK, Fresh, IndexRests, Accounted, TwoMarks,
        LeftWhenDone, vars, finderVars, walkVars, resolverVars, loaderVars, refVars
<1> QED
    BY <1>1, <1>2, <1>3, <1>4 DEF ResolverNext, IndexMoves

\* It holds of every state the resolver gets to.
LEMMA ResolverInvariant == ResolverSpec => []ResolverInv
<1>1. ResolverInit => ResolverInv
    BY ResolverInitHolds
<1> QED
    BY <1>1, ResolverStepHolds, PTL DEF ResolverSpec

\* All variables of index and resolver keep their types.
THEOREM ResolverTypes == ResolverSpec => []ResolverTypeOK
<1>1. ResolverInv => ResolverTypeOK
    BY DEF ResolverInv
<1> QED
    BY <1>1, ResolverInvariant, PTL

\* When Compile gets to the tree, every reference of every loaded state is
\* loaded or was given up: with nothing pending, Accounted leaves no third
\* possibility.
THEOREM ResolvingCloses == ResolverSpec => []ResolvedClosed
<1>1. ResolverInv => ResolvedClosed
  <2> SUFFICES ASSUME ResolverInv, stage = "resolved", Blank \notin included
               PROVE  \A i \in DOMAIN states : \A r \in Refs(states[i]) :
                        r \in DOMAIN states \/ visited[r] > 1
    BY DEF ResolvedClosed
  <2>1. included = {}
    BY DEF ResolverInv, LeftWhenDone
  <2> QED
    BY <2>1 DEF ResolverInv, Accounted
<1> QED
    BY <1>1, ResolverInvariant, PTL

-----------------------------------------------------------------------------
(* One index, and a disk nobody touches *)

\* Indexing and editing make the index agree with a disk nobody edits.
LEMMA IndexStaysTrue ==
    ASSUME FinderInv, IndexTrue, [FinderNext]_finderVars
    PROVE  IndexTrue'
<1>1. edits' = 0 => edits = 0 /\ disk' = disk
    BY DEF FinderNext, FinderCall, AddStateRoot, StartIndex, WalkStep, WalkPanics,
           EnterMissingRoot, EnterRoot, VisitVanished, VisitBadId, SkipFile,
           IndexFile, FinishIndex, Environment, Edit, envVars, finderVars, FinderInv,
           FinderTypeOK
<1>2. CASE UNCHANGED mt_index
    BY <1>1, <1>2 DEF IndexTrue, HasId, Exists
<1>3. CASE IndexFile
  <2> DEFINE p == Head(walk)
             m == [id |-> disk[p].id, filename |-> FileName[p], path |-> p]
  <2>1. mt_index' = Put(mt_index, ct, m) /\ HasId(p)
    BY <1>3 DEF IndexFile, Record
  <2> HIDE DEF p
  <2>2. \A k \in DOMAIN mt_index' :
          mt_index'[k] = m \/ (k \in DOMAIN mt_index /\ mt_index'[k] = mt_index[k])
    BY <2>1 DEF Put
  <2> QED
    BY <1>1, <2>1, <2>2 DEF IndexTrue, HasId, Exists
<1>4. IndexFile \/ UNCHANGED mt_index
    BY DEF FinderNext, FinderCall, AddStateRoot, StartIndex, WalkStep, WalkPanics,
           EnterMissingRoot, EnterRoot, VisitVanished, VisitBadId, SkipFile,
           FinishIndex, Environment, Edit, tables, finderVars
<1> QED
    BY <1>2, <1>3, <1>4

\* So do Index and the edits around a Compile, which touch no mark.
LEMMA QuietIndexStep ==
    ASSUME ResolverInv, QuietInv, IndexMoves
    PROVE  QuietInv'
<1> USE DEF ResolverInv, QuietInv
<1>1. UNCHANGED <<visited, stage, next>>
    BY DEF IndexMoves, resolverVars, refVars
<1>2. ~IndexAgain => (\A i \in Ids : visited[i] = 0) \/ UNCHANGED tables
    BY IndexStepRests DEF Fresh, ResolverTypeOK
<1>3. GivenUpIsUnknown'
    BY <1>1, <1>2 DEF GivenUpIsUnknown, Known, tables
<1>4. edits' = 0 => edits = 0 /\ disk' = disk
    BY DEF IndexMoves, IndexCall, FinderCall, AddStateRoot, StartIndex, WalkStep,
           EnterMissingRoot, EnterRoot, VisitVanished, VisitBadId, WalkPanics, SkipFile,
           IndexFile, FinishIndex, Environment, Edit, envVars, FinderInv, FinderTypeOK
<1>5. IndexTrue'
    BY IndexStaysTrue DEF IndexMoves, IndexCall, FinderNext
<1>6. OneRequest'
    BY <1>1, <1>2, <1>4 DEF OneRequest, Known, HasId, Exists, tables
<1> QED
    BY <1>3, <1>5, <1>6

\* Compile requests a known id only once and, over a quiet disk, loads it.
LEMMA QuietCompileStep ==
    ASSUME ResolverInv, QuietInv, ResolverCall \/ ResolveStep
    PROVE  QuietInv'
<1> USE DEF ResolverInv, QuietInv
<1>1. UNCHANGED finderVars
    BY DEF ResolverCall, CompileRefused, Compile, ResolveStep, CycleStep, CyclePanics,
           CycleFound, CycleSquash, CycleDone, LoadNext, TreeGuard
<1>2. UNCHANGED <<disk, edits, id_index, mt_index>>
    BY <1>1 DEF finderVars, envVars, tables
<1>3. IndexTrue'
    BY <1>2 DEF IndexTrue, HasId, Exists
\* Steps that add no mark and start no load
<1>4. ASSUME \A i \in Ids : visited'[i] <= visited[i], visited' \in [Ids -> Nat],
             stage # "panicked", stage # "load"
      PROVE  QuietInv'
  <2>1. GivenUpIsUnknown'
    BY <1>2, <1>4 DEF GivenUpIsUnknown, Known, ResolverTypeOK
  <2>2. OneRequest'
    BY <1>2, <1>4 DEF OneRequest, Known, ResolverTypeOK
  <2> QED
    BY <1>3, <2>1, <2>2
<1>5. CASE ResolverCall
  <2>1. PICK p \in Paths : CompileRefused(p) \/ Compile(p)
    BY <1>5 DEF ResolverCall
  <2>2. stage # "panicked" /\ stage # "load"
    BY <2>1 DEF CompileRefused, Compile, Callable
  <2>3. CASE CompileRefused(p)
    BY <1>4, <2>2, <2>3 DEF CompileRefused, refVars, ResolverTypeOK
  <2>4. CASE Compile(p)
    BY <1>4, <2>2, <2>4, LoadFileAccounts, LoadFileType DEF Compile
  <2> QED
    BY <2>1, <2>3, <2>4
<1>6. ASSUME NEW i \in Ids, CycleFound(i) PROVE QuietInv'
  <2>1. /\ stage = "cycle" /\ stage' = "load"
        /\ Known(i) /\ next' = MetaOf(i).path
        /\ visited' = visited \/ (visited[i] = 0 /\ visited' = [visited EXCEPT ![i] = @ + 1])
    BY <1>6 DEF CycleFound, Requested
  <2>2. \A j \in Ids : visited'[j] = visited[j] \/ (j = i /\ visited'[j] = 1)
    BY <2>1 DEF ResolverTypeOK
  <2>3. edits = 0 => HasId(next') /\ disk[next'].id = i
    BY <2>1 DEF IndexTrue, FinderInv, Coherent, Known, MetaOf
  <2>4. GivenUpIsUnknown'
    BY <1>2, <2>2 DEF GivenUpIsUnknown, Known
  <2>5. OneRequest'
    BY <1>2, <2>1, <2>2, <2>3 DEF OneRequest, Known, HasId, Exists
  <2> QED
    BY <1>3, <2>4, <2>5
<1>7. ASSUME NEW i \in Ids, CycleSquash(i) PROVE QuietInv'
  <2>1. stage = "cycle" /\ ~Known(i) /\ \A j \in Ids : j # i => visited'[j] = visited[j]
    BY <1>7 DEF CycleSquash, Requested, ResolverTypeOK
  <2>2. GivenUpIsUnknown' /\ OneRequest'
    BY <1>2, <2>1 DEF GivenUpIsUnknown, OneRequest, Known
  <2> QED
    BY <1>3, <2>2
<1>8. CASE (\E i \in Ids : CyclePanics(i)) \/ CycleDone \/ TreeGuard
  <2>1. visited' = visited /\ stage \in {"cycle", "tree"}
    BY <1>8 DEF CyclePanics, CycleDone, TreeGuard, refVars
  <2> QED
    BY <1>4, <2>1 DEF ResolverTypeOK
<1>9. CASE LoadNext
  <2>1. /\ stage = "load" /\ next \in Paths /\ LoadFile(next)
    BY <1>9 DEF LoadNext, ResolverTypeOK
  <2>2. (\A i \in Ids : visited'[i] <= visited[i]) /\ visited' \in [Ids -> Nat]
    BY <2>1, LoadFileAccounts, LoadFileType
  <2>3. GivenUpIsUnknown'
    BY <1>2, <2>2 DEF GivenUpIsUnknown, Known, ResolverTypeOK
  <2>4. ASSUME edits = 0, ~IndexAgain, stage' # "panicked",
               NEW i \in Ids, visited'[i] > 0, Known(i)
        PROVE  FALSE
    <3>1. visited[i] = 1 /\ HasId(next) /\ disk[next].id = i
      BY <2>1, <2>2, <2>4 DEF OneRequest, ResolverTypeOK
    <3>2. LoadState(next)
      BY <2>1, <2>4, <3>1 DEF LoadFile, LoadNothing, LoadUnreadable, LoadNoId,
                              LoadNoBranch, LoadDangling, HasId
    <3> QED
      BY <2>4, <3>1, <3>2 DEF LoadState, MarkStateResolved, ResolverTypeOK
  <2>5. OneRequest'
    BY <1>2, <2>4 DEF OneRequest, Known
  <2> QED
    BY <1>3, <2>3, <2>5
<1> QED
    BY <1>5, <1>6, <1>7, <1>8, <1>9 DEF ResolveStep, CycleStep

\* Both hold of every state the resolver gets to.
LEMMA QuietInvariant == ResolverSpec => []QuietInv
<1>1. ResolverInit => QuietInv
    BY ResolverInitHolds
<1>2. ResolverInv /\ QuietInv /\ [ResolverNext]_vars => QuietInv'
  <2> SUFFICES ASSUME ResolverInv, QuietInv, [ResolverNext]_vars PROVE QuietInv'
    OBVIOUS
  <2>1. CASE IndexMoves
    BY <2>1, QuietIndexStep
  <2>2. CASE ResolverCall \/ ResolveStep
    BY <2>2, QuietCompileStep
  <2>3. CASE UNCHANGED vars
    BY <2>3 DEF QuietInv, GivenUpIsUnknown, IndexTrue, OneRequest, Known, HasId, Exists, vars,
        finderVars, envVars, tables, resolverVars, refVars
  <2> QED
    BY <2>1, <2>2, <2>3 DEF ResolverNext, IndexMoves
<1> QED
    BY <1>1, <1>2, ResolverInvariant, PTL DEF ResolverSpec

\* What is given up is not in the index.
THEOREM GivenUpRightly == ResolverSpec => []GivenUpIsUnknown
<1>1. QuietInv => GivenUpIsUnknown
    BY DEF QuietInv
<1> QED
    BY <1>1, QuietInvariant, PTL

\* Over a quiet disk the breaker never stops on a state that can be loaded:
\* at the head of the loop no known id carries a mark.
THEOREM BreakerIsRight == ResolverSpec => []BreakerMeansUnknown
<1>1. ResolverInv /\ QuietInv => BreakerMeansUnknown
    BY DEF ResolverInv, QuietInv, ResolverTypeOK, OneRequest, BreakerMeansUnknown
<1> QED
    BY <1>1, ResolverInvariant, QuietInvariant, PTL

-----------------------------------------------------------------------------
(* What is loaded, when nobody edits *)

\* The first Compile over one index and files nobody edits, none of which
\* has the empty id
FirstQuiet ==
    /\ edits = 0 /\ compiles = 1 /\ ~IndexAgain /\ stage # "panicked"
    /\ Blank \notin DOMAIN states

NoWayBack == \A i \in DOMAIN states \ {rootStateId} : rootStateId \notin Refs(states[i])

\* Every state but the entry comes from the file the index has for it, and
\* what is being loaded was asked for.
FromIndex ==
    /\ compiles = 0 => states = NoEntries /\ rootStateId = Blank
    /\ FirstQuiet =>
         /\ IF states = NoEntries THEN rootStateId = Blank /\ included = {}
                                  ELSE rootStateId \in DOMAIN states
         /\ \A i \in DOMAIN states \ {rootStateId} : Known(i) /\ states[i] = SourceOf(i)
         /\ stage = "load" => \E i \in included \cup {Blank} : Known(i) /\ next = MetaOf(i).path

\* What is pending is named by a state that is loaded and no other than it,
\* and what is loaded is in every set that follows the references.
Needed ==
    FirstQuiet /\ NoWayBack =>
      /\ \A r \in included : \E i \in DOMAIN states \ {r} : r \in Refs(states[i])
      /\ \A S \in SUBSET Nodes : rootStateId \in S /\ Follows(S) => DOMAIN states \subseteq S

ReachInv == FromIndex /\ Needed

\* While Compile is under way nothing moves around it but an editor.
LEMMA ReachIndexStep ==
    ASSUME ResolverInv, ReachInv, IndexMoves
    PROVE  ReachInv'
<1> USE DEF ReachInv
<1>1. UNCHANGED <<states, rootStateId, included, stage, next, compiles>>
    BY DEF IndexMoves, resolverVars, loaderVars, refVars
<1>2. CASE compiles = 0 \/ IndexAgain
    BY <1>1, <1>2 DEF FromIndex, Needed, FirstQuiet
<1>3. CASE compiles # 0 /\ ~IndexAgain
  <2>1. phase # "walking"
    BY <1>3 DEF ResolverInv, IndexRests, ResolverTypeOK
  <2>2. Environment
    BY <1>3, <2>1 DEF IndexMoves, IndexCall, WalkStep, EnterMissingRoot, EnterRoot,
                      VisitVanished, VisitBadId, SkipFile, IndexFile, FinishIndex
  <2>3. edits' # 0
    BY <2>2 DEF Environment, Edit, ResolverInv, FinderInv, FinderTypeOK
  <2> QED
    BY <1>1, <1>3, <2>3 DEF FromIndex, Needed, FirstQuiet
<1> QED
    BY <1>2, <1>3

\* The entry file
LEMMA ReachCall ==
    ASSUME ResolverInv, ReachInv, ResolverCall
    PROVE  ReachInv'
<1> USE DEF ReachInv
<1>1. PICK p \in Paths : CompileRefused(p) \/ Compile(p)
    BY DEF ResolverCall
<1>2. /\ UNCHANGED finderVars /\ compiles' = compiles + 1 /\ compiles \in Nat
      /\ stage # "panicked"
    BY <1>1, CompilesAssumption
    DEF CompileRefused, Compile, Callable, ResolverInv, ResolverTypeOK
<1>3. CASE compiles # 0
    BY <1>2, <1>3 DEF FromIndex, Needed, FirstQuiet
<1>4. CASE compiles = 0
  <2>1. states = NoEntries /\ rootStateId = Blank /\ included = {}
    BY <1>4 DEF FromIndex, ResolverInv, Fresh
  <2>2. CASE CompileRefused(p)
    <3>1. UNCHANGED <<states, rootStateId, included>> /\ stage' = "failed"
      BY <2>2 DEF CompileRefused, loaderVars, refVars
    <3> QED
      BY <1>2, <1>4, <2>1, <3>1 DEF FromIndex, Needed, FirstQuiet, NoEntries
  <2>3. CASE Compile(p) /\ ~LoadState(p)
    <3>1. stage' = "panicked" \/ (stage' = "cycle" /\ UNCHANGED <<states, rootStateId, included>>)
      BY <2>3 DEF Compile, LoadFile, LoadNothing, LoadUnreadable, LoadNoId, LoadNoBranch,
                  LoadDangling, loaderVars, refVars
    <3> QED
      BY <1>2, <1>4, <2>1, <3>1 DEF FromIndex, Needed, FirstQuiet, NoEntries
  <2>4. CASE LoadState(p)
    <3> DEFINE s == disk[p]
    <3>1. /\ states' = Put(states, s.id, s) /\ rootStateId' = s.id
          /\ included' = Refs(s) \ {s.id} /\ stage' \in {"cycle", "panicked"}
      BY <2>1, <2>4 DEF LoadState, Adopt, MarkStateResolved
    <3> HIDE DEF s
    <3>2. DOMAIN states' = {s.id} /\ states'[s.id] = s /\ states' # NoEntries
      BY <2>1, <3>1 DEF Put, NoEntries
    <3> QED
      BY <1>2, <1>4, <3>1, <3>2 DEF FromIndex, Needed
  <2> QED
    BY <1>1, <2>2, <2>3, <2>4
<1> QED
    BY <1>3, <1>4

\* A state that was asked for comes from the file the index has for it.
LEMMA ReachLoad ==
    ASSUME ResolverInv, QuietInv, ReachInv, LoadNext
    PROVE  ReachInv'
<1> USE DEF ReachInv
<1>1. /\ stage = "load" /\ LoadFile(next) /\ next \in Paths
      /\ UNCHANGED <<disk, edits, id_index, mt_index, compiles>>
    BY DEF LoadNext, finderVars, envVars, tables, ResolverInv, ResolverTypeOK
<1>2. compiles # 0
    BY <1>1 DEF ResolverInv, Fresh
<1>3. SUFFICES ASSUME FirstQuiet' PROVE ReachInv'
    BY <1>1, <1>2 DEF FromIndex, Needed
<1>4. DOMAIN states \subseteq DOMAIN states'
    BY <1>1 DEF LoadFile, LoadNothing, LoadUnreadable, LoadNoId, LoadNoBranch, LoadDangling,
                LoadState, loaderVars, Adopt, Put
<1>5. FirstQuiet
    BY <1>1, <1>3, <1>4 DEF FirstQuiet
<1>6. PICK y \in included \cup {Blank} : Known(y) /\ next = MetaOf(y).path
    BY <1>1, <1>5 DEF FromIndex
<1>7. HasId(next) /\ disk[next].id = y
    BY <1>5, <1>6 DEF QuietInv, IndexTrue, FirstQuiet, ResolverInv, FinderInv, Coherent, Known, MetaOf
<1>8. LoadState(next)
    BY <1>1, <1>3, <1>7 DEF LoadFile, LoadNothing, LoadUnreadable, LoadNoId, LoadNoBranch,
                            LoadDangling, HasId, FirstQuiet
<1> DEFINE s == disk[next]
<1>9. /\ states' = Put(states, y, s)
      /\ rootStateId' = IF rootStateId = Blank THEN y ELSE rootStateId
      /\ included' = (included \cup Refs(s)) \ {y} /\ stage' \in {"cycle", "panicked"}
    BY <1>7, <1>8 DEF LoadState, Adopt, MarkStateResolved
<1> HIDE DEF s
<1>10. /\ DOMAIN states' = DOMAIN states \cup {y} /\ states'[y] = s
       /\ \A i \in DOMAIN states \ {y} : states'[i] = states[i]
    BY <1>9 DEF Put
<1>11. y # Blank /\ y \in included
    BY <1>3, <1>6, <1>10 DEF FirstQuiet
<1>12. rootStateId \in DOMAIN states /\ rootStateId' = rootStateId
    BY <1>5, <1>9, <1>11 DEF FromIndex, FirstQuiet
<1>13. \A i \in Ids : i # rootStateId => SourceOf(i)' = SourceOf(i)
    BY <1>1, <1>12 DEF SourceOf, MetaOf
<1>14. y \in Ids /\ DOMAIN states \subseteq Ids
    BY <1>11 DEF ResolverInv, ResolverTypeOK
<1>15. s = disk[MetaOf(y).path]
    BY <1>6 DEF s
<1>16. FromIndex'
  <2>1. \A i \in DOMAIN states' \ {rootStateId} : Known(i)' /\ states'[i] = SourceOf(i)'
    BY <1>1, <1>5, <1>6, <1>10, <1>13, <1>14, <1>15 DEF FromIndex, Known, SourceOf
  <2>2. states' # NoEntries
    BY <1>10 DEF NoEntries
  <2> QED
    BY <1>1, <1>2, <1>9, <1>10, <1>12, <2>1, <2>2 DEF FromIndex
<1>17. Needed'
  <2> SUFFICES ASSUME NoWayBack' PROVE Needed'
    BY DEF Needed
  <2>1. \A i \in DOMAIN states \ {rootStateId} : states'[i] = states[i]
    BY <1>5, <1>10, <1>15 DEF FromIndex, SourceOf
  <2>2. NoWayBack
    BY <1>10, <1>12, <2>1 DEF NoWayBack
  <2>3. y # rootStateId
    BY <1>5, <1>11, <2>2 DEF Needed, NoWayBack
  <2>4. \A i \in DOMAIN states : states'[i] = states[i]
    BY <1>10, <2>1, <2>3
  <2>5. ASSUME NEW r \in included' PROVE \E i \in DOMAIN states' \ {r} : r \in Refs(states'[i])
    <3>1. CASE r \in Refs(s)
      BY <1>9, <1>10, <2>5, <3>1
    <3>2. CASE r \in included
      BY <1>5, <1>10, <2>2, <2>4, <3>2 DEF Needed
    <3> QED
      BY <1>9, <2>5, <3>1, <3>2
  <2>6. ASSUME NEW S \in SUBSET Nodes', rootStateId \in S, Follows(S)'
        PROVE  DOMAIN states' \subseteq S
    <3>1. Nodes' = Nodes
      BY <1>1, <1>12 DEF Nodes
    <3>2. SourceOf(rootStateId)' = SourceOf(rootStateId)
      BY <1>12, <2>4 DEF SourceOf
    <3>3. \A i : SourceOf(i)' = SourceOf(i)
      BY <1>1, <1>12, <2>4 DEF SourceOf, MetaOf
    <3>4. Follows(S)
      BY <2>6, <3>1, <3>3 DEF Follows
    <3>5. DOMAIN states \subseteq S
      BY <1>5, <2>2, <2>6, <3>1, <3>4 DEF Needed
    <3>6. PICK i \in DOMAIN states : y \in Refs(states[i])
      BY <1>5, <1>11, <2>2 DEF Needed
    <3>7. states[i] = SourceOf(i)
      BY <1>5 DEF FromIndex, SourceOf
    <3>8. y \in S
      BY <1>6, <3>4, <3>5, <3>6, <3>7 DEF Follows, Nodes, Known
    <3> QED
      BY <1>10, <3>5, <3>8
  <2> QED
    BY <1>12, <2>5, <2>6 DEF Needed
<1> QED
    BY <1>16, <1>17

\* The rounds themselves only choose what is loaded next.
LEMMA ReachRound ==
    ASSUME ResolverInv, QuietInv, ReachInv, ResolveStep
    PROVE  ReachInv'
<1> USE DEF ReachInv
<1>1. CASE LoadNext
    BY <1>1, ReachLoad
<1>2. CASE ~LoadNext
  <2>1. /\ UNCHANGED <<disk, edits, id_index, mt_index, compiles, states, rootStateId>>
        /\ stage \in {"cycle", "tree"} /\ included' \subseteq included
    BY <1>2 DEF ResolveStep, CycleStep, CyclePanics, CycleFound, CycleSquash, CycleDone,
                TreeGuard, finderVars, envVars, tables, loaderVars, refVars
  <2>2. compiles # 0
    BY <2>1 DEF ResolverInv, Fresh
  <2>3. FirstQuiet' => FirstQuiet
    BY <2>1 DEF FirstQuiet
  <2>4. /\ \A i : SourceOf(i)' = SourceOf(i) /\ (Known(i)' <=> Known(i))
        /\ Nodes' = Nodes /\ (NoWayBack' <=> NoWayBack)
    BY <2>1 DEF SourceOf, MetaOf, Known, Nodes, NoWayBack
  <2>5. Needed'
    BY <2>1, <2>3, <2>4 DEF Needed, Follows
  <2>6. stage' = "load" => \E i \in included' \cup {Blank} : Known(i)' /\ next' = MetaOf(i)'.path
    <3>1. stage' = "load" => \E i \in Ids : CycleFound(i)
      BY <1>2, <2>1 DEF ResolveStep, CycleStep, CyclePanics, CycleSquash, CycleDone, TreeGuard
    <3> QED
      BY <2>1, <3>1 DEF CycleFound, Candidates, Known, MetaOf
  <2>7. FromIndex'
    BY <2>1, <2>2, <2>3, <2>4, <2>6 DEF FromIndex
  <2> QED
    BY <2>5, <2>7
<1> QED
    BY <1>1, <1>2

\* What is loaded is accounted for in every state of the resolver.
LEMMA ReachInvariant == ResolverSpec => []ReachInv
<1>1. ResolverInit => ReachInv
    BY DEF ResolverInit, ReachInv, FromIndex, Needed, FirstQuiet
<1>2. ResolverInv /\ QuietInv /\ ReachInv /\ [ResolverNext]_vars => ReachInv'
  <2> SUFFICES ASSUME ResolverInv, QuietInv, ReachInv, [ResolverNext]_vars PROVE ReachInv'
    OBVIOUS
  <2>1. CASE IndexMoves
    BY <2>1, ReachIndexStep
  <2>2. CASE ResolverCall
    BY <2>2, ReachCall
  <2>3. CASE ResolveStep
    BY <2>3, ReachRound
  <2>4. CASE UNCHANGED vars
    BY <2>4 DEF ReachInv, FromIndex, Needed, FirstQuiet, NoWayBack, Follows, Nodes, SourceOf, Known,
                MetaOf, vars, finderVars, envVars, tables, resolverVars, loaderVars, refVars
  <2> QED
    BY <2>1, <2>2, <2>3, <2>4 DEF ResolverNext, IndexMoves
<1> QED
    BY <1>1, <1>2, ResolverInvariant, QuietInvariant, PTL DEF ResolverSpec

\* Whatever the order of the map, what is loaded when the tree is put together
\* is what can be reached from the entry: Needed says that it is no more, and
\* Accounted with GivenUpIsUnknown that it is no less.
THEOREM LoadsWhatIsReachable == ResolverSpec => []ExactlyReachable
<1>1. ResolverInv /\ QuietInv /\ ReachInv => ExactlyReachable
  <2> SUFFICES ASSUME ResolverInv, QuietInv, ReachInv, stage = "resolved", edits = 0,
                      compiles = 1, ~IndexAgain, states # NoEntries,
                      Blank \notin DOMAIN states \cup included, NoWayBack
               PROVE  /\ rootStateId \in DOMAIN states /\ DOMAIN states \subseteq Nodes
                      /\ Follows(DOMAIN states)
                      /\ \A S \in SUBSET Nodes :
                           rootStateId \in S /\ Follows(S) => DOMAIN states \subseteq S
                      /\ \A i \in DOMAIN states : states[i] = SourceOf(i)
    BY DEF ExactlyReachable, NoWayBack
  <2>1. FirstQuiet
    BY DEF FirstQuiet
  <2>2. rootStateId \in DOMAIN states /\ \A i \in DOMAIN states : states[i] = SourceOf(i)
    BY <2>1 DEF ReachInv, FromIndex, SourceOf
  <2>3. DOMAIN states \subseteq Nodes
    BY <2>1 DEF ReachInv, FromIndex, Nodes, Known
  <2>4. ASSUME NEW i \in DOMAIN states, NEW r \in Refs(states[i]), r \in Nodes
        PROVE  r \in DOMAIN states
    <3>1. included = {}
      BY DEF ResolverInv, LeftWhenDone
    <3>2. r \in DOMAIN states \/ visited[r] > 1
      BY <3>1 DEF ResolverInv, Accounted
    <3>3. visited[r] > 1 /\ r \in Ids => ~Known(r)
      BY DEF QuietInv, GivenUpIsUnknown
    <3>4. r \in Ids
      BY RefsAssumption DEF ResolverInv, ResolverTypeOK
    <3> QED
      BY <2>2, <2>4, <3>2, <3>3, <3>4 DEF Nodes, Known
  <2>5. Follows(DOMAIN states)
    BY <2>2, <2>4 DEF Follows
  <2> QED
    BY <2>1, <2>2, <2>3, <2>5 DEF ReachInv, Needed
<1> QED
    BY <1>1, ResolverInvariant, QuietInvariant, ReachInvariant, PTL
-----------------------------------------------------------------------------
(***************************************************************************)
(* The resolver implements Closure: every step of index, environment and   *)
(* Compile is a step of the abstract specification or leaves it alone.     *)
(* The invariant is needed twice: TwoMarks says that one answer settles an *)
(* id that was given up, and Accounted with LeftWhenDone that the tree is  *)
(* put together over a settled set.                                        *)
(***************************************************************************)

Names == [i \in DOMAIN states |-> Refs(states[i])]
Dropped == {i \in Ids : visited[i] > 1}

\* The resolver starts where Closure does.
LEMMA InitMaps == ResolverInit => Promise!ClosureInit
<1> SUFFICES ASSUME ResolverInit PROVE Promise!ClosureInit
    OBVIOUS
<1>1. Names = [i \in {} |-> {}]
    BY DEF ResolverInit, NoEntries, Names
<1>2. Dropped = {} /\ ~(Blank \in included) /\ Verdict = "open"
    BY DEF ResolverInit, Dropped, Verdict
<1> QED
    BY <1>1, <1>2 DEF Promise!ClosureInit, Names, Dropped

\* A step that changes nothing Closure sees
LEMMA Stutters ==
    ASSUME UNCHANGED <<states, included, visited>>, Verdict' = Verdict
    PROVE  UNCHANGED Promise!closureVars
BY DEF Promise!closureVars

\* A file that comes in whole is a Load of its id.
LEMMA LoadStateMaps ==
    ASSUME ResolverInv, NEW p \in Paths, LoadState(p), stage # "panicked",
           stage' = "cycle"
    PROVE  Promise!ClosureNext
<1> DEFINE s == disk[p]
<1>1. s \in Sources /\ s.id \in Ids /\ Refs(s) \in SUBSET Ids
    BY SourcesAssumption, RefsAssumption
    DEF LoadState, ResolverInv, ResolverTypeOK, FinderTypeOK, Exists
<1>2. /\ states' = Put(states, s.id, s)
      /\ included' = (included \cup Refs(s)) \ {s.id}
      /\ visited' = [visited EXCEPT ![s.id] = IF @ > 0 THEN @ - 1 ELSE 0]
    BY DEF LoadState, Adopt, MarkStateResolved
<1> HIDE DEF s
<1>3. Names' = [j \in DOMAIN Names \cup {s.id} |-> IF j = s.id THEN Refs(s) ELSE Names[j]]
    BY <1>2 DEF Put, Names
<1>4. Dropped' = Dropped \ {s.id}
  <2>1. visited[s.id] \in 0..2 /\ visited \in [Ids -> Nat]
    BY <1>1 DEF ResolverInv, TwoMarks, ResolverTypeOK
  <2>2. ~(visited'[s.id] > 1) /\ \A i \in Ids : i # s.id => visited'[i] = visited[i]
    BY <1>2, <2>1, <1>1
  <2> QED
    BY <2>2 DEF Dropped
<1>5. (Blank \in included') = (s.id # Blank /\ (Blank \in included \/ Blank \in Refs(s)))
    BY <1>2
<1>6. Verdict # "broken" /\ Verdict' = "open"
    BY DEF Verdict
<1>7. Promise!Load(s.id, Refs(s))
    BY <1>3, <1>4, <1>5, <1>6 DEF Promise!Load, Names, Dropped
<1> QED
    BY <1>1, <1>7 DEF Promise!ClosureNext, Promise!Load

\* A panic while a file is loaded is a Break.
LEMMA LoadPanicMaps ==
    ASSUME ResolverInv, NEW p \in Paths, LoadFile(p), stage # "panicked",
           stage' = "panicked"
    PROVE  Promise!ClosureNext
<1>1. DOMAIN states \subseteq DOMAIN states'
    BY DEF LoadFile, LoadNothing, LoadUnreadable, LoadNoId, LoadNoBranch, LoadDangling,
           LoadState, loaderVars, Adopt, Put
<1>2. \A i \in Ids : visited'[i] <= visited[i] /\ visited[i] \in Nat /\ visited'[i] \in Nat
    BY LoadFileAccounts, LoadFileType DEF ResolverInv, ResolverTypeOK
<1>3. Verdict # "broken" /\ Verdict' = "broken"
    BY DEF Verdict
<1>4. DOMAIN Names \subseteq DOMAIN Names' /\ Dropped' \subseteq Dropped
    BY <1>1, <1>2 DEF Names, Dropped
<1> QED
    BY <1>3, <1>4 DEF Promise!ClosureNext, Promise!Break, Names, Dropped

\* From a stage in which files are loaded, LoadFile maps to a step.
LEMMA LoadFileMaps ==
    ASSUME ResolverInv, NEW p \in Paths, LoadFile(p), stage # "panicked"
    PROVE  [Promise!ClosureNext]_(Promise!closureVars)
<1>1. stage' \in {"cycle", "panicked"}
    BY LoadFileType DEF ResolverInv
<1>2. CASE stage' = "panicked"
    BY <1>2, LoadPanicMaps
<1>3. CASE stage' = "cycle" /\ LoadState(p)
    BY <1>3, LoadStateMaps
<1>4. CASE stage' = "cycle" /\ ~LoadState(p)
  <2>1. UNCHANGED <<states, included, visited>>
    BY <1>4 DEF LoadFile, LoadNothing, LoadUnreadable, LoadNoId, LoadNoBranch, LoadDangling,
                loaderVars, refVars
  <2>2. CASE stage = "resolved"
    <3>1. Verdict = "closed" /\ Verdict' = "open"
      BY <1>4, <2>2 DEF Verdict
    <3> QED
      BY <2>1, <3>1 DEF Promise!ClosureNext, Promise!Reopen
  <2>3. CASE stage # "resolved"
    <3>1. Verdict' = Verdict
      BY <1>4, <2>3 DEF Verdict
    <3> QED
      BY <2>1, <3>1, Stutters
  <2> QED
    BY <2>2, <2>3
<1> QED
    BY <1>1, <1>2, <1>3, <1>4

\* A call of Compile, the entry file included, maps to a step.
LEMMA CallMaps ==
    ASSUME ResolverInv, ResolverCall
    PROVE  [Promise!ClosureNext]_(Promise!closureVars)
<1>1. PICK p \in Paths : CompileRefused(p) \/ Compile(p)
    BY DEF ResolverCall
<1>2. CASE Compile(p)
    BY <1>2, LoadFileMaps DEF Compile, Callable
<1>3. CASE CompileRefused(p)
  <2>1. UNCHANGED <<states, included, visited>> /\ stage' = "failed" /\ stage # "panicked"
    BY <1>3 DEF CompileRefused, Callable, loaderVars, refVars
  <2>2. CASE stage = "resolved"
    BY <2>1, <2>2 DEF Promise!ClosureNext, Promise!Reopen, Verdict
  <2>3. CASE stage # "resolved"
    BY <2>1, <2>3, Stutters DEF Verdict
  <2> QED
    BY <2>2, <2>3
<1> QED
    BY <1>1, <1>2, <1>3

\* So does every round of the loop and the guard behind it.
LEMMA RoundMaps ==
    ASSUME ResolverInv, ResolveStep
    PROVE  [Promise!ClosureNext]_(Promise!closureVars)
<1> USE DEF ResolverInv
<1>1. ASSUME NEW i \in Ids, CyclePanics(i) PROVE Promise!ClosureNext
  <2>1. /\ UNCHANGED <<states, included, visited>>
        /\ Verdict = "open" /\ Verdict' = "broken"
    BY <1>1 DEF CyclePanics, loaderVars, refVars, Verdict
  <2>2. Names' = Names /\ Dropped' = Dropped
    BY <2>1 DEF Names, Dropped
  <2> QED
    BY <2>1, <2>2 DEF Promise!ClosureNext, Promise!Break, Names, Dropped
<1>2. ASSUME NEW i \in Ids, CycleFound(i) PROVE UNCHANGED Promise!closureVars
  <2>1. /\ UNCHANGED <<states, included>>
        /\ stage = "cycle" /\ stage' = "load"
        /\ visited' = visited \/ (visited[i] = 0 /\ visited' = [visited EXCEPT ![i] = @ + 1])
    BY <1>2 DEF CycleFound, Requested, loaderVars
  <2>2. Dropped' = Dropped
    BY <2>1 DEF ResolverTypeOK, Dropped
  <2>3. Verdict' = Verdict
    BY <2>1 DEF Verdict
  <2> QED
    BY <2>1, <2>2, <2>3 DEF Promise!closureVars, Dropped
<1>3. ASSUME NEW i \in Ids, CycleSquash(i) PROVE Promise!ClosureNext
  <2>1. /\ UNCHANGED states /\ i # Blank /\ included' = included \ {i}
        /\ stage = "cycle" /\ stage' = "cycle"
        /\ visited' = [visited EXCEPT ![i] = 2]
    BY <1>3 DEF CycleSquash, Requested, loaderVars, ResolverTypeOK
  <2>2. Dropped' = Dropped \cup {i}
    BY <2>1 DEF ResolverTypeOK, Dropped
  <2>3. Names' = Names /\ (Blank \in included') = (Blank \in included)
    BY <2>1 DEF Names
  <2>4. Promise!Drop(i)
    BY <2>1, <2>2, <2>3 DEF Promise!Drop, Names, Dropped, Verdict
  <2> QED
    BY <2>4 DEF Promise!ClosureNext
<1>4. CASE CycleDone
    BY <1>4, Stutters DEF CycleDone, loaderVars, refVars, Verdict
<1>5. CASE LoadNext
    BY <1>5, LoadFileMaps DEF LoadNext, ResolverTypeOK
<1>6. CASE TreeGuard
  <2>1. UNCHANGED <<states, included, visited>> /\ stage = "tree"
    BY <1>6 DEF TreeGuard, loaderVars, refVars
  <2>2. Names' = Names /\ Dropped' = Dropped /\ Verdict = "open"
    BY <2>1 DEF Names, Dropped, Verdict
  <2>3. CASE stage' = "panicked"
    BY <2>1, <2>2, <2>3 DEF Promise!ClosureNext, Promise!Break, Names, Dropped, Verdict
  <2>4. CASE stage' = "resolved"
    <3>1. CASE Blank \in included
      BY <2>1, <2>2, <2>4, <3>1 DEF Promise!ClosureNext, Promise!Close, Verdict
    <3>2. CASE included = {}
      <4>1. \A i \in DOMAIN Names : Names[i] \subseteq DOMAIN Names \cup Dropped
        BY <2>1, <3>2, RefsAssumption DEF Accounted, Names, Dropped, ResolverTypeOK
      <4>2. Promise!Settled
        BY <4>1 DEF Promise!Settled, Names, Dropped
      <4> QED
        BY <2>1, <2>2, <2>4, <4>2 DEF Promise!ClosureNext, Promise!Close, Verdict
    <3> QED
      BY <2>1, <3>1, <3>2 DEF LeftWhenDone
  <2> QED
    BY <1>6, <2>3, <2>4 DEF TreeGuard
<1> QED
    BY <1>1, <1>2, <1>3, <1>4, <1>5, <1>6 DEF ResolveStep, CycleStep

\* Every step of the resolver is one of Closure or changes nothing it sees.
LEMMA StepMaps ==
    ResolverInv /\ [ResolverNext]_vars => [Promise!ClosureNext]_(Promise!closureVars)
<1> SUFFICES ASSUME ResolverInv, [ResolverNext]_vars
             PROVE  [Promise!ClosureNext]_(Promise!closureVars)
    OBVIOUS
<1>1. CASE UNCHANGED resolverVars
    BY <1>1, Stutters DEF resolverVars, loaderVars, refVars, Verdict
<1>2. CASE ResolverCall
    BY <1>2, CallMaps
<1>3. CASE ResolveStep
    BY <1>3, RoundMaps
<1> QED
    BY <1>1, <1>2, <1>3 DEF ResolverNext, vars

\* Index, marks and rounds together keep the promise of Closure.
THEOREM ResolverKeepsPromise == ResolverSpec => KeepsPromise
<1> QED
    BY InitMaps, StepMaps, ResolverInvariant, PTL DEF ResolverSpec, KeepsPromise, Promise!ClosureSpec
=============================================================================
