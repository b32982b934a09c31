-------------------------- MODULE StateFinderProofs --------------------------
(***************************************************************************)
(* The index of StateFinder, proved for every set of files, roots and ids, *)
(* every number of Index calls and every interleaving with edits.          *)
(*                                                                         *)
(* The inductive invariant is the conjunction of the properties: Dense is  *)
(* needed to see that the number Record takes is free, Coherent to see     *)
(* that overwriting a look-up leaves no other one dangling, and LatestWins *)
(* rests on ct being above every number in use, which is Dense again.      *)
(*                                                                         *)
(* Which file a look-up leads to needs more, a history of the walk:        *)
(* Progress says that "todo" and "walk" are what is left of the roots and  *)
(* of the current directory, Found that the look-up of an id leads to the  *)
(* last file the walk has visited that carries it.  At the end of the walk *)
(* everything is visited.                                                  *)
(***************************************************************************)
EXTENDS StateFinder, FiniteSetTheorems, SequenceTheorems, TLAPS

FinderInv == FinderTypeOK /\ Dense /\ Coherent /\ LatestWins

\* len(_mt_index) is the number Index resumes with: 0..n-1 has n elements.
LEMMA Length == ASSUME NEW n \in Nat PROVE Cardinality(0..(n - 1)) = n
BY FS_Interval, 0 \in Int, n - 1 \in Int

\* A new index satisfies the invariant.
LEMMA InitHolds == FinderInit => FinderInv
<1> SUFFICES ASSUME FinderInit PROVE FinderInv
    OBVIOUS
<1>1. FinderTypeOK
    BY SourcesAssumption, BoundsAssumption DEF FinderInit, FinderTypeOK, NoEntries
<1>2. Dense
    BY DEF FinderInit, Dense, NoEntries
<1>3. Coherent /\ LatestWins
    BY DEF FinderInit, Coherent, LatestWins, NoEntries
<1> QED
    BY <1>1, <1>2, <1>3 DEF FinderInv

\* A step that leaves the four tables alone keeps what is said about them.
LEMMA TablesAlone ==
    ASSUME FinderInv, UNCHANGED tables, FinderTypeOK'
    PROVE  FinderInv'
BY DEF FinderInv, tables, Dense, Coherent, LatestWins, MetaOf, MetaOfFile

\* Recording a file under the next number
LEMMA RecordHolds ==
    ASSUME FinderInv, IndexFile
    PROVE  FinderInv'
<1> DEFINE p == Head(walk)
           m == [id |-> disk[p].id, filename |-> FileName[p], path |-> p]
<1>1. walk \in Seq(Paths) /\ walk # <<>> /\ p \in Paths /\ Tail(walk) \in Seq(Paths)
    BY DEF FinderInv, FinderTypeOK, IndexFile
<1>2. disk[p] \in Sources
    BY <1>1 DEF FinderInv, FinderTypeOK, IndexFile, HasId, Exists
<1>3. m \in Metas /\ m.id \in Ids /\ m.filename = FileName[p]
    BY <1>1, <1>2, SourcesAssumption DEF Metas
<1>4. /\ mt_index' = Put(mt_index, ct, m)
      /\ fn_index' = Put(fn_index, m.filename, ct)
      /\ id_index' = Put(id_index, m.id, ct)
      /\ ct' = ct + 1
    BY DEF IndexFile, Record
<1>5. ct \in Nat /\ DOMAIN mt_index = 0..(ct - 1) /\ ct \notin DOMAIN mt_index
    BY DEF FinderInv, FinderTypeOK, Dense
<1> HIDE DEF p, m
<1>6. /\ DOMAIN mt_index' = DOMAIN mt_index \cup {ct}
      /\ mt_index'[ct] = m
      /\ \A k \in DOMAIN mt_index : mt_index'[k] = mt_index[k]
    BY <1>4, <1>5 DEF Put
<1>7. /\ DOMAIN id_index' = DOMAIN id_index \cup {m.id}
      /\ id_index'[m.id] = ct
      /\ \A i \in DOMAIN id_index : i # m.id => id_index'[i] = id_index[i]
    BY <1>4 DEF Put
<1>8. /\ DOMAIN fn_index' = DOMAIN fn_index \cup {m.filename}
      /\ fn_index'[m.filename] = ct
      /\ \A f \in DOMAIN fn_index : f # m.filename => fn_index'[f] = fn_index[f]
    BY <1>4 DEF Put
<1>9. FinderTypeOK'
  <2>1. /\ DOMAIN mt_index' \subseteq Nat
        /\ \A k \in DOMAIN mt_index' : mt_index'[k] \in Metas
    BY <1>3, <1>5, <1>6 DEF FinderInv, FinderTypeOK
  <2>2. DOMAIN id_index' \subseteq Ids /\ \A i \in DOMAIN id_index' : id_index'[i] \in Nat
    BY <1>3, <1>5, <1>7 DEF FinderInv, FinderTypeOK
  <2>3. \A f \in DOMAIN fn_index' : fn_index'[f] \in Nat
    BY <1>5, <1>8 DEF FinderInv, FinderTypeOK
  <2>4. /\ UNCHANGED <<disk, edits, stateRoots, indexes, phase, todo, listed>>
        /\ walk' \in Seq(Paths) /\ ct' \in Nat
    BY <1>1, <1>4, <1>5 DEF IndexFile, envVars, p
  <2> QED
    BY <2>1, <2>2, <2>3, <2>4 DEF FinderInv, FinderTypeOK
<1>10. Dense'
    BY <1>4, <1>5, <1>6 DEF Dense
<1>11. Coherent'
    BY <1>5, <1>6, <1>7, <1>8 DEF FinderInv, Coherent, MetaOf, MetaOfFile
<1>12. LatestWins'
  <2> SUFFICES ASSUME NEW k \in DOMAIN mt_index'
               PROVE  /\ mt_index'[k].id \in DOMAIN id_index'
                      /\ k <= id_index'[mt_index'[k].id]
                      /\ mt_index'[k].filename \in DOMAIN fn_index'
                      /\ k <= fn_index'[mt_index'[k].filename]
    BY DEF LatestWins
  <2>1. CASE k = ct
    BY <2>1, <1>5, <1>6, <1>7, <1>8
  <2>2. CASE k # ct
    <3>1. k \in DOMAIN mt_index /\ k \in Nat /\ k <= ct /\ mt_index'[k] = mt_index[k]
      BY <2>2, <1>5, <1>6
    <3>2. mt_index[k].id \in DOMAIN id_index /\ k <= id_index[mt_index[k].id]
      BY <3>1 DEF FinderInv, LatestWins
    <3>3. mt_index[k].filename \in DOMAIN fn_index /\ k <= fn_index[mt_index[k].filename]
      BY <3>1 DEF FinderInv, LatestWins
    <3> QED
      BY <3>1, <3>2, <3>3, <1>5, <1>7, <1>8
  <2> QED
    BY <2>1, <2>2
<1> QED
    BY <1>9, <1>10, <1>11, <1>12 DEF FinderInv

\* Every step of the index or of its environment keeps the invariant.
LEMMA StepHolds == FinderInv /\ [FinderNext]_finderVars => FinderInv'
<1> SUFFICES ASSUME FinderInv, [FinderNext]_finderVars PROVE FinderInv'
    OBVIOUS
<1> USE DEF FinderInv
<1>1. ASSUME NEW r \in Roots, AddStateRoot(r) PROVE FinderInv'
  <2>1. FinderTypeOK'
    BY <1>1 DEF AddStateRoot, FinderTypeOK, envVars, tables, walkVars
  <2> QED
    BY <1>1, <2>1, TablesAlone DEF AddStateRoot
<1>2. CASE StartIndex
  <2>1. ct' = ct
    BY <1>2, Length DEF StartIndex, Dense, FinderTypeOK
  <2>2. FinderTypeOK'
    BY <1>2, <2>1, BoundsAssumption DEF StartIndex, FinderTypeOK, envVars
  <2> QED
    BY <1>2, <2>1, <2>2, TablesAlone DEF StartIndex, tables
<1>3. CASE EnterMissingRoot \/ VisitVanished \/ VisitBadId
  <2>1. FinderTypeOK'
    BY <1>3 DEF EnterMissingRoot, VisitVanished, VisitBadId, WalkPanics,
                FinderTypeOK, envVars, tables
  <2> QED
    BY <1>3, <2>1, TablesAlone DEF EnterMissingRoot, VisitVanished, VisitBadId, WalkPanics
<1>4. CASE EnterRoot
  <2>1. walk' \in Seq(Paths) /\ todo' \in Seq(Roots) /\ listed' \subseteq Paths
    BY <1>4, RootsAssumption DEF EnterRoot, FinderTypeOK
  <2>2. FinderTypeOK'
    BY <1>4, <2>1 DEF EnterRoot, FinderTypeOK, envVars, tables
  <2> QED
    BY <1>4, <2>2, TablesAlone DEF EnterRoot
<1>5. CASE SkipFile
  <2>1. FinderTypeOK'
    BY <1>5 DEF SkipFile, FinderTypeOK, envVars, tables
  <2> QED
    BY <1>5, <2>1, TablesAlone DEF SkipFile
<1>6. CASE IndexFile
    BY <1>6, RecordHolds
<1>7. CASE FinishIndex
  <2>1. FinderTypeOK'
    BY <1>7 DEF FinishIndex, FinderTypeOK, envVars, tables
  <2> QED
    BY <1>7, <2>1, TablesAlone DEF FinishIndex
<1>8. ASSUME edits < MaxEdits, NEW p \in Paths, NEW s \in Sources \cup {Absent}, Edit(p, s)
      PROVE  FinderInv'
  <2>1. FinderTypeOK'
    BY <1>8, BoundsAssumption DEF Edit, FinderTypeOK, tables, walkVars
  <2> QED
    BY <1>8, <2>1, TablesAlone DEF Edit
<1>9. CASE UNCHANGED finderVars
    BY <1>9 DEF finderVars, envVars, tables, walkVars, FinderTypeOK, Dense, Coherent,
                LatestWins, MetaOf, MetaOfFile
<1> QED
    BY <1>1, <1>2, <1>3, <1>4, <1>5, <1>6, <1>7, <1>8, <1>9
    DEF FinderNext, FinderCall, WalkStep, Environment

\* It holds of every state the index gets to.
LEMMA InvariantHolds == FinderSpec => []FinderInv
BY InitHolds, StepHolds, PTL DEF FinderSpec

\* The tables have their types at every step of every run.
THEOREM FinderTypes == FinderSpec => []FinderTypeOK
<1>1. FinderInv => FinderTypeOK
    BY DEF FinderInv
<1> QED
    BY <1>1, InvariantHolds, PTL

\* The number with which an Index resumes, len(_mt_index), is free, in the
\* middle of a walk too.
THEOREM NumbersAreDense == FinderSpec => []Dense
<1>1. FinderInv => Dense
    BY DEF FinderInv
<1> QED
    BY <1>1, InvariantHolds, PTL

\* GetStateById and GetStateByFileName never answer with the meta of another
\* id or file name, nor with the zero meta.
THEOREM LookupsAreCoherent == FinderSpec => []Coherent
<1>1. FinderInv => Coherent
    BY DEF FinderInv
<1> QED
    BY <1>1, InvariantHolds, PTL

\* A look-up gives the file met last, of several with one id or file name.
THEOREM LatestFileWins == FinderSpec => []LatestWins
<1>1. FinderInv => LatestWins
    BY DEF FinderInv
<1> QED
    BY <1>1, InvariantHolds, PTL

\* A number, once given to a file, is never given to another one.
THEOREM NumbersAreForever == FinderSpec => MetaImmutable
<1> DEFINE Kept == \A k \in DOMAIN mt_index : k \in DOMAIN mt_index' /\ mt_index'[k] = mt_index[k]
<1>1. ASSUME FinderInv, [FinderNext]_finderVars PROVE [Kept]_finderVars
  <2>1. CASE IndexFile
    <3>1. ct \notin DOMAIN mt_index
      BY <1>1 DEF FinderInv, FinderTypeOK, Dense
    <3>2. PICK m : mt_index' = Put(mt_index, ct, m)
      BY <2>1 DEF IndexFile, Record
    <3> QED
      BY <3>1, <3>2 DEF Put
  <2>2. CASE ~IndexFile /\ UNCHANGED mt_index
    BY <2>2
  <2>3. IndexFile \/ UNCHANGED mt_index
    BY <1>1 DEF FinderNext, FinderCall, WalkStep, Environment, AddStateRoot, StartIndex,
           EnterMissingRoot, EnterRoot, VisitVanished, VisitBadId, SkipFile, WalkPanics,
           FinishIndex, Edit, finderVars, tables
  <2> QED
    BY <2>1, <2>2, <2>3
<1> QED
    BY <1>1, InvariantHolds, PTL DEF FinderSpec, MetaImmutable

-----------------------------------------------------------------------------
(* Which file a look-up leads to, when nobody edits *)

\* The roots of this Index that the walk has entered
Entered == Len(stateRoots) - Len(todo)

\* The names of the j-th root
Below(j) == Under[stateRoots[j]]

\* The walk is past the n-th name of the j-th root.
Visited(j, n) ==
    /\ j \in 1..Entered /\ n \in DOMAIN Below(j)
    /\ j = Entered => n + Len(walk) <= Len(Below(j))

\* todo and walk are what is left of the roots and of the current one.
Progress ==
    /\ phase = "ready" => walk = <<>>
    /\ phase = "walking" =>
         /\ Len(todo) <= Len(stateRoots)
         /\ \A k \in 1..Len(todo) : todo[k] = stateRoots[Entered + k]
         /\ \A j \in 1..Entered : stateRoots[j] \in DOMAIN Under
         /\ Entered = 0 => walk = <<>>
         /\ Entered > 0 =>
              /\ Len(walk) <= Len(Below(Entered))
              /\ \A k \in 1..Len(walk) : walk[k] = Below(Entered)[Len(Below(Entered)) - Len(walk) + k]
         /\ edits = 0 /\ walk # <<>> => listed = {p \in Paths : Exists(p)}

\* p carries i, and nothing that the walk has visited since does.
LastVisited(p, i) ==
    \E j, n \in Nat :
      /\ Visited(j, n) /\ p = Below(j)[n] /\ Carries(p, i)
      /\ \A j2, n2 \in Nat :
           Visited(j2, n2) /\ (j2 > j \/ (j2 = j /\ n2 > n)) => ~Carries(Below(j2)[n2], i)

\* What is known is carried by some file below a root, and what the walk has
\* visited leads to the last such file.
Found ==
    /\ \A i \in DOMAIN id_index : \E j \in DOMAIN stateRoots :
         stateRoots[j] \in DOMAIN Under /\ \E n \in DOMAIN Below(j) : Carries(Below(j)[n], i)
    /\ phase = "walking" =>
         \A i \in Ids : \A j, n \in Nat :
           Visited(j, n) /\ Carries(Below(j)[n], i) => Known(i) /\ LastVisited(MetaOf(i).path, i)

\* What the walk leaves at its end is what LaterRootOverrides says.
LEMMA FoundTells == ASSUME FinderTypeOK, Progress, Found PROVE LaterRootOverrides
<1> SUFFICES ASSUME phase = "walking", walk = <<>>, todo = <<>>, edits = 0, NEW i \in Ids
             PROVE  IF Known(i)
                    THEN LastCarrier(MetaOf(i).path, i)
                    ELSE \A j \in DOMAIN stateRoots : \A n \in DOMAIN Under[stateRoots[j]] :
                           ~Carries(Under[stateRoots[j]][n], i)
    BY DEF LaterRootOverrides
<1>1. /\ stateRoots \in Seq(Roots) /\ Len(stateRoots) \in Nat /\ DOMAIN stateRoots = 1..Len(stateRoots)
      /\ Len(todo) = 0 /\ Len(walk) = 0 /\ Entered = Len(stateRoots)
    BY DEF FinderTypeOK, Entered
<1>2. \A j \in DOMAIN stateRoots : /\ stateRoots[j] \in DOMAIN Under
                                   /\ Len(Below(j)) \in Nat /\ DOMAIN Below(j) = 1..Len(Below(j))
    BY <1>1, RootsAssumption DEF Progress, Below
<1>3. \A j, n : Visited(j, n) <=> j \in DOMAIN stateRoots /\ n \in DOMAIN Below(j)
    BY <1>1, <1>2 DEF Visited
<1>4. CASE Known(i)
  <2>1. PICK j \in DOMAIN stateRoots : \E n \in DOMAIN Below(j) : Carries(Below(j)[n], i)
    BY <1>4 DEF Known, Found
  <2>2. PICK n \in DOMAIN Below(j) : Carries(Below(j)[n], i)
    BY <2>1
  <2>3. j \in Nat /\ n \in Nat /\ Visited(j, n)
    BY <1>1, <1>2, <1>3
  <2>4. LastVisited(MetaOf(i).path, i)
    BY <2>2, <2>3 DEF Found
  <2>5. PICK a \in Nat, b \in Nat :
          /\ Visited(a, b) /\ MetaOf(i).path = Below(a)[b] /\ Carries(MetaOf(i).path, i)
          /\ \A j2, n2 \in Nat :
               Visited(j2, n2) /\ (j2 > a \/ (j2 = a /\ n2 > b)) => ~Carries(Below(j2)[n2], i)
    BY <2>4 DEF LastVisited
  <2>6. a \in DOMAIN stateRoots /\ b \in DOMAIN Below(a)
    BY <1>3, <2>5
  <2>7. ASSUME NEW j2 \in a..Len(stateRoots), NEW n2 \in DOMAIN Below(j2), j2 > a \/ n2 > b
        PROVE  ~Carries(Below(j2)[n2], i)
    <3>1. j2 \in DOMAIN stateRoots /\ j2 \in Nat /\ (j2 > a \/ (j2 = a /\ n2 > b))
      BY <1>1, <2>6, <2>7
    <3>2. n2 \in Nat /\ Visited(j2, n2)
      BY <1>2, <1>3, <3>1
    <3> QED
      BY <2>5, <3>1, <3>2
  <2>8. LastCarrier(MetaOf(i).path, i)
    BY <2>5, <2>6, <2>7 DEF LastCarrier, Below
  <2> QED
    BY <1>4, <2>8
<1>5. CASE ~Known(i)
  <2>1. ASSUME NEW j \in DOMAIN stateRoots, NEW n \in DOMAIN Below(j) PROVE ~Carries(Below(j)[n], i)
    <3>1. j \in Nat /\ n \in Nat /\ Visited(j, n)
      BY <1>1, <1>2, <1>3
    <3> QED
      BY <1>5, <3>1 DEF Found
  <2> QED
    BY <1>5, <2>1 DEF Below
<1> QED
    BY <1>4, <1>5

\* The rest of a sequence
LEMMA RestOf == ASSUME NEW S, NEW s \in Seq(S), s # <<>>
                PROVE  /\ Len(s) \in Nat \ {0} /\ Head(s) = s[1] /\ Tail(s) \in Seq(S)
                       /\ Len(Tail(s)) = Len(s) - 1
                       /\ \A k \in 1..(Len(s) - 1) : Tail(s)[k] = s[k + 1]
BY HeadTailProperties, LenProperties, EmptySeq

\* Every step of the walk takes one off what is left.
LEMMA ProgressStepHolds == ASSUME FinderTypeOK, Progress, [FinderNext]_finderVars PROVE Progress'
<1>1. /\ stateRoots \in Seq(Roots) /\ Len(stateRoots) \in Nat
      /\ todo \in Seq(Roots) /\ Len(todo) \in Nat /\ walk \in Seq(Paths) /\ Len(walk) \in Nat
      /\ edits \in Nat
    BY BoundsAssumption DEF FinderTypeOK
<1>2. ASSUME NEW r \in Roots, AddStateRoot(r) PROVE Progress'
    BY <1>2 DEF AddStateRoot, walkVars, Progress
<1>3. CASE StartIndex
  <2>1. walk' = <<>> /\ todo' = stateRoots /\ stateRoots' = stateRoots /\ phase' = "walking"
    BY <1>3 DEF StartIndex, Progress
  <2>2. Entered' = 0
    BY <1>1, <2>1 DEF Entered
  <2> QED
    BY <1>1, <2>1, <2>2 DEF Progress
<1>4. CASE EnterMissingRoot \/ VisitVanished \/ VisitBadId
    BY <1>4 DEF EnterMissingRoot, VisitVanished, VisitBadId, WalkPanics, Progress
<1>5. CASE EnterRoot
  <2>1. /\ phase = "walking" /\ todo # <<>> /\ Head(todo) \in DOMAIN Under /\ todo' = Tail(todo)
        /\ walk' = Under[Head(todo)] /\ listed' = {p \in Paths : Exists(p)}
        /\ UNCHANGED <<disk, edits, stateRoots, phase>>
    BY <1>5 DEF EnterRoot, envVars
  <2>2. /\ Len(todo') = Len(todo) - 1 /\ Len(todo) # 0 /\ Head(todo) = todo[1]
        /\ \A k \in 1..(Len(todo) - 1) : todo'[k] = todo[k + 1]
    BY <1>1, <2>1, RestOf
  <2>3. Entered' = Entered + 1 /\ Entered \in Nat /\ Len(todo) <= Len(stateRoots)
    BY <1>1, <2>1, <2>2 DEF Entered, Progress
  <2>4. \A k \in 1..Len(todo) : todo[k] = stateRoots[Entered + k]
    BY <2>1 DEF Progress
  <2>5. stateRoots[Entered + 1] = Head(todo)
    BY <1>1, <2>2, <2>4
  <2>6. \A k \in 1..Len(todo') : todo'[k] = stateRoots[(Entered + 1) + k]
    <3> SUFFICES ASSUME NEW k \in 1..(Len(todo) - 1) PROVE todo'[k] = stateRoots[(Entered + 1) + k]
      BY <2>2
    <3>1. k + 1 \in 1..Len(todo) /\ Entered + (k + 1) = (Entered + 1) + k
      BY <1>1, <2>3
    <3> QED
      BY <2>2, <2>4, <3>1
  <2>7. \A j \in 1..(Entered + 1) : stateRoots[j] \in DOMAIN Under
    <3>1. \A j \in 1..(Entered + 1) : j \in 1..Entered \/ j = Entered + 1
      BY <2>3
    <3> QED
      BY <2>1, <2>5, <3>1 DEF Progress
  <2>8. walk' = Below(Entered + 1) /\ Len(walk') \in Nat
    BY <2>1, <2>5, RootsAssumption, LenProperties DEF Below
  <2>9. (Len(walk) <= Len(Below(Entered))
          /\ \A k \in 1..Len(walk) : walk[k] = Below(Entered)[Len(Below(Entered)) - Len(walk) + k])'
    <3>1. Below(Entered)' = walk'
      BY <2>1, <2>3, <2>8 DEF Below
    <3>2. \A k \in 1..Len(walk') : Len(walk') - Len(walk') + k = k
      BY <2>8
    <3> QED
      BY <2>8, <3>1, <3>2
  <2>10. (edits = 0 /\ walk # <<>> => listed = {p \in Paths : Exists(p)})'
    BY <2>1 DEF Exists
  <2>11. (\A k \in 1..Len(todo) : todo[k] = stateRoots[Entered + k])'
         /\ (\A j \in 1..Entered : stateRoots[j] \in DOMAIN Under)'
    BY <2>1, <2>3, <2>6, <2>7
  <2>12. Len(todo') <= Len(stateRoots') /\ ~(Entered' = 0)
    BY <1>1, <2>1, <2>2, <2>3
  <2> QED
    BY <2>1, <2>9, <2>10, <2>11, <2>12 DEF Progress
<1>6. CASE SkipFile \/ IndexFile
  <2>1. /\ phase = "walking" /\ walk # <<>> /\ walk' = Tail(walk)
        /\ UNCHANGED <<disk, edits, stateRoots, phase, todo, listed>>
    BY <1>6 DEF SkipFile, IndexFile, envVars
  <2>2. /\ Len(walk') = Len(walk) - 1 /\ Len(walk) # 0
        /\ \A k \in 1..(Len(walk) - 1) : walk'[k] = walk[k + 1]
    BY <1>1, <2>1, RestOf
  <2>3. Entered' = Entered /\ Below(Entered)' = Below(Entered) /\ Entered \in Nat
    BY <1>1, <2>1 DEF Entered, Below, Progress
  <2>4. /\ Entered > 0 /\ Len(walk) <= Len(Below(Entered)) /\ Len(Below(Entered)) \in Nat
        /\ \A k \in 1..Len(walk) : walk[k] = Below(Entered)[Len(Below(Entered)) - Len(walk) + k]
    <3>1. Entered > 0 /\ stateRoots[Entered] \in DOMAIN Under
      BY <2>1, <2>3 DEF Progress
    <3>2. Len(Below(Entered)) \in Nat
      BY <3>1, RootsAssumption, LenProperties DEF Below
    <3> QED
      BY <2>1, <3>1, <3>2 DEF Progress
  <2>5. \A k \in 1..Len(walk') : walk'[k] = Below(Entered)[Len(Below(Entered)) - Len(walk') + k]
    <3> SUFFICES ASSUME NEW k \in 1..(Len(walk) - 1)
                 PROVE  walk'[k] = Below(Entered)[Len(Below(Entered)) - (Len(walk) - 1) + k]
      BY <2>2
    <3>1. k + 1 \in 1..Len(walk) /\ Len(Below(Entered)) - (Len(walk) - 1) + k
                                    = Len(Below(Entered)) - Len(walk) + (k + 1)
      BY <1>1, <2>4
    <3> QED
      BY <2>2, <2>4, <3>1
  <2> QED
    BY <1>1, <2>1, <2>2, <2>3, <2>4, <2>5 DEF Progress, Exists
<1>7. CASE FinishIndex
    BY <1>7 DEF FinishIndex, Progress
<1>8. ASSUME NEW p \in Paths, NEW c \in Sources \cup {Absent}, Edit(p, c) PROVE Progress'
  <2>1. edits' # 0 /\ UNCHANGED <<stateRoots, phase, todo, walk, Entered>>
    BY <1>1, <1>8 DEF Edit, walkVars, Entered
  <2>2. \A j : Below(j)' = Below(j)
    BY <2>1 DEF Below
  <2> QED
    BY <2>1, <2>2 DEF Progress
<1>9. CASE UNCHANGED finderVars
    BY <1>9 DEF finderVars, envVars, tables, walkVars, Progress, Entered, Below, Exists
<1> QED
    BY <1>2, <1>3, <1>4, <1>5, <1>6, <1>7, <1>8, <1>9 DEF FinderNext, FinderCall, WalkStep, Environment

\* The name at the head of walk is the next one of the current root: the walk
\* is past it after the step, and past nothing else that is new.
LEMMA VisitNext ==
    ASSUME FinderTypeOK, Progress, SkipFile \/ IndexFile
    PROVE  \E n \in Nat : /\ Entered \in Nat /\ Visited(Entered, n)' /\ Below(Entered)[n] = Head(walk)
                          /\ \A j2, n2 \in Nat : Visited(j2, n2)' <=>
                                 Visited(j2, n2) \/ (j2 = Entered /\ n2 = n)
                          /\ \A j2, n2 \in Nat : Visited(j2, n2) =>
                                 j2 < Entered \/ (j2 = Entered /\ n2 < n)
<1>1. /\ phase = "walking" /\ walk # <<>> /\ walk' = Tail(walk) /\ UNCHANGED <<stateRoots, todo>>
      /\ walk \in Seq(Paths) /\ Len(stateRoots) \in Nat /\ Len(todo) \in Nat
    BY LenProperties DEF SkipFile, IndexFile, FinderTypeOK
<1>2. Len(walk') = Len(walk) - 1 /\ Len(walk) \in Nat \ {0} /\ Head(walk) = walk[1]
    BY <1>1, RestOf
<1>3. Entered \in Nat /\ Entered > 0 /\ Entered' = Entered /\ \A j : Below(j)' = Below(j)
    BY <1>1 DEF Progress, Entered, Below
<1>4. \A j \in 1..Entered : Len(Below(j)) \in Nat /\ DOMAIN Below(j) = 1..Len(Below(j))
  <2>1. \A j \in 1..Entered : Below(j) \in Seq(Paths)
    BY <1>1, RootsAssumption DEF Progress, Below
  <2> QED
    BY <2>1, LenProperties
<1>5. /\ Len(walk) <= Len(Below(Entered))
      /\ \A k \in 1..Len(walk) : walk[k] = Below(Entered)[Len(Below(Entered)) - Len(walk) + k]
    BY <1>1, <1>3 DEF Progress
<1>6. PICK n \in Nat : n = Len(Below(Entered)) - Len(walk) + 1
                       /\ n \in DOMAIN Below(Entered) /\ Below(Entered)[n] = Head(walk)
    BY <1>2, <1>3, <1>4, <1>5
<1>7. \A j2, n2 \in Nat : Visited(j2, n2)' <=>
          j2 \in 1..Entered /\ n2 \in DOMAIN Below(j2) /\ (j2 = Entered => n2 <= n)
    BY <1>2, <1>3, <1>4, <1>5, <1>6 DEF Visited
<1>8. \A j2, n2 \in Nat : Visited(j2, n2) <=>
          j2 \in 1..Entered /\ n2 \in DOMAIN Below(j2) /\ (j2 = Entered => n2 < n)
    BY <1>2, <1>3, <1>4, <1>5, <1>6 DEF Visited
<1>9. Visited(Entered, n)'
    BY <1>2, <1>3, <1>4, <1>6 DEF Visited
<1> QED
    BY <1>3, <1>6, <1>7, <1>8, <1>9

\* The last file of an id stays the last when the next one does not carry it.
LEMMA LastStays ==
    ASSUME NEW n \in Nat, Entered \in Nat, UNCHANGED <<disk, stateRoots>>, NEW i, NEW p,
           \A j2, n2 \in Nat : Visited(j2, n2)' <=> Visited(j2, n2) \/ (j2 = Entered /\ n2 = n),
           ~Carries(Below(Entered)[n], i), LastVisited(p, i)
    PROVE  LastVisited(p, i)'
<1>1. \A q : (Carries(q, i)' <=> Carries(q, i)) /\ \A j : Below(j)' = Below(j)
    BY DEF Carries, HasId, Exists, Below
<1>2. PICK a \in Nat, b \in Nat :
        /\ Visited(a, b) /\ p = Below(a)[b] /\ Carries(p, i)
        /\ \A j2, n2 \in Nat :
             Visited(j2, n2) /\ (j2 > a \/ (j2 = a /\ n2 > b)) => ~Carries(Below(j2)[n2], i)
    BY DEF LastVisited
<1>3. \A j2, n2 \in Nat :
        Visited(j2, n2)' /\ (j2 > a \/ (j2 = a /\ n2 > b)) => ~Carries(Below(j2)[n2], i)
    BY <1>2
<1>4. \A j2, n2 \in Nat :
        Visited(j2, n2)' /\ (j2 > a \/ (j2 = a /\ n2 > b)) => ~Carries(Below(j2)[n2], i)'
    BY <1>1, <1>3 DEF Carries, HasId, Exists, Below
<1>5. Visited(a, b)' /\ p = Below(a)[b]' /\ Carries(p, i)'
    BY <1>1, <1>2
<1> QED
    BY <1>4, <1>5 DEF LastVisited

\* Every step of the walk leads an id to the file it has just passed, if that
\* carries it, and to the same file as before if not.
LEMMA FoundStepHolds ==
    ASSUME FinderInv, Progress, Found, edits = 0, edits' = 0, [FinderNext]_finderVars
    PROVE  Found'
<1>1. /\ stateRoots \in Seq(Roots) /\ Len(stateRoots) \in Nat
      /\ DOMAIN stateRoots = 1..Len(stateRoots) /\ todo \in Seq(Roots) /\ Len(todo) \in Nat
      /\ walk \in Seq(Paths) /\ Coherent /\ ct \notin DOMAIN mt_index
    BY DEF FinderInv, FinderTypeOK, Dense
<1>2. ASSUME NEW r \in Roots, AddStateRoot(r) PROVE Found'
  <2>1. /\ stateRoots' = Append(stateRoots, r) /\ UNCHANGED <<disk, id_index>> /\ phase' = "ready"
    BY <1>2 DEF AddStateRoot, envVars, tables, walkVars
  <2>2. \A j \in DOMAIN stateRoots : j \in DOMAIN stateRoots' /\ stateRoots'[j] = stateRoots[j]
    BY <1>1, <2>1, AppendProperties, LenProperties
  <2> QED
    BY <2>1, <2>2 DEF Found, Below, Carries, HasId, Exists
<1>3. CASE StartIndex
  <2>1. UNCHANGED <<disk, id_index, stateRoots>> /\ todo' = stateRoots
    BY <1>3 DEF StartIndex, envVars
  <2>2. \A j, n : ~Visited(j, n)'
    BY <1>1, <2>1 DEF Visited, Entered
  <2> QED
    BY <2>1, <2>2 DEF Found, Below, Carries, HasId, Exists
<1>4. CASE EnterMissingRoot \/ VisitVanished \/ VisitBadId \/ FinishIndex
  <2>1. UNCHANGED <<disk, id_index, stateRoots>> /\ phase' # "walking"
    BY <1>4 DEF EnterMissingRoot, VisitVanished, VisitBadId, FinishIndex, WalkPanics, envVars, tables
  <2> QED
    BY <2>1 DEF Found, Below, Carries, HasId, Exists
<1>5. CASE EnterRoot
  <2>1. /\ phase = "walking" /\ todo # <<>> /\ Head(todo) \in DOMAIN Under /\ todo' = Tail(todo)
        /\ walk = <<>> /\ walk' = Under[Head(todo)]
        /\ UNCHANGED <<disk, id_index, mt_index, stateRoots, phase>>
    BY <1>5 DEF EnterRoot, envVars, tables
  <2>2. Len(todo') = Len(todo) - 1 /\ Len(todo) \in Nat \ {0} /\ Head(todo) = todo[1]
    BY <1>1, <2>1, RestOf
  <2>3. Entered' = Entered + 1 /\ Entered \in Nat /\ stateRoots[Entered + 1] = Head(todo)
    BY <1>1, <2>1, <2>2 DEF Entered, Progress
  <2>4. \A j : Below(j)' = Below(j)
    BY <2>1 DEF Below
  <2>5. walk' = Below(Entered + 1) /\ \A j \in 1..(Entered + 1) :
            Len(Below(j)) \in Nat /\ DOMAIN Below(j) = 1..Len(Below(j))
    <3>1. \A j \in 1..(Entered + 1) : j \in 1..Entered \/ j = Entered + 1
      BY <2>3
    <3>2. \A j \in 1..(Entered + 1) : Below(j) \in Seq(Paths)
      BY <2>1, <2>3, <3>1, RootsAssumption DEF Progress, Below
    <3> QED
      BY <2>1, <2>3, <3>2, LenProperties DEF Below
  <2>6. Len(walk) = 0
    BY <2>1
  <2>7. \A j, n \in Nat : Visited(j, n)' => Visited(j, n)
    BY <2>3, <2>4, <2>5, <2>6 DEF Visited
  <2>8. \A j, n \in Nat : Visited(j, n) => Visited(j, n)'
    BY <2>3, <2>4, <2>5, <2>6 DEF Visited
  <2>9. \A i \in Ids : \A j, n \in Nat :
          Visited(j, n)' /\ Carries(Below(j)[n], i)' => Known(i)' /\ LastVisited(MetaOf(i).path, i)'
    BY <2>1, <2>7, <2>8 DEF Found, Known, LastVisited, MetaOf, Below, Carries, HasId, Exists
  <2> QED
    BY <2>1, <2>9 DEF Found, Below, Carries, HasId, Exists
<1>6. CASE SkipFile
  <2>1. /\ phase = "walking" /\ walk # <<>> /\ UNCHANGED <<disk, id_index, mt_index, stateRoots>>
    BY <1>6 DEF SkipFile, envVars, tables
  <2>2. PICK n \in Nat :
          /\ Entered \in Nat /\ Visited(Entered, n)' /\ Below(Entered)[n] = Head(walk)
          /\ \A j2, n2 \in Nat : Visited(j2, n2)' <=> Visited(j2, n2) \/ (j2 = Entered /\ n2 = n)
          /\ \A j2, n2 \in Nat : Visited(j2, n2) => j2 < Entered \/ (j2 = Entered /\ n2 < n)
    BY <1>6, VisitNext DEF FinderInv
  <2>3. \A i : ~Carries(Below(Entered)[n], i)
    <3>1. Head(walk) \in Paths /\ listed = {p \in Paths : Exists(p)}
      BY <1>1, <2>1, RestOf, ElementOfSeq DEF Progress
    <3>2. \/ Head(walk) \notin listed \cap StPaths
          \/ ~Exists(Head(walk))
          \/ disk[Head(walk)].kind \in {"noid", "badyaml"}
      BY <1>6 DEF SkipFile
    <3> QED
      BY <2>2, <3>1, <3>2 DEF Carries, HasId
  <2>4. \A i, p : LastVisited(p, i) => LastVisited(p, i)'
    BY <2>1, <2>2, <2>3, LastStays
  <2>5. \A j, n2 \in Nat : \A i : Visited(j, n2)' /\ Carries(Below(j)[n2], i) => Visited(j, n2)
    BY <2>2, <2>3
  <2>6. ASSUME NEW i \in Ids, NEW j \in Nat, NEW n2 \in Nat, Visited(j, n2)', Carries(Below(j)[n2], i)
        PROVE  Known(i) /\ LastVisited(MetaOf(i).path, i)'
    <3>1. Known(i) /\ LastVisited(MetaOf(i).path, i)
      BY <2>1, <2>5, <2>6 DEF Found
    <3>2. PICK p : p = MetaOf(i).path
      OBVIOUS
    <3>3. LastVisited(p, i)'
      BY <2>4, <3>1, <3>2
    <3> QED
      BY <2>1, <3>1, <3>2, <3>3 DEF LastVisited, MetaOf
  <2>7. \A i \in Ids : \A j, n2 \in Nat :
          Visited(j, n2)' /\ Carries(Below(j)[n2], i)' => Known(i)' /\ LastVisited(MetaOf(i).path, i)'
    BY <2>1, <2>6 DEF Known, Below, Carries, HasId, Exists
  <2> QED
    BY <2>1, <2>7 DEF Found, Below, Carries, HasId, Exists
<1>7. CASE IndexFile
  <2>1. PICK q, id : q = Head(walk) /\ id = disk[q].id
    OBVIOUS
  <2>2. PICK x : x = [id |-> id, filename |-> FileName[q], path |-> q]
    OBVIOUS
  <2>3. /\ phase = "walking" /\ walk # <<>> /\ UNCHANGED <<disk, stateRoots, phase, Entered>>
        /\ q \in StPaths /\ HasId(q) /\ x.path = q
        /\ id_index' = Put(id_index, id, ct) /\ mt_index' = Put(mt_index, ct, x)
    BY <1>7, <2>1, <2>2 DEF IndexFile, envVars, Record, Entered
  <2>4. PICK n \in Nat :
          /\ Entered \in Nat /\ Visited(Entered, n)' /\ Below(Entered)[n] = q
          /\ \A j2, n2 \in Nat : Visited(j2, n2)' <=> Visited(j2, n2) \/ (j2 = Entered /\ n2 = n)
          /\ \A j2, n2 \in Nat : Visited(j2, n2) => j2 < Entered \/ (j2 = Entered /\ n2 < n)
    BY <1>7, <2>1, VisitNext DEF FinderInv
  <2>5. Carries(q, id) /\ \A i : i # id => ~Carries(q, i)
    BY <2>1, <2>3 DEF Carries
  <2>6. (\A p, i : Carries(p, i)' <=> Carries(p, i)) /\ \A j : Below(j)' = Below(j)
    BY <2>3 DEF Carries, HasId, Exists, Below
  <2>7. /\ DOMAIN id_index' = DOMAIN id_index \cup {id} /\ id_index'[id] = ct /\ mt_index'[ct] = x
        /\ \A i \in DOMAIN id_index : i # id => id_index'[i] = id_index[i]
                                                /\ mt_index'[id_index[i]] = mt_index[id_index[i]]
    BY <1>1, <2>3 DEF Put, Coherent
  <2>8. \A i \in DOMAIN id_index' : \E j \in DOMAIN stateRoots : stateRoots[j] \in DOMAIN Under
                                      /\ \E n2 \in DOMAIN Below(j) : Carries(Below(j)[n2], i)
    <3>1. Entered \in DOMAIN stateRoots /\ stateRoots[Entered] \in DOMAIN Under /\ n \in DOMAIN Below(Entered)
      <4>1. PICK e \in Nat : e = Entered
        BY <2>4
      <4>2. e \in 1..Entered /\ n \in DOMAIN Below(e)'
        BY <2>3, <2>4, <4>1 DEF Visited
      <4>3. n \in DOMAIN Below(Entered)
        BY <2>6, <4>1, <4>2
      <4>4. Len(todo) \in Nat /\ Len(stateRoots) \in Nat
        BY <1>1
      <4> QED
        BY <1>1, <2>3, <4>1, <4>2, <4>3, <4>4 DEF Progress, Entered
    <3> QED
      BY <2>4, <2>5, <2>7, <3>1 DEF Found
  <2>9. LastVisited(q, id)'
    <3>1. \A j2, n2 \in Nat : Visited(j2, n2)' => ~(j2 > Entered \/ (j2 = Entered /\ n2 > n))
      BY <2>4
    <3>2. PICK e \in Nat : e = Entered
      BY <2>4
    <3>3. Visited(e, n)' /\ q = Below(e)[n]' /\ Carries(q, id)'
      BY <2>3, <2>4, <2>5, <2>6, <3>2 DEF Visited
    <3> QED
      BY <3>1, <3>2, <3>3 DEF LastVisited
  <2>10. ASSUME NEW i \in Ids, NEW j \in Nat, NEW n2 \in Nat, Visited(j, n2)', Carries(Below(j)[n2], i)
         PROVE  Known(i)' /\ LastVisited(MetaOf(i).path, i)'
    <3>1. CASE i = id
      <4>1. i \in DOMAIN id_index' /\ mt_index'[id_index'[i]].path = q
        BY <2>3, <2>7, <3>1
      <4> QED
        BY <2>9, <3>1, <4>1 DEF Known, MetaOf, LastVisited
    <3>2. CASE i # id
      <4>1. Visited(j, n2)
        BY <2>4, <2>5, <2>10, <3>2
      <4>2. Known(i) /\ LastVisited(MetaOf(i).path, i)
        BY <2>3, <2>10, <4>1 DEF Found
      <4>3. PICK p : p = MetaOf(i).path
        OBVIOUS
      <4>4. LastVisited(p, i)'
        BY <2>3, <2>4, <2>5, <3>2, <4>2, <4>3, LastStays
      <4>5. i \in DOMAIN id_index' /\ mt_index'[id_index'[i]].path = p
        BY <2>7, <3>2, <4>2, <4>3 DEF Known, MetaOf
      <4> QED
        BY <4>4, <4>5 DEF Known, MetaOf, LastVisited
    <3> QED
      BY <3>1, <3>2
  <2>11. \A i \in Ids : \A j, n2 \in Nat :
           Visited(j, n2)' /\ Carries(Below(j)[n2], i)' => Known(i)' /\ LastVisited(MetaOf(i).path, i)'
    BY <2>3, <2>10 DEF Below, Carries, HasId, Exists
  <2>12. (\A i \in DOMAIN id_index : \E j \in DOMAIN stateRoots : stateRoots[j] \in DOMAIN Under
                                      /\ \E n2 \in DOMAIN Below(j) : Carries(Below(j)[n2], i))'
    BY <2>3, <2>8 DEF Below, Carries, HasId, Exists
  <2> QED
    BY <2>11, <2>12 DEF Found
<1>8. CASE UNCHANGED finderVars
    BY <1>8 DEF finderVars, envVars, tables, walkVars, Found, Known, Visited, LastVisited, MetaOf,
               Entered, Below, Carries, HasId, Exists
<1>9. ASSUME NEW p \in Paths, NEW c \in Sources \cup {Absent}, Edit(p, c) PROVE FALSE
    BY <1>9 DEF Edit
<1> QED
    BY <1>2, <1>3, <1>4, <1>5, <1>6, <1>7, <1>8, <1>9 DEF FinderNext, FinderCall, WalkStep, Environment

\* Where the walk is, and what it has found unless somebody edited
FinderHistory == Progress /\ (edits = 0 => Found)

\* Nothing was found before the first walk.
LEMMA HistoryInit == FinderInit => FinderHistory
BY DEF FinderInit, FinderHistory, Progress, Found, NoEntries

\* Every step of the index keeps it.
LEMMA HistoryStepHolds ==
    ASSUME FinderInv, FinderHistory, [FinderNext]_finderVars
    PROVE  FinderHistory'
<1>1. Progress'
    BY ProgressStepHolds DEF FinderInv, FinderHistory
<1>2. ASSUME edits' = 0 PROVE edits = 0
    BY <1>2, BoundsAssumption
    DEF FinderInv, FinderTypeOK, FinderNext, FinderCall, WalkStep, Environment, AddStateRoot, StartIndex,
        EnterMissingRoot, EnterRoot, VisitVanished, VisitBadId, SkipFile, IndexFile, WalkPanics,
        FinishIndex, Edit, finderVars, envVars
<1> QED
    BY <1>1, <1>2, FoundStepHolds DEF FinderHistory

\* At the end of the walk it tells which file was met last.
LEMMA HistoryTells == FinderInv /\ FinderHistory => LaterRootOverrides
<1>1. edits # 0 => LaterRootOverrides
    BY DEF LaterRootOverrides
<1> QED
    BY <1>1, FoundTells DEF FinderInv, FinderHistory

\* When Index is about to return over files nobody changed, an id is known
\* exactly if a file below some root carries it, and leads to the last such
\* file of the last such root.
THEOREM TheLaterRootWins == FinderSpec => []LaterRootOverrides
<1>1. FinderInv /\ FinderHistory /\ [FinderNext]_finderVars => FinderHistory'
    BY HistoryStepHolds
<1> QED
    BY <1>1, HistoryInit, HistoryTells, InvariantHolds, PTL DEF FinderSpec
=============================================================================
