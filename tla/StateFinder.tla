----------------------------- MODULE StateFinder -----------------------------
(***************************************************************************)
(* The state index of nanostate/statefinder.go (type NanoStateIndex): it   *)
(* walks the state roots, reads the id of every ".st" file and remembers   *)
(* under which number, id and file name the file was met.                  *)
(*                                                                         *)
(* The walk is one goroutine; the files it reads belong to other programs  *)
(* (an editor, a configuration checkout), so an Edit may fall between any  *)
(* two steps of it.  A root is one directory: the names below it are read  *)
(* when the walk enters it, the files one by one afterwards.               *)
(***************************************************************************)
EXTENDS Integers, Sequences, FiniteSets

CONSTANTS
    Paths,      \* the files that may exist
    StPaths,    \* those of them with the suffix ".st"
    FileName,   \* the base name of each path
    Roots,      \* the directories a caller may add as a state root
    Under,      \* the paths below each directory that exists, in lexical order
    Ids,        \* the state ids
    Blank,      \* the empty string, an id like any other to this code
    Sources,    \* what a state file may contain
    Absent,     \* what a missing file holds
    Disks,      \* the file trees a run may start from
    MaxRoots, MaxIndexes, MaxEdits      \* bounds of a run

\* What the two YAML readers (getStateId, loadBytes) tell apart: a complete
\* state, one without a "state" branch, one with a value that OTree does not
\* load (a number, say), one without an id, an id that is no string, and text
\* that is no YAML mapping.
Kinds == {"state", "nobranch", "badvalue", "noid", "badid", "badyaml"}

ASSUME PathsAssumption == /\ StPaths \subseteq Paths
                          /\ DOMAIN FileName = Paths
ASSUME RootsAssumption == /\ DOMAIN Under \subseteq Roots
                          /\ \A r \in DOMAIN Under : Under[r] \in Seq(Paths)
ASSUME SourcesAssumption == /\ \A s \in Sources : s.kind \in Kinds /\ s.id \in Ids
                            /\ Absent \notin Sources
                            /\ Blank \in Ids
                            /\ Disks \subseteq [Paths -> Sources \cup {Absent}]
ASSUME BoundsAssumption == {MaxRoots, MaxIndexes, MaxEdits} \subseteq Nat

VARIABLES
    disk,       \* the contents of every path
    edits,      \* how often the environment has changed the disk
    stateRoots, \* NanoStateIndex.stateRoots
    id_index,   \* _id_index: id -> number
    fn_index,   \* _fn_index: file name -> number
    mt_index,   \* _mt_index: number -> meta
    ct,         \* _ct, the next number
    indexes,    \* how often Index was called
    phase,      \* "ready", "walking" inside Index, or "panicked"
    todo,       \* the roots Index has still to walk
    listed,     \* the files that existed when the current root was entered
    walk        \* the names of the current root still to visit

envVars == <<disk, edits>>
tables == <<id_index, fn_index, mt_index, ct>>
walkVars == <<indexes, phase, todo, listed, walk>>
finderVars == <<envVars, stateRoots, tables, walkVars>>

Metas == [id : Ids, filename : {FileName[p] : p \in Paths}, path : Paths]

NoEntries == [k \in {} |-> 0]

\* f with k mapped to v, whether k was there or not
Put(f, k, v) == [x \in DOMAIN f \cup {k} |-> IF x = k THEN v ELSE f[x]]

FinderInit ==
    /\ disk \in Disks /\ edits = 0
    /\ stateRoots = <<>>
    /\ id_index = NoEntries /\ fn_index = NoEntries /\ mt_index = NoEntries
    /\ ct = 0
    /\ indexes = 0 /\ phase = "ready" /\ todo = <<>> /\ listed = {} /\ walk = <<>>

Exists(p) == disk[p] # Absent

\* getStateId returns an id: the file can be read, parses and has one.
HasId(p) == Exists(p) /\ disk[p].kind \in {"state", "nobranch", "badvalue"}

-----------------------------------------------------------------------------
(* The operations of the index *)

AddStateRoot(r) ==
    /\ phase = "ready" /\ Len(stateRoots) < MaxRoots
    /\ stateRoots' = Append(stateRoots, r)
    /\ UNCHANGED <<envVars, tables, walkVars>>

\* mutant: the numbering starts over on every Index
StartIndexFromZero ==
    /\ phase = "ready" /\ indexes < MaxIndexes
    /\ indexes' = indexes + 1
    /\ ct' = 0
    /\ phase' = "walking" /\ todo' = stateRoots
    /\ UNCHANGED <<envVars, stateRoots, id_index, fn_index, mt_index, listed, walk>>

\* mutant: the number of the last file is used again
StartIndexOffByOne ==
    /\ phase = "ready" /\ indexes < MaxIndexes
    /\ indexes' = indexes + 1
    /\ ct' = Cardinality(DOMAIN mt_index) - 1
    /\ phase' = "walking" /\ todo' = stateRoots
    /\ UNCHANGED <<envVars, stateRoots, id_index, fn_index, mt_index, listed, walk>>

StartIndex ==
    /\ phase = "ready" /\ indexes < MaxIndexes
    /\ indexes' = indexes + 1
    /\ ct' = Cardinality(DOMAIN mt_index)
    /\ phase' = "walking" /\ todo' = stateRoots
    /\ UNCHANGED <<envVars, stateRoots, id_index, fn_index, mt_index, listed, walk>>

WalkPanics ==
    /\ phase' = "panicked"
    /\ UNCHANGED <<envVars, stateRoots, tables, indexes, todo, listed, walk>>

\* filepath.Walk reports a root that is not there to the callback, whose
\* error getPathFiles turns into a panic.
EnterMissingRoot ==
    /\ phase = "walking" /\ walk = <<>> /\ todo # <<>>
    /\ Head(todo) \notin DOMAIN Under
    /\ WalkPanics

EnterRoot ==
    /\ phase = "walking" /\ walk = <<>> /\ todo # <<>>
    /\ Head(todo) \in DOMAIN Under
    /\ walk' = Under[Head(todo)]
    /\ listed' = {p \in Paths : Exists(p)}
    /\ todo' = Tail(todo)
    /\ UNCHANGED <<envVars, stateRoots, tables, indexes, phase>>

\* The file was listed but is gone when the walk asks for its attributes.
VisitVanished ==
    /\ phase = "walking" /\ walk # <<>>
    /\ Head(walk) \in listed /\ ~Exists(Head(walk))
    /\ WalkPanics

\* stateId.(string) of an id that is a number, a list or null.
VisitBadId ==
    /\ phase = "walking" /\ walk # <<>>
    /\ Head(walk) \in listed \cap StPaths /\ Exists(Head(walk))
    /\ disk[Head(walk)].kind = "badid"
    /\ WalkPanics

\* Not a state file, or getStateId failed: the name was never listed, the
\* file vanished after its attributes were read, it does not parse, or it
\* has no id.
SkipFile ==
    /\ phase = "walking" /\ walk # <<>>
    /\ \/ Head(walk) \notin listed \cap StPaths
       \/ ~Exists(Head(walk))
       \/ Exists(Head(walk)) /\ disk[Head(walk)].kind \in {"noid", "badyaml"}
    /\ walk' = Tail(walk)
    /\ UNCHANGED <<envVars, stateRoots, tables, indexes, phase, todo, listed>>

\* mutant: the first file of an id keeps it
RecordFirstWins(p) ==
    LET m == [id |-> disk[p].id, filename |-> FileName[p], path |-> p]
    IN  /\ mt_index' = Put(mt_index, ct, m)
        /\ fn_index' = Put(fn_index, m.filename, ct)
        /\ id_index' = IF m.id \in DOMAIN id_index THEN id_index
                                                   ELSE Put(id_index, m.id, ct)
        /\ ct' = ct + 1

\* mutant: the counter advances before the id is recorded
RecordLate(p) ==
    LET m == [id |-> disk[p].id, filename |-> FileName[p], path |-> p]
    IN  /\ mt_index' = Put(mt_index, ct, m)
        /\ fn_index' = Put(fn_index, m.filename, ct)
        /\ id_index' = Put(id_index, m.id, ct + 1)
        /\ ct' = ct + 1

\* The meta of p under the next number; both look-ups now lead to it.
Record(p) ==
    LET m == [id |-> disk[p].id, filename |-> FileName[p], path |-> p]
    IN  /\ mt_index' = Put(mt_index, ct, m)
        /\ fn_index' = Put(fn_index, m.filename, ct)
        /\ id_index' = Put(id_index, m.id, ct)
        /\ ct' = ct + 1

IndexFile ==
    /\ phase = "walking" /\ walk # <<>>
    /\ Head(walk) \in listed \cap StPaths /\ HasId(Head(walk))
    /\ Record(Head(walk))
    /\ walk' = Tail(walk)
    /\ UNCHANGED <<envVars, stateRoots, indexes, phase, todo, listed>>

\* mutant: the walk starts over instead of returning
FinishIndexNever ==
    /\ phase = "walking" /\ walk = <<>> /\ todo = <<>>
    /\ todo' = stateRoots
    /\ UNCHANGED <<envVars, stateRoots, tables, indexes, phase, listed, walk>>

FinishIndex ==
    /\ phase = "walking" /\ walk = <<>> /\ todo = <<>>
    /\ phase' = "ready" /\ listed' = {}
    /\ UNCHANGED <<envVars, stateRoots, tables, indexes, todo, walk>>

-----------------------------------------------------------------------------
(* The environment: somebody writes, replaces or removes a file. *)
Edit(p, s) ==
    /\ disk[p] # s
    /\ disk' = [disk EXCEPT ![p] = s]
    /\ edits' = edits + 1
    /\ UNCHANGED <<stateRoots, tables, walkVars>>

WalkStep == \/ EnterMissingRoot \/ EnterRoot \/ VisitVanished \/ VisitBadId
            \/ SkipFile \/ IndexFile \/ FinishIndex

FinderCall == (\E r \in Roots : AddStateRoot(r)) \/ StartIndex

Environment == edits < MaxEdits /\ \E p \in Paths, s \in Sources \cup {Absent} : Edit(p, s)

FinderNext == FinderCall \/ WalkStep \/ Environment

\* Index is straight-line code: once called it keeps going.
FinderSpec == FinderInit /\ [][FinderNext]_finderVars /\ WF_finderVars(WalkStep)

-----------------------------------------------------------------------------
(* What GetStateById and GetStateByFileName answer *)

Known(i) == i \in DOMAIN id_index
MetaOf(i) == mt_index[id_index[i]]
MetaOfFile(f) == mt_index[fn_index[f]]

-----------------------------------------------------------------------------
(* Properties *)

FinderTypeOK ==
    /\ disk \in [Paths -> Sources \cup {Absent}] /\ edits \in 0..MaxEdits
    /\ stateRoots \in Seq(Roots)
    /\ ct \in Nat
    /\ DOMAIN mt_index \subseteq Nat /\ \A k \in DOMAIN mt_index : mt_index[k] \in Metas
    /\ DOMAIN id_index \subseteq Ids /\ \A i \in DOMAIN id_index : id_index[i] \in Nat
    /\ \A f \in DOMAIN fn_index : fn_index[f] \in Nat
    /\ indexes \in 0..MaxIndexes
    /\ phase \in {"ready", "walking", "panicked"}
    /\ todo \in Seq(Roots) /\ listed \subseteq Paths /\ walk \in Seq(Paths)

\* The numbers in use are 0.._ct-1 at every step of the walk, so that the
\* len(_mt_index) with which the next Index resumes is a free number.
Dense == DOMAIN mt_index = 0..(ct - 1)

\* A look-up by id or by file name never answers with the meta of another
\* id or file name, nor with the zero meta of a number nobody wrote.
Coherent ==
    /\ \A i \in DOMAIN id_index :
         id_index[i] \in DOMAIN mt_index /\ MetaOf(i).id = i
    /\ \A f \in DOMAIN fn_index :
         fn_index[f] \in DOMAIN mt_index /\ MetaOfFile(f).filename = f

\* When several files carry one id, or several roots one file name, the
\* look-up gives the one met last: a later root overrides an earlier one.
LatestWins ==
    \A k \in DOMAIN mt_index :
      /\ mt_index[k].id \in DOMAIN id_index /\ k <= id_index[mt_index[k].id]
      /\ mt_index[k].filename \in DOMAIN fn_index /\ k <= fn_index[mt_index[k].filename]

\* A meta handed out by a look-up stays what it is however often the roots
\* are indexed again: a number is never given to another file.
MetaImmutable ==
    [][\A k \in DOMAIN mt_index : k \in DOMAIN mt_index' /\ mt_index'[k] = mt_index[k]]_finderVars


\* p is a state file of id i right now.
Carries(p, i) == p \in StPaths /\ HasId(p) /\ disk[p].id = i

\* p carries i and nothing that Index walks later does.
LastCarrier(p, i) ==
    \E j \in DOMAIN stateRoots : \E n \in DOMAIN Under[stateRoots[j]] :
      /\ p = Under[stateRoots[j]][n] /\ Carries(p, i)
      /\ \A j2 \in j..Len(stateRoots) : \A n2 \in DOMAIN Under[stateRoots[j2]] :
           (j2 > j \/ n2 > n) => ~Carries(Under[stateRoots[j2]][n2], i)

\* When Index is about to return over files nobody changed, an id is known
\* exactly if a file below some root carries it, and its look-up leads to
\* the last such file of the last such root, whatever was indexed before
\* and in however many calls the roots were added.
LaterRootOverrides ==
    phase = "walking" /\ walk = <<>> /\ todo = <<>> /\ edits = 0 =>
      \A i \in Ids :
        IF Known(i)
        THEN LastCarrier(MetaOf(i).path, i)
        ELSE \A j \in DOMAIN stateRoots : \A n \in DOMAIN Under[stateRoots[j]] :
               ~Carries(Under[stateRoots[j]][n], i)

\* Index returns or panics, however many roots there are.
IndexFinishes == phase = "walking" ~> phase # "walking"
=============================================================================
