------------------------------ MODULE TreeProofs ------------------------------
(***************************************************************************)
(* The compiled tree is what the loaded states mean (TreeMeaning), and the *)
(* groups a runner works through are that tree (Nanostate): proofs for     *)
(* every program the loader may leave behind, however the states nest and  *)
(* however often Tree() is called.                                         *)
(***************************************************************************)
EXTENDS TreeMeaning, Nanostate, ListProofs

\* What a reference names, what names a block and a module, and an entry of a
\* tree. (To the provers a literal is not a string, hence the empty name.)
BlockNames == STRING \cup {""}
KeyNames == BlockNames \cup {ToCDLKey(line) : line \in Seq(Token)}
                   \cup {GetDependency(line).anchor : line \in Seq(Token)}
ModuleNames == STRING \cup {RawName(call) : call \in ModuleCall}
Bodies == Seq(Seq(ModuleNames))
Entry == [key : KeyNames, val : Bodies]
Groups == [id : KeyNames, group : Seq(ModuleNames)]

\* Line n of state i can be compiled, as far as the states go it leads to.
Right(i, n) == ~IsWrong(i, n) /\ (Leads(i, n) => Target(i, n) \in Sound)

\* What the first k lines of state i contribute
Done(i, k) == FlattenSeq([n \in 1..k |-> LineMeans(Contributes, i, n)])

FrameInv(r) ==
    /\ r.id \in DOMAIN states
    /\ r.at \in 1..(Len(states[r.id].lines) + 1)
    /\ r.out \in Seq(Entry)
    /\ \A n \in 1..(r.at - 1) : Right(r.id, n)
    /\ Means(r.out, Done(r.id, r.at - 1))

\* The frame that waits for frame r stands at a line that leads to r's state.
Waits(outer, r) ==
    /\ outer.at \in 1..Len(states[outer.id].lines)
    /\ Leads(outer.id, outer.at)
    /\ Target(outer.id, outer.at) = r.id

Frames == [id : DOMAIN states, at : Nat, out : Seq(Entry)]

StackInv(st) ==
    /\ st \in Seq(Frames)
    /\ st # <<>>
    /\ st[Len(st)].id = rootStateId
    /\ \A m \in 1..Len(st) : FrameInv(st[m])
    /\ \A m \in 1..(Len(st) - 1) : Waits(st[m + 1], st[m])

\* What the loader left behind, which nothing changes
ProgramInv ==
    /\ \A i \in DOMAIN states : states[i] \in LoadedState
    /\ \A i \in DOMAIN threads : \A fn \in DOMAIN threads[i] : threads[i][fn] \in Nat

TreeInv ==
    /\ ProgramInv
    /\ status \in {"called", "compiling", "done", "panicked"}
    /\ status = "compiling" => StackInv(stack)
    /\ built = "whole" => /\ tree \in Seq(Entry)
                          /\ rootStateId \in Sound
                          /\ Means(tree, Contributes[rootStateId])
    /\ status = "panicked" => rootStateId \notin Sound \/ ~described

NanoInv ==
    /\ nano \in {"new", "loading", "loaded", "panicked"}
    /\ nano # "new" => status = "done"
    /\ nano \in {"loading", "loaded"} =>
         /\ built = "whole"
         /\ groupIndex = [n \in DOMAIN tree |-> tree[n].key]
         /\ groups \in Seq(Groups)
         /\ \A n \in DOMAIN groups : groups[n].group \in LoadGroup(OGet(tree, groups[n].id))
    /\ nano = "loading" =>
         /\ todo \subseteq Keys(tree)
         /\ {groups[n].id : n \in DOMAIN groups} = Keys(tree) \ todo
         /\ \A m, n \in DOMAIN groups : groups[m].id = groups[n].id => m = n
    /\ nano = "loaded" =>
         /\ Len(groups) = Len(groupIndex)
         /\ \A n \in DOMAIN groups : groups[n].id = groupIndex[n]
         /\ OrderedGroups = groups
-----------------------------------------------------------------------------
(* Trees and what they mean: Means, over OSet and over Merge *)

LEMMA ExtremePlaces ==
    ASSUME NEW cs \in Seq(Entry), NEW k \in Keys(cs)
    PROVE  /\ FirstOf(cs, k) \in 1..Len(cs) /\ cs[FirstOf(cs, k)].key = k
           /\ \A n \in 1..Len(cs) : cs[n].key = k => FirstOf(cs, k) <= n
           /\ \E n \in 1..Len(cs) : /\ cs[n].key = k /\ LastOf(cs, k) = cs[n].val
                                    /\ \A p \in 1..Len(cs) : cs[p].key = k => p <= n
           /\ LastOf(cs, k) \in Bodies
<1>1. Len(cs) \in Nat /\ DOMAIN cs = 1..Len(cs) /\ \A n \in 1..Len(cs) : cs[n] \in Entry
    BY LenProperties, ElementOfSeq
<1> DEFINE T == Places(cs, k)
<1>2. T \subseteq 1..Len(cs) /\ T # {} /\ \A n \in 1..Len(cs) : n \in T <=> cs[n].key = k
    BY <1>1 DEF Places, Keys
<1>3. /\ Max(T) \in T /\ \A n \in T : n <= Max(T)
      /\ Min(T) \in T /\ \A n \in T : Min(T) <= n
  <2> HIDE DEF T
  <2> QED
      BY <1>1, <1>2, Extremes
<1>4. LastOf(cs, k) = cs[Max(T)].val /\ FirstOf(cs, k) = Min(T)
    BY DEF LastOf, FirstOf
<1> HIDE DEF T
<1>5. \A e \in Entry : e.val \in Bodies
    BY DEF Entry
<1> QED
    BY <1>1, <1>2, <1>3, <1>4, <1>5

\* What is the last place of a key, and the first one
LEMMA LastIs ==
    ASSUME NEW cs \in Seq(Entry), NEW n \in 1..Len(cs),
           \A p \in 1..Len(cs) : cs[p].key = cs[n].key => p <= n
    PROVE  cs[n].key \in Keys(cs) /\ LastOf(cs, cs[n].key) = cs[n].val
<1>1. Len(cs) \in Nat /\ DOMAIN cs = 1..Len(cs)
    BY LenProperties
<1>2. cs[n].key \in Keys(cs)
    BY <1>1 DEF Keys
<1>3. PICK l \in 1..Len(cs) : /\ cs[l].key = cs[n].key /\ LastOf(cs, cs[n].key) = cs[l].val
                              /\ \A p \in 1..Len(cs) : cs[p].key = cs[n].key => p <= l
    BY <1>2, ExtremePlaces
<1>4. l <= n /\ n <= l
    BY <1>3
<1>5. l = n
    BY <1>1, <1>4
<1> QED
    BY <1>2, <1>3, <1>5

LEMMA FirstIs ==
    ASSUME NEW cs \in Seq(Entry), NEW n \in 1..Len(cs),
           \A p \in 1..Len(cs) : cs[p].key = cs[n].key => n <= p
    PROVE  FirstOf(cs, cs[n].key) = n
<1>1. Len(cs) \in Nat /\ DOMAIN cs = 1..Len(cs)
    BY LenProperties
<1>2. cs[n].key \in Keys(cs)
    BY <1>1 DEF Keys
<1> DEFINE f == FirstOf(cs, cs[n].key)
<1>3. /\ f \in 1..Len(cs) /\ cs[f].key = cs[n].key
      /\ \A p \in 1..Len(cs) : cs[p].key = cs[n].key => f <= p
    BY <1>2, ExtremePlaces
<1> HIDE DEF f
<1>4. f <= n /\ n <= f
    BY <1>3
<1>5. f = n
    BY <1>1, <1>3, <1>4
<1> QED
    BY <1>5 DEF f

LEMMA BehindBoth ==
    ASSUME NEW a \in Seq(Entry), NEW b \in Seq(Entry), NEW c \in Seq(Entry)
    PROVE  (a \o b) \o c = a \o (b \o c)
BY ConcatAssociative

\* Contributions behind contributions
LEMMA BehindOthers ==
    ASSUME NEW cs \in Seq(Entry), NEW ds \in Seq(Entry)
    PROVE  /\ cs \o ds \in Seq(Entry)
           /\ Keys(cs \o ds) = Keys(cs) \cup Keys(ds)
           /\ \A k \in Keys(ds) : LastOf(cs \o ds, k) = LastOf(ds, k)
           /\ \A k \in Keys(cs) \ Keys(ds) : LastOf(cs \o ds, k) = LastOf(cs, k)
           /\ \A k \in Keys(cs) : FirstOf(cs \o ds, k) = FirstOf(cs, k)
           /\ \A k \in Keys(ds) \ Keys(cs) : FirstOf(cs \o ds, k) = Len(cs) + FirstOf(ds, k)
<1> DEFINE es == cs \o ds
<1>1. /\ es \in Seq(Entry) /\ Len(cs) \in Nat /\ Len(ds) \in Nat
      /\ Len(es) = Len(cs) + Len(ds)
      /\ \A n \in 1..(Len(cs) + Len(ds)) :
           es[n] = IF n <= Len(cs) THEN cs[n] ELSE ds[n - Len(cs)]
    BY ConcatProperties, LenProperties
<1>2. DOMAIN cs = 1..Len(cs) /\ DOMAIN ds = 1..Len(ds) /\ DOMAIN es = 1..Len(es)
    BY <1>1, LenProperties
<1> HIDE DEF es
<1>3. \A n \in 1..Len(cs) : n \in 1..Len(es) /\ es[n] = cs[n]
    BY <1>1
<1>4. ASSUME NEW n \in 1..Len(ds)
      PROVE  Len(cs) + n \in 1..Len(es) /\ es[Len(cs) + n] = ds[n]
  <2>1. PICK l : l = Len(cs) + n
      OBVIOUS
  <2>2. l \in 1..Len(es) /\ l \in 1..(Len(cs) + Len(ds)) /\ ~(l <= Len(cs)) /\ l - Len(cs) = n
      BY <1>1, <2>1
  <2>3. es[l] = ds[n]
      BY <1>1, <2>2
  <2> QED
      BY <2>1, <2>2, <2>3
<1>5. ASSUME NEW n \in 1..Len(es)
      PROVE  \/ n \in 1..Len(cs) /\ es[n] = cs[n]
             \/ n - Len(cs) \in 1..Len(ds) /\ es[n] = ds[n - Len(cs)] /\ n > Len(cs)
  <2>1. n \in 1..(Len(cs) + Len(ds))
      BY <1>1
  <2>2. CASE n <= Len(cs)
      BY <1>1, <2>1, <2>2
  <2>3. CASE ~(n <= Len(cs))
      BY <1>1, <2>1, <2>3
  <2> QED
      BY <2>2, <2>3
<1>6. Keys(es) = Keys(cs) \cup Keys(ds)
  <2>1. \A k \in Keys(es) : k \in Keys(cs) \cup Keys(ds)
      BY <1>2, <1>5 DEF Keys
  <2>2. \A k \in Keys(cs) : k \in Keys(es)
      BY <1>2, <1>3 DEF Keys
  <2>3. \A k \in Keys(ds) : k \in Keys(es)
    <3> TAKE k \in Keys(ds)
    <3>1. PICK n \in 1..Len(ds) : ds[n].key = k
        BY <1>2 DEF Keys
    <3> QED
        BY <1>2, <1>4, <3>1 DEF Keys
  <2> QED
      BY <2>1, <2>2, <2>3
<1>7. ASSUME NEW k \in Keys(ds) PROVE LastOf(es, k) = LastOf(ds, k)
  <2>1. PICK n \in 1..Len(ds) : /\ ds[n].key = k /\ LastOf(ds, k) = ds[n].val
                                /\ \A p \in 1..Len(ds) : ds[p].key = k => p <= n
      BY ExtremePlaces
  <2>2. PICK l : l = Len(cs) + n
      OBVIOUS
  <2>3. l \in 1..Len(es) /\ es[l] = ds[n]
      BY <1>4, <2>2
  <2>4. ASSUME NEW p \in 1..Len(es), es[p].key = k PROVE p <= l
    <3>1. CASE p \in 1..Len(cs)
        BY <1>1, <2>2, <3>1
    <3>2. CASE p \notin 1..Len(cs)
      <4>1. p - Len(cs) \in 1..Len(ds) /\ ds[p - Len(cs)].key = k
          BY <1>5, <2>4, <3>2
      <4>2. p - Len(cs) <= n
          BY <2>1, <4>1
      <4> QED
          BY <1>1, <2>2, <4>2
    <3> QED
        BY <3>1, <3>2
  <2>5. es[l].key = k
      BY <2>1, <2>3
  <2>6. LastOf(es, es[l].key) = es[l].val
      BY <1>1, <2>3, <2>4, <2>5, LastIs
  <2> QED
      BY <2>1, <2>3, <2>5, <2>6
<1>8. ASSUME NEW k \in Keys(cs) \ Keys(ds) PROVE LastOf(es, k) = LastOf(cs, k)
  <2>1. PICK n \in 1..Len(cs) : /\ cs[n].key = k /\ LastOf(cs, k) = cs[n].val
                                /\ \A p \in 1..Len(cs) : cs[p].key = k => p <= n
      BY ExtremePlaces
  <2>2. n \in 1..Len(es) /\ es[n] = cs[n]
      BY <1>3
  <2>3. ASSUME NEW p \in 1..Len(es), es[p].key = k PROVE p <= n
    <3>1. CASE p \in 1..Len(cs)
        BY <1>3, <2>1, <2>3, <3>1
    <3>2. CASE p \notin 1..Len(cs)
      <4>1. p - Len(cs) \in 1..Len(ds) /\ ds[p - Len(cs)].key = k
          BY <1>5, <2>3, <3>2
      <4>2. k \in Keys(ds)
          BY <1>2, <4>1 DEF Keys
      <4> QED
          BY <4>2
    <3> QED
        BY <3>1, <3>2
  <2>4. es[n].key = k
      BY <2>1, <2>2
  <2>5. LastOf(es, es[n].key) = es[n].val
      BY <1>1, <2>2, <2>3, <2>4, LastIs
  <2> QED
      BY <2>1, <2>2, <2>4, <2>5
<1>9. ASSUME NEW k \in Keys(cs) PROVE FirstOf(es, k) = FirstOf(cs, k)
  <2> DEFINE n == FirstOf(cs, k)
  <2>1. /\ n \in 1..Len(cs) /\ cs[n].key = k
        /\ \A p \in 1..Len(cs) : cs[p].key = k => n <= p
      BY ExtremePlaces
  <2> HIDE DEF n
  <2>2. n \in 1..Len(es) /\ es[n] = cs[n] /\ es[n].key = k
      BY <1>3, <2>1
  <2>3. ASSUME NEW p \in 1..Len(es), es[p].key = k PROVE n <= p
    <3>1. CASE p \in 1..Len(cs)
        BY <1>3, <2>1, <2>3, <3>1
    <3>2. CASE p \notin 1..Len(cs)
      <4>1. p > Len(cs)
          BY <1>5, <3>2
      <4>2. n <= Len(cs) /\ n \in Nat /\ p \in Nat
          BY <1>1, <2>1
      <4> QED
          BY <1>1, <4>1, <4>2
    <3> QED
        BY <3>1, <3>2
  <2>4. FirstOf(es, es[n].key) = n
      BY <1>1, <2>2, <2>3, FirstIs
  <2> QED
      BY <2>2, <2>4 DEF n
<1>10. ASSUME NEW k \in Keys(ds) \ Keys(cs) PROVE FirstOf(es, k) = Len(cs) + FirstOf(ds, k)
  <2> DEFINE n == FirstOf(ds, k)
  <2>1. /\ n \in 1..Len(ds) /\ ds[n].key = k
        /\ \A p \in 1..Len(ds) : ds[p].key = k => n <= p
      BY ExtremePlaces
  <2> HIDE DEF n
  <2>2. PICK l : l = Len(cs) + n
      OBVIOUS
  <2>3. l \in 1..Len(es) /\ es[l] = ds[n] /\ es[l].key = k
      BY <1>4, <2>1, <2>2
  <2>4. ASSUME NEW p \in 1..Len(es), es[p].key = k PROVE l <= p
    <3>1. CASE p \in 1..Len(cs)
      <4>1. k \in Keys(cs)
          BY <1>2, <1>3, <2>4, <3>1 DEF Keys
      <4> QED
          BY <4>1
    <3>2. CASE p \notin 1..Len(cs)
      <4>1. p - Len(cs) \in 1..Len(ds) /\ ds[p - Len(cs)].key = k
          BY <1>5, <2>4, <3>2
      <4>2. n <= p - Len(cs)
          BY <2>1, <4>1
      <4> QED
          BY <1>1, <2>1, <2>2, <4>2
    <3> QED
        BY <3>1, <3>2
  <2>5. FirstOf(es, es[l].key) = l
      BY <1>1, <2>3, <2>4, FirstIs
  <2> QED
      BY <2>2, <2>3, <2>5 DEF n
<1> QED
    BY <1>1, <1>6, <1>7, <1>8, <1>9, <1>10 DEF es

LEMMA OneContribution ==
    ASSUME NEW e \in Entry
    PROVE  /\ <<e>> \in Seq(Entry) /\ Keys(<<e>>) = {e.key}
           /\ LastOf(<<e>>, e.key) = e.val /\ FirstOf(<<e>>, e.key) = 1
<1> DEFINE ds == <<e>>
<1>1. ds \in Seq(Entry) /\ Len(ds) = 1 /\ ds[1] = e /\ 1 \in 1..Len(ds) /\ DOMAIN ds = 1..1
    OBVIOUS
<1>2. \A p \in 1..Len(ds) : p <= 1 /\ 1 <= p
    BY <1>1
<1> HIDE DEF ds
<1>3. Keys(ds) = {e.key}
    BY <1>1 DEF Keys
<1>4. LastOf(ds, ds[1].key) = ds[1].val
    BY <1>1, <1>2, LastIs
<1>5. FirstOf(ds, ds[1].key) = 1
    BY <1>1, <1>2, FirstIs
<1>6. ds \in Seq(Entry) /\ LastOf(ds, e.key) = e.val /\ FirstOf(ds, e.key) = 1
    BY <1>1, <1>4, <1>5
<1> QED
    BY <1>3, <1>6 DEF ds

LEMMA OSetType ==
    ASSUME NEW t \in Seq(Entry), NEW k \in KeyNames, NEW v \in Bodies
    PROVE  OSet(t, k, v) \in Seq(Entry)
<1> DEFINE e == [key |-> k, val |-> v]
<1>1. e \in Entry
    BY DEF Entry
<1> HIDE DEF e
<1>2. Len(t) \in Nat /\ DOMAIN t = 1..Len(t) /\ \A n \in 1..Len(t) : t[n] \in Entry
    BY LenProperties, ElementOfSeq
<1>3. Append(t, e) \in Seq(Entry)
    BY <1>1, AppendProperties
<1>4. [n \in DOMAIN t |-> IF t[n].key = k THEN e ELSE t[n]] \in Seq(Entry)
  <2>1. [n \in DOMAIN t |-> IF t[n].key = k THEN e ELSE t[n]] \in [1..Len(t) -> Entry]
      BY <1>1, <1>2
  <2> QED
      BY <1>2, <2>1
<1> QED
    BY <1>3, <1>4 DEF OSet, e

\* A block that is set is one more contribution.
LEMMA OSetMeans ==
    ASSUME NEW t \in Seq(Entry), NEW cs \in Seq(Entry), Means(t, cs),
           NEW k \in KeyNames, NEW v \in Bodies
    PROVE  /\ OSet(t, k, v) \in Seq(Entry)
           /\ Means(OSet(t, k, v), cs \o <<[key |-> k, val |-> v]>>)
<1> DEFINE e == [key |-> k, val |-> v]
           ds == <<e>>
           es == cs \o ds
           u == OSet(t, k, v)
<1>1. e \in Entry /\ e.key = k /\ e.val = v
    BY DEF Entry
<1>2. /\ ds \in Seq(Entry) /\ Keys(ds) = {k} /\ LastOf(ds, k) = v /\ FirstOf(ds, k) = 1
  <2> HIDE DEF e
  <2> QED
      BY <1>1, OneContribution
<1> HIDE DEF ds
<1>3. /\ es \in Seq(Entry) /\ Keys(es) = Keys(cs) \cup {k}
      /\ LastOf(es, k) = v /\ \A j \in Keys(cs) \ {k} : LastOf(es, j) = LastOf(cs, j)
      /\ \A j \in Keys(cs) : FirstOf(es, j) = FirstOf(cs, j)
      /\ k \notin Keys(cs) => FirstOf(es, k) = Len(cs) + 1
    BY <1>2, BehindOthers
<1> HIDE DEF es
<1>4. /\ Keys(t) = Keys(cs)
      /\ \A n \in 1..Len(t) : t[n].val = LastOf(cs, t[n].key)
      /\ \A m, n \in 1..Len(t) : m < n => FirstOf(cs, t[m].key) < FirstOf(cs, t[n].key)
    BY LenProperties DEF Means
<1>5. /\ Len(t) \in Nat /\ DOMAIN t = 1..Len(t) /\ \A n \in 1..Len(t) : t[n] \in Entry
      /\ \A n \in 1..Len(t) : t[n].key \in Keys(t)
    BY LenProperties, ElementOfSeq DEF Keys
<1>6. CASE k \in Keys(t)
  <2>1. u = [n \in DOMAIN t |-> IF t[n].key = k THEN e ELSE t[n]]
      BY <1>6 DEF OSet
  <2> HIDE DEF e
  <2>2. DOMAIN u = 1..Len(t) /\ \A n \in 1..Len(t) : u[n] = IF t[n].key = k THEN e ELSE t[n]
      BY <1>5, <2>1
  <2>3. \A n \in 1..Len(t) : u[n] \in Entry
      BY <1>1, <1>5, <2>2
  <2>4. u \in Seq(Entry)
    <3>1. u \in [1..Len(t) -> Entry]
        BY <1>5, <2>1, <2>3
    <3> QED
        BY <1>5, <3>1
  <2> HIDE DEF u
  <2>5. \A n \in 1..Len(t) : u[n].key = t[n].key
      BY <1>1, <2>2
  <2>6. Keys(u) = Keys(t)
      BY <1>5, <2>2, <2>5 DEF Keys
  <2>7. Keys(u) = Keys(es)
      BY <1>3, <1>4, <1>6, <2>6
  <2>8. ASSUME NEW n \in 1..Len(t) PROVE u[n].val = LastOf(es, u[n].key)
    <3>1. CASE t[n].key = k
        BY <1>1, <1>3, <2>2, <3>1
    <3>2. CASE t[n].key # k
      <4>1. u[n] = t[n]
          BY <2>2, <3>2
      <4> QED
          BY <1>3, <1>4, <1>5, <3>2, <4>1
    <3> QED
        BY <3>1, <3>2
  <2>9. \A j, n \in 1..Len(t) : j < n => FirstOf(es, u[j].key) < FirstOf(es, u[n].key)
      BY <1>3, <1>4, <1>5, <2>5
  <2>10. Means(u, es)
      BY <2>2, <2>7, <2>8, <2>9 DEF Means
  <2> QED
      BY <2>4, <2>10 DEF u, es, ds, e
<1>7. CASE k \notin Keys(t)
  <2>1. u = Append(t, e)
      BY <1>7 DEF OSet
  <2> HIDE DEF e
  <2>2. /\ u \in Seq(Entry) /\ Len(u) = Len(t) + 1 /\ u[Len(t) + 1] = e
        /\ \A n \in 1..Len(t) : u[n] = t[n]
      BY <1>1, <2>1, AppendProperties
  <2> HIDE DEF u
  <2>3. DOMAIN u = 1..Len(u) /\ \A n \in 1..Len(u) : n \in 1..Len(t) \/ n = Len(t) + 1
      BY <1>5, <2>2, LenProperties
  <2>4. Keys(u) = Keys(t) \cup {k}
    <3>1. \A n \in 1..Len(t) : n \in 1..Len(u)
        BY <1>5, <2>2
    <3>2. Len(t) + 1 \in 1..Len(u)
        BY <1>5, <2>2
    <3>3. \A j \in Keys(u) : j \in Keys(t) \cup {k}
        BY <1>1, <1>5, <2>2, <2>3 DEF Keys
    <3>4. \A j \in Keys(t) : j \in Keys(u)
        BY <1>5, <2>2, <2>3, <3>1 DEF Keys
    <3>5. k \in Keys(u)
        BY <1>1, <2>2, <2>3, <3>2 DEF Keys
    <3> QED
        BY <3>3, <3>4, <3>5
  <2>5. Keys(u) = Keys(es)
      BY <1>3, <1>4, <2>4
  <2>6. ASSUME NEW n \in 1..Len(u) PROVE u[n].val = LastOf(es, u[n].key)
    <3>1. CASE n \in 1..Len(t)
        BY <1>3, <1>4, <1>5, <1>7, <2>2, <3>1
    <3>2. CASE n = Len(t) + 1
        BY <1>1, <1>3, <2>2, <3>2
    <3> QED
        BY <2>3, <3>1, <3>2
  <2>7. ASSUME NEW j \in 1..Len(u), NEW n \in 1..Len(u), j < n
        PROVE FirstOf(es, u[j].key) < FirstOf(es, u[n].key)
    <3>1. j \in 1..Len(t)
        BY <1>5, <2>2, <2>7
    <3>2. u[j] = t[j] /\ t[j].key \in Keys(cs) /\ FirstOf(es, u[j].key) = FirstOf(cs, t[j].key)
        BY <1>3, <1>4, <1>5, <2>2, <3>1
    <3>3. CASE n \in 1..Len(t)
      <4>1. u[n] = t[n] /\ FirstOf(es, u[n].key) = FirstOf(cs, t[n].key)
          BY <1>3, <1>4, <1>5, <2>2, <3>3
      <4>2. FirstOf(cs, t[j].key) < FirstOf(cs, t[n].key)
          BY <1>4, <2>7, <3>1, <3>3
      <4> QED
          BY <3>2, <4>1, <4>2
    <3>4. CASE n = Len(t) + 1
      <4>1. FirstOf(es, u[n].key) = Len(cs) + 1
          BY <1>1, <1>3, <1>4, <1>7, <2>2, <3>4
      <4>2. FirstOf(cs, t[j].key) \in 1..Len(cs) /\ Len(cs) \in Nat
          BY <3>2, ExtremePlaces, LenProperties
      <4> QED
          BY <3>2, <4>1, <4>2
    <3> QED
        BY <2>3, <3>3, <3>4
  <2>8. Means(u, es)
      BY <2>3, <2>5, <2>6, <2>7 DEF Means
  <2> QED
      BY <2>2, <2>8 DEF u, es, ds, e
<1> QED
    BY <1>6, <1>7

\* A tree is one list of contributions that mean it, and every other list that
\* does takes its place among the contributions.
LEMMA MeansTransfers ==
    ASSUME NEW t \in Seq(Entry), NEW cs \in Seq(Entry), NEW from \in Seq(Entry),
           NEW ds \in Seq(Entry), Means(from, ds), Means(t, cs \o from)
    PROVE  Means(t, cs \o ds)
<1> DEFINE es == cs \o from
           gs == cs \o ds
<1>1. Len(from) \in Nat /\ DOMAIN from = 1..Len(from) /\ DOMAIN t = 1..Len(t)
    BY LenProperties
<1>2. /\ Keys(from) = Keys(ds)
      /\ \A n \in 1..Len(from) : from[n].val = LastOf(ds, from[n].key)
      /\ \A m, n \in 1..Len(from) : m < n => FirstOf(ds, from[m].key) < FirstOf(ds, from[n].key)
    BY <1>1 DEF Means
<1>3. /\ Keys(t) = Keys(es)
      /\ \A n \in 1..Len(t) : t[n].val = LastOf(es, t[n].key)
      /\ \A m, n \in 1..Len(t) : m < n => FirstOf(es, t[m].key) < FirstOf(es, t[n].key)
    BY <1>1 DEF Means
<1>4. /\ Keys(es) = Keys(cs) \cup Keys(from)
      /\ \A k \in Keys(from) : LastOf(es, k) = LastOf(from, k)
      /\ \A k \in Keys(cs) \ Keys(from) : LastOf(es, k) = LastOf(cs, k)
      /\ \A k \in Keys(cs) : FirstOf(es, k) = FirstOf(cs, k)
      /\ \A k \in Keys(from) \ Keys(cs) : FirstOf(es, k) = Len(cs) + FirstOf(from, k)
    BY BehindOthers
<1>5. /\ Keys(gs) = Keys(cs) \cup Keys(ds)
      /\ \A k \in Keys(ds) : LastOf(gs, k) = LastOf(ds, k)
      /\ \A k \in Keys(cs) \ Keys(ds) : LastOf(gs, k) = LastOf(cs, k)
      /\ \A k \in Keys(cs) : FirstOf(gs, k) = FirstOf(cs, k)
      /\ \A k \in Keys(ds) \ Keys(cs) : FirstOf(gs, k) = Len(cs) + FirstOf(ds, k)
    BY BehindOthers
<1> HIDE DEF es, gs
<1>6. ASSUME NEW k \in Keys(from) PROVE LastOf(from, k) = LastOf(ds, k)
  <2>1. PICK n \in 1..Len(from) : from[n].key = k /\ LastOf(from, k) = from[n].val
      BY ExtremePlaces
  <2> QED
      BY <1>2, <2>1
<1>7. ASSUME NEW j \in Keys(from), NEW k \in Keys(from), FirstOf(from, j) < FirstOf(from, k)
      PROVE  FirstOf(ds, j) < FirstOf(ds, k)
  <2>1. /\ FirstOf(from, j) \in 1..Len(from) /\ from[FirstOf(from, j)].key = j
        /\ FirstOf(from, k) \in 1..Len(from) /\ from[FirstOf(from, k)].key = k
      BY ExtremePlaces
  <2> QED
      BY <1>2, <1>7, <2>1
<1>8. ASSUME NEW n \in 1..Len(t) PROVE t[n].val = LastOf(gs, t[n].key) /\ t[n].key \in Keys(es)
  <2>1. t[n].key \in Keys(es)
      BY <1>1, <1>3 DEF Keys
  <2> QED
      BY <1>2, <1>3, <1>4, <1>5, <1>6, <2>1
<1>9. ASSUME NEW j \in 1..Len(t), NEW n \in 1..Len(t), j < n
      PROVE  FirstOf(gs, t[j].key) < FirstOf(gs, t[n].key)
  <2> DEFINE a == t[j].key
             b == t[n].key
  <2>1. a \in Keys(es) /\ b \in Keys(es) /\ FirstOf(es, a) < FirstOf(es, b)
      BY <1>3, <1>8, <1>9
  <2> HIDE DEF a, b
  <2>2. Len(cs) \in Nat
      BY LenProperties
  <2>3. \A k \in Keys(cs) : FirstOf(cs, k) \in 1..Len(cs)
      BY ExtremePlaces
  <2>4. \A k \in Keys(from) : FirstOf(from, k) \in Nat /\ FirstOf(from, k) >= 1
      BY <1>1, ExtremePlaces
  <2>5. \A k \in Keys(ds) : FirstOf(ds, k) \in Nat /\ FirstOf(ds, k) >= 1
    <3>1. \A k \in Keys(ds) : FirstOf(ds, k) \in 1..Len(ds)
        BY ExtremePlaces
    <3> QED
        BY <3>1
  <2>6. CASE a \in Keys(cs) /\ b \in Keys(cs)
      BY <1>4, <1>5, <2>1, <2>6 DEF a, b
  <2>7. CASE a \in Keys(cs) /\ b \notin Keys(cs)
    <3>1. b \in Keys(ds) \ Keys(cs)
        BY <1>2, <1>4, <2>1, <2>7
    <3>2. FirstOf(gs, b) = Len(cs) + FirstOf(ds, b) /\ FirstOf(gs, a) = FirstOf(cs, a)
        BY <1>5, <2>7, <3>1
    <3>3. FirstOf(cs, a) \in 1..Len(cs) /\ FirstOf(ds, b) \in Nat /\ FirstOf(ds, b) >= 1
        BY <2>3, <2>5, <2>7, <3>1
    <3>4. FirstOf(gs, a) < FirstOf(gs, b)
        BY <2>2, <3>2, <3>3
    <3> QED
        BY <3>4 DEF a, b
  <2>8. CASE a \notin Keys(cs) /\ b \in Keys(cs)
    <3>1. a \in Keys(from) \ Keys(cs)
        BY <1>4, <2>1, <2>8
    <3>2. FirstOf(es, a) = Len(cs) + FirstOf(from, a) /\ FirstOf(es, b) = FirstOf(cs, b)
        BY <1>4, <2>8, <3>1
    <3>3. FirstOf(cs, b) \in 1..Len(cs) /\ FirstOf(from, a) \in Nat /\ FirstOf(from, a) >= 1
        BY <2>3, <2>4, <2>8, <3>1
    <3>4. FALSE
        BY <2>1, <2>2, <3>2, <3>3
    <3> QED
        BY <3>4
  <2>9. CASE a \notin Keys(cs) /\ b \notin Keys(cs)
    <3>1. a \in Keys(from) \ Keys(cs) /\ b \in Keys(from) \ Keys(cs)
        BY <1>4, <2>1, <2>9
    <3>2. FirstOf(es, a) = Len(cs) + FirstOf(from, a) /\ FirstOf(es, b) = Len(cs) + FirstOf(from, b)
        BY <1>4, <3>1
    <3>3. FirstOf(from, a) \in Nat /\ FirstOf(from, b) \in Nat
        BY <2>4, <3>1
    <3>4. FirstOf(from, a) < FirstOf(from, b)
        BY <2>1, <2>2, <3>2, <3>3
    <3>5. FirstOf(ds, a) < FirstOf(ds, b)
        BY <1>7, <3>1, <3>4
    <3>6. a \in Keys(ds) \ Keys(cs) /\ b \in Keys(ds) \ Keys(cs)
        BY <1>2, <3>1
    <3>7. FirstOf(gs, a) = Len(cs) + FirstOf(ds, a) /\ FirstOf(gs, b) = Len(cs) + FirstOf(ds, b)
        BY <1>5, <3>6
    <3>8. FirstOf(ds, a) \in Nat /\ FirstOf(ds, b) \in Nat
        BY <2>5, <3>6
    <3>9. FirstOf(gs, a) < FirstOf(gs, b)
        BY <2>2, <3>5, <3>7, <3>8
    <3> QED
        BY <3>9 DEF a, b
  <2> QED
      BY <2>6, <2>7, <2>8, <2>9
<1>10. Keys(t) = Keys(gs)
    BY <1>2, <1>3, <1>4, <1>5
<1>11. Means(t, gs)
    BY <1>1, <1>8, <1>9, <1>10 DEF Means
<1> QED
    BY <1>11 DEF gs

\* What a tree has under a key
LEMMA OGetMeans ==
    ASSUME NEW t \in Seq(Entry), NEW cs \in Seq(Entry), Means(t, cs)
    PROVE  /\ \A k \in Keys(t) : OGet(t, k) = LastOf(cs, k) /\ OGet(t, k) \in Bodies
           /\ \A n \in 1..Len(t) : OGet(t, t[n].key) = t[n].val
           /\ \A m, n \in 1..Len(t) : t[m].key = t[n].key => m = n
<1>1. /\ Keys(t) = Keys(cs) /\ Len(t) \in Nat /\ DOMAIN t = 1..Len(t)
      /\ \A n \in 1..Len(t) : t[n].val = LastOf(cs, t[n].key)
      /\ \A m, n \in 1..Len(t) : m < n => FirstOf(cs, t[m].key) < FirstOf(cs, t[n].key)
    BY LenProperties DEF Means
<1>2. ASSUME NEW k \in Keys(t)
      PROVE  OGet(t, k) = LastOf(cs, k) /\ OGet(t, k) \in Bodies
  <2> DEFINE e == CHOOSE e \in {t[n] : n \in DOMAIN t} : e.key = k
  <2>1. \E n \in 1..Len(t) : t[n].key = k
      BY <1>1 DEF Keys
  <2>2. e \in {t[n] : n \in 1..Len(t)} /\ e.key = k
      BY <1>1, <2>1
  <2>3. OGet(t, k) = e.val
      BY DEF OGet
  <2> HIDE DEF e
  <2>4. PICK n \in 1..Len(t) : e = t[n]
      BY <2>2
  <2>5. OGet(t, k) = LastOf(cs, k)
      BY <1>1, <2>2, <2>3, <2>4
  <2>6. LastOf(cs, k) \in Bodies
      BY <1>1, ExtremePlaces
  <2> QED
      BY <2>5, <2>6
<1>3. \A n \in 1..Len(t) : t[n].key \in Keys(t)
    BY <1>1 DEF Keys
<1>4. \A n \in 1..Len(t) : OGet(t, t[n].key) = t[n].val
    BY <1>1, <1>2, <1>3
<1>5. ASSUME NEW p \in 1..Len(t), NEW n \in 1..Len(t), t[p].key = t[n].key PROVE p = n
  <2>1. FirstOf(cs, t[p].key) = FirstOf(cs, t[n].key) /\ FirstOf(cs, t[p].key) \in Nat
    <3>1. t[p].key \in Keys(cs)
        BY <1>1, <1>3
    <3>2. FirstOf(cs, t[p].key) \in 1..Len(cs)
        BY <3>1, ExtremePlaces
    <3> QED
        BY <1>5, <3>2
  <2>2. ~(p < n) /\ ~(n < p)
      BY <1>1, <2>1
  <2> QED
      BY <1>1, <2>2
<1> QED
    BY <1>2, <1>4, <1>5

\* What merging the wanted blocks of a tree adds to the contributions
Added(ds, wanted) ==
    [b \in 1..Len(wanted) |->
        IF wanted[b] \in Keys(ds) THEN <<[key |-> wanted[b], val |-> LastOf(ds, wanted[b])]>>
                                  ELSE <<>>]

LEMMA AddedType ==
    ASSUME NEW ds \in Seq(Entry), NEW wanted \in Seq(KeyNames)
    PROVE  Added(ds, wanted) \in Seq(Seq(Entry)) /\ Len(Added(ds, wanted)) = Len(wanted)
<1>1. Len(wanted) \in Nat /\ \A b \in 1..Len(wanted) : wanted[b] \in KeyNames
    BY LenProperties, ElementOfSeq
<1>2. ASSUME NEW k \in KeyNames, k \in Keys(ds)
      PROVE  <<[key |-> k, val |-> LastOf(ds, k)]>> \in Seq(Entry)
  <2>1. LastOf(ds, k) \in Bodies
      BY <1>2, ExtremePlaces
  <2>2. [key |-> k, val |-> LastOf(ds, k)] \in Entry
      BY <2>1 DEF Entry
  <2> HIDE DEF Entry
  <2> QED
      BY <2>2, OneContribution
<1>3. <<>> \in Seq(Entry)
    BY EmptySeq
<1>4. Added(ds, wanted) \in [1..Len(wanted) -> Seq(Entry)]
    BY <1>1, <1>2, <1>3 DEF Added
<1> QED
    BY <1>1, <1>4

LEMMA MergeMeans ==
    ASSUME NEW into \in Seq(Entry), NEW cs \in Seq(Entry), Means(into, cs),
           NEW from \in Seq(Entry), NEW ds \in Seq(Entry), Means(from, ds),
           NEW blocks \in Seq(BlockNames)
    PROVE  /\ Merge(into, from, blocks) \in Seq(Entry)
           /\ Means(Merge(into, from, blocks),
                    cs \o (IF blocks = <<>> THEN ds ELSE Chosen(ds, blocks)))
<1> DEFINE wanted == IF blocks = <<>> THEN [n \in DOMAIN from |-> from[n].key] ELSE blocks
           N == Len(wanted)
           Def(f) == [n \in 0..N |->
                        IF n = 0 THEN into
                        ELSE IF wanted[n] \in Keys(from)
                        THEN OSet(f[n - 1], wanted[n], OGet(from, wanted[n]))
                        ELSE f[n - 1]]
           merged == CHOOSE f : f = Def(f)
           added == Added(ds, wanted)
           F(n) == FlattenSeq(First(added, n))
<1>1. Merge(into, from, blocks) = merged[N]
    BY DEF Merge
<1>2. wanted \in Seq(KeyNames)
  <2>1. CASE blocks = <<>>
    <3>1. Len(from) \in Nat /\ DOMAIN from = 1..Len(from) /\ \A n \in 1..Len(from) : from[n] \in Entry
        BY LenProperties, ElementOfSeq
    <3>2. \A n \in 1..Len(from) : from[n].key \in KeyNames
        BY <3>1 DEF Entry
    <3>3. [n \in DOMAIN from |-> from[n].key] \in [1..Len(from) -> KeyNames]
        BY <3>1, <3>2
    <3>4. [n \in DOMAIN from |-> from[n].key] \in Seq(KeyNames)
        BY <3>1, <3>3
    <3> QED
        BY <2>1, <3>4
  <2>2. CASE blocks # <<>>
    <3>1. BlockNames \subseteq KeyNames
        BY DEF KeyNames
    <3>2. blocks \in Seq(KeyNames)
        BY <3>1, SeqOfMore
    <3> QED
        BY <2>2, <3>2
  <2> QED
      BY <2>1, <2>2
<1> HIDE DEF wanted
<1>3. N \in Nat /\ \A n \in 1..N : wanted[n] \in KeyNames
    BY <1>2, LenProperties, ElementOfSeq
<1>4. /\ Keys(from) = Keys(ds)
      /\ \A k \in Keys(from) : OGet(from, k) = LastOf(ds, k) /\ OGet(from, k) \in Bodies
    BY OGetMeans DEF Means
<1>5. merged = Def(merged)
  <2> DEFINE step == [p \in (1..N) \X Seq(Entry) |->
                        IF wanted[p[1]] \in Keys(from)
                        THEN OSet(p[2], wanted[p[1]], OGet(from, wanted[p[1]]))
                        ELSE p[2]]
  <2>1. step \in [(1..N) \X Seq(Entry) -> Seq(Entry)]
    <3>1. ASSUME NEW n \in 1..N, NEW u \in Seq(Entry), wanted[n] \in Keys(from)
          PROVE  OSet(u, wanted[n], OGet(from, wanted[n])) \in Seq(Entry)
        BY <1>3, <1>4, <3>1, OSetType
    <3> QED
        BY <3>1
  <2>2. PICK f : Iterated(f, N, Seq(Entry), into, step)
    <3> HIDE DEF step, N
    <3> QED
        BY <1>3, <2>1, Iterates
  <2>3. f = Def(f)
    <3>1. ASSUME NEW n \in 0..N, n # 0
          PROVE f[n] = IF wanted[n] \in Keys(from)
                       THEN OSet(f[n - 1], wanted[n], OGet(from, wanted[n]))
                       ELSE f[n - 1]
      <4>1. n \in 1..N /\ n - 1 \in 0..N
          BY <1>3, <3>1
      <4>2. f[n] = step[<<n, f[n - 1]>>] /\ f[n - 1] \in Seq(Entry)
          BY <2>2, <4>1 DEF Iterated
      <4>3. <<n, f[n - 1]>> \in (1..N) \X Seq(Entry)
          BY <4>1, <4>2
      <4> QED
          BY <4>2, <4>3
    <3>2. f \in [0..N -> Seq(Entry)] /\ f[0] = into
        BY <2>2 DEF Iterated
    <3> QED
        BY <3>1, <3>2
  <2> HIDE DEF Def
  <2> QED
      BY <2>3
<1>6. /\ merged[0] = into
      /\ \A n \in 1..N : merged[n] = IF wanted[n] \in Keys(from)
                                     THEN OSet(merged[n - 1], wanted[n], OGet(from, wanted[n]))
                                     ELSE merged[n - 1]
  <2> HIDE DEF merged
  <2>1. \A n \in 0..N : merged[n] = Def(merged)[n]
      BY <1>5
  <2>2. 0 \in 0..N /\ \A n \in 1..N : n \in 0..N /\ n # 0
      BY <1>3
  <2> QED
      BY <2>1, <2>2
<1> HIDE DEF merged
<1>7. added \in Seq(Seq(Entry)) /\ Len(added) = N
    BY <1>2, AddedType
<1>8. \A n \in 1..N : added[n] = IF wanted[n] \in Keys(ds)
                                 THEN <<[key |-> wanted[n], val |-> LastOf(ds, wanted[n])]>>
                                 ELSE <<>>
    BY DEF Added
<1> HIDE DEF added
<1>9. /\ F(0) = <<>> /\ F(N) = FlattenSeq(added)
      /\ \A n \in 0..N : F(n) \in Seq(Entry)
      /\ \A n \in 0..(N - 1) : F(n + 1) = F(n) \o added[n + 1]
    BY <1>7, FlattenFirst
<1> HIDE DEF F
<1> DEFINE Good == {n \in 0..N : merged[n] \in Seq(Entry) /\ Means(merged[n], cs \o F(n))}
<1>10. 0 \in Good
  <2>1. cs \o F(0) = cs
      BY <1>9, ConcatEmptySeq
  <2>2. 0 \in 0..N /\ merged[0] \in Seq(Entry)
      BY <1>3, <1>6
  <2>3. Means(merged[0], cs \o F(0))
      BY <1>6, <2>1
  <2> QED
      BY <2>2, <2>3
<1>11. ASSUME NEW n \in 0..(N - 1), n \in Good PROVE n + 1 \in Good
  <2>1. n + 1 \in 1..N /\ n + 1 \in 0..N /\ (n + 1) - 1 = n /\ n \in 0..N
      BY <1>3
  <2>2. merged[n] \in Seq(Entry) /\ Means(merged[n], cs \o F(n))
      BY <1>11
  <2>3. F(n) \in Seq(Entry) /\ F(n + 1) = F(n) \o added[n + 1]
      BY <1>9, <2>1
  <2> DEFINE k == wanted[n + 1]
             v == LastOf(ds, k)
  <2>4. k \in KeyNames
      BY <1>3, <2>1
  <2>5. CASE k \in Keys(ds)
    <3>1. v \in Bodies /\ OGet(from, k) = v
        BY <1>4, <2>5
    <3>2. merged[n + 1] = OSet(merged[n], k, v)
        BY <1>4, <1>6, <2>1, <2>5, <3>1
    <3>3. added[n + 1] = <<[key |-> k, val |-> v]>>
        BY <1>8, <2>1, <2>5
    <3>4. added[n + 1] \in Seq(Entry)
        BY <1>7, <2>1, ElementOfSeq
    <3>5. cs \o F(n + 1) = (cs \o F(n)) \o added[n + 1]
      <4> DEFINE a == F(n)  x == added[n + 1]
      <4>0. a \in Seq(Entry) /\ x \in Seq(Entry) /\ cs \in Seq(Entry)
          BY <2>3, <3>4
      <4> HIDE DEF a, x
      <4>1. (cs \o a) \o x = cs \o (a \o x)
          BY <4>0, BehindBoth
      <4> QED
          BY <2>3, <4>1 DEF a, x
    <3> HIDE DEF k, v
    <3>6. cs \o F(n) \in Seq(Entry)
        BY <2>3, ConcatProperties
    <3>7. /\ OSet(merged[n], k, v) \in Seq(Entry)
          /\ Means(OSet(merged[n], k, v), (cs \o F(n)) \o <<[key |-> k, val |-> v]>>)
        BY <2>2, <2>4, <3>1, <3>6, OSetMeans
    <3>8. merged[n + 1] \in Seq(Entry) /\ Means(merged[n + 1], cs \o F(n + 1))
        BY <3>2, <3>3, <3>5, <3>7
    <3> QED
        BY <2>1, <3>8
  <2>6. CASE k \notin Keys(ds)
    <3>1. merged[n + 1] = merged[n] /\ added[n + 1] = <<>>
        BY <1>4, <1>6, <1>8, <2>1, <2>6
    <3>2. F(n + 1) = F(n)
        BY <2>3, <3>1, ConcatEmptySeq
    <3> QED
        BY <2>1, <2>2, <3>1, <3>2
  <2> QED
      BY <2>5, <2>6
<1>12. merged[N] \in Seq(Entry) /\ Means(merged[N], cs \o FlattenSeq(added))
  <2>1. \A n \in 0..N : n \in Good
    <3> HIDE DEF Good, N
    <3> QED
        BY <1>3, <1>10, <1>11, UpTo
  <2>2. N \in Good
      BY <1>3, <2>1
  <2> QED
      BY <1>9, <2>2
<1>13. CASE blocks = <<>>
  <2>1. Len(from) \in Nat /\ DOMAIN from = 1..Len(from) /\ \A n \in 1..Len(from) : from[n] \in Entry
      BY LenProperties, ElementOfSeq
  <2>2. wanted = [n \in 1..Len(from) |-> from[n].key]
      BY <1>13, <2>1 DEF wanted
  <2>3. N = Len(from)
      BY <2>1, <2>2
  <2>4. ASSUME NEW n \in 1..Len(from) PROVE added[n] = <<from[n]>>
    <3>1. wanted[n] = from[n].key /\ n \in 1..N
        BY <2>2, <2>3
    <3>2. from[n].key \in Keys(ds) /\ from[n].val = LastOf(ds, from[n].key)
        BY <1>4, <2>1 DEF Means, Keys
    <3>3. [key |-> from[n].key, val |-> from[n].val] = from[n]
        BY <2>1 DEF Entry
    <3> QED
        BY <1>8, <3>1, <3>2, <3>3
  <2>5. added = [n \in 1..Len(from) |-> <<from[n]>>]
    <3>1. added \in [1..N -> Seq(Entry)]
        BY <1>7, LenProperties
    <3> QED
        BY <2>3, <2>4, <3>1
  <2>6. FlattenSeq(added) = from
      BY <2>5, Singles
  <2>7. Means(merged[N], cs \o ds)
      BY <1>12, <2>6, MeansTransfers
  <2> QED
      BY <1>1, <1>12, <1>13, <2>7
<1>14. CASE blocks # <<>>
  <2>1. wanted = blocks /\ DOMAIN blocks = 1..Len(blocks)
      BY <1>14, LenProperties DEF wanted
  <2>2. added = [b \in DOMAIN blocks |->
                   IF blocks[b] \in Keys(ds) THEN <<[key |-> blocks[b], val |-> LastOf(ds, blocks[b])]>>
                                             ELSE <<>>]
      BY <2>1 DEF added, Added
  <2>3. FlattenSeq(added) = Chosen(ds, blocks)
      BY <2>2 DEF Chosen
  <2> QED
      BY <1>1, <1>12, <1>14, <2>3
<1> QED
    BY <1>13, <1>14
-----------------------------------------------------------------------------
(* What a line is made of, and what it contributes *)

LEMMA LineParts ==
    ASSUME ProgramInv, NEW i \in DOMAIN states
    PROVE  /\ Len(states[i].lines) \in Nat /\ DOMAIN states[i].lines = 1..Len(states[i].lines)
           /\ \A n \in 1..Len(states[i].lines) :
                LineOf(i, n) \in Seq(Token) /\ BodyOf(i, n) \in Seq(Seq(ModuleCall))
<1>1. /\ states[i].lines \in Seq(Seq(Token)) /\ states[i].bodies \in Seq(Seq(Seq(ModuleCall)))
      /\ Len(states[i].bodies) = Len(states[i].lines)
    BY DEF ProgramInv, LoadedState
<1> QED
    BY <1>1, LenProperties, ElementOfSeq DEF LineOf, BodyOf

LEMMA RawType ==
    ASSUME NEW body \in Seq(Seq(ModuleCall))
    PROVE  RawBlock(body) \in Bodies
<1>1. Len(body) \in Nat /\ DOMAIN body = 1..Len(body) /\ \A n \in 1..Len(body) : body[n] \in Seq(ModuleCall)
    BY LenProperties, ElementOfSeq
<1>2. ASSUME NEW item \in Seq(ModuleCall)
      PROVE  [m \in DOMAIN item |-> RawName(item[m])] \in Seq(ModuleNames)
  <2>1. Len(item) \in Nat /\ DOMAIN item = 1..Len(item) /\ \A m \in 1..Len(item) : item[m] \in ModuleCall
      BY LenProperties, ElementOfSeq
  <2>2. \A call \in ModuleCall : RawName(call) \in ModuleNames
      BY DEF ModuleNames
  <2>3. [m \in DOMAIN item |-> RawName(item[m])] \in [1..Len(item) -> ModuleNames]
      BY <2>1, <2>2
  <2> QED
      BY <2>1, <2>3
<1>3. RawBlock(body) \in [1..Len(body) -> Seq(ModuleNames)]
    BY <1>1, <1>2 DEF RawBlock
<1>4. RawBlock(body) \in Seq(Seq(ModuleNames))
    BY <1>1, <1>3, FunctionIsSeq
<1> QED
    BY <1>4 DEF Bodies

LEMMA CompiledType ==
    ASSUME ProgramInv, NEW i, NEW body \in Seq(Seq(ModuleCall)), ~BlockPanics(i, body)
    PROVE  CompileBlock(i, body) \in Bodies
<1>1. Len(body) \in Nat /\ DOMAIN body = 1..Len(body) /\ \A n \in 1..Len(body) : body[n] \in Seq(ModuleCall)
    BY LenProperties, ElementOfSeq
<1>2. STRING \subseteq ModuleNames
    BY DEF ModuleNames
<1>3. \A call \in ModuleCall : call.name \in ModuleNames
    BY <1>2 DEF ModuleCall
<1>4. CASE Loops(body) = {}
  <2>1. ASSUME NEW item \in Seq(ModuleCall) PROVE Names(item) \in Seq(ModuleNames)
    <3>1. Len(item) \in Nat /\ DOMAIN item = 1..Len(item) /\ \A m \in 1..Len(item) : item[m] \in ModuleCall
        BY LenProperties, ElementOfSeq
    <3>2. Names(item) \in [1..Len(item) -> ModuleNames]
        BY <1>3, <3>1 DEF Names
    <3> QED
        BY <3>1, <3>2, FunctionIsSeq
  <2>2. CompileBlock(i, body) \in [1..Len(body) -> Seq(ModuleNames)]
      BY <1>1, <1>4, <2>1 DEF CompileBlock
  <2>3. CompileBlock(i, body) \in Seq(Seq(ModuleNames))
      BY <1>1, <2>2, FunctionIsSeq
  <2> QED
      BY <2>3 DEF Bodies
<1>5. CASE Loops(body) # {}
  <2> DEFINE fs == FlattenSeq(body)
             call == FirstLoop(body)
             k == threads[i][call.loop]
  <2>1. fs \in Seq(ModuleCall)
      BY FlattenType
  <2>2. Len(fs) \in Nat /\ DOMAIN fs = 1..Len(fs) /\ \A n \in 1..Len(fs) : fs[n] \in ModuleCall
      BY <2>1, LenProperties, ElementOfSeq
  <2>3. Loops(body) \subseteq 1..Len(fs)
      BY <2>2 DEF Loops
  <2>4. Min(Loops(body)) \in 1..Len(fs)
    <3> HIDE DEF fs
    <3> QED
        BY <1>5, <2>2, <2>3, Extremes
  <2>5. call \in ModuleCall
      BY <2>2, <2>4 DEF FirstLoop
  <2>6. k \in Nat
      BY <1>5 DEF ProgramInv, BlockPanics
  <2> HIDE DEF k, call
  <2>7. CompileBlock(i, body) = [n \in 1..k |-> <<call.name>>]
      BY <1>5 DEF CompileBlock, k, call
  <2>8. <<call.name>> \in Seq(ModuleNames)
    <3>1. call.name \in ModuleNames
        BY <1>3, <2>5
    <3> QED
        BY <3>1
  <2>9. CompileBlock(i, body) \in [1..k -> Seq(ModuleNames)]
      BY <2>7, <2>8
  <2>10. CompileBlock(i, body) \in Seq(Seq(ModuleNames))
      BY <2>6, <2>9, FunctionIsSeq
  <2> QED
      BY <2>10 DEF Bodies
<1> QED
    BY <1>4, <1>5

LEMMA ReferenceTypes ==
    ASSUME NEW line \in Seq(Token)
    PROVE  /\ GetInclusion(line).blocks \in Seq(BlockNames)
           /\ IsDependency(line) => GetDependency(line).blocks \in Seq(BlockNames)
           /\ GetDependency(line).anchor \in KeyNames
           /\ ToCDLKey(line) \in KeyNames
<1>1. Len(line) \in Nat /\ DOMAIN line = 1..Len(line) /\ \A n \in 1..Len(line) : line[n] \in Token
    BY LenProperties, ElementOfSeq
<1>2. ASSUME NEW t \in Token PROVE t.blocks \in Seq(BlockNames)
  <2>1. t.blocks \in Seq(STRING) /\ STRING \subseteq BlockNames
      BY DEF Token, BlockNames
  <2> QED
      BY <2>1, SeqOfMore
<1>3. GetInclusion(line).blocks \in Seq(BlockNames)
  <2> DEFINE refs == {n \in DOMAIN line : line[n].op \in {"~", "+"}}
             choosy == {n \in refs : line[n].blocks # <<>>}
  <2>1. GetInclusion(line).blocks = IF choosy = {} THEN <<>> ELSE line[Max(choosy)].blocks
      BY DEF GetInclusion
  <2>2. choosy \subseteq 1..Len(line)
      BY <1>1
  <2> HIDE DEF choosy
  <2>3. choosy # {} => Max(choosy) \in 1..Len(line)
      BY <1>1, <2>2, Extremes
  <2>4. <<>> \in Seq(BlockNames)
      BY EmptySeq
  <2> QED
      BY <1>1, <1>2, <2>1, <2>3, <2>4
<1>4. ASSUME IsDependency(line) PROVE GetDependency(line).blocks \in Seq(BlockNames)
  <2>1. 2 \in 1..Len(line)
      BY <1>1, <1>4 DEF IsDependency
  <2>2. line[2].blocks \in Seq(BlockNames)
      BY <1>1, <1>2, <2>1
  <2>3. <<"">> \in Seq(BlockNames)
    <3>1. "" \in BlockNames
        BY DEF BlockNames
    <3> QED
        BY <3>1, OneElement
  <2>4. GetDependency(line).blocks = IF line[2].blocks = <<>> THEN <<"">> ELSE line[2].blocks
      BY DEF GetDependency
  <2> QED
      BY <2>2, <2>3, <2>4
<1>5. GetDependency(line).anchor \in KeyNames /\ ToCDLKey(line) \in KeyNames
    BY DEF KeyNames
<1> QED
    BY <1>3, <1>4, <1>5

\* The body of a job is the same from a tree and from what the tree means.
LEMMA JobBodies ==
    ASSUME NEW ds \in Seq(Entry), NEW blocks \in Seq(BlockNames), NEW own \in Bodies
    PROVE  /\ JobBody(own, ds, blocks) \in Bodies
           /\ \A t \in Seq(Entry) : Means(t, ds) => DependencyBody(own, t, blocks) = JobBody(own, ds, blocks)
<1>1. Len(blocks) \in Nat /\ DOMAIN blocks = 1..Len(blocks)
    BY LenProperties
<1> DEFINE part == [b \in DOMAIN blocks |->
                      (IF blocks[b] \in Keys(ds) THEN LastOf(ds, blocks[b]) ELSE <<>>) \o own]
<1>2. \A k \in Keys(ds) : LastOf(ds, k) \in Bodies /\ LastOf(ds, k) \o own \in Bodies
  <2> TAKE k \in Keys(ds)
  <2>1. LastOf(ds, k) \in Bodies
      BY ExtremePlaces
  <2> QED
      BY <2>1, ConcatProperties DEF Bodies
<1>3. <<>> \o own = own
    BY ConcatEmptySeq DEF Bodies
<1>4. \A b \in DOMAIN blocks : part[b] \in Bodies
    BY <1>2, <1>3
<1>5. part \in Seq(Bodies)
  <2>1. part \in [1..Len(blocks) -> Bodies]
      BY <1>1, <1>4
  <2> QED
      BY <1>1, <2>1
<1>6. JobBody(own, ds, blocks) = FlattenSeq(part)
    BY DEF JobBody
<1>7. ASSUME NEW t \in Seq(Entry), Means(t, ds)
      PROVE  DependencyBody(own, t, blocks) = FlattenSeq(part)
  <2>1. Keys(t) = Keys(ds) /\ \A k \in Keys(t) : OGet(t, k) = LastOf(ds, k)
      BY <1>7, OGetMeans DEF Means
  <2>2. [n \in DOMAIN blocks |-> IF blocks[n] \in Keys(t) THEN OGet(t, blocks[n]) \o own ELSE own] = part
      BY <1>3, <2>1
  <2> QED
      BY <2>2 DEF DependencyBody
<1> HIDE DEF part
<1> QED
    BY <1>5, <1>6, <1>7, FlattenType DEF Bodies

LEMMA ChosenType ==
    ASSUME NEW ds \in Seq(Entry), NEW blocks \in Seq(BlockNames)
    PROVE  Chosen(ds, blocks) \in Seq(Entry)
<1>1. blocks \in Seq(KeyNames)
  <2>1. BlockNames \subseteq KeyNames
      BY DEF KeyNames
  <2> QED
      BY <2>1, SeqOfMore
<1>2. Chosen(ds, blocks) = FlattenSeq(Added(ds, blocks))
  <2>1. DOMAIN blocks = 1..Len(blocks)
      BY LenProperties
  <2> QED
      BY <2>1 DEF Chosen, Added
<1> QED
    BY <1>1, <1>2, AddedType, FlattenType

\* The four kinds of lines
LEMMA LineKinds ==
    ASSUME NEW c, NEW i, NEW n
    PROVE  /\ ~Permits(i, LineOf(i, n)) => LineMeans(c, i, n) = <<>>
           /\ Permits(i, LineOf(i, n)) /\ BlockType(LineOf(i, n)) = "inclusion" =>
                LineMeans(c, i, n) =
                  IF GetInclusion(LineOf(i, n)).blocks = <<>> THEN From(c, i, n)
                  ELSE Chosen(From(c, i, n), GetInclusion(LineOf(i, n)).blocks)
           /\ Permits(i, LineOf(i, n)) /\ BlockType(LineOf(i, n)) = "dependency" =>
                LineMeans(c, i, n) =
                  <<[key |-> GetDependency(LineOf(i, n)).anchor,
                     val |-> JobBody(RawBlock(BodyOf(i, n)), From(c, i, n),
                                     GetDependency(LineOf(i, n)).blocks)]>>
           /\ Permits(i, LineOf(i, n)) /\ BlockType(LineOf(i, n)) \notin {"inclusion", "dependency"} =>
                LineMeans(c, i, n) =
                  <<[key |-> ToCDLKey(LineOf(i, n)), val |-> CompileBlock(i, BodyOf(i, n))]>>
<1>1. CASE ~Permits(i, LineOf(i, n))
    BY <1>1 DEF LineMeans
<1>2. CASE Permits(i, LineOf(i, n)) /\ BlockType(LineOf(i, n)) = "inclusion"
    BY <1>2 DEF LineMeans
<1>3. CASE Permits(i, LineOf(i, n)) /\ BlockType(LineOf(i, n)) = "dependency"
    BY <1>3 DEF LineMeans
<1>4. CASE Permits(i, LineOf(i, n)) /\ BlockType(LineOf(i, n)) \notin {"inclusion", "dependency"}
    BY <1>4 DEF LineMeans
<1> QED
    BY <1>1, <1>2, <1>3, <1>4

\* A line contributes entries, if what it leads to does.
LEMMA LineType ==
    ASSUME ProgramInv, NEW i \in DOMAIN states, NEW n \in 1..Len(states[i].lines),
           ~IsWrong(i, n), NEW c, Leads(i, n) => c[Target(i, n)] \in Seq(Entry)
    PROVE  LineMeans(c, i, n) \in Seq(Entry)
<1> DEFINE line == LineOf(i, n)
           body == BodyOf(i, n)
           from == From(c, i, n)
<1>1. line \in Seq(Token) /\ body \in Seq(Seq(ModuleCall))
    BY LineParts
<1>2. <<>> \in Seq(Entry)
    BY EmptySeq
<1>3. from \in Seq(Entry)
    BY <1>2 DEF From
<1>4. /\ ~Permits(i, line) => LineMeans(c, i, n) = <<>>
      /\ Permits(i, line) /\ BlockType(line) = "inclusion" =>
           LineMeans(c, i, n) = IF GetInclusion(line).blocks = <<>> THEN from
                                ELSE Chosen(from, GetInclusion(line).blocks)
      /\ Permits(i, line) /\ BlockType(line) = "dependency" =>
           LineMeans(c, i, n) = <<[key |-> GetDependency(line).anchor,
                                  val |-> JobBody(RawBlock(body), from, GetDependency(line).blocks)]>>
      /\ Permits(i, line) /\ BlockType(line) \notin {"inclusion", "dependency"} =>
           LineMeans(c, i, n) = <<[key |-> ToCDLKey(line), val |-> CompileBlock(i, body)]>>
    BY LineKinds
<1>5. ASSUME Permits(i, line), BlockType(line) = "dependency" PROVE IsDependency(line)
  <2>1. Leads(i, n)
      BY <1>5 DEF IsWrong
  <2> QED
      BY <1>5, <2>1 DEF Leads
<1>6. ASSUME Permits(i, line), BlockType(line) \notin {"inclusion", "dependency"}
      PROVE  ~BlockPanics(i, body)
  <2>1. BlockType(line) # "error"
      BY <1>6 DEF IsWrong
  <2> QED
      BY <1>6, <2>1 DEF IsWrong
<1> HIDE DEF line, body, from
<1>7. \A k \in KeyNames, v \in Bodies : <<[key |-> k, val |-> v]>> \in Seq(Entry)
  <2> TAKE k \in KeyNames, v \in Bodies
  <2>1. [key |-> k, val |-> v] \in Entry
      BY DEF Entry
  <2> QED
      BY <2>1, OneElement
<1>8. CASE ~Permits(i, line)
    BY <1>2, <1>4, <1>8
<1>9. CASE Permits(i, line) /\ BlockType(line) = "inclusion"
  <2>1. GetInclusion(line).blocks \in Seq(BlockNames)
      BY <1>1, ReferenceTypes
  <2>2. Chosen(from, GetInclusion(line).blocks) \in Seq(Entry)
      BY <1>3, <2>1, ChosenType
  <2> QED
      BY <1>3, <1>4, <1>9, <2>2
<1>10. CASE Permits(i, line) /\ BlockType(line) = "dependency"
  <2> DEFINE v == JobBody(RawBlock(body), from, GetDependency(line).blocks)
  <2>1. GetDependency(line).blocks \in Seq(BlockNames) /\ GetDependency(line).anchor \in KeyNames
      BY <1>1, <1>5, <1>10, ReferenceTypes
  <2>2. RawBlock(body) \in Bodies
      BY <1>1, RawType
  <2>3. v \in Bodies
      BY <1>3, <2>1, <2>2, JobBodies
  <2> QED
      BY <1>4, <1>7, <1>10, <2>1, <2>3
<1>11. CASE Permits(i, line) /\ BlockType(line) \notin {"inclusion", "dependency"}
  <2>1. ToCDLKey(line) \in KeyNames
      BY <1>1, ReferenceTypes
  <2>2. CompileBlock(i, body) \in Bodies
      BY <1>1, <1>6, <1>11, CompiledType
  <2> QED
      BY <1>4, <1>7, <1>11, <2>1, <2>2
<1> QED
    BY <1>8, <1>9, <1>10, <1>11
-----------------------------------------------------------------------------
(* Sound is the least set that is closed, and what its states contribute is  *)
(* determined                                                                *)

\* The states without a wrong line whose lines lead into S
Compilable(S) == {i \in DOMAIN states :
    \A n \in DOMAIN states[i].lines : ~IsWrong(i, n) /\ (Leads(i, n) => Target(i, n) \in S)}

LEMMA SoundIsLeast ==
    Sound = {i \in DOMAIN states :
               \A S \in SUBSET DOMAIN states : Compilable(S) \subseteq S => i \in S}
<1> DEFINE clean == {i \in DOMAIN states : \A n \in DOMAIN states[i].lines : ~IsWrong(i, n)}
           from(i) == {<<i, Target(i, n)>> : n \in {n \in DOMAIN states[i].lines : Leads(i, n)}}
           leads == UNION {from(i) : i \in clean}
           closed == {S \in SUBSET DOMAIN states :
                        \A i \in clean : (\A l \in leads : l[1] = i => l[2] \in S) => i \in S}
<1>1. Sound = {i \in DOMAIN states : \A S \in closed : i \in S}
    BY DEF Sound
<1>2. ASSUME NEW S, NEW i \in clean
      PROVE  (\A l \in leads : l[1] = i => l[2] \in S) <=> i \in Compilable(S)
  <2>1. \A l \in leads : l[1] = i <=> l \in from(i)
    <3> SUFFICES ASSUME NEW j \in clean, NEW l \in from(j) PROVE l[1] = i <=> l \in from(i)
        OBVIOUS
    <3>1. l[1] = j
        OBVIOUS
    <3>2. ASSUME l \in from(i) PROVE l[1] = i
        BY <3>2
    <3> HIDE DEF from
    <3> QED
        BY <3>1, <3>2
  <2>2. from(i) \subseteq leads
      OBVIOUS
  <2>3. (\A l \in from(i) : l[2] \in S)
           <=> \A n \in DOMAIN states[i].lines : Leads(i, n) => Target(i, n) \in S
    <3>1. ASSUME NEW n \in DOMAIN states[i].lines, Leads(i, n), \A l \in from(i) : l[2] \in S
          PROVE  Target(i, n) \in S
      <4>1. <<i, Target(i, n)>> \in from(i)
          BY <3>1
      <4> HIDE DEF from
      <4> QED
          BY <3>1, <4>1
    <3>2. ASSUME NEW l \in from(i),
                 \A n \in DOMAIN states[i].lines : Leads(i, n) => Target(i, n) \in S
          PROVE  l[2] \in S
      <4>1. PICK n \in DOMAIN states[i].lines : Leads(i, n) /\ l = <<i, Target(i, n)>>
          BY <3>2
      <4> QED
          BY <3>2, <4>1
    <3> HIDE DEF from
    <3> QED
        BY <3>1, <3>2
  <2>4. i \in Compilable(S)
           <=> \A n \in DOMAIN states[i].lines : Leads(i, n) => Target(i, n) \in S
      BY DEF Compilable
  <2> HIDE DEF from, leads, clean
  <2> QED
      BY <2>1, <2>2, <2>3, <2>4
<1>3. \A S : Compilable(S) \subseteq clean
    BY DEF Compilable
<1> HIDE DEF clean, leads
<1>4. ASSUME NEW S \in SUBSET DOMAIN states
      PROVE  S \in closed <=> Compilable(S) \subseteq S
    BY <1>2, <1>3
<1> HIDE DEF closed
<1>5. closed \subseteq SUBSET DOMAIN states
    BY DEF closed
<1> QED
    BY <1>1, <1>4, <1>5

LEMMA CompilableGrows ==
    ASSUME NEW S, NEW T, S \subseteq T
    PROVE  Compilable(S) \subseteq Compilable(T)
BY DEF Compilable

LEMMA SoundClosed == Compilable(Sound) \subseteq Sound
<1> SUFFICES ASSUME NEW i \in Compilable(Sound), NEW S \in SUBSET DOMAIN states,
                    Compilable(S) \subseteq S
             PROVE  i \in S
  <2>1. Compilable(Sound) \subseteq DOMAIN states
      BY DEF Compilable
  <2> QED
      BY <2>1, SoundIsLeast
<1>1. Sound \subseteq S
    BY SoundIsLeast
<1> QED
    BY <1>1, CompilableGrows

\* Induction over Sound
LEMMA SoundLeast ==
    ASSUME NEW S \in SUBSET Sound, Compilable(S) \subseteq S
    PROVE  S = Sound
<1>1. S \in SUBSET DOMAIN states
    BY SoundIsLeast
<1> QED
    BY <1>1, SoundIsLeast

\* In a state that can be compiled every line is right, and that is all it takes.
LEMMA SoundStates ==
    \A i \in DOMAIN states :
        i \in Sound <=> \A n \in DOMAIN states[i].lines : Right(i, n)
<1>1. Compilable(Sound) = Sound
  <2>1. Compilable(Compilable(Sound)) \subseteq Compilable(Sound)
      BY SoundClosed, CompilableGrows
  <2> QED
      BY <2>1, SoundClosed, SoundLeast
<1> QED
    BY <1>1 DEF Compilable, Right

\* What state i contributes, if c is what the states contribute
StateMeans(c, i) == FlattenSeq([n \in DOMAIN states[i].lines |-> LineMeans(c, i, n)])

LEMMA StateNeeds ==
    ASSUME NEW i, NEW c, NEW d,
           \A n \in DOMAIN states[i].lines : Leads(i, n) => c[Target(i, n)] = d[Target(i, n)]
    PROVE  StateMeans(c, i) = StateMeans(d, i)
<1>1. ASSUME NEW n \in DOMAIN states[i].lines PROVE LineMeans(c, i, n) = LineMeans(d, i, n)
  <2>1. From(c, i, n) = From(d, i, n)
      BY DEF From
  <2> QED
      BY <2>1 DEF LineMeans
<1> QED
    BY <1>1 DEF StateMeans

\* f says what each state it covers contributes.
Says(f) ==
    /\ DOMAIN f \subseteq Sound
    /\ f = [i \in DOMAIN f |-> StateMeans(f, i)]
    /\ \A i \in DOMAIN f : \A n \in DOMAIN states[i].lines : Leads(i, n) => Target(i, n) \in DOMAIN f

LEMMA SayingsAgree ==
    ASSUME NEW f, NEW d, Says(f), Says(d)
    PROVE  \A i \in DOMAIN f \cap DOMAIN d : f[i] = d[i]
<1> DEFINE S == {i \in Sound : i \in DOMAIN f \cap DOMAIN d => f[i] = d[i]}
<1>1. Compilable(S) \subseteq S
  <2> SUFFICES ASSUME NEW i \in Compilable(S), i \in DOMAIN f, i \in DOMAIN d
               PROVE  f[i] = d[i]
    <3>1. Compilable(S) \subseteq Sound
        BY SoundClosed, CompilableGrows
    <3> QED
        BY <3>1
  <2>1. \A n \in DOMAIN states[i].lines :
          Leads(i, n) => Target(i, n) \in DOMAIN f /\ Target(i, n) \in DOMAIN d
      BY DEF Says
  <2>2. \A n \in DOMAIN states[i].lines : Leads(i, n) => Target(i, n) \in S
      BY DEF Compilable
  <2>3. \A n \in DOMAIN states[i].lines : Leads(i, n) => f[Target(i, n)] = d[Target(i, n)]
      BY <2>1, <2>2
  <2>4. StateMeans(f, i) = StateMeans(d, i)
      BY <2>3, StateNeeds
  <2>5. f[i] = StateMeans(f, i) /\ d[i] = StateMeans(d, i)
      BY DEF Says
  <2> QED
      BY <2>4, <2>5
<1>2. S = Sound
  <2> HIDE DEF S
  <2>1. S \in SUBSET Sound
      BY DEF S
  <2> QED
      BY <1>1, <2>1, SoundLeast
<1>3. DOMAIN f \subseteq Sound
    BY DEF Says
<1> QED
    BY <1>2, <1>3

LEMMA SaysAll == \E f : Says(f) /\ DOMAIN f = Sound
<1> DEFINE S == {i \in Sound : \E f : Says(f) /\ i \in DOMAIN f}
           One(i) == CHOOSE f : Says(f) /\ i \in DOMAIN f
           all == [i \in S |-> One(i)[i]]
<1>1. ASSUME NEW i \in S PROVE Says(One(i)) /\ i \in DOMAIN One(i)
    OBVIOUS
<1>2. \A f : Says(f) => DOMAIN f \subseteq S
    BY DEF Says
<1>3. DOMAIN all = S /\ S \subseteq Sound /\ \A i \in S : all[i] = One(i)[i]
    OBVIOUS
<1> HIDE DEF One, S, all
<1>4. ASSUME NEW f, Says(f), NEW i \in DOMAIN f PROVE all[i] = f[i]
  <2>1. i \in S
      BY <1>2, <1>4
  <2>2. Says(One(i)) /\ i \in DOMAIN One(i) /\ all[i] = One(i)[i]
      BY <1>1, <1>3, <2>1
  <2> QED
      BY <1>4, <2>2, SayingsAgree
<1>5. Says(all)
  <2>1. ASSUME NEW i \in S
        PROVE  /\ all[i] = StateMeans(all, i)
               /\ \A n \in DOMAIN states[i].lines : Leads(i, n) => Target(i, n) \in S
    <3> DEFINE f == One(i)
    <3>1. Says(f) /\ i \in DOMAIN f
        BY <1>1
    <3> HIDE DEF f
    <3>2. \A n \in DOMAIN states[i].lines : Leads(i, n) => Target(i, n) \in DOMAIN f
        BY <3>1 DEF Says
    <3>3. \A n \in DOMAIN states[i].lines : Leads(i, n) => all[Target(i, n)] = f[Target(i, n)]
        BY <1>4, <3>1, <3>2
    <3>4. StateMeans(all, i) = StateMeans(f, i)
        BY <3>3, StateNeeds
    <3>5. all[i] = f[i] /\ f[i] = StateMeans(f, i)
      <4>1. all[i] = f[i]
          BY <1>4, <3>1
      <4>2. f[i] = StateMeans(f, i)
          BY <3>1 DEF Says
      <4> QED
          BY <4>1, <4>2
    <3>6. DOMAIN f \subseteq S
        BY <1>2, <3>1
    <3> QED
        BY <3>2, <3>4, <3>5, <3>6
  <2>2. all = [i \in S |-> StateMeans(all, i)]
    <3>1. all = [i \in S |-> all[i]]
        BY DEF all
    <3> QED
        BY <2>1, <3>1
  <2> QED
      BY <1>3, <2>1, <2>2 DEF Says
<1>6. Compilable(S) \subseteq S
  <2> SUFFICES ASSUME NEW i \in Compilable(S), i \notin S PROVE FALSE
      OBVIOUS
  <2> DEFINE more == [j \in S \cup {i} |-> IF j \in S THEN all[j] ELSE StateMeans(all, i)]
  <2>1. i \in Sound
      BY <1>3, SoundClosed, CompilableGrows
  <2>2. \A n \in DOMAIN states[i].lines : Leads(i, n) => Target(i, n) \in S
      BY DEF Compilable
  <2>3. DOMAIN more = S \cup {i} /\ (\A j \in S : more[j] = all[j]) /\ more[i] = StateMeans(all, i)
      OBVIOUS
  <2>4. ASSUME NEW j \in S \cup {i}
        PROVE  /\ more[j] = StateMeans(more, j)
               /\ \A n \in DOMAIN states[j].lines : Leads(j, n) => Target(j, n) \in S
    <3> HIDE DEF more
    <3>1. \A n \in DOMAIN states[j].lines : Leads(j, n) => Target(j, n) \in S
        BY <1>3, <1>5, <2>2 DEF Says
    <3>2. StateMeans(more, j) = StateMeans(all, j)
      <4>1. \A n \in DOMAIN states[j].lines : Leads(j, n) => more[Target(j, n)] = all[Target(j, n)]
          BY <2>3, <3>1
      <4> QED
          BY <4>1, StateNeeds
    <3>3. more[j] = StateMeans(all, j)
      <4>1. CASE j \in S
          BY <1>3, <1>5, <2>3, <4>1 DEF Says
      <4>2. CASE j = i
          BY <2>3, <4>2
      <4> QED
          BY <4>1, <4>2
    <3> QED
        BY <3>1, <3>2, <3>3
  <2>5. more = [j \in DOMAIN more |-> StateMeans(more, j)]
    <3>1. more = [j \in S \cup {i} |-> more[j]]
        OBVIOUS
    <3> HIDE DEF more
    <3> QED
        BY <2>3, <2>4, <3>1
  <2> HIDE DEF more
  <2>6. Says(more)
      BY <1>3, <2>1, <2>3, <2>4, <2>5 DEF Says
  <2> QED
      BY <1>2, <2>3, <2>6
<1>7. S = Sound
    BY <1>3, <1>6, SoundLeast
<1> QED
    BY <1>3, <1>5, <1>7

LEMMA ContributesSays == Contributes = [i \in Sound |-> StateMeans(Contributes, i)]
<1>1. PICK f : Says(f) /\ DOMAIN f = Sound
    BY SaysAll
<1>2. f = [i \in Sound |-> StateMeans(f, i)]
    BY <1>1 DEF Says
<1> QED
    BY <1>2 DEF Contributes, StateMeans

LEMMA ContributesType ==
    ASSUME ProgramInv
    PROVE  \A i \in Sound : Contributes[i] \in Seq(Entry)
<1> DEFINE S == {i \in Sound : Contributes[i] \in Seq(Entry)}
<1>1. ASSUME NEW i \in Compilable(S) PROVE i \in S
  <2>1. i \in DOMAIN states /\ i \in Sound
    <3>1. S \subseteq Sound
        OBVIOUS
    <3>2. Compilable(S) \subseteq Sound
        BY <3>1, SoundClosed, CompilableGrows
    <3> QED
        BY <3>2 DEF Compilable
  <2>2. \A n \in DOMAIN states[i].lines : ~IsWrong(i, n) /\ (Leads(i, n) => Target(i, n) \in S)
      BY DEF Compilable
  <2>3. Len(states[i].lines) \in Nat /\ DOMAIN states[i].lines = 1..Len(states[i].lines)
      BY <2>1, LineParts
  <2>4. ASSUME NEW n \in 1..Len(states[i].lines) PROVE LineMeans(Contributes, i, n) \in Seq(Entry)
    <3>1. ~IsWrong(i, n) /\ (Leads(i, n) => Contributes[Target(i, n)] \in Seq(Entry))
        BY <2>2, <2>3
    <3> QED
        BY <2>1, <3>1, LineType
  <2> DEFINE ms == [n \in DOMAIN states[i].lines |-> LineMeans(Contributes, i, n)]
  <2>5. ms \in Seq(Seq(Entry))
    <3>1. ms \in [1..Len(states[i].lines) -> Seq(Entry)]
        BY <2>3, <2>4
    <3> QED
        BY <2>3, <3>1, FunctionIsSeq
  <2>6. Contributes[i] = FlattenSeq(ms)
      BY <2>1, ContributesSays DEF StateMeans
  <2> HIDE DEF ms
  <2>7. Contributes[i] \in Seq(Entry)
      BY <2>5, <2>6, FlattenType
  <2> QED
      BY <2>1, <2>7
<1> HIDE DEF S
<1>2. S \in SUBSET Sound
    BY DEF S
<1>3. S = Sound
    BY <1>1, <1>2, SoundLeast
<1> QED
    BY <1>3 DEF S

\* Line by line
LEMMA DoneLines ==
    ASSUME ProgramInv, NEW i \in DOMAIN states
    PROVE  /\ Done(i, 0) = <<>>
           /\ \A k \in 1..Len(states[i].lines) :
                (\A n \in 1..k : Right(i, n)) =>
                    /\ LineMeans(Contributes, i, k) \in Seq(Entry)
                    /\ Done(i, k - 1) \in Seq(Entry) /\ Done(i, k) \in Seq(Entry)
                    /\ Done(i, k) = Done(i, k - 1) \o LineMeans(Contributes, i, k)
           /\ i \in Sound => Contributes[i] = Done(i, Len(states[i].lines))
<1> DEFINE N == Len(states[i].lines)
           M(n) == LineMeans(Contributes, i, n)
<1>1. N \in Nat /\ DOMAIN states[i].lines = 1..N
    BY LineParts
<1>2. Done(i, 0) = <<>>
  <2>1. [n \in 1..0 |-> M(n)] = <<>>
      OBVIOUS
  <2> QED
      BY <2>1, FlattenEmpty DEF Done
<1>3. ASSUME NEW k \in 1..N, \A n \in 1..k : Right(i, n)
      PROVE  /\ M(k) \in Seq(Entry) /\ Done(i, k - 1) \in Seq(Entry) /\ Done(i, k) \in Seq(Entry)
             /\ Done(i, k) = Done(i, k - 1) \o M(k)
  <2>1. k - 1 \in Nat /\ k \in Nat /\ k \in 1..k /\ (k - 1) + 1 = k
      BY <1>1
  <2>2. \A n \in 1..k : M(n) \in Seq(Entry)
    <3> TAKE n \in 1..k
    <3>1. n \in 1..N
        BY <1>1
    <3>2. ~IsWrong(i, n) /\ (Leads(i, n) => Contributes[Target(i, n)] \in Seq(Entry))
        BY <1>3, ContributesType DEF Right
    <3> QED
        BY <3>1, <3>2, LineType
  <2> DEFINE s == [n \in 1..(k - 1) |-> M(n)]
  <2> HIDE DEF M
  <2>3. s \in Seq(Seq(Entry)) /\ Len(s) = k - 1
    <3>1. s \in [1..(k - 1) -> Seq(Entry)]
        BY <2>1, <2>2
    <3> QED
        BY <2>1, <3>1, FunctionIsSeq
  <2>4. [n \in 1..k |-> M(n)] = Append(s, M(k))
    <3> DEFINE u == Append(s, M(k))
    <3>1. /\ u \in Seq(Seq(Entry)) /\ Len(u) = k /\ u[k] = M(k)
          /\ \A n \in 1..(k - 1) : u[n] = s[n]
      <4>1. M(k) \in Seq(Entry)
          BY <2>1, <2>2
      <4> QED
          BY <2>1, <2>3, <4>1, AppendProperties
    <3> HIDE DEF u
    <3>2. u \in [1..k -> Seq(Entry)]
        BY <3>1, LenProperties
    <3>3. \A n \in 1..k : u[n] = M(n)
      <4> TAKE n \in 1..k
      <4>1. CASE n = k
          BY <3>1, <4>1
      <4>2. CASE n # k
        <5>1. n \in 1..(k - 1)
            BY <2>1, <4>2
        <5> QED
            BY <3>1, <5>1
      <4> QED
          BY <4>1, <4>2
    <3>4. u = [n \in 1..k |-> M(n)]
        BY <3>2, <3>3
    <3> QED
        BY <3>4 DEF u
  <2>5. Done(i, k) = FlattenSeq([n \in 1..k |-> M(n)]) /\ Done(i, k - 1) = FlattenSeq(s)
      BY DEF Done, M
  <2> HIDE DEF s
  <2>6. M(k) \in Seq(Entry)
      BY <2>1, <2>2
  <2>7. FlattenSeq(Append(s, M(k))) = FlattenSeq(s) \o M(k) /\ FlattenSeq(s) \in Seq(Entry)
      BY <2>3, <2>6, FlattenAppend, FlattenType
  <2>8. Done(i, k) = Done(i, k - 1) \o M(k) /\ Done(i, k - 1) \in Seq(Entry)
      BY <2>4, <2>5, <2>7
  <2>9. Done(i, k) \in Seq(Entry)
      BY <2>6, <2>8, ConcatProperties
  <2> QED
      BY <2>6, <2>8, <2>9
<1>4. ASSUME i \in Sound PROVE Contributes[i] = Done(i, N)
    BY <1>1, <1>4, ContributesSays DEF StateMeans, Done
<1> QED
    BY <1>2, <1>3, <1>4

\* The program stays as it is, and with it all that is said about it.
LEMMA SameProgram ==
    ASSUME program' = program
    PROVE  /\ ProgramInv' <=> ProgramInv
           /\ Sound' = Sound
           /\ Contributes' = Contributes
           /\ \A st : StackInv(st)' <=> StackInv(st)
<1>0. states' = states /\ threads' = threads /\ optional' = optional
    BY DEF program
<1>1. ProgramInv' <=> ProgramInv
    BY <1>0 DEF ProgramInv
<1>2. \A i, n : LineOf(i, n)' = LineOf(i, n) /\ BodyOf(i, n)' = BodyOf(i, n)
    BY <1>0 DEF LineOf, BodyOf
<1>3. \A i, n : Target(i, n)' = Target(i, n)
    BY <1>0 DEF Target, LineOf
<1>4. \A i, line : ConditionPanics(i, line)' <=> ConditionPanics(i, line)
    BY <1>0 DEF ConditionPanics, Defined, SaysYes
<1>5. \A i, line : Permits(i, line)' <=> Permits(i, line)
    BY <1>0, <1>4 DEF Permits, Defined, SaysYes
<1>6. \A i, n : Leads(i, n)' <=> Leads(i, n)
    BY <1>0, <1>2, <1>3, <1>5 DEF Leads
<1>7. \A i, n : IsWrong(i, n)' <=> IsWrong(i, n)
    BY <1>0, <1>2, <1>3, <1>4, <1>5, <1>6 DEF IsWrong, BlockPanics, FirstLoop
<1>8. Sound' = Sound
  <2>1. ASSUME NEW S PROVE Compilable(S)' = Compilable(S)
      BY <1>0, <1>3, <1>6, <1>7 DEF Compilable
  <2>2. (Sound = {i \in DOMAIN states :
                    \A S \in SUBSET DOMAIN states : Compilable(S) \subseteq S => i \in S})'
      BY SoundIsLeast, PTL
  <2> QED
      BY <1>0, <2>1, <2>2, SoundIsLeast
<1>9. \A c, i, n : LineMeans(c, i, n)' = LineMeans(c, i, n)
  <2> TAKE c, i, n
  <2>1. From(c, i, n)' = From(c, i, n)
      BY <1>3, <1>6 DEF From
  <2>2. CompileBlock(i, BodyOf(i, n))' = CompileBlock(i, BodyOf(i, n))
      BY <1>0, <1>2 DEF CompileBlock
  <2>3. Permits(i, LineOf(i, n))' <=> Permits(i, LineOf(i, n))
      BY <1>0, <1>2, <1>5 DEF Permits
  <2> QED
      BY <1>2, <2>1, <2>2, <2>3 DEF LineMeans
<1>10. Contributes' = Contributes
  <2>1. ASSUME NEW f
        PROVE  [i \in Sound |-> FlattenSeq([n \in DOMAIN states[i].lines |-> LineMeans(f, i, n)])]'
                = [i \in Sound |-> FlattenSeq([n \in DOMAIN states[i].lines |-> LineMeans(f, i, n)])]
      BY <1>0, <1>8, <1>9
  <2> QED
      BY <2>1 DEF Contributes
<1>11. \A i, n : Right(i, n)' <=> Right(i, n)
    BY <1>3, <1>6, <1>7, <1>8 DEF Right
<1>12. \A i, k : Done(i, k)' = Done(i, k)
    BY <1>9, <1>10 DEF Done
<1>13. \A r : FrameInv(r)' <=> FrameInv(r)
    BY <1>0, <1>11, <1>12 DEF FrameInv
<1>14. \A outer, r : Waits(outer, r)' <=> Waits(outer, r)
    BY <1>0, <1>3, <1>6 DEF Waits
<1>15. \A st : StackInv(st)' <=> StackInv(st)
  <2>1. rootStateId' = rootStateId /\ Frames' = Frames
      BY <1>0 DEF program, Frames
  <2> QED
      BY <1>13, <1>14, <2>1 DEF StackInv
<1> QED
    BY <1>1, <1>8, <1>10, <1>15
-----------------------------------------------------------------------------
(* The stack *)

LEMMA StackParts ==
    ASSUME NEW st, StackInv(st)
    PROVE  /\ Len(st) \in Nat /\ Len(st) >= 1 /\ DOMAIN st = 1..Len(st) /\ 1 \in 1..Len(st)
           /\ \A m \in 1..Len(st) : /\ st[m] \in Frames /\ FrameInv(st[m])
                                     /\ st[m].id \in DOMAIN states
           /\ \A m \in 1..(Len(st) - 1) : Waits(st[m + 1], st[m])
<1>1. st \in Seq(Frames) /\ st # <<>>
    BY DEF StackInv
<1>2. Len(st) \in Nat /\ DOMAIN st = 1..Len(st) /\ \A m \in 1..Len(st) : st[m] \in Frames
    BY <1>1, LenProperties, ElementOfSeq
<1>3. Len(st) # 0
    BY <1>1, EmptySeq
<1>4. \A r \in Frames : r.id \in DOMAIN states
    BY DEF Frames
<1> QED
    BY <1>2, <1>3, <1>4 DEF StackInv

\* The innermost frame moves on.
LEMMA TopMoves ==
    ASSUME NEW st, StackInv(st), NEW q \in Frames, FrameInv(q), q.id = st[1].id
    PROVE  StackInv([st EXCEPT ![1] = q])
<1> DEFINE u == [st EXCEPT ![1] = q]
<1>1. /\ Len(st) \in Nat /\ Len(st) >= 1 /\ DOMAIN st = 1..Len(st) /\ 1 \in 1..Len(st)
      /\ \A m \in 1..Len(st) : st[m] \in Frames /\ FrameInv(st[m])
      /\ \A m \in 1..(Len(st) - 1) : Waits(st[m + 1], st[m])
    BY StackParts
<1>2. st \in [1..Len(st) -> Frames]
    BY LenProperties DEF StackInv
<1>3. u[1] = q /\ \A m \in 1..Len(st) : m # 1 => u[m] = st[m]
    BY <1>1
<1>4. u \in [1..Len(st) -> Frames]
    BY <1>2
<1>5. u \in Seq(Frames) /\ Len(u) = Len(st)
    BY <1>1, <1>4, FunctionIsSeq
<1> HIDE DEF u
<1>6. \A m \in 1..Len(st) : u[m].id = st[m].id /\ FrameInv(u[m])
    BY <1>1, <1>3
<1>7. \A m \in 1..(Len(st) - 1) : Waits(u[m + 1], u[m])
  <2> TAKE m \in 1..(Len(st) - 1)
  <2>1. m \in 1..Len(st) /\ m + 1 \in 1..Len(st) /\ m + 1 # 1
      BY <1>1
  <2>2. u[m + 1] = st[m + 1] /\ u[m].id = st[m].id /\ Waits(st[m + 1], st[m])
      BY <1>1, <1>3, <1>6, <2>1
  <2> QED
      BY <2>2 DEF Waits
<1>8. u[Len(u)].id = rootStateId
  <2>1. Len(st) \in 1..Len(st)
      BY <1>1
  <2>2. st[Len(st)].id = rootStateId
      BY DEF StackInv
  <2> QED
      BY <1>5, <1>6, <2>1, <2>2
<1>9. u # <<>>
  <2>1. Len(u) # 0
      BY <1>1, <1>5
  <2> QED
      BY <2>1, EmptySeq
<1>10. StackInv(u)
    BY <1>5, <1>6, <1>7, <1>8, <1>9 DEF StackInv
<1> QED
    BY <1>10 DEF u

\* A frame is put on top.
LEMMA TopCalls ==
    ASSUME NEW st, StackInv(st), NEW q \in Frames, FrameInv(q), Waits(st[1], q)
    PROVE  StackInv(<<q>> \o st)
<1> DEFINE u == <<q>> \o st
<1>1. /\ Len(st) \in Nat /\ Len(st) >= 1 /\ DOMAIN st = 1..Len(st) /\ 1 \in 1..Len(st)
      /\ \A m \in 1..Len(st) : st[m] \in Frames /\ FrameInv(st[m])
      /\ \A m \in 1..(Len(st) - 1) : Waits(st[m + 1], st[m])
    BY StackParts
<1>2. st \in Seq(Frames) /\ <<q>> \in Seq(Frames) /\ Len(<<q>>) = 1 /\ <<q>>[1] = q
    BY OneElement DEF StackInv
<1>3. /\ u \in Seq(Frames) /\ Len(u) = 1 + Len(st)
      /\ \A m \in 1..(1 + Len(st)) : u[m] = IF m <= 1 THEN <<q>>[m] ELSE st[m - 1]
    BY <1>2, ConcatProperties
<1> HIDE DEF u
<1>4. u[1] = q
    BY <1>1, <1>2, <1>3
<1>5. ASSUME NEW m \in 1..Len(st) PROVE u[m + 1] = st[m]
  <2>1. PICK k : k = m + 1
      OBVIOUS
  <2>2. k \in 1..(1 + Len(st)) /\ ~(k <= 1) /\ k - 1 = m
      BY <1>1, <2>1
  <2>3. u[k] = st[m]
      BY <1>3, <2>2
  <2> QED
      BY <2>1, <2>3
<1>6. \A m \in 1..Len(u) : FrameInv(u[m])
  <2> TAKE m \in 1..Len(u)
  <2>1. CASE m = 1
      BY <1>4, <2>1
  <2>2. CASE m # 1
    <3>1. m - 1 \in 1..Len(st) /\ (m - 1) + 1 = m
        BY <1>1, <1>3, <2>2
    <3>2. u[m] = st[m - 1]
        BY <1>5, <3>1
    <3> QED
        BY <1>1, <3>1, <3>2
  <2> QED
      BY <2>1, <2>2
<1>7. \A m \in 1..(Len(u) - 1) : Waits(u[m + 1], u[m])
  <2> TAKE m \in 1..(Len(u) - 1)
  <2>1. m \in 1..Len(st) /\ u[m + 1] = st[m]
      BY <1>1, <1>3, <1>5
  <2>2. CASE m = 1
      BY <1>4, <2>1, <2>2
  <2>3. CASE m # 1
    <3>1. m - 1 \in 1..Len(st) /\ (m - 1) + 1 = m /\ m - 1 \in 1..(Len(st) - 1)
        BY <1>1, <2>1, <2>3
    <3>2. u[m] = st[m - 1]
        BY <1>5, <3>1
    <3>3. Waits(st[m], st[m - 1])
        BY <1>1, <3>1
    <3> QED
        BY <2>1, <3>2, <3>3
  <2> QED
      BY <2>2, <2>3
<1>8. u[Len(u)].id = rootStateId
  <2>1. u[Len(st) + 1] = st[Len(st)] /\ Len(u) = Len(st) + 1
      BY <1>1, <1>3, <1>5
  <2>2. st[Len(st)].id = rootStateId
      BY DEF StackInv
  <2> QED
      BY <2>1, <2>2
<1>9. u # <<>>
  <2>1. Len(u) # 0
      BY <1>1, <1>3
  <2> QED
      BY <2>1, EmptySeq
<1>10. StackInv(u)
    BY <1>3, <1>6, <1>7, <1>8, <1>9 DEF StackInv
<1> QED
    BY <1>10 DEF u

\* The innermost frame is taken off.
LEMMA TopReturns ==
    ASSUME NEW st, StackInv(st), Len(st) > 1
    PROVE  StackInv(Tail(st)) /\ Tail(st)[1] = st[2]
<1> DEFINE u == Tail(st)
<1>1. /\ Len(st) \in Nat /\ Len(st) >= 1 /\ DOMAIN st = 1..Len(st) /\ 1 \in 1..Len(st)
      /\ \A m \in 1..Len(st) : st[m] \in Frames /\ FrameInv(st[m])
      /\ \A m \in 1..(Len(st) - 1) : Waits(st[m + 1], st[m])
    BY StackParts
<1>2. st \in Seq(Frames) /\ st # <<>>
    BY DEF StackInv
<1>3. /\ u \in Seq(Frames) /\ Len(u) = Len(st) - 1
      /\ \A m \in 1..Len(u) : u[m] = st[m + 1]
    BY <1>2, HeadTailProperties
<1> HIDE DEF u
<1>4. \A m \in 1..Len(u) : m + 1 \in 1..Len(st) /\ FrameInv(u[m])
    BY <1>1, <1>3
<1>5. \A m \in 1..(Len(u) - 1) : Waits(u[m + 1], u[m])
  <2> TAKE m \in 1..(Len(u) - 1)
  <2>1. m \in 1..Len(u) /\ m + 1 \in 1..Len(u) /\ m + 1 \in 1..(Len(st) - 1)
      BY <1>1, <1>3
  <2>2. u[m] = st[m + 1] /\ u[m + 1] = st[(m + 1) + 1]
      BY <1>3, <2>1
  <2>3. Waits(st[(m + 1) + 1], st[m + 1])
      BY <1>1, <2>1
  <2> QED
      BY <2>2, <2>3
<1>6. u[Len(u)].id = rootStateId /\ u[1] = st[2]
  <2>1. Len(u) \in 1..Len(u) /\ 1 \in 1..Len(u) /\ Len(u) + 1 = Len(st) /\ 1 + 1 = 2
      BY <1>1, <1>3
  <2>2. u[Len(u)] = st[Len(st)] /\ u[1] = st[2]
      BY <1>3, <2>1
  <2>3. st[Len(st)].id = rootStateId
      BY DEF StackInv
  <2> QED
      BY <2>2, <2>3
<1>7. u # <<>>
  <2>1. Len(u) # 0
      BY <1>1, <1>3
  <2> QED
      BY <2>1, EmptySeq
<1>8. StackInv(u)
    BY <1>3, <1>4, <1>5, <1>6, <1>7 DEF StackInv
<1> QED
    BY <1>6, <1>8 DEF u

\* What is wrong with one frame's state is wrong with all that wait for it.
LEMMA WrongAllTheWay ==
    ASSUME ProgramInv, NEW st, StackInv(st), NEW k \in 1..Len(st), st[k].id \notin Sound
    PROVE  rootStateId \notin Sound
<1> DEFINE N == Len(st) - k
           Bad == {d \in 0..N : st[k + d].id \notin Sound}
<1>1. /\ Len(st) \in Nat
      /\ \A m \in 1..Len(st) : st[m] \in Frames /\ st[m].id \in DOMAIN states
      /\ \A m \in 1..(Len(st) - 1) : Waits(st[m + 1], st[m])
    BY StackParts
<1>2. N \in Nat /\ k \in Nat
    BY <1>1
<1>3. 0 \in Bad
  <2>1. k + 0 = k /\ 0 \in 0..N
      BY <1>2
  <2> QED
      BY <2>1
<1>4. ASSUME NEW d \in 0..(N - 1), d \in Bad PROVE d + 1 \in Bad
  <2>1. PICK p : p = k + d
      OBVIOUS
  <2>2. /\ p \in 1..(Len(st) - 1) /\ p + 1 = k + (d + 1) /\ d + 1 \in 0..N
        /\ p + 1 \in 1..Len(st)
      BY <1>1, <1>2, <2>1
  <2>3. st[p].id \notin Sound
      BY <1>4, <2>1
  <2>4. Waits(st[p + 1], st[p])
      BY <1>1, <2>2
  <2> DEFINE outer == st[p + 1]
  <2>5. outer.id \in DOMAIN states
      BY <1>1, <2>2
  <2>6. /\ outer.at \in DOMAIN states[outer.id].lines
        /\ Leads(outer.id, outer.at) /\ Target(outer.id, outer.at) \notin Sound
      BY <2>3, <2>4, <2>5, LineParts DEF Waits
  <2>7. outer.id \notin Sound
      BY <2>5, <2>6, SoundStates DEF Right
  <2> QED
      BY <2>2, <2>7
<1>5. \A d \in 0..N : d \in Bad
  <2> HIDE DEF Bad, N
  <2> QED
      BY <1>2, <1>3, <1>4, UpTo
<1>6. N \in 0..N /\ k + N = Len(st)
    BY <1>1, <1>2
<1>7. st[k + N].id \notin Sound
    BY <1>5, <1>6
<1> QED
    BY <1>6, <1>7 DEF StackInv
-----------------------------------------------------------------------------
(* Frames, line by line *)

LEMMA NewFrame ==
    ASSUME ProgramInv, NEW i \in DOMAIN states
    PROVE  Frame(i) \in Frames /\ FrameInv(Frame(i))
<1> DEFINE r == Frame(i)
<1>1. r.id = i /\ r.at = 1 /\ r.out = <<>>
    BY DEF Frame
<1>2. r \in Frames
  <2>1. <<>> \in Seq(Entry)
      BY EmptySeq
  <2> QED
      BY <2>1 DEF Frame, Frames
<1> HIDE DEF r
<1>3. Len(states[i].lines) \in Nat
    BY LineParts
<1>4. Done(i, 0) = <<>>
    BY DoneLines
<1>5. Means(<<>>, <<>>)
    BY DEF Means, Keys
<1>6. r.at \in 1..(Len(states[r.id].lines) + 1) /\ r.at - 1 = 0
    BY <1>1, <1>3
<1>7. \A n \in 1..(r.at - 1) : Right(r.id, n)
    BY <1>6
<1>8. r.id \in DOMAIN states /\ r.out \in Seq(Entry)
    BY <1>1, EmptySeq
<1>9. Means(r.out, Done(r.id, r.at - 1))
    BY <1>1, <1>4, <1>5, <1>6
<1>10. FrameInv(r)
    BY <1>6, <1>7, <1>8, <1>9 DEF FrameInv
<1> QED
    BY <1>2, <1>10 DEF r

LEMMA FrameMoves ==
    ASSUME ProgramInv, NEW r \in Frames, FrameInv(r), r.at \in 1..Len(states[r.id].lines),
           Right(r.id, r.at), NEW out \in Seq(Entry),
           Means(out, Done(r.id, r.at - 1) \o LineMeans(Contributes, r.id, r.at))
    PROVE  LET q == [r EXCEPT !.at = @ + 1, !.out = out]
           IN  q \in Frames /\ FrameInv(q) /\ q.id = r.id
<1> DEFINE q == [r EXCEPT !.at = @ + 1, !.out = out]
           N == Len(states[r.id].lines)
<1>1. r.id \in DOMAIN states /\ r.at \in Nat
    BY DEF Frames
<1>2. N \in Nat
    BY <1>1, LineParts
<1>3. q \in Frames /\ q.id = r.id /\ q.at = r.at + 1 /\ q.out = out
  <2>1. r \in [id : DOMAIN states, at : Nat, out : Seq(Entry)]
      BY DEF Frames
  <2>2. q.id = r.id
      BY <2>1
  <2>3. q.at = r.at + 1
      BY <2>1
  <2>4. q.out = out
      BY <2>1
  <2>5. q \in [id : DOMAIN states, at : Nat, out : Seq(Entry)]
    <3>1. PICK y : y = r.at + 1
        OBVIOUS
    <3>2. y \in Nat
        BY <1>1, <3>1
    <3>3. [r EXCEPT !.at = y, !.out = out] \in [id : DOMAIN states, at : Nat, out : Seq(Entry)]
        BY <2>1, <3>2
    <3> QED
        BY <3>1, <3>3
  <2> QED
      BY <2>2, <2>3, <2>4, <2>5 DEF Frames
<1> HIDE DEF q
<1>4. q.at \in 1..(N + 1) /\ q.at - 1 = r.at
    BY <1>1, <1>2, <1>3
<1>5. \A n \in 1..r.at : Right(r.id, n)
  <2> TAKE n \in 1..r.at
  <2>1. CASE n = r.at
      BY <2>1
  <2>2. CASE n # r.at
    <3>1. n \in 1..(r.at - 1)
        BY <1>1, <2>2
    <3> QED
        BY <3>1 DEF FrameInv
  <2> QED
      BY <2>1, <2>2
<1>6. Done(r.id, r.at) = Done(r.id, r.at - 1) \o LineMeans(Contributes, r.id, r.at)
    BY <1>1, <1>5, DoneLines
<1>7. Means(q.out, Done(q.id, q.at - 1))
    BY <1>3, <1>4, <1>6
<1>8. FrameInv(q)
    BY <1>1, <1>3, <1>4, <1>5, <1>7 DEF FrameInv
<1> QED
    BY <1>3, <1>8 DEF q

\* A frame that is through all its lines
LEMMA FrameThrough ==
    ASSUME ProgramInv, NEW r \in Frames, FrameInv(r), r.at > Len(states[r.id].lines)
    PROVE  r.id \in Sound /\ Means(r.out, Contributes[r.id]) /\ Contributes[r.id] \in Seq(Entry)
<1>1. r.id \in DOMAIN states /\ r.at \in Nat
    BY DEF Frames
<1>2. Len(states[r.id].lines) \in Nat /\ DOMAIN states[r.id].lines = 1..Len(states[r.id].lines)
    BY <1>1, LineParts
<1>3. r.at - 1 = Len(states[r.id].lines)
  <2>1. r.at \in 1..(Len(states[r.id].lines) + 1)
      BY DEF FrameInv
  <2> QED
      BY <1>1, <1>2, <2>1
<1>4. r.id \in Sound
  <2>1. \A n \in DOMAIN states[r.id].lines : Right(r.id, n)
      BY <1>2, <1>3 DEF FrameInv
  <2> QED
      BY <1>1, <2>1, SoundStates
<1>5. Contributes[r.id] = Done(r.id, r.at - 1)
    BY <1>1, <1>3, <1>4, DoneLines
<1>6. Means(r.out, Done(r.id, r.at - 1))
    BY DEF FrameInv
<1> QED
    BY <1>4, <1>5, <1>6, ContributesType

LEMMA DoneType ==
    ASSUME ProgramInv, NEW r, FrameInv(r)
    PROVE  Done(r.id, r.at - 1) \in Seq(Entry)
<1>1. /\ r.id \in DOMAIN states /\ r.at \in 1..(Len(states[r.id].lines) + 1)
      /\ \A n \in 1..(r.at - 1) : Right(r.id, n)
    BY DEF FrameInv
<1>2. Len(states[r.id].lines) \in Nat
    BY <1>1, LineParts
<1>3. CASE r.at = 1
  <2>1. r.at - 1 = 0
      BY <1>3
  <2>2. Done(r.id, 0) = <<>> /\ <<>> \in Seq(Entry)
      BY <1>1, DoneLines, EmptySeq
  <2> QED
      BY <2>1, <2>2
<1>4. CASE r.at # 1
  <2>1. r.at - 1 \in 1..Len(states[r.id].lines)
      BY <1>1, <1>2, <1>4
  <2> QED
      BY <1>1, <2>1, DoneLines
<1> QED
    BY <1>3, <1>4

LEMMA WrongKinds ==
    ASSUME NEW i, NEW n
    PROVE  LET line == LineOf(i, n) IN
           /\ ConditionPanics(i, line) => IsWrong(i, n)
           /\ ~Permits(i, line) /\ ~ConditionPanics(i, line) => ~IsWrong(i, n)
           /\ Permits(i, line) /\ BlockType(line) = "error" => IsWrong(i, n)
           /\ Permits(i, line) /\ BlockType(line) = "inclusion" =>
                (IsWrong(i, n) <=> ~Leads(i, n) /\ Target(i, n) \notin optional)
           /\ Permits(i, line) /\ BlockType(line) = "dependency" =>
                (IsWrong(i, n) <=> ~Leads(i, n) \/ BodyOf(i, n) = <<>>)
           /\ Permits(i, line) /\ BlockType(line) \in {"plain", "loop"} =>
                (IsWrong(i, n) <=> BlockPanics(i, BodyOf(i, n)))
<1> DEFINE line == LineOf(i, n)
<1>1. Permits(i, line) => ~ConditionPanics(i, line)
    BY DEF Permits
<1>2. ConditionPanics(i, line) => IsWrong(i, n)
    BY DEF IsWrong
<1>3. ~Permits(i, line) /\ ~ConditionPanics(i, line) => ~IsWrong(i, n)
    BY DEF IsWrong
<1>4. Permits(i, line) /\ BlockType(line) = "error" => IsWrong(i, n)
    BY DEF IsWrong
<1>5. Permits(i, line) /\ BlockType(line) = "inclusion" =>
         (IsWrong(i, n) <=> ~Leads(i, n) /\ Target(i, n) \notin optional)
    BY <1>1 DEF IsWrong
<1>6. Permits(i, line) /\ BlockType(line) = "dependency" =>
         (IsWrong(i, n) <=> ~Leads(i, n) \/ BodyOf(i, n) = <<>>)
    BY <1>1 DEF IsWrong
<1>7. Permits(i, line) /\ BlockType(line) \in {"plain", "loop"} =>
         (IsWrong(i, n) <=> BlockPanics(i, BodyOf(i, n)))
  <2>1. CASE BlockType(line) = "plain"
      BY <1>1, <2>1 DEF IsWrong
  <2>2. CASE BlockType(line) = "loop"
      BY <1>1, <2>2 DEF IsWrong
  <2> QED
      BY <2>1, <2>2
<1> QED
    BY <1>2, <1>3, <1>4, <1>5, <1>6, <1>7

LEMMA NothingChosen ==
    ASSUME NEW blocks \in Seq(BlockNames)
    PROVE  Chosen(<<>>, blocks) = <<>>
<1>1. Keys(<<>>) = {}
    BY DEF Keys
<1> DEFINE s == [b \in DOMAIN blocks |-> <<>>]
<1>2. Chosen(<<>>, blocks) = FlattenSeq(s)
    BY <1>1 DEF Chosen
<1>3. Len(blocks) \in Nat /\ DOMAIN blocks = 1..Len(blocks)
    BY LenProperties
<1>4. s \in Seq(Seq({})) /\ Len(s) = Len(blocks) /\ \A n \in 1..Len(s) : s[n] = <<>>
  <2>1. <<>> \in Seq({})
      BY EmptySeq
  <2>2. s \in [1..Len(blocks) -> Seq({})]
      BY <1>3, <2>1
  <2>3. s \in Seq(Seq({})) /\ Len(s) = Len(blocks)
      BY <1>3, <2>2, FunctionIsSeq
  <2> QED
      BY <1>3, <2>3
<1> HIDE DEF s
<1> QED
    BY <1>2, <1>4, NothingLeft
-----------------------------------------------------------------------------
(* Step by step *)

\* The line the innermost call is at
LEMMA AtALine ==
    ASSUME TreeInv, AtLine
    PROVE  /\ ProgramInv /\ StackInv(stack) /\ status = "compiling"
           /\ Top \in Frames /\ FrameInv(Top) /\ Top.id \in DOMAIN states
           /\ Top.at \in 1..Len(states[Top.id].lines)
           /\ Line = LineOf(Top.id, Top.at) /\ Body = BodyOf(Top.id, Top.at)
           /\ Line \in Seq(Token) /\ Body \in Seq(Seq(ModuleCall))
<1>1. ProgramInv /\ StackInv(stack) /\ status = "compiling"
    BY DEF TreeInv, AtLine
<1>2. Top \in Frames /\ FrameInv(Top) /\ Top.id \in DOMAIN states
    BY <1>1, StackParts DEF Top
<1>3. Len(states[Top.id].lines) \in Nat
    BY <1>1, <1>2, LineParts
<1>4. Top.at \in 1..Len(states[Top.id].lines)
  <2>1. Top.at \in Nat /\ Top.at \in 1..(Len(states[Top.id].lines) + 1)
      BY <1>2 DEF Frames, FrameInv
  <2> QED
      BY <1>3, <2>1 DEF AtLine
<1>5. Line = LineOf(Top.id, Top.at) /\ Body = BodyOf(Top.id, Top.at)
    BY DEF Line, Body, LineOf, BodyOf
<1> QED
    BY <1>1, <1>2, <1>4, <1>5, LineParts

LEMMA GoesOn ==
    ASSUME TreeInv, program' = program, built' = built, tree' = tree,
           status' = "compiling", StackInv(stack')
    PROVE  TreeInv'
<1>1. ProgramInv' /\ Sound' = Sound /\ Contributes' = Contributes /\ StackInv(stack)'
    BY SameProgram DEF TreeInv
<1>2. rootStateId' = rootStateId
    BY DEF program
<1>3. built' = "whole" => tree' \in Seq(Entry) /\ rootStateId \in Sound
                            /\ Means(tree', Contributes[rootStateId])
    BY DEF TreeInv
<1>4. (built = "whole" => /\ tree \in Seq(Entry) /\ rootStateId \in Sound
                          /\ Means(tree, Contributes[rootStateId]))'
    BY <1>1, <1>2, <1>3
<1> QED
    BY <1>1, <1>4 DEF TreeInv

LEMMA Stops ==
    ASSUME TreeInv, program' = program, built' = built \/ built' # "whole", tree' = tree,
           \/ status' \in {"called", "done"}
           \/ status' = "panicked" /\ (rootStateId \notin Sound \/ ~described)
    PROVE  TreeInv'
<1>1. ProgramInv' /\ Sound' = Sound /\ Contributes' = Contributes
    BY SameProgram DEF TreeInv
<1>2. rootStateId' = rootStateId /\ (described' <=> described)
    BY DEF program
<1>3. (built = "whole" => /\ tree \in Seq(Entry) /\ rootStateId \in Sound
                          /\ Means(tree, Contributes[rootStateId]))'
  <2>1. built' = "whole" => tree' \in Seq(Entry) /\ rootStateId \in Sound
                              /\ Means(tree', Contributes[rootStateId])
      BY DEF TreeInv
  <2> QED
      BY <1>1, <1>2, <2>1
<1>4. status' # "compiling" /\ status' \in {"called", "compiling", "done", "panicked"}
    OBVIOUS
<1>5. (status = "panicked" => rootStateId \notin Sound \/ ~described)'
    BY <1>1, <1>2
<1> QED
    BY <1>1, <1>3, <1>4, <1>5 DEF TreeInv

LEMMA LineDone ==
    ASSUME TreeInv, AtLine, Right(Top.id, Top.at), NEW out \in Seq(Entry),
           Means(out, Done(Top.id, Top.at - 1) \o LineMeans(Contributes, Top.id, Top.at)),
           Proceed(out)
    PROVE  TreeInv'
<1> DEFINE r == stack[1]
           q == [r EXCEPT !.at = @ + 1, !.out = out]
<1>1. /\ ProgramInv /\ StackInv(stack) /\ r \in Frames /\ FrameInv(r)
      /\ r.at \in 1..Len(states[r.id].lines) /\ status = "compiling" /\ r = Top
    BY AtALine DEF Top
<1>2. stack' = [stack EXCEPT ![1] = q]
    BY DEF Proceed, Top
<1>3. q \in Frames /\ FrameInv(q) /\ q.id = r.id
  <2> HIDE DEF r
  <2> QED
      BY <1>1, FrameMoves
<1> HIDE DEF q
<1>4. StackInv(stack')
    BY <1>1, <1>2, <1>3, TopMoves
<1>5. program' = program /\ built' = built /\ tree' = tree /\ status' = "compiling"
    BY <1>1 DEF Proceed, program
<1> QED
    BY <1>4, <1>5, GoesOn

LEMMA LineWrong ==
    ASSUME TreeInv, AtLine, ~Right(Top.id, Top.at), Panic
    PROVE  TreeInv'
<1>1. /\ ProgramInv /\ StackInv(stack) /\ Top.id \in DOMAIN states
      /\ Top.at \in 1..Len(states[Top.id].lines)
    BY AtALine
<1>2. Top.at \in DOMAIN states[Top.id].lines
    BY <1>1, LineParts
<1>3. Top.id \notin Sound
    BY <1>1, <1>2, SoundStates
<1>4. rootStateId \notin Sound
  <2>1. 1 \in 1..Len(stack) /\ stack[1].id \notin Sound
      BY <1>1, <1>3, StackParts DEF Top
  <2> QED
      BY <1>1, <2>1, WrongAllTheWay
<1>5. program' = program /\ built' = built /\ tree' = tree /\ status' = "panicked"
    BY DEF Panic, program
<1> QED
    BY <1>4, <1>5, Stops

LEMMA LineCalls ==
    ASSUME TreeInv, AtLine, Leads(Top.id, Top.at), Call(Target(Top.id, Top.at))
    PROVE  TreeInv'
<1> DEFINE i == Target(Top.id, Top.at)
           q == Frame(i)
<1>1. /\ ProgramInv /\ StackInv(stack) /\ Top.at \in 1..Len(states[Top.id].lines)
      /\ status = "compiling"
    BY AtALine
<1>2. i \in DOMAIN states
    BY DEF Leads
<1>3. q \in Frames /\ FrameInv(q) /\ q.id = i
  <2>1. q.id = i
      BY DEF Frame
  <2> HIDE DEF i
  <2> QED
      BY <1>1, <1>2, <2>1, NewFrame
<1>4. stack' = <<q>> \o stack
    BY DEF Call
<1>5. Waits(stack[1], q)
    BY <1>1, <1>3 DEF Waits, Top
<1> HIDE DEF q
<1>6. StackInv(stack')
    BY <1>1, <1>3, <1>4, <1>5, TopCalls
<1>7. program' = program /\ built' = built /\ tree' = tree /\ status' = "compiling"
    BY <1>1 DEF Call, program
<1> QED
    BY <1>6, <1>7, GoesOn

\* A line that contributes nothing leaves the tree as it is.
LEMMA NothingMore ==
    ASSUME TreeInv, AtLine, LineMeans(Contributes, Top.id, Top.at) = <<>>
    PROVE  /\ Top.out \in Seq(Entry)
           /\ Means(Top.out, Done(Top.id, Top.at - 1) \o LineMeans(Contributes, Top.id, Top.at))
<1>1. ProgramInv /\ Top \in Frames /\ FrameInv(Top) /\ Top.id \in DOMAIN states
    BY AtALine
<1>2. Means(Top.out, Done(Top.id, Top.at - 1)) /\ Top.out \in Seq(Entry)
    BY <1>1 DEF FrameInv
<1>3. Done(Top.id, Top.at - 1) \in Seq(Entry)
    BY <1>1, DoneType
<1>4. Done(Top.id, Top.at - 1) \o <<>> = Done(Top.id, Top.at - 1)
    BY <1>3, ConcatEmptySeq
<1> QED
    BY <1>2, <1>4

LEMMA SkipLineStep == TreeInv /\ SkipLine => TreeInv'
<1> SUFFICES ASSUME TreeInv, SkipLine PROVE TreeInv'
    OBVIOUS
<1>1. AtLine /\ ~ConditionPanics(Top.id, Line) /\ ~Permits(Top.id, Line) /\ Proceed(Top.out)
    BY DEF SkipLine
<1>2. Line = LineOf(Top.id, Top.at)
    BY <1>1, AtALine
<1>3. Right(Top.id, Top.at)
    BY <1>1, <1>2, WrongKinds DEF Right, Leads
<1>4. LineMeans(Contributes, Top.id, Top.at) = <<>>
    BY <1>1, <1>2, LineKinds
<1>5. /\ Top.out \in Seq(Entry)
      /\ Means(Top.out, Done(Top.id, Top.at - 1) \o LineMeans(Contributes, Top.id, Top.at))
    BY <1>1, <1>4, NothingMore
<1> QED
    BY <1>1, <1>3, <1>5, LineDone

LEMMA LineIsWrongStep == TreeInv /\ LineIsWrong => TreeInv'
<1> SUFFICES ASSUME TreeInv, LineIsWrong PROVE TreeInv'
    OBVIOUS
<1>1. /\ AtLine /\ Panic
      /\ ConditionPanics(Top.id, Line) \/ (Permits(Top.id, Line) /\ BlockType(Line) = "error")
    BY DEF LineIsWrong
<1>2. Line = LineOf(Top.id, Top.at)
    BY <1>1, AtALine
<1>3. IsWrong(Top.id, Top.at)
    BY <1>1, <1>2, WrongKinds
<1> QED
    BY <1>1, <1>3, LineWrong DEF Right

LEMMA IncludeStep == TreeInv /\ Include => TreeInv'
<1> SUFFICES ASSUME TreeInv, Include PROVE TreeInv'
    OBVIOUS
<1> DEFINE i == Top.id
           n == Top.at
           to == GetInclusion(Line).id
<1>1. AtLine /\ Permits(i, Line) /\ BlockType(Line) = "inclusion"
    BY DEF Include, Passed
<1>2. Line = LineOf(i, n) /\ Line \in Seq(Token)
    BY <1>1, AtALine
<1>3. Target(i, n) = to /\ (Leads(i, n) <=> to \in DOMAIN states)
    BY <1>1, <1>2 DEF Target, Leads
<1>4. IsWrong(i, n) <=> ~Leads(i, n) /\ to \notin optional
    BY <1>1, <1>2, <1>3, WrongKinds
<1>5. CASE to \in DOMAIN states
  <2>1. Call(to)
      BY <1>5 DEF Include
  <2> QED
      BY <1>1, <1>3, <1>5, <2>1, LineCalls
<1>6. CASE to \notin DOMAIN states /\ to \in optional
  <2>1. Proceed(Top.out)
      BY <1>6 DEF Include
  <2>2. Right(i, n)
      BY <1>3, <1>4, <1>6 DEF Right
  <2>3. LineMeans(Contributes, i, n) = <<>>
    <3>1. From(Contributes, i, n) = <<>>
        BY <1>3, <1>6 DEF From
    <3>2. LineMeans(Contributes, i, n) =
            IF GetInclusion(Line).blocks = <<>> THEN From(Contributes, i, n)
            ELSE Chosen(From(Contributes, i, n), GetInclusion(Line).blocks)
        BY <1>1, <1>2, LineKinds
    <3>3. Chosen(<<>>, GetInclusion(Line).blocks) = <<>>
        BY <1>2, ReferenceTypes, NothingChosen
    <3> QED
        BY <3>1, <3>2, <3>3
  <2>4. /\ Top.out \in Seq(Entry)
        /\ Means(Top.out, Done(i, n - 1) \o LineMeans(Contributes, i, n))
      BY <1>1, <2>3, NothingMore
  <2> QED
      BY <1>1, <2>1, <2>2, <2>4, LineDone
<1>7. CASE to \notin DOMAIN states /\ to \notin optional
  <2>1. Panic
      BY <1>7 DEF Include
  <2>2. ~Right(i, n)
      BY <1>3, <1>4, <1>7 DEF Right
  <2> QED
      BY <1>1, <2>1, <2>2, LineWrong
<1> QED
    BY <1>5, <1>6, <1>7

LEMMA DependStep == TreeInv /\ Depend => TreeInv'
<1> SUFFICES ASSUME TreeInv, Depend PROVE TreeInv'
    OBVIOUS
<1> DEFINE i == Top.id
           n == Top.at
           to == GetDependency(Line).id
<1>1. AtLine /\ Permits(i, Line) /\ BlockType(Line) = "dependency"
    BY DEF Depend, Passed
<1>2. Line = LineOf(i, n)
    BY <1>1, AtALine
<1>3. BlockType(Line) # "inclusion"
    BY <1>1
<1>4. Target(i, n) = to /\ (Leads(i, n) <=> IsDependency(Line) /\ to \in DOMAIN states)
    BY <1>1, <1>2, <1>3 DEF Target, Leads
<1>5. CASE IsDependency(Line) /\ to \in DOMAIN states
  <2>1. Call(to)
      BY <1>5 DEF Depend
  <2> QED
      BY <1>1, <1>4, <1>5, <2>1, LineCalls
<1>6. CASE ~(IsDependency(Line) /\ to \in DOMAIN states)
  <2>1. Panic
      BY <1>6 DEF Depend
  <2>2. IsWrong(i, n)
      BY <1>1, <1>2, <1>4, <1>6, WrongKinds
  <2> QED
      BY <1>1, <2>1, <2>2, LineWrong DEF Right
<1> QED
    BY <1>5, <1>6

LEMMA TakeBlockStep == TreeInv /\ TakeBlock => TreeInv'
<1> SUFFICES ASSUME TreeInv, TakeBlock PROVE TreeInv'
    OBVIOUS
<1> DEFINE i == Top.id
           n == Top.at
           k == ToCDLKey(Line)
           v == CompileBlock(i, Body)
<1>1. AtLine /\ Permits(i, Line) /\ BlockType(Line) \in {"plain", "loop"}
    BY DEF TakeBlock, Passed
<1>2. /\ ProgramInv /\ FrameInv(Top) /\ i \in DOMAIN states
      /\ Line = LineOf(i, n) /\ Body = BodyOf(i, n)
      /\ Line \in Seq(Token) /\ Body \in Seq(Seq(ModuleCall))
    BY <1>1, AtALine
<1>3. IsWrong(i, n) <=> BlockPanics(i, Body)
    BY <1>1, <1>2, WrongKinds
<1>4. CASE BlockPanics(i, Body)
  <2>1. Panic
      BY <1>4 DEF TakeBlock
  <2> QED
      BY <1>1, <1>3, <1>4, <2>1, LineWrong DEF Right
<1>5. CASE ~BlockPanics(i, Body)
  <2>1. Proceed(OSet(Top.out, k, v))
      BY <1>5 DEF TakeBlock
  <2>2. ~Leads(i, n)
      BY <1>1, <1>2 DEF Leads
  <2>3. Right(i, n)
      BY <1>3, <1>5, <2>2 DEF Right
  <2>4. LineMeans(Contributes, i, n) = <<[key |-> k, val |-> v]>>
    <3>1. BlockType(Line) \notin {"inclusion", "dependency"}
        BY <1>1
    <3> QED
        BY <1>1, <1>2, <3>1, LineKinds
  <2>5. k \in KeyNames /\ v \in Bodies
      BY <1>2, <1>5, ReferenceTypes, CompiledType
  <2>6. Top.out \in Seq(Entry) /\ Done(i, n - 1) \in Seq(Entry) /\ Means(Top.out, Done(i, n - 1))
      BY <1>2, DoneType DEF FrameInv
  <2> HIDE DEF k, v
  <2>7. /\ OSet(Top.out, k, v) \in Seq(Entry)
        /\ Means(OSet(Top.out, k, v), Done(i, n - 1) \o <<[key |-> k, val |-> v]>>)
      BY <2>5, <2>6, OSetMeans
  <2>8. Means(OSet(Top.out, k, v), Done(i, n - 1) \o LineMeans(Contributes, i, n))
      BY <2>4, <2>7
  <2> QED
      BY <1>1, <2>1, <2>3, <2>7, <2>8, LineDone
<1> QED
    BY <1>4, <1>5

\* The call that is over, and the line of the outer one that asked for it
LEMMA AtReturn ==
    ASSUME TreeInv, status = "compiling", Len(stack) > 1, Top.at > Len(states[Top.id].lines),
           NEW outer, outer = stack[2]
    PROVE  /\ ProgramInv /\ StackInv(stack)
           /\ Top.id \in Sound /\ Top.out \in Seq(Entry)
           /\ Contributes[Top.id] \in Seq(Entry) /\ Means(Top.out, Contributes[Top.id])
           /\ outer \in Frames /\ FrameInv(outer) /\ outer.id \in DOMAIN states
           /\ outer.at \in 1..Len(states[outer.id].lines)
           /\ Leads(outer.id, outer.at) /\ Target(outer.id, outer.at) = Top.id
           /\ From(Contributes, outer.id, outer.at) = Contributes[Top.id]
           /\ LineOf(outer.id, outer.at) \in Seq(Token)
           /\ BodyOf(outer.id, outer.at) \in Seq(Seq(ModuleCall))
<1>1. ProgramInv /\ StackInv(stack)
    BY DEF TreeInv
<1>2. /\ Top \in Frames /\ FrameInv(Top)
      /\ outer \in Frames /\ FrameInv(outer) /\ outer.id \in DOMAIN states
      /\ Waits(outer, Top)
  <2>1. /\ Len(stack) \in Nat
        /\ \A m \in 1..Len(stack) : /\ stack[m] \in Frames /\ FrameInv(stack[m])
                                     /\ stack[m].id \in DOMAIN states
        /\ \A m \in 1..(Len(stack) - 1) : Waits(stack[m + 1], stack[m])
      BY <1>1, StackParts
  <2>2. 1 \in 1..Len(stack) /\ 2 \in 1..Len(stack) /\ 1 \in 1..(Len(stack) - 1) /\ 1 + 1 = 2
      BY <2>1
  <2>3. Waits(stack[2], stack[1])
      BY <2>1, <2>2
  <2> QED
      BY <2>1, <2>2, <2>3 DEF Top
<1>3. Top.id \in Sound /\ Means(Top.out, Contributes[Top.id]) /\ Contributes[Top.id] \in Seq(Entry)
    BY <1>1, <1>2, FrameThrough
<1>4. Top.out \in Seq(Entry)
    BY <1>2 DEF FrameInv
<1>5. /\ outer.at \in 1..Len(states[outer.id].lines)
      /\ Leads(outer.id, outer.at) /\ Target(outer.id, outer.at) = Top.id
    BY <1>2 DEF Waits
<1>6. From(Contributes, outer.id, outer.at) = Contributes[Top.id]
    BY <1>5 DEF From
<1> QED
    BY <1>1, <1>2, <1>3, <1>4, <1>5, <1>6, LineParts

LEMMA Resumes ==
    ASSUME TreeInv, status = "compiling", Len(stack) > 1, Top.at > Len(states[Top.id].lines),
           NEW outer, outer = stack[2], Right(outer.id, outer.at), NEW out \in Seq(Entry),
           Means(out, Done(outer.id, outer.at - 1) \o LineMeans(Contributes, outer.id, outer.at)),
           stack' = <<[outer EXCEPT !.at = @ + 1, !.out = out]>> \o Tail(Tail(stack)),
           UNCHANGED <<program, built, tree, status, calls>>
    PROVE  TreeInv'
<1> DEFINE q == [outer EXCEPT !.at = @ + 1, !.out = out]
<1>1. /\ ProgramInv /\ StackInv(stack) /\ outer \in Frames /\ FrameInv(outer)
      /\ outer.at \in 1..Len(states[outer.id].lines)
    BY AtReturn
<1>2. q \in Frames /\ FrameInv(q) /\ q.id = outer.id
    BY <1>1, FrameMoves
<1>3. stack' = <<q>> \o Tail(Tail(stack))
    OBVIOUS
<1> HIDE DEF q
<1>4. StackInv(Tail(stack)) /\ Tail(stack)[1] = outer
    BY <1>1, TopReturns
<1>5. Tail(stack) \in Seq(Frames) /\ Tail(stack) # <<>>
    BY <1>4 DEF StackInv
<1>6. stack' = [Tail(stack) EXCEPT ![1] = q]
  <2> DEFINE u == Tail(stack)
  <2> HIDE DEF u
  <2>1. u \in Seq(Frames) /\ u # <<>> /\ stack' = <<q>> \o Tail(u)
      BY <1>3, <1>5 DEF u
  <2>2. q \in Frames
      BY <1>2
  <2>3. <<q>> \o Tail(u) = [u EXCEPT ![1] = q]
      BY <2>1, <2>2, NewHead
  <2>4. stack' = [u EXCEPT ![1] = q]
      BY <2>1, <2>3
  <2> QED
      BY <2>4 DEF u
<1>7. StackInv([Tail(stack) EXCEPT ![1] = q])
    BY <1>2, <1>4, TopMoves
<1>8. StackInv(stack')
    BY <1>6, <1>7
<1> QED
    BY <1>8, GoesOn

LEMMA ReturnStep == TreeInv /\ Return => TreeInv'
<1> SUFFICES ASSUME TreeInv, Return PROVE TreeInv'
    OBVIOUS
<1>1. PICK outer : outer = stack[2]
    OBVIOUS
<1> DEFINE i == outer.id
           n == outer.at
           line == LineOf(i, n)
           body == BodyOf(i, n)
           ds == Contributes[Top.id]
           resume(out) == /\ stack' = <<[outer EXCEPT !.at = @ + 1, !.out = out]>>
                                        \o Tail(Tail(stack))
                          /\ UNCHANGED <<program, built, tree, status, calls>>
<1>2. status = "compiling" /\ Len(stack) > 1 /\ Top.at > Len(states[Top.id].lines)
    BY DEF Return
<1>3. IF BlockType(line) = "inclusion"
      THEN resume(Merge(outer.out, Top.out, GetInclusion(line).blocks))
      ELSE IF body = <<>>
           THEN Panic
           ELSE resume(OSet(outer.out, GetDependency(line).anchor,
                            DependencyBody(RawBlock(body), Top.out, GetDependency(line).blocks)))
    BY <1>1 DEF Return, LineOf, BodyOf
<1> HIDE DEF resume
<1>4. /\ ProgramInv /\ StackInv(stack) /\ Top.id \in Sound /\ Top.out \in Seq(Entry)
      /\ ds \in Seq(Entry) /\ Means(Top.out, ds)
      /\ outer \in Frames /\ FrameInv(outer) /\ i \in DOMAIN states
      /\ n \in 1..Len(states[i].lines) /\ Leads(i, n) /\ Target(i, n) = Top.id
      /\ From(Contributes, i, n) = ds
      /\ line \in Seq(Token) /\ body \in Seq(Seq(ModuleCall))
    BY <1>1, <1>2, AtReturn
<1>5. /\ outer.out \in Seq(Entry) /\ Done(i, n - 1) \in Seq(Entry)
      /\ Means(outer.out, Done(i, n - 1))
    BY <1>4, DoneType DEF FrameInv
<1>6. /\ Permits(i, line)
      /\ BlockType(line) # "inclusion" => BlockType(line) = "dependency" /\ IsDependency(line)
    BY <1>4 DEF Leads
<1> HIDE DEF line, body, ds
<1>7. CASE BlockType(line) = "inclusion"
  <2> DEFINE blocks == GetInclusion(line).blocks
             out == Merge(outer.out, Top.out, blocks)
  <2>1. resume(out)
      BY <1>3, <1>7
  <2>2. Right(i, n)
      BY <1>4, <1>6, <1>7, WrongKinds DEF Right, line
  <2>3. blocks \in Seq(BlockNames)
      BY <1>4, ReferenceTypes
  <2>4. LineMeans(Contributes, i, n) = IF blocks = <<>> THEN ds ELSE Chosen(ds, blocks)
      BY <1>4, <1>6, <1>7, LineKinds DEF line
  <2> HIDE DEF blocks
  <2>5. /\ out \in Seq(Entry)
        /\ Means(out, Done(i, n - 1) \o (IF blocks = <<>> THEN ds ELSE Chosen(ds, blocks)))
      BY <1>4, <1>5, <2>3, MergeMeans
  <2>6. Means(out, Done(i, n - 1) \o LineMeans(Contributes, i, n))
      BY <2>4, <2>5
  <2> HIDE DEF out
  <2> QED
      BY <1>1, <1>2, <2>1, <2>2, <2>5, <2>6, Resumes DEF resume
<1>8. CASE BlockType(line) # "inclusion" /\ body = <<>>
  <2>1. Panic
      BY <1>3, <1>8
  <2>2. IsWrong(i, n)
      BY <1>6, <1>8, WrongKinds DEF line, body
  <2>3. n \in DOMAIN states[i].lines
      BY <1>4, LineParts
  <2>4. i \notin Sound
      BY <1>4, <2>2, <2>3, SoundStates DEF Right
  <2>5. rootStateId \notin Sound
    <3>1. 2 \in 1..Len(stack) /\ stack[2].id \notin Sound
        BY <1>1, <1>2, <1>4, <2>4, StackParts
    <3> QED
        BY <1>4, <3>1, WrongAllTheWay
  <2>6. program' = program /\ built' = built /\ tree' = tree /\ status' = "panicked"
      BY <2>1 DEF Panic, program
  <2> QED
      BY <2>5, <2>6, Stops
<1>9. CASE BlockType(line) # "inclusion" /\ body # <<>>
  <2> DEFINE dep == GetDependency(line)
             own == RawBlock(body)
             v == JobBody(own, ds, dep.blocks)
             out == OSet(outer.out, dep.anchor, v)
  <2>1. BlockType(line) = "dependency" /\ IsDependency(line)
      BY <1>6, <1>9
  <2>2. dep.blocks \in Seq(BlockNames) /\ dep.anchor \in KeyNames /\ own \in Bodies
      BY <1>4, <2>1, ReferenceTypes, RawType
  <2>3. v \in Bodies /\ DependencyBody(own, Top.out, dep.blocks) = v
      BY <1>4, <2>2, JobBodies
  <2>4. resume(out)
      BY <1>3, <1>9, <2>3
  <2>5. Right(i, n)
      BY <1>4, <1>6, <1>9, <2>1, WrongKinds DEF Right, line, body
  <2>6. LineMeans(Contributes, i, n) = <<[key |-> dep.anchor, val |-> v]>>
      BY <1>4, <1>6, <2>1, LineKinds DEF line, body
  <2> HIDE DEF v, dep
  <2>7. out \in Seq(Entry) /\ Means(out, Done(i, n - 1) \o <<[key |-> dep.anchor, val |-> v]>>)
      BY <1>5, <2>2, <2>3, OSetMeans
  <2>8. Means(out, Done(i, n - 1) \o LineMeans(Contributes, i, n))
      BY <2>6, <2>7
  <2> HIDE DEF out
  <2> QED
      BY <1>1, <1>2, <2>4, <2>5, <2>7, <2>8, Resumes DEF resume
<1> QED
    BY <1>7, <1>8, <1>9

LEMMA StartCompileStep == TreeInv /\ StartCompile => TreeInv'
<1> SUFFICES ASSUME TreeInv, StartCompile PROVE TreeInv'
    OBVIOUS
<1>1. /\ ProgramInv /\ rootStateId \in DOMAIN states /\ built' = "header"
      /\ program' = program /\ tree' = tree
    BY DEF StartCompile, TreeInv, program
<1>2. CASE ~described
    BY <1>1, <1>2, Stops DEF StartCompile
<1>3. CASE described
  <2>1. stack' = <<Frame(rootStateId)>> /\ status' = "compiling"
      BY <1>3 DEF StartCompile
  <2> DEFINE q == Frame(rootStateId)
  <2>2. q \in Frames /\ FrameInv(q)
      BY <1>1, NewFrame
  <2>3. q.id = rootStateId
      BY DEF Frame
  <2> HIDE DEF q
  <2>4. StackInv(<<q>>)
    <3>1. <<q>> \in Seq(Frames) /\ Len(<<q>>) = 1 /\ <<q>>[1] = q /\ <<q>> # <<>>
        BY <2>2
    <3>2. \A m \in 1..Len(<<q>>) : m = 1
        BY <3>1
    <3>3. \A m \in 1..(Len(<<q>>) - 1) : FALSE
        BY <3>1
    <3> QED
        BY <2>2, <2>3, <3>1, <3>2, <3>3 DEF StackInv
  <2>5. ProgramInv' /\ StackInv(stack)'
    <3>1. StackInv(stack')
        BY <2>1, <2>4 DEF q
    <3> QED
        BY <1>1, <3>1, SameProgram
  <2> QED
      BY <1>1, <2>1, <2>5 DEF TreeInv
<1> QED
    BY <1>2, <1>3

LEMMA NoRootStep == TreeInv /\ NoRoot => TreeInv'
<1> SUFFICES ASSUME TreeInv, NoRoot PROVE TreeInv'
    OBVIOUS
<1>1. /\ rootStateId \notin DOMAIN states /\ program' = program /\ built' = built
      /\ tree' = tree /\ status' = "panicked"
    BY DEF NoRoot, Panic, program
<1>2. rootStateId \notin Sound
    BY <1>1, SoundIsLeast
<1> QED
    BY <1>1, <1>2, Stops

LEMMA FinishCompileStep == TreeInv /\ FinishCompile => TreeInv'
<1> SUFFICES ASSUME TreeInv, FinishCompile PROVE TreeInv'
    OBVIOUS
<1>1. /\ status = "compiling" /\ Len(stack) = 1 /\ Top.at > Len(states[Top.id].lines)
      /\ tree' = Top.out /\ built' = "whole" /\ status' = "done" /\ program' = program
    BY DEF FinishCompile, program
<1>2. ProgramInv /\ StackInv(stack)
    BY <1>1 DEF TreeInv
<1>3. Top \in Frames /\ FrameInv(Top)
    BY <1>2, StackParts DEF Top
<1>4. Top.id = rootStateId
    BY <1>1, <1>2 DEF StackInv, Top
<1>5. /\ rootStateId \in Sound /\ Means(Top.out, Contributes[rootStateId])
      /\ Top.out \in Seq(Entry)
    BY <1>1, <1>2, <1>3, <1>4, FrameThrough DEF FrameInv
<1>6. ProgramInv' /\ Sound' = Sound /\ Contributes' = Contributes /\ rootStateId' = rootStateId
    BY <1>1, <1>2, SameProgram DEF program
<1>7. (/\ tree \in Seq(Entry) /\ rootStateId \in Sound
       /\ Means(tree, Contributes[rootStateId]))'
    BY <1>1, <1>5, <1>6
<1> QED
    BY <1>1, <1>6, <1>7 DEF TreeInv

LEMMA TreeInvStep == TreeInv /\ [TreeStep \/ CallAgain]_treeVars => TreeInv'
<1> SUFFICES ASSUME TreeInv, [TreeStep \/ CallAgain]_treeVars PROVE TreeInv'
    OBVIOUS
<1>1. CASE StartCompile
    BY <1>1, StartCompileStep
<1>2. CASE NoRoot
    BY <1>2, NoRootStep
<1>3. CASE SkipLine
    BY <1>3, SkipLineStep
<1>4. CASE LineIsWrong
    BY <1>4, LineIsWrongStep
<1>5. CASE Include
    BY <1>5, IncludeStep
<1>6. CASE Depend
    BY <1>6, DependStep
<1>7. CASE TakeBlock
    BY <1>7, TakeBlockStep
<1>8. CASE Return
    BY <1>8, ReturnStep
<1>9. CASE FinishCompile
    BY <1>9, FinishCompileStep
<1>10. CASE ReturnTree
    BY <1>10, Stops DEF ReturnTree
<1>11. CASE CallAgain
    BY <1>11, Stops DEF CallAgain
<1>12. CASE UNCHANGED treeVars
  <2>1. /\ program' = program /\ built' = built /\ tree' = tree /\ status' = status
        /\ stack' = stack
      BY <1>12 DEF treeVars
  <2>2. CASE status = "compiling"
      BY <2>1, <2>2, GoesOn DEF TreeInv
  <2>3. CASE status # "compiling"
      BY <2>1, <2>3, Stops DEF TreeInv
  <2> QED
      BY <2>2, <2>3
<1> QED
    BY <1>1, <1>2, <1>3, <1>4, <1>5, <1>6, <1>7, <1>8, <1>9, <1>10, <1>11, <1>12 DEF TreeStep

LEMMA TreeInvInit == TreeInit => TreeInv
<1> SUFFICES ASSUME TreeInit PROVE TreeInv
    OBVIOUS
<1>1. PICK p \in Programs : states = p.states /\ threads = p.threads
    BY DEF TreeInit
<1>2. ProgramInv
    BY <1>1, ProgramsAssumption DEF ProgramInv
<1>3. built = "nil" /\ status = "called"
    BY DEF TreeInit
<1> QED
    BY <1>2, <1>3 DEF TreeInv

\* Whatever was loaded: a tree that Tree() comes back with is what its states
\* mean, and it panics only where something that is reached is wrong.
THEOREM TreeIsWhatItMeans == NanoSpec => []TreeIsMeaning
<1>1. NanoInit => TreeInv
    BY TreeInvInit DEF NanoInit
<1>2. TreeInv /\ [Step \/ Again]_<<treeVars, nanoVars>> => TreeInv'
  <2> SUFFICES ASSUME TreeInv, [Step \/ Again]_<<treeVars, nanoVars>> PROVE TreeInv'
      OBVIOUS
  <2>1. [TreeStep \/ CallAgain]_treeVars
      BY DEF Step, Again, NanoStep, StartLoad, LoadPanics, LoadNextGroup, FinishLoad
  <2> QED
      BY <2>1, TreeInvStep
<1>3. TreeInv => TreeIsMeaning
    BY DEF TreeInv, TreeIsMeaning
<1> QED
    BY <1>1, <1>2, <1>3, PTL DEF NanoSpec
-----------------------------------------------------------------------------
(* The groups *)

\* Whatever a map picks, a group has one module for each item that names any.
LEMMA GroupNames ==
    ASSUME NEW body \in Bodies, NEW group \in LoadGroup(body)
    PROVE  /\ group \in Seq(ModuleNames)
           /\ DOMAIN group = DOMAIN Naming(body)
           /\ \A k \in DOMAIN Naming(body) :
                group[k] \in {Naming(body)[k][i] : i \in DOMAIN Naming(body)[k]}
<1> DEFINE Items == Seq(ModuleNames)
           Picked == {pair \in ModuleNames \X Items :
                        \E i \in DOMAIN pair[2] : pair[1] = pair[2][i]}
           q == [n \in DOMAIN body |-> IF body[n] = <<>> THEN <<>> ELSE <<body[n]>>]
<1>1. Len(body) \in Nat /\ DOMAIN body = 1..Len(body) /\ \A n \in 1..Len(body) : body[n] \in Items
    BY LenProperties, ElementOfSeq DEF Bodies
<1>2. PICK p : /\ DOMAIN p = DOMAIN body /\ p = [n \in DOMAIN body |-> p[n]]
               /\ \A n \in DOMAIN body : p[n] \in ModuleOf(body[n])
               /\ group = FlattenSeq(p)
    BY DEF LoadGroup
<1>3. Naming(body) = FlattenSeq(q)
    BY DEF Naming
<1>4. ASSUME NEW n \in 1..Len(body)
      PROVE  /\ p[n] \in Seq(ModuleNames) /\ q[n] \in Seq(Items) /\ Len(p[n]) = Len(q[n])
             /\ \A k \in 1..Len(p[n]) : <<p[n][k], q[n][k]>> \in Picked
  <2>1. body[n] \in Items /\ p[n] \in ModuleOf(body[n])
      BY <1>1, <1>2
  <2>2. CASE body[n] = <<>>
    <3>1. p[n] = <<>>
        BY <2>1, <2>2 DEF ModuleOf
    <3>2. q[n] = <<>>
        BY <1>1, <2>2
    <3>3. <<>> \in Seq(ModuleNames) /\ <<>> \in Seq(Items) /\ Len(<<>>) = 0
        BY EmptySeq
    <3> HIDE DEF q
    <3> QED
        BY <3>1, <3>2, <3>3
  <2>3. CASE body[n] # <<>>
    <3>1. PICK i \in DOMAIN body[n] : p[n] = <<body[n][i]>>
        BY <2>1, <2>3 DEF ModuleOf
    <3>2. q[n] = <<body[n]>>
        BY <1>1, <2>3
    <3>3. body[n][i] \in ModuleNames
        BY <2>1, LenProperties, ElementOfSeq
    <3> DEFINE x == body[n][i]
               item == body[n]
    <3>4. x \in ModuleNames /\ item \in Items /\ <<x, item>> \in Picked
        BY <2>1, <3>1, <3>3
    <3>5. p[n] = <<x>> /\ q[n] = <<item>>
        BY <3>1, <3>2
    <3> HIDE DEF x, item, q, Picked, Items
    <3>6. <<x>> \in Seq(ModuleNames) /\ <<item>> \in Seq(Items)
        BY <3>4, OneElement
    <3>7. Len(<<x>>) = 1 /\ Len(<<item>>) = 1 /\ <<x>>[1] = x /\ <<item>>[1] = item
        OBVIOUS
    <3>8. \A k \in 1..1 : k = 1
        OBVIOUS
    <3> QED
        BY <3>4, <3>5, <3>6, <3>7, <3>8
  <2> QED
      BY <2>2, <2>3
<1> HIDE DEF Picked
<1>5. p \in Seq(Seq(ModuleNames)) /\ Len(p) = Len(body)
  <2>1. p \in [1..Len(body) -> Seq(ModuleNames)]
      BY <1>1, <1>2, <1>4
  <2> QED
      BY <1>1, <2>1, FunctionIsSeq
<1>6. q \in Seq(Seq(Items)) /\ Len(q) = Len(body)
  <2>1. DOMAIN q = 1..Len(body) /\ q = [n \in 1..Len(body) |-> q[n]]
      BY <1>1
  <2> HIDE DEF q, Items
  <2>2. q \in [1..Len(body) -> Seq(Items)]
      BY <1>4, <2>1
  <2> QED
      BY <1>1, <2>2, FunctionIsSeq
<1> HIDE DEF q, Items
<1> DEFINE fp == FlattenSeq(p)
           fq == FlattenSeq(q)
<1>7. Len(fp) = Len(fq) /\ \A k \in 1..Len(fp) : <<fp[k], fq[k]>> \in Picked
  <2>1. \A n \in 1..Len(p) : /\ Len(p[n]) = Len(q[n])
                             /\ \A k \in 1..Len(p[n]) : <<p[n][k], q[n][k]>> \in Picked
      BY <1>4, <1>5
  <2>2. Len(p) = Len(q)
      BY <1>5, <1>6
  <2> QED
      BY <1>5, <1>6, <2>1, <2>2, Pairwise
<1>8. fp \in Seq(ModuleNames) /\ fq \in Seq(Items)
    BY <1>5, <1>6, FlattenType
<1>9. DOMAIN fp = 1..Len(fp) /\ DOMAIN fq = 1..Len(fq)
    BY <1>8, LenProperties
<1> HIDE DEF fp, fq
<1>10. \A k \in 1..Len(fq) : \E i \in DOMAIN fq[k] : fp[k] = fq[k][i]
    BY <1>7 DEF Picked
<1>11. group = fp /\ Naming(body) = fq
    BY <1>2, <1>3 DEF fp, fq
<1> QED
    BY <1>7, <1>8, <1>9, <1>10, <1>11

\* Groups in the order of the index
InOrder(gs, index) ==
    FlattenSeq([n \in DOMAIN index |->
        FlattenSeq([k \in DOMAIN gs |-> IF gs[k].id = index[n] THEN <<gs[k]>> ELSE <<>>])])

LEMMA OneEach ==
    ASSUME NEW gs \in Seq(Groups), NEW index \in Seq(KeyNames),
           \A j, k \in 1..Len(gs) : gs[j].id = gs[k].id => j = k,
           \A n \in 1..Len(index) : \E k \in 1..Len(gs) : gs[k].id = index[n]
    PROVE  /\ InOrder(gs, index) \in Seq(Groups)
           /\ Len(InOrder(gs, index)) = Len(index)
           /\ \A n \in 1..Len(index) :
                /\ InOrder(gs, index)[n].id = index[n]
                /\ \E k \in 1..Len(gs) : InOrder(gs, index)[n] = gs[k]
<1> DEFINE Of(n) == CHOOSE k \in 1..Len(gs) : gs[k].id = index[n]
           t == [n \in 1..Len(index) |-> gs[Of(n)]]
<1>1. /\ Len(gs) \in Nat /\ DOMAIN gs = 1..Len(gs) /\ \A k \in 1..Len(gs) : gs[k] \in Groups
      /\ Len(index) \in Nat /\ DOMAIN index = 1..Len(index)
    BY LenProperties, ElementOfSeq
<1>2. \A n \in 1..Len(index) : Of(n) \in 1..Len(gs) /\ gs[Of(n)].id = index[n]
    OBVIOUS
<1> HIDE DEF Of
<1>3. t \in Seq(Groups) /\ Len(t) = Len(index) /\ \A n \in 1..Len(index) : t[n] = gs[Of(n)]
  <2>1. t \in [1..Len(index) -> Groups]
      BY <1>1, <1>2
  <2> QED
      BY <1>1, <2>1, FunctionIsSeq
<1> HIDE DEF t
<1>4. ASSUME NEW n \in 1..Len(index)
      PROVE  FlattenSeq([k \in DOMAIN gs |-> IF gs[k].id = index[n] THEN <<gs[k]>> ELSE <<>>])
               = <<t[n]>>
  <2> DEFINE s == [k \in DOMAIN gs |-> IF gs[k].id = index[n] THEN <<gs[k]>> ELSE <<>>]
             o == Of(n)
  <2>1. \A k \in 1..Len(gs) : <<gs[k]>> \in Seq(Groups)
      BY <1>1, OneElement
  <2>2. s \in Seq(Seq(Groups)) /\ Len(s) = Len(gs)
    <3>1. <<>> \in Seq(Groups)
        BY EmptySeq
    <3>2. s \in [1..Len(gs) -> Seq(Groups)]
        BY <1>1, <2>1, <3>1
    <3> QED
        BY <1>1, <3>2, FunctionIsSeq
  <2>3. o \in 1..Len(gs) /\ gs[o].id = index[n]
      BY <1>2
  <2> HIDE DEF o
  <2>4. \A k \in 1..Len(gs) : k # o => s[k] = <<>>
    <3> TAKE k \in 1..Len(gs)
    <3>1. k # o => gs[k].id # index[n]
        BY <2>3
    <3> QED
        BY <1>1, <3>1
  <2>5. s[o] = <<gs[o]>>
      BY <1>1, <2>3
  <2>6. t[n] = gs[o]
      BY <1>3 DEF o
  <2> HIDE DEF s
  <2>7. FlattenSeq(s) = s[o]
      BY <2>2, <2>3, <2>4, OnlyOne
  <2> QED
      BY <2>5, <2>6, <2>7 DEF s
<1>5. InOrder(gs, index) = FlattenSeq([n \in 1..Len(t) |-> <<t[n]>>])
  <2>1. [n \in DOMAIN index |->
           FlattenSeq([k \in DOMAIN gs |-> IF gs[k].id = index[n] THEN <<gs[k]>> ELSE <<>>])]
          = [n \in 1..Len(t) |-> <<t[n]>>]
      BY <1>1, <1>3, <1>4
  <2> QED
      BY <2>1 DEF InOrder
<1>6. InOrder(gs, index) = t
    BY <1>3, <1>5, Singles
<1> QED
    BY <1>2, <1>3, <1>6

\* What is in order stays so.
LEMMA InOrderAlready ==
    ASSUME NEW gs \in Seq(Groups), NEW index \in Seq(KeyNames), Len(gs) = Len(index),
           \A n \in 1..Len(gs) : gs[n].id = index[n],
           \A j, k \in 1..Len(index) : index[j] = index[k] => j = k
    PROVE  InOrder(gs, index) = gs
<1> DEFINE u == InOrder(gs, index)
<1>1. /\ u \in Seq(Groups) /\ Len(u) = Len(index)
      /\ \A n \in 1..Len(index) : u[n].id = index[n] /\ \E k \in 1..Len(gs) : u[n] = gs[k]
    BY OneEach
<1> HIDE DEF u
<1>2. \A n \in 1..Len(gs) : u[n] = gs[n]
  <2> TAKE n \in 1..Len(gs)
  <2>1. PICK k \in 1..Len(gs) : u[n] = gs[k]
      BY <1>1
  <2>2. index[k] = index[n]
      BY <1>1, <2>1
  <2> QED
      BY <2>1, <2>2
<1>3. gs \in [1..Len(gs) -> Groups] /\ u \in [1..Len(gs) -> Groups]
    BY <1>1, LenProperties
<1>4. u = gs
    BY <1>2, <1>3
<1> QED
    BY <1>4 DEF u

\* The compiled tree, once it is there
LEMMA WholeTree ==
    ASSUME TreeInv, built = "whole"
    PROVE  /\ tree \in Seq(Entry) /\ DOMAIN tree = 1..Len(tree) /\ Len(tree) \in Nat
           /\ \A k \in Keys(tree) : k \in KeyNames /\ OGet(tree, k) \in Bodies
           /\ \A n \in 1..Len(tree) : /\ tree[n].key \in KeyNames /\ tree[n].key \in Keys(tree)
                                       /\ tree[n].val \in Bodies
                                       /\ OGet(tree, tree[n].key) = tree[n].val
           /\ \A j, n \in 1..Len(tree) : tree[j].key = tree[n].key => j = n
<1>1. /\ tree \in Seq(Entry) /\ rootStateId \in Sound /\ Means(tree, Contributes[rootStateId])
      /\ ProgramInv
    BY DEF TreeInv
<1>2. Contributes[rootStateId] \in Seq(Entry)
    BY <1>1, ContributesType
<1>3. /\ \A k \in Keys(tree) : OGet(tree, k) \in Bodies
      /\ \A n \in 1..Len(tree) : OGet(tree, tree[n].key) = tree[n].val
      /\ \A j, n \in 1..Len(tree) : tree[j].key = tree[n].key => j = n
    BY <1>1, <1>2, OGetMeans
<1>4. Len(tree) \in Nat /\ DOMAIN tree = 1..Len(tree) /\ \A n \in 1..Len(tree) : tree[n] \in Entry
    BY <1>1, LenProperties, ElementOfSeq
<1>5. \A e \in Entry : e.key \in KeyNames /\ e.val \in Bodies
    BY DEF Entry
<1>6. \A n \in 1..Len(tree) : tree[n].key \in Keys(tree)
    BY <1>4 DEF Keys
<1>7. \A k \in Keys(tree) : k \in KeyNames
    BY <1>4, <1>5 DEF Keys
<1> QED
    BY <1>1, <1>3, <1>4, <1>5, <1>6, <1>7

LEMMA KeyedGroups ==
    ASSUME NEW cs \in Seq(Entry)
    PROVE  /\ Keys(cs) = {cs[n].key : n \in 1..Len(cs)}
           /\ [n \in DOMAIN cs |-> cs[n].key] \in Seq(KeyNames)
           /\ Len([n \in DOMAIN cs |-> cs[n].key]) = Len(cs)
<1>1. Len(cs) \in Nat /\ DOMAIN cs = 1..Len(cs) /\ \A n \in 1..Len(cs) : cs[n] \in Entry
    BY LenProperties, ElementOfSeq
<1>2. \A e \in Entry : e.key \in KeyNames
    BY DEF Entry
<1>3. [n \in DOMAIN cs |-> cs[n].key] \in [1..Len(cs) -> KeyNames]
    BY <1>1, <1>2
<1>4. Keys(cs) = {cs[n].key : n \in 1..Len(cs)}
    BY <1>1 DEF Keys
<1> QED
    BY <1>1, <1>3, <1>4, FunctionIsSeq

\* The loading begins with no group and every key to come.
LEMMA StartLoadKeeps ==
    ASSUME NanoInv, TreeInv, StartLoad
    PROVE  NanoInv'
<1>1. /\ nano' = "loading" /\ status' = "done" /\ built' = "whole" /\ tree' = tree
      /\ groupIndex' = [n \in DOMAIN tree |-> tree[n].key]
      /\ groups' = <<>> /\ todo' = Keys(tree)
    BY DEF StartLoad, treeVars
<1>2. groups' \in Seq(Groups) /\ DOMAIN groups' = {}
    BY <1>1, EmptySeq
<1>3. Keys(tree') = Keys(tree)
    BY <1>1
<1>4. {groups'[n].id : n \in DOMAIN groups'} = Keys(tree') \ todo'
    BY <1>1, <1>2, <1>3
<1>5. /\ \A n \in DOMAIN groups' : groups'[n].group \in LoadGroup(OGet(tree', groups'[n].id))
      /\ \A m, n \in DOMAIN groups' : groups'[m].id = groups'[n].id => m = n
    BY <1>2
<1>6. todo' \subseteq Keys(tree')
    BY <1>1, <1>3
<1> QED
    BY <1>1, <1>2, <1>4, <1>5, <1>6 DEF NanoInv

\* Each group comes once, as one of what its body may be loaded as.
LEMMA LoadNextGroupKeeps ==
    ASSUME NanoInv, TreeInv, LoadNextGroup
    PROVE  NanoInv'
<1>1. /\ status = "done" /\ built = "whole" /\ nano = "loading"
      /\ groupIndex = [n \in DOMAIN tree |-> tree[n].key]
      /\ groups \in Seq(Groups)
      /\ \A n \in DOMAIN groups : groups[n].group \in LoadGroup(OGet(tree, groups[n].id))
      /\ todo \subseteq Keys(tree)
      /\ {groups[n].id : n \in DOMAIN groups} = Keys(tree) \ todo
      /\ \A m, n \in DOMAIN groups : groups[m].id = groups[n].id => m = n
    BY DEF NanoInv, LoadNextGroup
<1>2. /\ status' = status /\ built' = built /\ tree' = tree /\ nano' = nano
      /\ groupIndex' = groupIndex
    BY DEF LoadNextGroup, treeVars
<1>3. PICK k \in todo : /\ todo' = todo \ {k}
                        /\ \E group \in LoadGroup(OGet(tree, k)) :
                             groups' = Append(groups, [id |-> k, group |-> group])
    BY DEF LoadNextGroup, LoadState
<1>4. PICK group \in LoadGroup(OGet(tree, k)) :
        groups' = Append(groups, [id |-> k, group |-> group])
    BY <1>3
<1> DEFINE new == [id |-> k, group |-> group]
<1>5. new \in Groups /\ new.id = k /\ new.group = group
  <2>1. k \in KeyNames /\ OGet(tree, k) \in Bodies
      BY <1>1, <1>3, WholeTree
  <2>2. group \in Seq(ModuleNames)
      BY <1>4, <2>1, GroupNames
  <2> QED
      BY <2>1, <2>2 DEF Groups
<1>6. groups' = Append(groups, new)
    BY <1>4
<1> HIDE DEF new
<1> DEFINE len == Len(groups)
<1>7. len \in Nat /\ DOMAIN groups = 1..len
    BY <1>1, LenProperties
<1>8. /\ groups' \in Seq(Groups) /\ DOMAIN groups' = 1..(len + 1)
      /\ groups'[len + 1] = new /\ \A n \in 1..len : groups'[n] = groups[n]
  <2>1. groups' \in Seq(Groups) /\ Len(groups') = len + 1
      BY <1>1, <1>5, <1>6, AppendProperties
  <2>2. groups'[len + 1] = new /\ \A n \in 1..len : groups'[n] = groups[n]
      BY <1>1, <1>5, <1>6, AppendProperties
  <2> QED
      BY <2>1, <2>2, LenProperties
<1> HIDE DEF len
<1>9. DOMAIN groups' = DOMAIN groups \cup {len + 1} /\ len + 1 \notin DOMAIN groups
    BY <1>7, <1>8
<1>10. \A n \in DOMAIN groups' : groups'[n].group \in LoadGroup(OGet(tree', groups'[n].id))
  <2> SUFFICES ASSUME NEW n \in DOMAIN groups'
               PROVE  groups'[n].group \in LoadGroup(OGet(tree, groups'[n].id))
      BY <1>2
  <2>1. CASE n \in DOMAIN groups
      BY <1>1, <1>7, <1>8, <2>1
  <2>2. CASE n = len + 1
      BY <1>4, <1>5, <1>8, <2>2
  <2> QED
      BY <1>9, <2>1, <2>2
<1>11. k \in Keys(tree) /\ \A n \in DOMAIN groups : groups[n].id # k
    BY <1>1, <1>3
<1>12. {groups'[n].id : n \in DOMAIN groups'} = {groups[n].id : n \in DOMAIN groups} \cup {k}
    BY <1>5, <1>7, <1>8, <1>9
<1>13. {groups'[n].id : n \in DOMAIN groups'} = Keys(tree') \ todo' /\ todo' \subseteq Keys(tree')
  <2>1. Keys(tree') = Keys(tree)
      BY <1>2
  <2> QED
      BY <1>1, <1>3, <1>11, <1>12, <2>1
<1>14. \A m, n \in DOMAIN groups' : groups'[m].id = groups'[n].id => m = n
  <2> SUFFICES ASSUME NEW i \in DOMAIN groups', NEW j \in DOMAIN groups',
                      groups'[i].id = groups'[j].id
               PROVE  i = j
      OBVIOUS
  <2>1. CASE i \in DOMAIN groups /\ j \in DOMAIN groups
      BY <1>1, <1>7, <1>8, <2>1
  <2>2. CASE i \in DOMAIN groups /\ j = len + 1
      BY <1>5, <1>7, <1>8, <1>11, <2>2
  <2>3. CASE i = len + 1 /\ j \in DOMAIN groups
      BY <1>5, <1>7, <1>8, <1>11, <2>3
  <2>4. CASE i = len + 1 /\ j = len + 1
      BY <2>4
  <2> QED
      BY <1>9, <2>1, <2>2, <2>3, <2>4
<1>15. groupIndex' = [n \in DOMAIN tree' |-> tree'[n].key]
    BY <1>1, <1>2
<1> QED
    BY <1>1, <1>2, <1>8, <1>10, <1>13, <1>14, <1>15 DEF NanoInv

\* In the end they stand in the order of the tree.
LEMMA FinishLoadKeeps ==
    ASSUME NanoInv, TreeInv, FinishLoad
    PROVE  NanoInv'
<1>1. /\ status = "done" /\ built = "whole" /\ nano = "loading" /\ todo = {}
      /\ groupIndex = [n \in DOMAIN tree |-> tree[n].key]
      /\ groups \in Seq(Groups)
      /\ \A n \in DOMAIN groups : groups[n].group \in LoadGroup(OGet(tree, groups[n].id))
      /\ {groups[n].id : n \in DOMAIN groups} = Keys(tree)
      /\ \A m, n \in DOMAIN groups : groups[m].id = groups[n].id => m = n
    BY DEF NanoInv, FinishLoad
<1>2. /\ status' = status /\ built' = built /\ tree' = tree /\ groupIndex' = groupIndex
      /\ nano' = "loaded" /\ groups' = OrderedGroups
    BY DEF FinishLoad, treeVars
<1>3. DOMAIN groups = 1..Len(groups) /\ tree \in Seq(Entry)
    BY <1>1, WholeTree, LenProperties
<1>4. /\ groupIndex \in Seq(KeyNames) /\ Len(groupIndex) = Len(tree)
      /\ DOMAIN tree = 1..Len(tree)
    BY <1>1, <1>3, KeyedGroups, LenProperties
<1>5. \A n \in 1..Len(groupIndex) : groupIndex[n] = tree[n].key
    BY <1>1, <1>4
<1>6. \A n \in 1..Len(groupIndex) : \E k \in 1..Len(groups) : groups[k].id = groupIndex[n]
  <2> TAKE n \in 1..Len(groupIndex)
  <2>1. groupIndex[n] \in Keys(tree)
      BY <1>4, <1>5 DEF Keys
  <2> QED
      BY <1>1, <1>3, <2>1
<1>7. \A j, k \in 1..Len(groupIndex) : groupIndex[j] = groupIndex[k] => j = k
    BY <1>1, <1>4, <1>5, WholeTree
<1>8. groups' = InOrder(groups, groupIndex)
    BY <1>2 DEF OrderedGroups, InOrder
<1>9. /\ groups' \in Seq(Groups) /\ Len(groups') = Len(groupIndex)
      /\ \A n \in 1..Len(groupIndex) : /\ groups'[n].id = groupIndex[n]
                                       /\ \E k \in 1..Len(groups) : groups'[n] = groups[k]
  <2> DEFINE u == InOrder(groups, groupIndex)
  <2>1. \A j, k \in 1..Len(groups) : groups[j].id = groups[k].id => j = k
      BY <1>1, <1>3
  <2>2. /\ u \in Seq(Groups) /\ Len(u) = Len(groupIndex)
        /\ \A n \in 1..Len(groupIndex) : /\ u[n].id = groupIndex[n]
                                         /\ \E k \in 1..Len(groups) : u[n] = groups[k]
      BY <1>1, <1>4, <1>6, <2>1, OneEach
  <2>3. groups' = u
      BY <1>8
  <2> HIDE DEF u
  <2> QED
      BY <2>2, <2>3
<1>10. DOMAIN groups' = 1..Len(groupIndex)
    BY <1>9, LenProperties
<1>11. \A n \in DOMAIN groups' : groups'[n].group \in LoadGroup(OGet(tree', groups'[n].id))
    BY <1>1, <1>2, <1>3, <1>9, <1>10
<1>12. OrderedGroups' = groups'
  <2>1. OrderedGroups' = InOrder(groups', groupIndex')
      BY DEF OrderedGroups, InOrder
  <2>2. InOrder(groups', groupIndex) = groups'
      BY <1>4, <1>7, <1>9, InOrderAlready
  <2> QED
      BY <1>2, <2>1, <2>2
<1>13. groupIndex' = [n \in DOMAIN tree' |-> tree'[n].key]
    BY <1>1, <1>2
<1>14. /\ Len(groups') = Len(groupIndex')
       /\ \A n \in DOMAIN groups' : groups'[n].id = groupIndex'[n]
    BY <1>2, <1>9, <1>10
<1> QED
    BY <1>1, <1>2, <1>9, <1>11, <1>12, <1>13, <1>14 DEF NanoInv

\* Nothing of the tree changes from the time its groups are loaded.
LEMMA NanoInvStep ==
    ASSUME NanoInv, TreeInv, [Step \/ Again]_<<treeVars, nanoVars>>
    PROVE  NanoInv'
<1>1. CASE nano = "new" /\ UNCHANGED nanoVars
    BY <1>1 DEF NanoInv, nanoVars
<1>2. CASE nano # "new" /\ TreeStep
  <2>1. status = "done"
      BY <1>2 DEF NanoInv
  <2> QED
      BY <1>2, <2>1 DEF TreeStep, StartCompile, NoRoot, SkipLine, LineIsWrong, Include, Depend,
                       TakeBlock, Return, FinishCompile, ReturnTree, Passed, AtLine
<1>3. CASE StartLoad
    BY <1>3, StartLoadKeeps
<1>4. CASE LoadPanics
    BY <1>4 DEF NanoInv, LoadPanics, treeVars
<1>5. CASE LoadNextGroup
    BY <1>5, LoadNextGroupKeeps
<1>6. CASE FinishLoad
    BY <1>6, FinishLoadKeeps
<1>7. CASE UNCHANGED <<treeVars, nanoVars>>
  <2>1. /\ nano' = nano /\ status' = status /\ built' = built /\ tree' = tree
        /\ groupIndex' = groupIndex /\ groups' = groups /\ todo' = todo
      BY <1>7 DEF treeVars, nanoVars
  <2>2. OrderedGroups' = OrderedGroups
      BY <2>1 DEF OrderedGroups
  <2> QED
      BY <2>1, <2>2 DEF NanoInv
<1> QED
    BY <1>1, <1>2, <1>3, <1>4, <1>5, <1>6, <1>7 DEF Step, Again, NanoStep

LEMMA NanoInvSays ==
    ASSUME NanoInv, TreeInv
    PROVE  GroupsAreTree
<1> SUFFICES ASSUME nano = "loaded"
             PROVE  /\ [n \in DOMAIN groups |-> groups[n].id] = [n \in DOMAIN tree |-> tree[n].key]
                    /\ OrderedGroups = groups
                    /\ \A n \in DOMAIN groups :
                         LET items == Naming(tree[n].val) IN
                         /\ DOMAIN groups[n].group = DOMAIN items
                         /\ \A k \in DOMAIN items :
                              groups[n].group[k] \in {items[k][i] : i \in DOMAIN items[k]}
    BY DEF GroupsAreTree
<1>1. /\ built = "whole" /\ groupIndex = [n \in DOMAIN tree |-> tree[n].key]
      /\ groups \in Seq(Groups) /\ Len(groups) = Len(groupIndex)
      /\ \A n \in DOMAIN groups : groups[n].group \in LoadGroup(OGet(tree, groups[n].id))
      /\ \A n \in DOMAIN groups : groups[n].id = groupIndex[n]
      /\ OrderedGroups = groups
    BY DEF NanoInv
<1>2. tree \in Seq(Entry) /\ DOMAIN tree = 1..Len(tree)
    BY <1>1, WholeTree
<1>3. DOMAIN groups = DOMAIN tree
    BY <1>1, <1>2, KeyedGroups, LenProperties
<1>4. \A n \in DOMAIN groups : groups[n].id = tree[n].key
    BY <1>1, <1>3
<1>5. ASSUME NEW n \in DOMAIN groups
      PROVE  groups[n].group \in LoadGroup(tree[n].val) /\ tree[n].val \in Bodies
    BY <1>1, <1>2, <1>3, <1>4, WholeTree
<1>6. \A n \in DOMAIN groups :
        /\ DOMAIN groups[n].group = DOMAIN Naming(tree[n].val)
        /\ \A k \in DOMAIN Naming(tree[n].val) :
             groups[n].group[k] \in {Naming(tree[n].val)[k][i] : i \in DOMAIN Naming(tree[n].val)[k]}
    BY <1>5, GroupNames
<1> QED
    BY <1>1, <1>3, <1>4, <1>6

\* Whatever was loaded, and in whatever order the maps give it: a loaded
\* nanostate has the groups of the compiled tree in their order, each the
\* modules its body names, and nobody changes them after.
THEOREM GroupsFollowTheTree == NanoSpec => []GroupsAreTree
<1>1. NanoInit => TreeInv /\ NanoInv
  <2> SUFFICES ASSUME NanoInit PROVE TreeInv /\ NanoInv
      OBVIOUS
  <2>1. TreeInv
      BY TreeInvInit DEF NanoInit
  <2>2. NanoInv
      BY DEF NanoInit, NanoInv
  <2> QED
      BY <2>1, <2>2
<1>2. TreeInv /\ NanoInv /\ [Step \/ Again]_<<treeVars, nanoVars>> => TreeInv' /\ NanoInv'
  <2> SUFFICES ASSUME TreeInv, NanoInv, [Step \/ Again]_<<treeVars, nanoVars>>
               PROVE  TreeInv' /\ NanoInv'
      OBVIOUS
  <2>1. [TreeStep \/ CallAgain]_treeVars
      BY DEF Step, Again, NanoStep, StartLoad, LoadPanics, LoadNextGroup, FinishLoad
  <2> QED
      BY <2>1, TreeInvStep, NanoInvStep
<1>3. TreeInv /\ NanoInv => GroupsAreTree
    BY NanoInvSays
<1> QED
    BY <1>1, <1>2, <1>3, PTL DEF NanoSpec
=============================================================================
