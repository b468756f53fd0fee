--------------------------- MODULE ObjectIterProofs ---------------------------
(***************************************************************************)
(* Proofs about ObjectIter, for every tree, every max_depth and every      *)
(* number of calls: type correctness, the safety invariants of the walk,   *)
(* and that it implements TreeWalk.                                        *)
(***************************************************************************)
EXTENDS ObjectIter, SequenceTheorems, WellFoundedInduction, TLAPS

-----------------------------------------------------------------------------
(* The inductive invariant.                                                *)

(* Between the readdir call and the end of the callback on one entry.      *)
InFlight == pc \in {"copy", "opendir", "push", "call"}

(* The place of a directory in the list is its depth below Root.           *)
ListInv ==
  /\ root.dir = Root /\ root.depth = 0 /\ root.abspath = NULL
  /\ root.rest \subseteq Stream(Root)
  /\ sz = Len(children)
  /\ \A i \in 1..Len(children) :
       /\ children[i].dir \in tree.dirs \ lost
       /\ children[i].depth = i
       /\ children[i].abspath = PathOf(children[i].dir)
       /\ Level(children[i].dir) = i
       /\ children[i].rest \subseteq Stream(children[i].dir)
       /\ \/ children[i].dir \in visited
          \/ pc = "call" /\ children[i].dir = entry

(* An entry that was read is new, and belongs to the directory read.       *)
FlightInv ==
  InFlight =>
    /\ entry \in Entry \ visited
    /\ target \in 0..Len(children)
    /\ tree.parent[entry] = IterDirAt(target).dir
    /\ entry \notin IterDirAt(target).rest
    /\ IF pc = "call"
       THEN Descended(entry) => entry \in OnList
       ELSE target = Len(children) /\ Descends(entry)

UnreadInv ==
  /\ \A i \in 0..Len(children) : IterDirAt(i).rest \cap visited = {}
  /\ \A d \in lost : d \in visited \/ (pc = "call" /\ d = entry)

VisitedInv == \A e \in visited : \A a \in Ancestors(e) : Descended(a)

(* Nothing is skipped: what a directory on its way still owes is unread or *)
(* in flight.                                                              *)
OwedInv ==
  pc \notin {"new", "freed"} =>
    \A e \in Entry \ visited :
      LET d == tree.parent[e] IN
      d \in {Root} \cup visited \cup OnList /\ Descended(d) =>
        \/ InFlight /\ e = entry
        \/ \E i \in 0..Len(children) :
             IterDirAt(i).dir = d /\ e \in IterDirAt(i).rest

ReturnInv ==
  /\ Exhausted => children = <<>> /\ root.rest = {}
  /\ pc = "new" =>
       /\ children = <<>> /\ root.rest = {} /\ rv = 1
       /\ visited = {} /\ lost = {}

IInv ==
  /\ TypeOK /\ ListInv /\ FlightInv /\ UnreadInv /\ VisitedInv /\ OwedInv
  /\ ReturnInv /\ PreOrder /\ DepthBounded /\ HeldExactly
-----------------------------------------------------------------------------
(* Trees.                                                                  *)

(* An entry is one level below the directory it is in, at the end of a     *)
(* path that continues the path of that directory.                         *)
LEMMA TreeFacts ==
  ASSUME tree \in Trees
  PROVE  /\ tree.dirs \subseteq Entry
         /\ PathOf(Root) = <<>> /\ Level(Root) = 0
         /\ \A e \in Entry :
              /\ tree.parent[e] \in tree.dirs \cup {Root}
              /\ PathOf(e) \in Seq(Entry)
              /\ PathOf(tree.parent[e]) \in Seq(Entry)
              /\ PathOf(e) = Append(PathOf(tree.parent[e]), e)
              /\ Level(tree.parent[e]) \in Nat
              /\ Level(e) = Level(tree.parent[e]) + 1
<1>1. IsTree(tree)
  BY TreesAssumption
<1>2. PathOf(Root) = <<>> /\ Level(Root) = 0
  BY DEF PathOf, PathIn, Level
<1>3. ASSUME NEW e \in Entry
      PROVE  /\ tree.parent[e] \in tree.dirs \cup {Root}
             /\ PathOf(e) \in Seq(Entry)
             /\ PathOf(tree.parent[e]) \in Seq(Entry)
             /\ PathOf(e) = Append(PathOf(tree.parent[e]), e)
             /\ Level(tree.parent[e]) \in Nat
             /\ Level(e) = Level(tree.parent[e]) + 1
  <2>1. tree.parent[e] \in tree.dirs \cup {Root} /\ tree.dirs \subseteq Entry
    BY <1>1 DEF IsTree
  <2>2. PathOf(e) = tree.path[e] /\ PathOf(e) \in Seq(Entry)
    BY <1>1, NamesAssumption DEF IsTree, PathOf, PathIn
  <2>3. PathOf(tree.parent[e]) \in Seq(Entry)
    BY <1>1, <2>1 DEF IsTree, PathOf, PathIn
  <2>4. PathOf(e) = Append(PathOf(tree.parent[e]), e)
    BY <1>1, <2>2 DEF IsTree, PathOf
  <2>5. Level(tree.parent[e]) \in Nat /\ Level(e) = Level(tree.parent[e]) + 1
    BY <2>3, <2>4, LenProperties, AppendProperties DEF Level
  <2> QED  BY <2>1, <2>2, <2>3, <2>4, <2>5
<1> QED  BY <1>1, <1>2, <1>3 DEF IsTree

(* The directories above an entry are the one it is in and those above it. *)
LEMMA AncestorsFact ==
  ASSUME tree \in Trees, NEW e \in Entry
  PROVE  Ancestors(e) = IF tree.parent[e] = Root THEN {}
                        ELSE Ancestors(tree.parent[e]) \cup {tree.parent[e]}
<1> DEFINE d == tree.parent[e]
<1>1. /\ PathOf(d) \in Seq(Entry)
      /\ PathOf(e) = Append(PathOf(d), e)
      /\ Level(d) \in Nat /\ Level(e) = Level(d) + 1
  BY TreeFacts
<1>2. \A i \in 1..Level(d) : PathOf(e)[i] = PathOf(d)[i]
  BY <1>1, AppendProperties DEF Level
<1>3. Ancestors(e) = {PathOf(d)[i] : i \in 1..Level(d)}
  <2>1. Level(e) - 1 = Level(d)
    BY <1>1
  <2>2. Ancestors(e) = {PathOf(e)[i] : i \in 1..Level(d)}
    BY <2>1 DEF Ancestors
  <2> HIDE DEF d
  <2> QED  BY <1>2, <2>2
<1>4. CASE d = Root
  <2>1. Level(d) = 0
    BY <1>4, TreeFacts
  <2> QED  BY <1>3, <1>4, <2>1
<1>5. CASE d # Root
  <2>1. d \in Entry
    BY <1>5, TreeFacts
  <2>2. /\ PathOf(d) = Append(PathOf(tree.parent[d]), d)
        /\ PathOf(tree.parent[d]) \in Seq(Entry)
        /\ Level(d) = Level(tree.parent[d]) + 1 /\ Level(tree.parent[d]) \in Nat
    BY <2>1, TreeFacts
  <2>3. PathOf(d)[Level(d)] = d
    BY <2>1, <2>2, AppendProperties DEF Level
  <2>4. {PathOf(d)[i] : i \in 1..Level(d)} = Ancestors(d) \cup {d}
    <3>1. 1..Level(d) = (1..(Level(d) - 1)) \cup {Level(d)}
      BY <2>2
    <3> HIDE DEF d
    <3> QED  BY <2>3, <3>1 DEF Ancestors
  <2> QED  BY <1>3, <1>5, <2>4
<1> QED  BY <1>4, <1>5

(* The volume does not change during a walk.                               *)
LEMMA TreeFrame ==
  ASSUME tree' = tree
  PROVE  /\ \A d : PathOf(d)' = PathOf(d) /\ Level(d)' = Level(d)
         /\ \A d : Stream(d)' = Stream(d) /\ Ancestors(d)' = Ancestors(d)
BY DEF PathOf, PathIn, Level, Stream, Ancestors

-----------------------------------------------------------------------------
(* The steps.  First what an action that leaves the list and the history   *)
(* alone cannot disturb.                                                   *)

Parts == <<tree, cb, root, children, sz, visited, lost>>

LEMMA QuietStep ==
  ASSUME IInv, UNCHANGED Parts, pc # "call", pc' # "call",
         pc' \notin {"new", "freed"}, pc # "new"
  PROVE  /\ ListInv' /\ UnreadInv' /\ VisitedInv' /\ PreOrder' /\ DepthBounded'
BY DEF IInv, Parts, ListInv, UnreadInv, VisitedInv, PreOrder, DepthBounded, OnList,
       IterDirAt, Descended, Ancestors, Level, PathOf, PathIn, Stream

LEMMA CopyObjectStep ==
  ASSUME IInv, CopyObject
  PROVE  IInv'
<1> USE DEF CopyObject, cbvars, locals, history, IInv, Parts
<1>1. InFlight /\ InFlight'
  BY DEF InFlight
<1>2. ListInv' /\ UnreadInv' /\ VisitedInv' /\ PreOrder' /\ DepthBounded'
  BY QuietStep
<1>3. TypeOK'
  BY <1>1 DEF TypeOK, FlightInv
<1>4. FlightInv'
  BY <1>1 DEF FlightInv, IterDirAt, Descends
<1>5. OwedInv'
  BY <1>1 DEF OwedInv, OnList, Descended, IterDirAt, Level, PathOf, PathIn
<1>6. ReturnInv' /\ HeldExactly'
  BY DEF ReturnInv, HeldExactly, Exhausted, OnList
<1> QED  BY <1>2, <1>3, <1>4, <1>5, <1>6
LEMMA OpenChildStep ==
  ASSUME IInv, OpenChild
  PROVE  IInv'
<1> USE DEF OpenChild, cbvars, locals, history, IInv, Parts
<1>1. InFlight /\ InFlight'
  BY DEF InFlight
<1>2. ListInv' /\ UnreadInv' /\ VisitedInv' /\ PreOrder' /\ DepthBounded'
  BY QuietStep
<1>3. TypeOK'
  BY <1>1 DEF TypeOK, FlightInv
<1>4. FlightInv'
  BY <1>1 DEF FlightInv, IterDirAt, Descends
<1>5. OwedInv'
  BY <1>1 DEF OwedInv, OnList, Descended, IterDirAt, Level, PathOf, PathIn
<1>6. ReturnInv' /\ HeldExactly'
  BY DEF ReturnInv, HeldExactly, Exhausted, OnList
<1> QED  BY <1>2, <1>3, <1>4, <1>5, <1>6

LEMMA StartStep ==
  ASSUME IInv, Start
  PROVE  IInv'
<1> USE DEF Start, cbvars, IInv, Parts
<1>1. ~InFlight /\ ~InFlight'
  BY DEF InFlight
<1>2. ListInv' /\ UnreadInv' /\ VisitedInv' /\ PreOrder' /\ DepthBounded'
  BY QuietStep
<1>3. TypeOK' /\ FlightInv'
  BY <1>1 DEF TypeOK, FlightInv
<1>4. OwedInv'
  BY <1>1 DEF OwedInv, OnList, Descended, IterDirAt, Level, PathOf, PathIn
<1>5. ReturnInv' /\ HeldExactly'
  BY DEF ReturnInv, HeldExactly, Exhausted, OnList
<1> QED  BY <1>2, <1>3, <1>4, <1>5

LEMMA ReadFailsStep ==
  ASSUME IInv, ReadFails
  PROVE  IInv'
<1> USE DEF ReadFails, Break, cbvars, IInv, Parts
<1>1. ~InFlight /\ ~InFlight'
  BY DEF InFlight
<1>2. ListInv' /\ UnreadInv' /\ VisitedInv' /\ PreOrder' /\ DepthBounded'
  BY QuietStep
<1>3. TypeOK' /\ FlightInv'
  BY <1>1 DEF TypeOK, FlightInv
<1>4. OwedInv'
  BY <1>1 DEF OwedInv, OnList, Descended, IterDirAt, Level, PathOf, PathIn
<1>5. ReturnInv' /\ HeldExactly'
  BY DEF ReturnInv, HeldExactly, Exhausted, OnList
<1> QED  BY <1>2, <1>3, <1>4, <1>5

LEMMA ReadEndOfRootStep ==
  ASSUME IInv, ReadEndOfRoot
  PROVE  IInv'
<1> USE DEF ReadEndOfRoot, Break, cbvars, history, IInv, Parts
<1>1. ~InFlight /\ ~InFlight'
  BY DEF InFlight
<1>2. ListInv' /\ UnreadInv' /\ VisitedInv' /\ PreOrder' /\ DepthBounded'
  BY QuietStep
<1>3. TypeOK' /\ FlightInv'
  BY <1>1 DEF TypeOK, FlightInv
<1>4. OwedInv'
  BY <1>1 DEF OwedInv, OnList, Descended, IterDirAt, Level, PathOf, PathIn
<1>5. root.rest = {}
  BY DEF ListInv, Target, IterDirAt
<1>6. ReturnInv' /\ HeldExactly'
  BY <1>5 DEF ReturnInv, HeldExactly, Exhausted, OnList
<1> QED  BY <1>2, <1>3, <1>4, <1>6

LEMMA OpenRootStep ==
  ASSUME IInv, NEW r \in BOOLEAN, NEW d \in MaxDepths, OpenRoot(r, d)
  PROVE  IInv'
<1> USE DEF OpenRoot, locals, history, IInv
<1>1. ~InFlight /\ ~InFlight' /\ children = <<>> /\ visited = {} /\ lost = {} /\ Len(children) = 0
  BY EmptySeq DEF InFlight, ReturnInv
<1>2. root' = [dir |-> Root, depth |-> 0, abspath |-> NULL, rest |-> Stream(Root)]
  BY DEF ListInv, TypeOK, IterDir
<1>3. TypeOK'
  BY <1>2, TreeFacts, MaxDepthsAssumption DEF TypeOK, IterDir, Stream
<1>4. ListInv' /\ FlightInv' /\ UnreadInv' /\ VisitedInv' /\ PreOrder'
  BY <1>1, <1>2 DEF ListInv, FlightInv, UnreadInv, VisitedInv, PreOrder, Stream
<1>5. OwedInv'
  <2>1. SUFFICES ASSUME NEW e \in Entry, tree.parent[e] \in {Root} \cup OnList'
                 PROVE  root'.dir = tree.parent[e] /\ e \in root'.rest
    BY <1>1 DEF OwedInv, IterDirAt
  <2>2. OnList' = {}
    BY <1>1 DEF OnList
  <2> QED  BY <1>2, <2>1, <2>2 DEF Stream
<1>6. ReturnInv' /\ HeldExactly' /\ DepthBounded'
  BY <1>1 DEF ReturnInv, HeldExactly, Exhausted, OnList, DepthBounded, TypeOK
<1> QED  BY <1>3, <1>4, <1>5, <1>6

LEMMA CleanupStep ==
  ASSUME IInv, Cleanup
  PROVE  IInv'
<1> USE DEF Cleanup, locals, history, IInv
<1>1. ~InFlight /\ ~InFlight'
  BY DEF InFlight
<1>2. TypeOK'
  BY EmptySeq DEF TypeOK
<1>3. ListInv' /\ FlightInv' /\ UnreadInv'
  BY <1>1, EmptySeq DEF ListInv, FlightInv, UnreadInv, IterDirAt, Stream
<1>4. VisitedInv' /\ PreOrder' /\ DepthBounded'
  BY EmptySeq DEF VisitedInv, PreOrder, DepthBounded, Descended, Ancestors, Level, PathOf, PathIn
<1>5. OwedInv' /\ ReturnInv'
  BY DEF OwedInv, ReturnInv, Exhausted
<1>6. HeldExactly'
  BY EmptySeq DEF HeldExactly, OnList
<1> QED  BY <1>2, <1>3, <1>4, <1>5, <1>6
(* Reading an entry changes the rest of one directory and nothing else.    *)
LEMMA ConsumeFacts ==
  ASSUME TypeOK, NEW i \in 0..Len(children), NEW e, Consume(i, e)
  PROVE  /\ root' \in IterDir /\ children' \in Seq(IterDir)
         /\ Len(children') = Len(children) /\ OnList' = OnList
         /\ \A j \in 0..Len(children) :
              /\ IterDirAt(j)'.dir = IterDirAt(j).dir
              /\ IterDirAt(j)'.depth = IterDirAt(j).depth
              /\ IterDirAt(j)'.abspath = IterDirAt(j).abspath
              /\ IterDirAt(j)'.rest = IF j = i THEN IterDirAt(j).rest \ {e}
                                      ELSE IterDirAt(j).rest
<1>1. /\ root \in IterDir /\ children \in Seq(IterDir) /\ Len(children) \in Nat
      /\ \A j \in 1..Len(children) : children[j] \in IterDir
  BY LenProperties, ElementOfSeq DEF TypeOK
<1>2. CASE i = 0
  <2>1. root' = [root EXCEPT !.rest = root.rest \ {e}] /\ children' = children
    BY <1>2 DEF Consume
  <2> QED  BY <1>1, <1>2, <2>1 DEF IterDirAt, IterDir, OnList
<1>3. CASE i # 0
  <2> DEFINE c == [children[i] EXCEPT !.rest = @ \ {e}]
  <2>1. i \in 1..Len(children) /\ root' = root
    BY <1>1, <1>3 DEF Consume
  <2>a. children[i] \in IterDir
    BY <1>1, <2>1
  <2>b. /\ c \in IterDir /\ c.rest = children[i].rest \ {e} /\ c.dir = children[i].dir
        /\ c.depth = children[i].depth /\ c.abspath = children[i].abspath
    BY <2>a DEF IterDir
  <2>2. children' = [children EXCEPT ![i] = c]
    BY <1>3 DEF Consume
  <2>3. /\ children' \in Seq(IterDir) /\ Len(children') = Len(children)
        /\ \A j \in 1..Len(children) : children'[j] = IF j = i THEN c ELSE children[j]
    <3> HIDE DEF c
    <3> QED  BY <1>1, <2>1, <2>2, <2>b, ExceptSeq
  <2>4. OnList' = OnList
    <3>1. \A j \in 1..Len(children) : children'[j].dir = children[j].dir
      BY <2>3, <2>b
    <3> QED  BY <2>3, <3>1 DEF OnList
  <2>5. ASSUME NEW j \in 0..Len(children)
        PROVE  /\ IterDirAt(j)'.dir = IterDirAt(j).dir
               /\ IterDirAt(j)'.depth = IterDirAt(j).depth
               /\ IterDirAt(j)'.abspath = IterDirAt(j).abspath
               /\ IterDirAt(j)'.rest = IF j = i THEN IterDirAt(j).rest \ {e}
                                       ELSE IterDirAt(j).rest
    <3>1. CASE j = 0
      BY <1>3, <2>1, <3>1 DEF IterDirAt
    <3>2. CASE j # 0
      <4>1. children'[j] = IF j = i THEN c ELSE children[j]
        <5> HIDE DEF c
        <5> QED  BY <1>1, <2>3, <3>2
      <4> QED  BY <1>3, <2>b, <3>2, <4>1 DEF IterDirAt
    <3> QED  BY <3>1, <3>2
  <2> QED  BY <1>1, <2>1, <2>3, <2>4, <2>5
<1> QED  BY <1>2, <1>3

(* The place of a directory is its depth below Root.                       *)
LEMMA LevelAt ==
  ASSUME TypeOK, ListInv, NEW i \in 0..Len(children)
  PROVE  Level(IterDirAt(i).dir) = i
<1>1. CASE i = 0
  BY <1>1, TreeFacts DEF TypeOK, ListInv, IterDirAt
<1>2. CASE i # 0
  BY <1>2, LenProperties DEF TypeOK, ListInv, IterDirAt
<1> QED  BY <1>1, <1>2

(* Two places of the list never hold the same directory.                   *)
LEMMA PlacesDiffer ==
  ASSUME TypeOK, ListInv, NEW i \in 0..Len(children), NEW j \in 0..Len(children),
         IterDirAt(i).dir = IterDirAt(j).dir
  PROVE  i = j
BY LevelAt

(* The directory that is read is the last of the list, or the first one.   *)
LEMMA TargetFacts ==
  ASSUME TypeOK, ListInv
  PROVE  Target = Len(children) /\ Target \in 0..Len(children)
BY LenProperties DEF TypeOK, ListInv, Target

(* What is left of a directory lies in it.                                 *)
LEMMA RestFacts ==
  ASSUME TypeOK, ListInv, NEW i \in 0..Len(children),
         NEW e \in IterDirAt(i).rest \ Dots
  PROVE  e \in Entry /\ tree.parent[e] = IterDirAt(i).dir
BY DEF TypeOK, ListInv, IterDirAt, Stream

(* Both kinds of entry: what the list and the history look like when one   *)
(* of them has been read.                                                  *)
LEMMA ConsumeStep ==
  ASSUME IInv, pc = "read", NEW n \in Nat, n = Len(children), NEW e, Consume(n, e),
         UNCHANGED <<tree, cb, sz, visited, lost>>
  PROVE  /\ root' \in IterDir /\ children' \in Seq(IterDir)
         /\ Len(children') = n /\ OnList' = OnList
         /\ IterDirAt(n)'.dir = IterDirAt(n).dir
         /\ IterDirAt(n)'.rest = IterDirAt(n).rest \ {e}
         /\ ListInv' /\ UnreadInv' /\ VisitedInv' /\ PreOrder' /\ DepthBounded'
         /\ \A f \in Entry \ visited :
              LET d == tree.parent[f] IN
              f # e /\ d \in {Root} \cup visited \cup OnList /\ Descended(d) =>
                \E i \in 0..n : IterDirAt(i)'.dir = d /\ f \in IterDirAt(i)'.rest
<1>1. TypeOK /\ ListInv /\ ~InFlight /\ n \in 0..n
  BY DEF IInv, InFlight
<1>2. /\ root' \in IterDir /\ children' \in Seq(IterDir)
      /\ Len(children') = n /\ OnList' = OnList
      /\ \A j \in 0..n :
           /\ IterDirAt(j)'.dir = IterDirAt(j).dir
           /\ IterDirAt(j)'.depth = IterDirAt(j).depth
           /\ IterDirAt(j)'.abspath = IterDirAt(j).abspath
           /\ IterDirAt(j)'.rest = IF j = n THEN IterDirAt(j).rest \ {e}
                                   ELSE IterDirAt(j).rest
  <2>1. n \in 0..Len(children)
    BY <1>1
  <2> QED  BY <1>1, <2>1, ConsumeFacts
<1>3. \A j \in 0..n : /\ IterDirAt(j)'.rest \subseteq IterDirAt(j).rest
                      /\ IterDirAt(j).rest \ {e} \subseteq IterDirAt(j)'.rest
  BY <1>2
<1>4. ListInv'
  <2>1. sz' = Len(children')
    BY <1>1, <1>2 DEF ListInv
  <2>2. root'.dir = Root /\ root'.depth = 0 /\ root'.abspath = NULL
        /\ root'.rest \subseteq Stream(Root)'
    <3>1. /\ root'.dir = root.dir /\ root'.depth = root.depth
          /\ root'.abspath = root.abspath /\ root'.rest \subseteq root.rest
      <4>1. 0 \in 0..n /\ IterDirAt(0) = root /\ IterDirAt(0)' = root'
        BY DEF IterDirAt
      <4> QED  BY <1>2, <1>3, <4>1
    <3> QED  BY <1>1, <3>1 DEF ListInv, Stream
  <2>3. ASSUME NEW i \in 1..Len(children')
        PROVE  /\ children'[i].dir = children[i].dir
               /\ children'[i].depth = children[i].depth
               /\ children'[i].abspath = children[i].abspath
               /\ children'[i].rest \subseteq children[i].rest
    <3>1. i \in 0..n /\ i # 0
      BY <1>2
    <3> QED  BY <1>2, <1>3, <3>1 DEF IterDirAt
  <2>4. ASSUME NEW i \in 1..Len(children')
        PROVE  /\ children'[i].dir \in tree'.dirs \ lost'
               /\ children'[i].depth = i
               /\ children'[i].abspath = PathOf(children[i].dir)'
               /\ Level(children[i].dir)' = i
               /\ children'[i].rest \subseteq Stream(children[i].dir)'
               /\ children'[i].dir \in visited'
    <3>1. i \in 1..Len(children)
      BY <1>2
    <3>2. \A d : PathOf(d)' = PathOf(d) /\ Level(d)' = Level(d) /\ Stream(d)' = Stream(d)
      BY TreeFrame
    <3> QED  BY <1>1, <2>3, <3>1, <3>2 DEF ListInv
  <2> QED  BY <2>1, <2>2, <2>4 DEF ListInv
<1>5. UnreadInv' /\ VisitedInv' /\ PreOrder' /\ DepthBounded'
  BY <1>2, <1>3 DEF IInv, UnreadInv, VisitedInv, PreOrder, DepthBounded,
       Descended, Ancestors, Level, PathOf, PathIn
<1>6. ASSUME NEW f \in Entry \ visited, f # e,
             tree.parent[f] \in {Root} \cup visited \cup OnList,
             Descended(tree.parent[f])
      PROVE  \E i \in 0..n : IterDirAt(i)'.dir = tree.parent[f] /\ f \in IterDirAt(i)'.rest
  <2>1. PICK i \in 0..n : IterDirAt(i).dir = tree.parent[f] /\ f \in IterDirAt(i).rest
    BY <1>1, <1>6 DEF IInv, OwedInv
  <2> QED  BY <1>2, <1>3, <1>6, <2>1
<1> QED  BY <1>1, <1>2, <1>4, <1>5, <1>6

LEMMA ReadEntryStep ==
  ASSUME IInv, NEW e \in Entry, ReadEntry(e)
  PROVE  IInv'
<1>1. PICK n \in Nat : n = Len(children)
  BY LenProperties DEF IInv, TypeOK
<1>2. /\ TypeOK /\ ListInv /\ pc = "read" /\ ~InFlight /\ InFlight'
      /\ UNCHANGED <<tree, cb, sz, fds, objs, visited, lost, failures>>
      /\ entry' = e /\ target' = n /\ xstat' = e /\ rv' = 1
      /\ pc' = IF Descends(e) THEN "copy" ELSE "call"
      /\ Consume(n, e) /\ e \in IterDirAt(n).rest \ Dots
  BY <1>1, TargetFacts DEF IInv, ReadEntry, InFlight, history
<1>3. /\ n \in 0..n /\ tree.parent[e] = IterDirAt(n).dir /\ e \notin visited
      /\ Level(e) = n + 1
  <2>1. n \in 0..Len(children) /\ n \in 0..n
    BY <1>1
  <2>2. tree.parent[e] = IterDirAt(n).dir
    BY <1>2, <2>1, RestFacts
  <2>3. Level(IterDirAt(n).dir) = n
    BY <1>2, <2>1, LevelAt
  <2>4. e \notin visited
    BY <1>2, <2>1 DEF IInv, UnreadInv
  <2> QED  BY <1>2, <2>1, <2>2, <2>3, <2>4, TreeFacts DEF TypeOK
<1>4. /\ root' \in IterDir /\ children' \in Seq(IterDir)
      /\ Len(children') = n /\ OnList' = OnList
      /\ IterDirAt(n)'.dir = IterDirAt(n).dir
      /\ IterDirAt(n)'.rest = IterDirAt(n).rest \ {e}
      /\ ListInv' /\ UnreadInv' /\ VisitedInv' /\ PreOrder' /\ DepthBounded'
  BY <1>1, <1>2, ConsumeStep
<1>5. TypeOK'
  BY <1>2, <1>3, <1>4 DEF TypeOK
<1>6. FlightInv'
  <2>1. /\ entry' \in Entry \ visited' /\ target' \in 0..Len(children')
        /\ tree'.parent[entry'] = IterDirAt(target)'.dir
        /\ entry' \notin IterDirAt(target)'.rest
    <3>1. IterDirAt(target)' = IterDirAt(n)'
      BY <1>2 DEF IterDirAt
    <3> QED  BY <1>2, <1>3, <1>4, <3>1
  <2>2. pc' # "call" => target' = Len(children') /\ Descends(entry)'
    BY <1>2, <1>4 DEF Descends
  <2>3. pc' = "call" => ~Descended(entry)'
    <3>1. pc' = "call" => ~(e \in tree.dirs /\ cb.recurse /\ cb.max_depth # n)
      BY <1>1, <1>2 DEF Descends, ListInv
    <3>2. e # Root /\ cb.max_depth \in Int /\ (cb.max_depth < 0 \/ n <= cb.max_depth)
      BY <1>1, <1>2, NamesAssumption DEF IInv, DepthBounded, TypeOK
    <3> QED  BY <1>2, <1>3, <3>1, <3>2 DEF Descended, Level, PathOf, PathIn
  <2> QED  BY <2>1, <2>2, <2>3 DEF FlightInv
<1>7. OwedInv'
  <2>1. SUFFICES ASSUME NEW f \in Entry \ visited, f # e,
                        tree.parent[f] \in {Root} \cup visited \cup OnList,
                        Descended(tree.parent[f])
                 PROVE  \E i \in 0..n : /\ IterDirAt(i)'.dir = tree.parent[f]
                                        /\ f \in IterDirAt(i)'.rest
    BY <1>2, <1>4 DEF OwedInv, Descended, Level, PathOf, PathIn
  <2> QED  BY <1>1, <1>2, <2>1, ConsumeStep
<1>8. ReturnInv' /\ HeldExactly'
  BY <1>1, <1>2, <1>4 DEF IInv, ReturnInv, HeldExactly, Exhausted, ListInv
<1> QED  BY <1>4, <1>5, <1>6, <1>7, <1>8 DEF IInv

LEMMA ReadDotStep ==
  ASSUME IInv, NEW e \in Dots, ReadDot(e)
  PROVE  IInv'
<1>1. PICK n \in Nat : n = Len(children)
  BY LenProperties DEF IInv, TypeOK
<1>2. /\ TypeOK /\ ListInv /\ pc = "read" /\ pc' = "read" /\ ~InFlight /\ ~InFlight'
      /\ UNCHANGED <<tree, cb, sz, target, xstat, fds, objs, visited, lost, failures>>
      /\ entry' = e /\ rv' = 1 /\ Consume(n, e)
  BY <1>1, TargetFacts DEF IInv, ReadDot, InFlight, history
<1>3. /\ root' \in IterDir /\ children' \in Seq(IterDir)
      /\ Len(children') = n /\ OnList' = OnList
      /\ ListInv' /\ UnreadInv' /\ VisitedInv' /\ PreOrder' /\ DepthBounded'
  BY <1>1, <1>2, ConsumeStep
<1>4. TypeOK' /\ FlightInv'
  BY <1>2, <1>3 DEF TypeOK, FlightInv
<1>5. OwedInv'
  <2>1. SUFFICES ASSUME NEW f \in Entry \ visited,
                        tree.parent[f] \in {Root} \cup visited \cup OnList,
                        Descended(tree.parent[f])
                 PROVE  \E i \in 0..n : /\ IterDirAt(i)'.dir = tree.parent[f]
                                        /\ f \in IterDirAt(i)'.rest
    BY <1>2, <1>3 DEF OwedInv, Descended, Level, PathOf, PathIn
  <2>2. f # e
    BY NamesAssumption
  <2> QED  BY <1>1, <1>2, <2>1, <2>2, ConsumeStep
<1>6. ReturnInv' /\ HeldExactly'
  BY <1>1, <1>2, <1>3 DEF IInv, ReturnInv, HeldExactly, Exhausted, ListInv
<1> QED  BY <1>3, <1>4, <1>5, <1>6 DEF IInv
LEMMA FrontFacts ==
  ASSUME NEW S, NEW s \in Seq(S), s # <<>>
  PROVE  /\ Front(s) \in Seq(S) /\ Len(s) \in Nat \ {0}
         /\ Len(Front(s)) = Len(s) - 1
         /\ \A i \in 1..(Len(s) - 1) : Front(s)[i] = s[i]
         /\ Last(s) = s[Len(s)]
<1>1. Len(s) \in Nat \ {0} /\ \A i \in 1..(Len(s) - 1) : s[i] \in S
  BY EmptySeq, LenProperties, ElementOfSeq
<1> DEFINE n == Len(s) - 1
<1>2. n \in Nat /\ \A i \in 1..n : s[i] \in S
  BY <1>1
<1>3. /\ SubSeq(s, 1, n) \in Seq(S) /\ Len(SubSeq(s, 1, n)) = n
      /\ \A i \in 1..n : SubSeq(s, 1, n)[i] = s[i]
  <2> HIDE DEF n
  <2>1. /\ SubSeq(s, 1, n) \in Seq(S)
        /\ Len(SubSeq(s, 1, n)) = IF 1 <= n THEN n - 1 + 1 ELSE 0
        /\ \A i \in 1..(n - 1 + 1) : SubSeq(s, 1, n)[i] = s[1 + i - 1]
    BY <1>2, SubSeqProperties
  <2> QED  BY <1>2, <2>1
<1> QED  BY <1>1, <1>3 DEF Front, Last

LEMMA ReadEndOfChildStep ==
  ASSUME IInv, ReadEndOfChild
  PROVE  IInv'
<1>1. PICK n \in Nat : n + 1 = Len(children) /\ n + 1 \in 1..Len(children)
  <2>1. Len(children) \in Nat \ {0}
    BY EmptySeq DEF IInv, TypeOK, ReadEndOfChild
  <2> QED  BY <2>1
<1>2. /\ TypeOK /\ ListInv /\ pc = "read" /\ pc' = "read" /\ ~InFlight /\ ~InFlight'
      /\ UNCHANGED <<tree, cb, root, target, xstat, visited, lost, failures>>
      /\ children' = Front(children) /\ sz' = sz - 1 /\ rv' = 0 /\ entry' = NULL
      /\ fds' = fds \ {children[n + 1].dir} /\ objs' = objs \ {children[n + 1].dir}
      /\ IterDirAt(n + 1).rest = {}
  <2>1. Target = n + 1
    BY <1>1, TargetFacts DEF IInv
  <2> QED  BY <1>1, <2>1 DEF IInv, ReadEndOfChild, RemoveLast, InFlight, history, Last
<1>3. /\ children' \in Seq(IterDir) /\ Len(children') = n
      /\ \A i \in 1..n : children'[i] = children[i]
      /\ \A i \in 0..n : IterDirAt(i)' = IterDirAt(i)
      /\ sz' = n
  <2>1. children # <<>> /\ children \in Seq(IterDir)
    BY <1>2 DEF TypeOK, ReadEndOfChild
  <2>2. /\ children' \in Seq(IterDir) /\ Len(children') = n
        /\ \A i \in 1..n : children'[i] = children[i]
    BY <1>1, <1>2, <2>1, FrontFacts
  <2> QED  BY <1>1, <1>2, <2>2 DEF IterDirAt, ListInv
<1>4. OnList = OnList' \cup {children[n + 1].dir} /\ children[n + 1].dir \notin OnList' \cup {Root}
  <2>1. \A i \in 0..n : IterDirAt(i).dir # IterDirAt(n + 1).dir
    <3>1. \A i \in 0..(n + 1) : Level(IterDirAt(i).dir) = i
      BY <1>1, <1>2, LevelAt
    <3> QED  BY <3>1
  <2>2. IterDirAt(0).dir = Root /\ IterDirAt(n + 1).dir = children[n + 1].dir
    BY <1>2 DEF ListInv, IterDirAt
  <2>3. \A i \in 1..n : children[i].dir # children[n + 1].dir
    BY <2>1, <2>2 DEF IterDirAt
  <2>4. OnList' = {children[i].dir : i \in 1..n}
    BY <1>3 DEF OnList
  <2>5. 1..Len(children) = (1..n) \cup {n + 1}
    BY <1>1
  <2>6. OnList = OnList' \cup {children[n + 1].dir}
    BY <2>4, <2>5 DEF OnList
  <2>7. children[n + 1].dir # Root
    BY <2>1, <2>2
  <2> QED  BY <2>3, <2>4, <2>6, <2>7
<1>5. TypeOK' /\ FlightInv'
  BY <1>1, <1>2, <1>3 DEF TypeOK, FlightInv
<1>6. ListInv'
  <2>1. \A d : PathOf(d)' = PathOf(d) /\ Level(d)' = Level(d) /\ Stream(d)' = Stream(d)
    BY <1>2, TreeFrame
  <2>2. ASSUME NEW i \in 1..n
        PROVE  /\ children'[i].dir \in tree'.dirs \ lost'
               /\ children'[i].depth = i
               /\ children'[i].abspath = PathOf(children[i].dir)'
               /\ Level(children[i].dir)' = i
               /\ children'[i].rest \subseteq Stream(children[i].dir)'
               /\ children'[i].dir \in visited'
    <3>1. i \in 1..Len(children)
      BY <1>1
    <3> QED  BY <1>2, <1>3, <2>1, <3>1 DEF ListInv
  <2> QED  BY <1>2, <1>3, <2>1, <2>2 DEF ListInv
<1>7. UnreadInv'
  BY <1>1, <1>2, <1>3 DEF IInv, UnreadInv
<1>8. VisitedInv' /\ PreOrder' /\ DepthBounded'
  BY <1>1, <1>2, <1>3, EmptySeq DEF IInv, VisitedInv, PreOrder, DepthBounded, Descended,
       Ancestors, Level, PathOf, PathIn, TypeOK
<1>9. OwedInv'
  <2>1. SUFFICES ASSUME NEW f \in Entry \ visited,
                        tree.parent[f] \in {Root} \cup visited \cup OnList',
                        Descended(tree.parent[f])
                 PROVE  \E i \in 0..n : /\ IterDirAt(i)'.dir = tree.parent[f]
                                        /\ f \in IterDirAt(i)'.rest
    BY <1>2, <1>3 DEF OwedInv, Descended, Level, PathOf, PathIn
  <2>2. PICK i \in 0..Len(children) :
          IterDirAt(i).dir = tree.parent[f] /\ f \in IterDirAt(i).rest
    BY <1>2, <1>4, <2>1 DEF IInv, OwedInv
  <2>3. i \in 0..n
    BY <1>1, <1>2, <2>2
  <2> QED  BY <1>3, <2>2, <2>3
<1>10. ReturnInv' /\ HeldExactly'
  BY <1>2, <1>3, <1>4 DEF IInv, ReturnInv, HeldExactly, Exhausted
<1> QED  BY <1>5, <1>6, <1>7, <1>8, <1>9, <1>10 DEF IInv

(* add_child() has failed; e is delivered, but not entered.                *)
LEMMA ChildLostStep ==
  ASSUME IInv, ChildLost, pc \in {"copy", "opendir", "push"},
         fds' = fds \ (IF pc = "push" THEN {entry} ELSE {}),
         objs' = objs \ (IF pc \in {"opendir", "push"} THEN {entry} ELSE {})
  PROVE  IInv'
<1>1. /\ TypeOK /\ ListInv /\ InFlight /\ InFlight' /\ pc' = "call" /\ pc # "call"
      /\ UNCHANGED <<tree, cb, root, children, sz, entry, target, xstat, visited>>
      /\ rv' = -3 /\ lost' = lost \cup {entry} /\ failures' = failures \cup {"child"}
  BY DEF IInv, ChildLost, InFlight, cbvars
<1>2. /\ entry \in Entry \ visited /\ target = Len(children)
      /\ tree.parent[entry] = IterDirAt(target).dir /\ Descends(entry)
  BY <1>1 DEF IInv, FlightInv
<1>3. entry \notin OnList \cup {Root}
  BY <1>1, <1>2, NamesAssumption DEF ListInv, OnList
<1>4. \A d : Descended(d)' => Descended(d)
  BY <1>1 DEF Descended, Level, PathOf, PathIn
<1>5. TypeOK'
  BY <1>1, <1>2 DEF TypeOK
<1>6. ListInv'
  BY <1>1, <1>3 DEF ListInv, OnList, PathOf, PathIn, Level, Stream
<1>7. FlightInv'
  BY <1>1, <1>2, <1>3 DEF IInv, FlightInv, IterDirAt, Descended
<1>8. UnreadInv' /\ DepthBounded'
  BY <1>1 DEF IInv, UnreadInv, IterDirAt, DepthBounded
<1>9. PreOrder'
  BY <1>1 DEF IInv, PreOrder, Ancestors, Level, PathOf, PathIn
<1>10. VisitedInv'
  <2>1. ASSUME NEW e \in visited, NEW a \in Ancestors(e) PROVE a # entry /\ Descended(a)
    BY <1>2, <2>1 DEF IInv, VisitedInv, PreOrder
  <2>2. \A a : a # entry /\ Descended(a) => Descended(a)'
    BY <1>1 DEF Descended, Level, PathOf, PathIn
  <2>3. \A e : Ancestors(e)' = Ancestors(e)
    BY <1>1, TreeFrame
  <2> QED  BY <1>1, <2>1, <2>2, <2>3 DEF VisitedInv
<1>11. OwedInv'
  BY <1>1, <1>4 DEF IInv, OwedInv, OnList, IterDirAt
<1>12. ReturnInv' /\ HeldExactly'
  BY <1>1, <1>3 DEF IInv, ReturnInv, HeldExactly, Exhausted, OnList
<1> QED  BY <1>5, <1>6, <1>7, <1>8, <1>9, <1>10, <1>11, <1>12 DEF IInv
LEMMA PushChildStep ==
  ASSUME IInv, PushChild
  PROVE  IInv'
<1>1. PICK n \in Nat : n = Len(children)
  BY LenProperties DEF IInv, TypeOK
<1> DEFINE p == IF children = <<>> THEN <<>> ELSE Last(children).abspath
           new == [dir |-> entry, depth |-> n + 1, abspath |-> Append(p, entry),
                   rest |-> Stream(entry)]
<1>2. /\ TypeOK /\ ListInv /\ pc = "push" /\ InFlight /\ InFlight' /\ pc' = "call"
      /\ UNCHANGED <<tree, cb, root, entry, target, rv, xstat, fds, objs>>
      /\ UNCHANGED <<visited, lost, failures>>
      /\ sz = n /\ sz' = n + 1 /\ children' = Append(children, new)
  BY <1>1 DEF IInv, PushChild, InFlight, ListInv, locals, history
<1>3. /\ entry \in Entry \ visited /\ entry \in tree.dirs /\ cb.recurse
      /\ cb.max_depth # n /\ target = n
      /\ tree.parent[entry] = IterDirAt(n).dir
      /\ entry \notin IterDirAt(n).rest
  BY <1>1, <1>2 DEF IInv, FlightInv, Descends
<1>4. /\ PathOf(entry) = Append(PathOf(IterDirAt(n).dir), entry)
      /\ PathOf(entry) \in Seq(Entry) /\ Level(entry) = n + 1
  <2>1. n \in 0..Len(children)
    BY <1>1
  <2> QED  BY <1>2, <1>3, <2>1, TreeFacts, LevelAt DEF TypeOK
<1>5. p = PathOf(IterDirAt(n).dir)
  <2>1. CASE n = 0
    BY <1>1, <1>2, <2>1, EmptySeq, TreeFacts DEF TypeOK, ListInv, IterDirAt
  <2>2. CASE n # 0
    BY <1>1, <1>2, <2>2, EmptySeq DEF ListInv, IterDirAt, Last
  <2> QED  BY <2>1, <2>2
<1>6. /\ new \in IterDir /\ new.dir = entry /\ new.depth = n + 1
      /\ new.abspath = PathOf(entry) /\ new.rest = Stream(entry)
  <2> HIDE DEF p
  <2> QED  BY <1>3, <1>4, <1>5 DEF IterDir, Stream
<1> HIDE DEF new
<1>7. /\ children' \in Seq(IterDir) /\ Len(children') = n + 1
      /\ \A i \in 1..n : children'[i] = children[i]
      /\ children'[n + 1] = new
  BY <1>1, <1>2, <1>6, AppendProperties DEF TypeOK
<1>8. /\ \A i \in 0..n : IterDirAt(i)' = IterDirAt(i)
      /\ IterDirAt(n + 1)' = new
  BY <1>2, <1>7 DEF IterDirAt
<1>9. OnList' = OnList \cup {entry}
  <2>1. 1..(n + 1) = (1..n) \cup {n + 1}
    OBVIOUS
  <2>2. OnList' = {children'[i].dir : i \in 1..(n + 1)}
    BY <1>7 DEF OnList
  <2> QED  BY <1>1, <1>6, <1>7, <2>1, <2>2 DEF OnList
<1>10. TypeOK'
  BY <1>2, <1>7 DEF TypeOK
<1>11. ListInv'
  <2>1. \A d : PathOf(d)' = PathOf(d) /\ Level(d)' = Level(d) /\ Stream(d)' = Stream(d)
    BY <1>2, TreeFrame
  <2>2. entry \notin lost
    BY <1>2, <1>3 DEF IInv, UnreadInv
  <2>3. ASSUME NEW i \in 1..(n + 1)
        PROVE  /\ children'[i].dir \in tree'.dirs \ lost'
               /\ children'[i].depth = i
               /\ children'[i].abspath = PathOf(children[i].dir)'
               /\ Level(children[i].dir)' = i
               /\ children'[i].rest \subseteq Stream(children[i].dir)'
               /\ children'[i].dir \in visited' \/ children'[i].dir = entry'
    <3>1. CASE i = n + 1
      BY <1>2, <1>3, <1>4, <1>6, <1>7, <2>1, <2>2, <3>1
    <3>2. CASE i # n + 1
      <4>1. i \in 1..Len(children) /\ i \in 1..n
        BY <1>1, <3>2
      <4> QED  BY <1>2, <1>7, <2>1, <4>1 DEF ListInv
    <3> QED  BY <3>1, <3>2
  <2> QED  BY <1>2, <1>7, <2>1, <2>3 DEF ListInv
<1>12. FlightInv'
  <2>1. IterDirAt(target)' = IterDirAt(n)'
    BY <1>2, <1>3 DEF IterDirAt
  <2> QED  BY <1>2, <1>3, <1>7, <1>8, <1>9, <2>1 DEF FlightInv
<1>13. UnreadInv'
  <2>1. Stream(entry) \cap visited = {}
    <3>1. ASSUME NEW e \in Stream(entry) \cap visited PROVE FALSE
      <4>1. e \in Entry /\ tree.parent[e] = entry /\ entry # Root
        BY <1>2, <1>3, NamesAssumption DEF Stream, TypeOK
      <4>2. entry \in Ancestors(e)
        BY <1>2, <4>1, AncestorsFact DEF TypeOK
      <4> QED  BY <1>3, <3>1, <4>2 DEF IInv, PreOrder
    <3> QED  BY <3>1
  <2>2. ASSUME NEW i \in 0..(n + 1) PROVE IterDirAt(i)'.rest \cap visited = {}
    <3>1. CASE i = n + 1
      BY <1>6, <1>8, <2>1, <3>1
    <3>2. CASE i # n + 1
      BY <1>1, <1>8, <3>2 DEF IInv, UnreadInv
    <3> QED  BY <3>1, <3>2
  <2> QED  BY <1>2, <1>7, <2>2 DEF IInv, UnreadInv
<1>14. VisitedInv' /\ PreOrder'
  BY <1>2 DEF IInv, VisitedInv, PreOrder, Descended, Ancestors, Level, PathOf, PathIn
<1>15. DepthBounded'
  BY <1>1, <1>2, <1>3, <1>7 DEF IInv, DepthBounded, TypeOK
<1>16. OwedInv'
  <2>1. SUFFICES ASSUME NEW f \in Entry \ visited, f # entry,
                        tree.parent[f] \in {Root} \cup visited \cup OnList \cup {entry},
                        Descended(tree.parent[f])
                 PROVE  \E i \in 0..(n + 1) : /\ IterDirAt(i)'.dir = tree.parent[f]
                                              /\ f \in IterDirAt(i)'.rest
    BY <1>2, <1>7, <1>9 DEF OwedInv, Descended, Level, PathOf, PathIn
  <2>2. CASE tree.parent[f] = entry
    <3>1. f \in new.rest
      BY <1>6, <2>2 DEF Stream
    <3> QED  BY <1>6, <1>8, <2>2, <3>1
  <2>3. CASE tree.parent[f] # entry
    <3>1. PICK i \in 0..n : IterDirAt(i).dir = tree.parent[f] /\ f \in IterDirAt(i).rest
      BY <1>1, <1>2, <2>1, <2>3 DEF IInv, OwedInv
    <3> QED  BY <1>8, <3>1
  <2> QED  BY <2>2, <2>3
<1>17. ReturnInv'
  BY <1>2 DEF ReturnInv, Exhausted
<1>18. HeldExactly'
  BY <1>2, <1>3, <1>7, <1>9 DEF IInv, HeldExactly
<1> QED  BY <1>10, <1>11, <1>12, <1>13, <1>14, <1>15, <1>16, <1>17, <1>18 DEF IInv

(* The directory that holds the entry in flight has been delivered and     *)
(* entered.                                                                *)
LEMMA ParentEntered ==
  ASSUME IInv, InFlight
  PROVE  /\ tree.parent[entry] = Root \/ tree.parent[entry] \in visited
         /\ Descended(tree.parent[entry])
<1>1. TypeOK /\ ListInv
  BY DEF IInv
<1>2. /\ entry \in Entry \ visited /\ target \in 0..Len(children)
      /\ tree.parent[entry] = IterDirAt(target).dir
  BY DEF IInv, FlightInv
<1>3. tree.parent[entry] = Root \/ tree.parent[entry] \in visited
  <2>1. CASE target = 0
    <3>1. IterDirAt(target) = root
      BY <2>1 DEF IterDirAt
    <3>2. root.dir = Root
      BY <1>1 DEF ListInv
    <3> QED  BY <1>2, <3>1, <3>2
  <2>2. CASE target # 0
    <3>1. target \in 1..Len(children) /\ tree.parent[entry] = children[target].dir
      BY <1>2, <2>2 DEF IterDirAt
    <3>2. tree.parent[entry] # entry
      <4>1. /\ Level(tree.parent[entry]) \in Nat
            /\ Level(entry) = Level(tree.parent[entry]) + 1
        BY <1>1, <1>2, TreeFacts DEF TypeOK
      <4> QED  BY <4>1
    <3> QED  BY <1>1, <3>1, <3>2 DEF ListInv, TypeOK
  <2> QED  BY <2>1, <2>2
<1>4. Descended(tree.parent[entry])
  <2>1. CASE target = 0
    BY <1>1, <1>2, <2>1 DEF ListInv, IterDirAt, Descended
  <2>2. CASE target # 0
    <3>1. target \in 1..Len(children) /\ tree.parent[entry] = children[target].dir
      BY <1>2, <2>2 DEF IterDirAt
    <3>2. cb.recurse /\ (cb.max_depth < 0 \/ Len(children) <= cb.max_depth)
      BY <1>1, <3>1, EmptySeq DEF IInv, DepthBounded, TypeOK
    <3>3. children[target].dir \in tree.dirs \ lost /\ Level(children[target].dir) = target
      BY <1>1, <3>1 DEF ListInv
    <3> QED  BY <1>1, <3>1, <3>2, <3>3, LenProperties DEF Descended, TypeOK
  <2> QED  BY <2>1, <2>2
<1> QED  BY <1>3, <1>4

LEMMA CallbackStep ==
  ASSUME IInv, NEW ok \in BOOLEAN, Callback(ok)
  PROVE  IInv'
<1>1. /\ TypeOK /\ ListInv /\ pc = "call" /\ InFlight /\ ~InFlight' /\ pc' \in {"read", "idle"}
      /\ UNCHANGED <<tree, cb, root, children, sz, entry, fds, objs, lost, failures>>
      /\ visited' = visited \cup {entry} /\ xstat' = NULL /\ target' = 0
      /\ entry # NULL /\ (pc' = "idle" => rv' = -2) /\ rv' \in -3..1
  BY NamesAssumption DEF IInv, Callback, Break, cbvars, InFlight, TypeOK, FlightInv
<1>2. /\ entry \in Entry \ visited /\ target \in 0..Len(children)
      /\ tree.parent[entry] = IterDirAt(target).dir
      /\ entry \notin IterDirAt(target).rest
      /\ Descended(entry) => entry \in OnList
  BY <1>1 DEF IInv, FlightInv
<1>3. tree.parent[entry] = Root \/ tree.parent[entry] \in visited
  BY <1>1, ParentEntered
<1>4. Descended(tree.parent[entry])
  BY <1>1, ParentEntered
<1>5. \A a \in Ancestors(entry) : Descended(a) /\ a \in visited
  <2>1. Ancestors(entry) = IF tree.parent[entry] = Root THEN {}
                           ELSE Ancestors(tree.parent[entry]) \cup {tree.parent[entry]}
    BY <1>1, <1>2, AncestorsFact DEF TypeOK
  <2> QED  BY <1>3, <1>4, <2>1 DEF IInv, VisitedInv, PreOrder
<1>6. TypeOK'
  BY <1>1, <1>2 DEF TypeOK
<1>7. ListInv'
  BY <1>1 DEF ListInv, PathOf, PathIn, Level, Stream
<1>8. FlightInv' /\ DepthBounded'
  BY <1>1 DEF IInv, FlightInv, DepthBounded
<1>9. UnreadInv'
  <2>1. ASSUME NEW i \in 0..Len(children) PROVE entry \notin IterDirAt(i).rest
    <3>1. entry \in IterDirAt(i).rest => tree.parent[entry] = IterDirAt(i).dir
      BY <1>1, <1>2, RestFacts, NamesAssumption
    <3> QED  BY <1>1, <1>2, <3>1, PlacesDiffer
  <2> QED  BY <1>1, <2>1 DEF IInv, UnreadInv, IterDirAt
<1>10. VisitedInv' /\ PreOrder'
  <2>1. \A e : Ancestors(e)' = Ancestors(e)
    BY <1>1, TreeFrame
  <2>2. \A a : Descended(a)' <=> Descended(a)
    BY <1>1 DEF Descended, Level, PathOf, PathIn
  <2> QED  BY <1>1, <1>5, <2>1, <2>2 DEF IInv, VisitedInv, PreOrder
<1>11. OwedInv'
  <2>1. SUFFICES ASSUME NEW f \in Entry \ visited, f # entry,
                        tree.parent[f] \in {Root} \cup visited \cup {entry} \cup OnList,
                        Descended(tree.parent[f])
                 PROVE  \E i \in 0..Len(children) : /\ IterDirAt(i).dir = tree.parent[f]
                                                    /\ f \in IterDirAt(i).rest
    BY <1>1 DEF OwedInv, Descended, Level, PathOf, PathIn, OnList, IterDirAt
  <2>2. tree.parent[f] \in {Root} \cup visited \cup OnList
    BY <1>2, <2>1
  <2> QED  BY <1>1, <2>1, <2>2 DEF IInv, OwedInv
<1>12. ReturnInv' /\ HeldExactly'
  BY <1>1 DEF IInv, ReturnInv, HeldExactly, Exhausted, OnList
<1> QED  BY <1>6, <1>7, <1>8, <1>9, <1>10, <1>11, <1>12 DEF IInv
-----------------------------------------------------------------------------
(* The invariant holds.                                                    *)

LEMMA InitInv == Init => IInv
<1> SUFFICES ASSUME Init PROVE IInv
  OBVIOUS
<1>1. Len(children) = 0 /\ children \in Seq(IterDir) /\ 1..Len(children) = {}
  BY EmptySeq DEF Init
<1>2. TypeOK
  BY <1>1 DEF Init, TypeOK, IterDir
<1>3. ListInv /\ FlightInv /\ UnreadInv
  BY <1>1, TreeFacts DEF Init, ListInv, FlightInv, UnreadInv, InFlight, IterDirAt, Stream
<1>4. VisitedInv /\ OwedInv /\ ReturnInv /\ PreOrder
  BY DEF Init, VisitedInv, OwedInv, ReturnInv, Exhausted, PreOrder
<1>5. DepthBounded /\ HeldExactly
  BY <1>1 DEF Init, DepthBounded, HeldExactly, OnList
<1> QED  BY <1>2, <1>3, <1>4, <1>5 DEF IInv

LEMMA StutterStep ==
  ASSUME IInv, UNCHANGED vars
  PROVE  IInv'
<1> USE DEF vars, cbvars, locals, history, IInv
<1>1. TypeOK' /\ ReturnInv' /\ PreOrder' /\ DepthBounded'
  BY DEF TypeOK, ReturnInv, Exhausted, PreOrder, DepthBounded, Ancestors, Level, PathOf, PathIn
<1>2. ListInv' /\ FlightInv' /\ UnreadInv'
  BY DEF ListInv, FlightInv, UnreadInv, InFlight, IterDirAt, Stream, OnList, Descended,
         Descends, Level, PathOf, PathIn
<1>3. VisitedInv' /\ OwedInv' /\ HeldExactly'
  BY DEF VisitedInv, OwedInv, HeldExactly, InFlight, IterDirAt, OnList, Descended,
         Ancestors, Level, PathOf, PathIn
<1> QED  BY <1>1, <1>2, <1>3

LEMMA NextInv ==
  ASSUME IInv, [Next]_vars
  PROVE  IInv'
<1>1. CASE \E r \in BOOLEAN, d \in MaxDepths : OpenRoot(r, d)
  BY <1>1, OpenRootStep
<1>2. CASE Start
  BY <1>2, StartStep
<1>3. CASE Read
  BY <1>3, ReadEntryStep, ReadDotStep, ReadEndOfChildStep, ReadEndOfRootStep,
     ReadFailsStep DEF Read
<1>4. CASE AddChild
  <2>1. CASE CopyObject
    BY <2>1, CopyObjectStep
  <2>2. CASE OpenChild
    BY <2>2, OpenChildStep
  <2>3. CASE PushChild
    BY <2>3, PushChildStep
  <2>4. CASE CopyFails
    BY <2>4, ChildLostStep DEF CopyFails
  <2>5. CASE OpenChildFails
    BY <2>5, ChildLostStep DEF OpenChildFails
  <2>6. CASE PathFails
    BY <2>6, ChildLostStep DEF PathFails
  <2> QED  BY <1>4, <2>1, <2>2, <2>3, <2>4, <2>5, <2>6 DEF AddChild
<1>5. CASE \E ok \in BOOLEAN : Callback(ok)
  BY <1>5, CallbackStep
<1>6. CASE Cleanup
  BY <1>6, CleanupStep
<1>7. CASE UNCHANGED vars
  BY <1>7, StutterStep
<1> QED  BY <1>1, <1>2, <1>3, <1>4, <1>5, <1>6, <1>7 DEF Next, IterStep

THEOREM Invariance == Spec => []IInv
<1>1. IInv /\ [Next]_vars => IInv'
  BY NextInv
<1> QED  BY InitInv, <1>1, PTL DEF Spec
-----------------------------------------------------------------------------
(* What a caller of the walk relies on.                                    *)

(* A call of iter_glfs_object_handle() is under way.                       *)
InWalk == pc \in {"read", "copy", "opendir", "push", "call"}

(* The callback breaks the loop with -2.                                   *)
LEMMA CallbackBreaks ==
  ASSUME IInv, Callback(FALSE)
  PROVE  /\ pc = "call" /\ pc' = "idle" /\ rv' = -2
         /\ entry \in Entry \ visited /\ entry' = entry
         /\ visited' = visited \cup {entry}
<1>1. pc = "call" /\ entry \in Entry \ visited
  BY DEF IInv, FlightInv, InFlight, Callback
<1>2. entry # NULL
  BY <1>1, NamesAssumption
<1> QED  BY <1>1, <1>2 DEF Callback, Break

(* A walk that ends by itself returns 0 or -1.                             *)
LEMMA WalksOn ==
  ASSUME IInv, Read \/ AddChild
  PROVE  /\ InWalk /\ pc # "call"
         /\ visited' = visited
         /\ \/ InWalk'
            \/ pc' = "idle" /\ rv' \in {-1, 0}
<1>1. CASE \E e \in Entry : ReadEntry(e)
  BY <1>1 DEF ReadEntry, history, InWalk
<1>2. CASE \E e \in Dots : ReadDot(e)
  BY <1>2 DEF ReadDot, history, InWalk
<1>3. CASE ReadEndOfChild
  BY <1>3 DEF ReadEndOfChild, history, InWalk
<1>4. CASE ReadEndOfRoot
  BY <1>4 DEF ReadEndOfRoot, Break, history, InWalk
<1>5. CASE ReadFails
  BY <1>5 DEF ReadFails, Break, InWalk
<1>6. CASE AddChild
  BY <1>6 DEF AddChild, CopyObject, CopyFails, OpenChild, OpenChildFails, PushChild,
             PathFails, ChildLost, history, InWalk
<1> QED  BY <1>1, <1>2, <1>3, <1>4, <1>5, <1>6 DEF Read
-----------------------------------------------------------------------------
(* The properties of ObjectIter that the runs check on a small instance.   *)

(* Every value the walker's state takes is of its type: in particular the  *)
(* count of the list never goes below 0 (pyglfs-iter.c, remove_last).      *)
THEOREM TypeCorrect == Spec => []TypeOK
BY Invariance, PTL DEF IInv

(* cb->fn is told the depth and the parent path of the directory its entry *)
(* is in, whatever the list went through.                                  *)
THEOREM CallbackArgumentsRight == Spec => []CallbackArguments
<1>1. IInv => CallbackArguments
  <2> SUFFICES ASSUME IInv, pc = "call"
               PROVE  LET d == tree.parent[entry] IN
                      /\ IterDirAt(target).dir = d
                      /\ IterDirAt(target).depth = Level(d)
                      /\ IterDirAt(target).abspath = IF d = Root THEN NULL ELSE PathOf(d)
    BY DEF CallbackArguments
  <2>1. TypeOK /\ ListInv /\ target \in 0..Len(children)
        /\ tree.parent[entry] = IterDirAt(target).dir
    BY DEF IInv, FlightInv, InFlight
  <2>2. CASE target = 0
    <3>1. IterDirAt(target) = root
      BY <2>2 DEF IterDirAt
    <3> QED  BY <2>1, <3>1, TreeFacts DEF ListInv, TypeOK
  <2>3. CASE target # 0
    <3>1. target \in 1..Len(children) /\ IterDirAt(target) = children[target]
      BY <2>1, <2>3 DEF IterDirAt
    <3>2. children[target].dir \in Entry
      BY <2>1, <3>1, TreeFacts DEF ListInv, TypeOK
    <3> QED  BY <2>1, <3>1, <3>2, NamesAssumption DEF ListInv
  <2> QED  BY <2>2, <2>3
<1> QED  BY Invariance, <1>1, PTL

(* No entry is delivered twice, over all the calls of a walk.              *)
THEOREM NeverTwice == Spec => []VisitedOnce
<1>1. IInv => VisitedOnce
  BY DEF IInv, FlightInv, InFlight, VisitedOnce
<1> QED  BY Invariance, <1>1, PTL

(* A directory is delivered before everything below it.                    *)
THEOREM DirectoryFirst == Spec => []PreOrder
BY Invariance, PTL DEF IInv

(* The list of open directories respects max_depth.                        *)
THEOREM WithinDepth == Spec => []DepthBounded
BY Invariance, PTL DEF IInv

(* The walk holds the descriptors and the objects of the directories on    *)
(* its list, and no others, on every path including the failing ones.      *)
THEOREM NothingLeaks == Spec => []HeldExactly
BY Invariance, PTL DEF IInv

(* At its end a walk has delivered exactly the entries due.  An entry that *)
(* is due but was not delivered, at the least depth, would be in a         *)
(* directory that was entered and still owes it.                           *)
LEMMA EndIsComplete == IInv => Complete
<1>1. ASSUME IInv, Exhausted PROVE visited = Due
  <2>1. TypeOK /\ children = <<>> /\ root.rest = {} /\ ~InFlight /\ pc \notin {"new", "freed"}
        /\ visited \subseteq Due
    BY <1>1 DEF IInv, ReturnInv, Exhausted, InFlight, VisitedInv, Due, TypeOK
  <2>2. \A e \in Entry \ visited :
          tree.parent[e] \in {Root} \cup visited => ~Descended(tree.parent[e])
    <3>1. Len(children) = 0
      BY <2>1, EmptySeq
    <3>2. ASSUME NEW i \in 0..Len(children) PROVE IterDirAt(i).rest = {}
      BY <2>1, <3>1, <3>2 DEF IterDirAt
    <3> QED  BY <1>1, <2>1, <3>2 DEF IInv, OwedInv
  <2> DEFINE Missing == {Level(e) : e \in Due \ visited}
  <2>3. ASSUME Due \ visited # {} PROVE FALSE
    <3>1. Missing \subseteq Nat /\ Missing # {}
      <4>1. \A e \in Due \ visited : Level(e) \in Nat
        <5>1. ASSUME NEW e \in Entry PROVE Level(e) \in Nat
          <6>1. Level(tree.parent[e]) \in Nat /\ Level(e) = Level(tree.parent[e]) + 1
            BY <2>1, TreeFacts DEF TypeOK
          <6> QED  BY <6>1
        <5> QED  BY <5>1 DEF Due
      <4> QED  BY <2>3, <4>1
    <3>2. PICK n \in Missing : \A m \in Missing : <<m, n>> \notin OpToRel(<, Nat)
      <4> HIDE DEF Missing
      <4> QED  BY <3>1, WFMin, NatLessThanWellFounded
    <3>3. PICK e \in Due \ visited : Level(e) = n
      BY <3>2
    <3> DEFINE d == tree.parent[e]
    <3>4. /\ e \in Entry /\ Level(d) \in Nat /\ Level(e) = Level(d) + 1
          /\ d \in tree.dirs \cup {Root} /\ tree.dirs \subseteq Entry
          /\ Ancestors(e) = IF d = Root THEN {} ELSE Ancestors(d) \cup {d}
          /\ \A a \in Ancestors(e) : Descended(a)
      BY <2>1, <3>3, TreeFacts, AncestorsFact DEF Due, TypeOK
    <3>5. Descended(d)
      BY <3>4 DEF Descended
    <3>6. d # Root /\ d \notin visited
      BY <2>2, <3>3, <3>4, <3>5
    <3>7. d \in Due \ visited
      BY <3>4, <3>6 DEF Due
    <3>8. Level(d) \in Missing /\ Level(d) < n
      BY <3>3, <3>4, <3>7
    <3> QED  BY <3>2, <3>4, <3>8, <3>1 DEF OpToRel
  <2> QED  BY <2>1, <2>3
<1> QED  BY <1>1 DEF Complete

(* A walk that ends by itself has delivered what was due, and no more.     *)
THEOREM AllDelivered == Spec => []Complete
BY Invariance, EndIsComplete, PTL
-----------------------------------------------------------------------------
(* The walk implements TreeWalk.                                           *)

LEMMA WalkLimit ==
  ASSUME TypeOK, NEW d
  PROVE  /\ Walk!Entered(d) <=> d = Root \/ (d \in visited /\ Descended(d))
         /\ Walk!Depth(d) = Level(d)
<1>1. Walk!Depth(d) = Level(d)
  BY TreeFacts DEF Walk!Depth, Level, PathOf, PathIn, TypeOK
<1> QED  BY <1>1, NamesAssumption DEF Walk!Entered, Walk!InLimit, Descended, TypeOK

LEMMA WalkInit == Init => Walk!Init
BY DEF Init, Walk!Init, Exhausted

(* A delivery.                                                             *)
LEMMA WalkDeliver ==
  ASSUME IInv, NEW ok \in BOOLEAN, Callback(ok)
  PROVE  Walk!Deliver(entry)
<1>1. InFlight /\ TypeOK /\ entry \in Entry \ visited
  BY DEF IInv, Callback, InFlight, FlightInv
<1>2. Walk!Entered(tree.parent[entry])
  BY <1>1, ParentEntered, WalkLimit
<1>3. ~Exhausted /\ ~Exhausted'
  BY <1>1, NamesAssumption DEF Exhausted, Callback, Break
<1> QED  BY <1>1, <1>2, <1>3 DEF Walk!Deliver, Callback, cbvars, Exhausted

(* A directory is given up.                                                *)
LEMMA WalkLose ==
  ASSUME IInv, ChildLost, pc \in {"copy", "opendir", "push"}
  PROVE  Walk!Lose(entry)
<1>1. InFlight /\ TypeOK /\ entry \in Entry \ visited
  BY DEF IInv, InFlight, FlightInv
<1>2. Walk!Entered(tree.parent[entry])
  BY <1>1, ParentEntered, WalkLimit
<1>3. Walk!InLimit(entry)
  <2>1. PICK n \in Nat : n = Len(children) /\ n = sz /\ n \in 0..Len(children)
    BY <1>1, LenProperties DEF IInv, TypeOK, ListInv
  <2>2. entry \in tree.dirs /\ cb.recurse /\ cb.max_depth # n
        /\ tree.parent[entry] = IterDirAt(n).dir
    BY <1>1, <2>1 DEF IInv, FlightInv, Descends
  <2>3. Level(entry) = n + 1
    BY <1>1, <2>1, <2>2, LevelAt, TreeFacts DEF IInv, TypeOK
  <2>4. cb.max_depth \in Int /\ (cb.max_depth < 0 \/ n <= cb.max_depth)
    BY <1>1, <2>1 DEF IInv, DepthBounded, TypeOK
  <2>5. Walk!Depth(entry) = n + 1
    BY <1>1, <2>3, WalkLimit
  <2> QED  BY <2>2, <2>4, <2>5 DEF Walk!InLimit
<1> QED  BY <1>1, <1>2, <1>3 DEF Walk!Lose, ChildLost, cbvars, Exhausted

(* The end is announced when nothing is left.                              *)
LEMMA WalkEnd ==
  ASSUME IInv, IInv', ReadEndOfRoot
  PROVE  [Walk!Next]_Walk!wvars
<1>1. /\ UNCHANGED <<tree, cb, root, children, visited, lost>> /\ ~Exhausted
      /\ pc = "read" /\ ~InFlight
  BY DEF ReadEndOfRoot, cbvars, history, Exhausted, InFlight
<1>2. CASE Exhausted'
  <2>1. children = <<>> /\ root.rest = {} /\ Len(children) = 0
    BY <1>1, <1>2, EmptySeq DEF IInv, ReturnInv
  <2>2. ASSUME NEW e \in Entry \ visited, Walk!Entered(tree.parent[e]) PROVE FALSE
    <3>1. tree.parent[e] \in {Root} \cup visited /\ Descended(tree.parent[e])
      BY <2>2, WalkLimit DEF IInv, Descended
    <3>2. PICK i \in 0..Len(children) : e \in IterDirAt(i).rest
      BY <1>1, <3>1 DEF IInv, OwedInv
    <3> QED  BY <2>1, <3>2 DEF IterDirAt
  <2>3. Walk!NothingLeft
    BY <2>2 DEF Walk!NothingLeft
  <2>4. Walk!End
    BY <1>1, <1>2, <2>3 DEF Walk!End
  <2> QED  BY <2>4 DEF Walk!Next
<1>3. CASE ~Exhausted'
  BY <1>1, <1>3 DEF Walk!wvars, Exhausted
<1> QED  BY <1>2, <1>3

LEMMA WalkStep ==
  ASSUME IInv, IInv', [Next]_vars
  PROVE  [Walk!Next]_Walk!wvars
<1>1. ASSUME NEW r \in BOOLEAN, NEW d \in MaxDepths, OpenRoot(r, d)
      PROVE  Walk!SetLimit(r, d)
  BY <1>1 DEF OpenRoot, Walk!SetLimit, IInv, ReturnInv, locals, history, Exhausted
<1>2. CASE Start \/ Cleanup
  <2>1. Walk!AskAgain
    BY <1>2 DEF Start, Cleanup, Walk!AskAgain, cbvars, history, Exhausted
  <2> QED  BY <2>1 DEF Walk!Next
<1>3. CASE \/ \E e \in Entry : ReadEntry(e)
           \/ \E e \in Dots : ReadDot(e)
           \/ ReadEndOfChild \/ ReadFails
           \/ CopyObject \/ OpenChild \/ PushChild
  <2>1. UNCHANGED <<tree, cb, visited, lost>>
    BY <1>3 DEF ReadEntry, ReadDot, ReadEndOfChild, ReadFails, CopyObject, OpenChild,
                PushChild, cbvars, history
  <2>2. ~Exhausted /\ ~Exhausted'
    BY <1>3 DEF ReadEntry, ReadDot, ReadEndOfChild, ReadFails, CopyObject, OpenChild,
                PushChild, Exhausted
  <2> QED  BY <2>1, <2>2 DEF Walk!wvars, Exhausted
<1>4. CASE ReadEndOfRoot
  BY <1>4, WalkEnd
<1>5. CASE CopyFails \/ OpenChildFails \/ PathFails
  <2>1. Walk!Lose(entry)
    BY <1>5, WalkLose DEF CopyFails, OpenChildFails, PathFails
  <2>2. entry \in Entry
    BY <1>5 DEF CopyFails, OpenChildFails, PathFails, IInv, InFlight, FlightInv
  <2> QED  BY <2>1, <2>2 DEF Walk!Next
<1>6. ASSUME NEW ok \in BOOLEAN, Callback(ok)
      PROVE  Walk!Next
  <2>1. entry \in Entry
    BY <1>6 DEF Callback, IInv, InFlight, FlightInv
  <2> QED  BY <1>6, <2>1, WalkDeliver DEF Walk!Next
<1>7. CASE UNCHANGED vars
  BY <1>7 DEF vars, cbvars, locals, history, Walk!wvars, Exhausted
<1>8. \A r \in BOOLEAN, d \in MaxDepths : OpenRoot(r, d) => Walk!Next
  BY <1>1 DEF Walk!Next
<1> QED
  BY <1>2, <1>3, <1>4, <1>5, <1>6, <1>7, <1>8 DEF Next, IterStep, Read, AddChild

(* iter_glfs_object_handle() with its list of open directories does what   *)
(* TreeWalk promises, whatever fails and whatever the callback answers.    *)
THEOREM Refinement == Spec => ImplementsTreeWalk
<1>1. IInv /\ IInv' /\ [Next]_vars => [Walk!Next]_Walk!wvars
  BY WalkStep
<1> QED  BY Invariance, WalkInit, <1>1, PTL DEF Spec, Walk!Spec, ImplementsTreeWalk
=============================================================================
