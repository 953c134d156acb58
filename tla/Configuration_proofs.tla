------------------------- MODULE Configuration_proofs -------------------------
(***************************************************************************)
(* What holds of the configuration for any operations, files, documents    *)
(* and command lines: the tree of bindings against the paths it was built  *)
(* from, the chain of files a configuration is loaded from, and where each *)
(* of its settings comes from.                                             *)
(***************************************************************************)
EXTENDS Configuration, FiniteSetTheorems, SequenceTheorems, TLAPS

-----------------------------------------------------------------------------
(* Induction over the naturals: a set of counterexamples has a least one,  *)
(* since below any of them there are finitely many.                        *)
LEMMA Least ==
  ASSUME NEW S \in SUBSET Nat, S # {}
  PROVE  \E n \in S : \A m \in S : n <= m
<1> PICK top \in S : TRUE
  OBVIOUS
<1> DEFINE X == {0 .. m : m \in {k \in S : k <= top}}
<1>1. IsWellFoundedOn(StrictSubsetOrdering(0 .. top), SUBSET (0 .. top))
  <2>1. IsFiniteSet(0 .. top)
    BY FS_Interval
  <2> QED
    BY <2>1, FS_StrictSubsetOrderingWellFounded, FS_FiniteSubsetsOfFinite
<1>2. X \subseteq SUBSET (0 .. top) /\ X # {}
  OBVIOUS
<1>3. PICK T \in X : \A U \in X : ~(<<U, T>> \in StrictSubsetOrdering(0 .. top))
  <2> HIDE DEF StrictSubsetOrdering, X
  <2> QED
    BY <1>1, <1>2, WFMin
<1>4. PICK n \in S : n <= top /\ T = 0 .. n
  OBVIOUS
<1>5. ASSUME NEW m \in S, m < n PROVE FALSE
  <2>1. 0 .. m \in X /\ 0 .. m \subseteq 0 .. n /\ 0 .. m # 0 .. n
    BY <1>4, <1>5
  <2>2. <<0 .. m, T>> \in StrictSubsetOrdering(0 .. top)
    BY <2>1, <1>4, <1>2 DEF StrictSubsetOrdering
  <2> QED
    BY <2>1, <2>2, <1>3
<1> QED
  BY <1>5

-----------------------------------------------------------------------------
(* The value at a path.                                                    *)

\* at has the values met on the way of the first n segments.
Walks(at, v, path, n) ==
  at = [k \in 0 .. n |-> IF k = 0 THEN <<v>> ELSE FieldOf(at[k - 1], path[k])]

LEMMA WalkExists ==
  ASSUME NEW v, NEW path, NEW n \in Nat
  PROVE  \E at : Walks(at, v, path, n)
<1> DEFINE Bad == {m \in Nat : ~ \E at : Walks(at, v, path, m)}
<1>0. SUFFICES ASSUME Bad # {} PROVE FALSE
  OBVIOUS
<1>1. PICK m \in Bad : \A k \in Bad : m <= k
  <2> HIDE DEF Bad
  <2>1. Bad \in SUBSET Nat
    BY DEF Bad
  <2> QED
    BY <1>0, <2>1, Least
<1>2. CASE m = 0
  <2>1. Walks([k \in 0 .. 0 |-> <<v>>], v, path, 0)
    BY DEF Walks
  <2> QED
    BY <1>2, <2>1
<1>3. CASE m # 0
  <2>1. m - 1 \in Nat /\ m - 1 \notin Bad
    BY <1>1, <1>3
  <2>2. PICK at : Walks(at, v, path, m - 1)
    BY <2>1
  <2> DEFINE b == [k \in 0 .. m |-> IF k = m THEN FieldOf(at[m - 1], path[m]) ELSE at[k]]
  <2>3. ASSUME NEW k \in 0 .. m
        PROVE  b[k] = IF k = 0 THEN <<v>> ELSE FieldOf(b[k - 1], path[k])
    <3>1. CASE k = m
      BY <3>1, <2>1
    <3>2. CASE k # m
      <4>1. k \in 0 .. m - 1 /\ (k # 0 => k - 1 \in 0 .. m - 1)
        BY <3>2
      <4>2. at[k] = IF k = 0 THEN <<v>> ELSE FieldOf(at[k - 1], path[k])
        BY <2>2, <4>1 DEF Walks
      <4>3. b[k] = at[k] /\ (k # 0 => b[k - 1] = at[k - 1])
        BY <3>2, <4>1
      <4> QED
        BY <4>2, <4>3
    <3> QED
      BY <3>1, <3>2
  <2>4. Walks(b, v, path, m)
    <3> HIDE DEF Bad
    <3> QED
      BY <2>3 DEF Walks
  <2> QED
    BY <2>4
<1> QED
  BY <1>2, <1>3

LEMMA WalksAgree ==
  \A v, p, q, a, b : \A n, m \in Nat :
      /\ Walks(a, v, p, n) /\ Walks(b, v, q, m) /\ n <= m
      /\ \A k \in 1 .. n : p[k] = q[k]
      => \A k \in 0 .. n : a[k] = b[k]
<1> SUFFICES ASSUME NEW v, NEW p, NEW q, NEW a, NEW b, NEW n \in Nat, NEW m \in Nat,
                    Walks(a, v, p, n), Walks(b, v, q, m), n <= m,
                    \A k \in 1 .. n : p[k] = q[k]
             PROVE  \A k \in 0 .. n : a[k] = b[k]
  OBVIOUS
<1> DEFINE Bad == {k \in 0 .. n : a[k] # b[k]}
<1>0. SUFFICES ASSUME Bad # {} PROVE FALSE
  OBVIOUS
<1>1. PICK k \in Bad : \A j \in Bad : k <= j
  <2>1. Bad \in SUBSET Nat
    OBVIOUS
  <2> HIDE DEF Bad
  <2> QED
    BY <1>0, <2>1, Least
<1>2. a[0] = <<v>> /\ b[0] = <<v>>
  BY DEF Walks
<1>3. k # 0
  BY <1>2
<1>4. k - 1 \in 0 .. n /\ a[k - 1] = b[k - 1]
  BY <1>1, <1>3
<1>5. a[k] = FieldOf(a[k - 1], p[k])
  <2>1. k \in 0 .. n
    OBVIOUS
  <2> HIDE DEF Bad
  <2> QED
    BY <1>3, <2>1 DEF Walks
<1>6. b[k] = FieldOf(b[k - 1], q[k])
  <2>1. k \in 0 .. m
    OBVIOUS
  <2> HIDE DEF Bad
  <2> QED
    BY <1>3, <2>1 DEF Walks
<1>7. p[k] = q[k]
  BY <1>3
<1> QED
  BY <1>4, <1>5, <1>6, <1>7

LEMMA LookupWalk ==
  ASSUME NEW v, NEW path, Len(path) \in Nat
  PROVE  \E at : Walks(at, v, path, Len(path)) /\ Lookup(v, path) = at[Len(path)]
<1> DEFINE Body(at) == [k \in 0 .. Len(path) |-> IF k = 0 THEN <<v>>
                                                 ELSE FieldOf(at[k - 1], path[k])]
           at == CHOOSE at : at = Body(at)
<1>1. Lookup(v, path) = at[Len(path)]
  BY DEF Lookup
<1>2. PICK b : Walks(b, v, path, Len(path))
  BY WalkExists
<1>3. b = Body(b)
  BY <1>2 DEF Walks
<1>4. at = Body(at)
  BY <1>3
<1> QED
  BY <1>1, <1>4 DEF Walks

LEMMA LookupEmpty == \A v : Lookup(v, <<>>) = <<v>>
<1> TAKE v
<1>1. Len(<<>>) = 0
  OBVIOUS
<1>2. PICK at : Walks(at, v, <<>>, Len(<<>>)) /\ Lookup(v, <<>>) = at[Len(<<>>)]
  BY <1>1, LookupWalk
<1>3. at[0] = <<v>>
  BY <1>1, <1>2 DEF Walks
<1> QED
  BY <1>1, <1>2, <1>3

LEMMA LookupNext ==
  ASSUME NEW v, NEW p, NEW q, Len(p) \in Nat, Len(q) = Len(p) + 1,
         \A k \in 1 .. Len(p) : p[k] = q[k]
  PROVE  Lookup(v, q) = FieldOf(Lookup(v, p), q[Len(q)])
<1>1. PICK a : Walks(a, v, p, Len(p)) /\ Lookup(v, p) = a[Len(p)]
  BY LookupWalk
<1>2. Len(q) \in Nat /\ Len(p) <= Len(q)
  OBVIOUS
<1>3. PICK b : Walks(b, v, q, Len(q)) /\ Lookup(v, q) = b[Len(q)]
  BY <1>2, LookupWalk
<1>4. \A k \in 0 .. Len(p) : a[k] = b[k]
  BY <1>1, <1>2, <1>3, WalksAgree
<1>5. b[Len(q)] = FieldOf(b[Len(q) - 1], q[Len(q)])
  <2>1. Len(q) \in 0 .. Len(q) /\ Len(q) # 0
    OBVIOUS
  <2> QED
    BY <1>3, <2>1 DEF Walks
<1>6. Len(q) - 1 = Len(p) /\ Len(p) \in 0 .. Len(p)
  OBVIOUS
<1> QED
  BY <1>1, <1>3, <1>4, <1>5, <1>6

LEMMA LookupAppend ==
  ASSUME NEW v, NEW S, NEW path \in Seq(S), NEW key \in S
  PROVE  Lookup(v, Append(path, key)) = FieldOf(Lookup(v, path), key)
<1>1. Len(path) \in Nat /\ Len(Append(path, key)) = Len(path) + 1
  OBVIOUS
<1>2. \A k \in 1 .. Len(path) : path[k] = Append(path, key)[k]
  OBVIOUS
<1>3. Append(path, key)[Len(Append(path, key))] = key
  OBVIOUS
<1>4. Lookup(v, Append(path, key))
        = FieldOf(Lookup(v, path), Append(path, key)[Len(Append(path, key))])
  BY <1>1, <1>2, LookupNext, ZenonT(60)
<1> QED
  BY <1>3, <1>4

-----------------------------------------------------------------------------
(* The tree in its array.                                                  *)
\* What a segment of a path may be; the root has no name.
Names == STRING \cup {""}

Node == [name : Names, path : Seq(Names), binding : Nat, child : Nat, sibling : Nat]

IsChild(n, c, i) == c \in 2 .. Len(n) /\ n[c].path = Append(n[i].path, n[c].name)

\* c is the last child of i before place end, or NONE if there is none.
Newest(n, i, c, end) ==
  \/ c = NONE /\ \A d \in 2 .. end - 1 : ~IsChild(n, d, i)
  \/ /\ c \in 2 .. end - 1 /\ IsChild(n, c, i)
     /\ \A d \in c + 1 .. end - 1 : ~IsChild(n, d, i)

\* Each node but the root is the child of an earlier one, no two have the same
\* path, and the links go from a node to its children, newest first.
Linked(n) ==
  /\ n \in Seq(Node) /\ Len(n) >= 1 /\ n[1].path = <<>> /\ n[1].sibling = NONE
  /\ \A c \in 2 .. Len(n) : \E p \in 1 .. c - 1 : IsChild(n, c, p)
  /\ \A c, d \in DOMAIN n : n[c].path = n[d].path => c = d
  /\ \A i \in DOMAIN n : Newest(n, i, n[i].child, Len(n) + 1)
  /\ \A i \in DOMAIN n : \A c \in 2 .. Len(n) :
        IsChild(n, c, i) => Newest(n, i, n[c].sibling, c)

LEMMA SiblingBefore ==
  ASSUME NEW n, Linked(n), NEW c \in DOMAIN n
  PROVE  n[c].sibling \in 0 .. c - 1
<1>1. CASE c = 1
  BY <1>1 DEF Linked, NONE
<1>2. CASE c # 1
  <2>1. c \in 2 .. Len(n)
    BY <1>2 DEF Linked
  <2>2. PICK p \in 1 .. c - 1 : IsChild(n, c, p)
    BY <2>1 DEF Linked
  <2>3. p \in DOMAIN n
    BY <2>1, <2>2 DEF Linked
  <2>4. Newest(n, p, n[c].sibling, c)
    BY <2>1, <2>2, <2>3 DEF Linked
  <2> QED
    BY <2>1, <2>4 DEF Newest, NONE
<1> QED
  BY <1>1, <1>2

\* from has what the search for the name returns when it comes to a node, up
\* to node m.
Searches(from, n, name, m) ==
  from = [c \in 0 .. m |-> IF c = NONE THEN NONE
                           ELSE IF n[c].name = name THEN c ELSE from[n[c].sibling]]

\* A search for a name runs over any linked arena: every sibling is an earlier node.
LEMMA SearchExists ==
  ASSUME NEW n, Linked(n), NEW name, NEW m \in 0 .. Len(n)
  PROVE  \E from : Searches(from, n, name, m)
<1> DEFINE Bad == {k \in 0 .. Len(n) : ~ \E from : Searches(from, n, name, k)}
<1>0. SUFFICES ASSUME Bad # {} PROVE FALSE
  OBVIOUS
<1>a. Len(n) \in Nat /\ DOMAIN n = 1 .. Len(n)
  BY DEF Linked
<1>1. PICK k \in Bad : \A j \in Bad : k <= j
  <2>1. Bad \in SUBSET Nat
    BY <1>a
  <2> HIDE DEF Bad
  <2> QED
    BY <1>0, <2>1, Least
<1>2. CASE k = 0
  <2>1. Searches([c \in 0 .. 0 |-> NONE], n, name, 0)
    BY DEF Searches, NONE
  <2> QED
    BY <1>2, <2>1
<1>3. CASE k # 0
  <2>1. k - 1 \in 0 .. Len(n) /\ k - 1 \notin Bad /\ k \in DOMAIN n
    BY <1>1, <1>3, <1>a
  <2>2. PICK f : Searches(f, n, name, k - 1)
    BY <2>1
  <2> DEFINE g == [c \in 0 .. k |-> IF c = k
                     THEN IF n[k].name = name THEN k ELSE f[n[k].sibling]
                     ELSE f[c]]
  <2>3. ASSUME NEW c \in 0 .. k
        PROVE  g[c] = IF c = NONE THEN NONE
                      ELSE IF n[c].name = name THEN c ELSE g[n[c].sibling]
    <3>1. CASE c = k
      <4>1. n[k].sibling \in 0 .. k - 1
        BY <2>1, SiblingBefore
      <4>2. n[k].sibling \in 0 .. k /\ n[k].sibling # k
        BY <4>1, <2>1
      <4>3. g[n[k].sibling] = f[n[k].sibling]
        BY <4>2
      <4> QED
        BY <3>1, <4>3, <1>3 DEF NONE
    <3>2. CASE c # k
      <4>1. c \in 0 .. k - 1 /\ g[c] = f[c]
        BY <3>2
      <4>2. f[c] = IF c = NONE THEN NONE ELSE IF n[c].name = name THEN c ELSE f[n[c].sibling]
        BY <2>2, <4>1 DEF Searches
      <4>3. CASE c = NONE
        BY <4>1, <4>2, <4>3
      <4>4. CASE c # NONE
        <5>1. c \in DOMAIN n
          BY <4>1, <4>4, <2>1, <1>a DEF NONE
        <5>2. n[c].sibling \in 0 .. c - 1
          BY <5>1, SiblingBefore
        <5>3. n[c].sibling \in 0 .. k /\ n[c].sibling # k
          BY <5>2, <4>1
        <5> QED
          BY <4>1, <4>2, <4>4, <5>3
      <4> QED
        BY <4>3, <4>4
    <3> QED
      BY <3>1, <3>2
  <2>4. Searches(g, n, name, k)
    <3> HIDE DEF Bad
    <3> QED
      BY <2>3 DEF Searches
  <2> QED
    BY <2>4
<1> QED
  BY <1>2, <1>3

\* From the newest child before `end`, a search finds the child of that name, or none has it.
LEMMA SearchFinds ==
  ASSUME NEW n, Linked(n), NEW name, NEW from, Searches(from, n, name, Len(n)),
         NEW i \in DOMAIN n, NEW c, NEW end \in 1 .. Len(n) + 1, Newest(n, i, c, end)
  PROVE  \/ from[c] = NONE /\ \A d \in 2 .. end - 1 : IsChild(n, d, i) => n[d].name # name
         \/ IsChild(n, from[c], i) /\ n[from[c]].name = name
<1> DEFINE Right(x, e) ==
             \/ from[x] = NONE /\ \A d \in 2 .. e - 1 : IsChild(n, d, i) => n[d].name # name
             \/ IsChild(n, from[x], i) /\ n[from[x]].name = name
           Bad == {x \in 0 .. Len(n) : \E e \in 1 .. Len(n) + 1 : Newest(n, i, x, e) /\ ~Right(x, e)}
<1>a. Len(n) \in Nat /\ DOMAIN n = 1 .. Len(n)
  BY DEF Linked
<1>0. SUFFICES ASSUME Bad # {} PROVE FALSE
  <2>1. c \in 0 .. Len(n)
    BY <1>a DEF Newest, NONE
  <2> QED
    BY <2>1
<1>1. PICK x \in Bad : \A y \in Bad : x <= y
  <2>1. Bad \in SUBSET Nat
    BY <1>a
  <2> HIDE DEF Bad
  <2> QED
    BY <1>0, <2>1, Least
<1>2. PICK e \in 1 .. Len(n) + 1 : Newest(n, i, x, e) /\ ~Right(x, e)
  OBVIOUS
<1>3. x \in 0 .. Len(n)
  OBVIOUS
<1> HIDE DEF Bad
<1>4. from[x] = IF x = NONE THEN NONE ELSE IF n[x].name = name THEN x ELSE from[n[x].sibling]
  BY <1>3 DEF Searches
<1>5. CASE x = NONE
  BY <1>2, <1>4, <1>5 DEF Newest, NONE
<1>6. CASE x # NONE
  <2>1. /\ x \in 2 .. e - 1 /\ IsChild(n, x, i)
        /\ \A d \in x + 1 .. e - 1 : ~IsChild(n, d, i)
    BY <1>2, <1>6 DEF Newest
  <2>2. CASE n[x].name = name
    BY <1>2, <1>4, <1>6, <2>1, <2>2
  <2>3. CASE n[x].name # name
    <3> DEFINE y == n[x].sibling
    <3>1. x \in 2 .. Len(n) /\ x \in 1 .. Len(n) + 1
      BY <2>1, <1>a
    <3>2. Newest(n, i, y, x)
      BY <3>1, <2>1 DEF Linked
    <3>3. y \in 0 .. x - 1
      BY <3>1, <1>a, SiblingBefore
    <3>4. y \notin Bad /\ y \in 0 .. Len(n)
      BY <3>1, <3>3, <1>1, <1>a
    <3>5. Right(y, x)
      BY <3>1, <3>2, <3>4 DEF Bad
    <3>6. from[x] = from[y]
      BY <1>4, <1>6, <2>3
    <3> HIDE DEF y
    <3>7. CASE IsChild(n, from[y], i) /\ n[from[y]].name = name
      BY <1>2, <3>6, <3>7
    <3>8. CASE from[y] = NONE /\ \A d \in 2 .. x - 1 : IsChild(n, d, i) => n[d].name # name
      <4>1. \A d \in 2 .. e - 1 : d \in 2 .. x - 1 \/ d = x \/ d \in x + 1 .. e - 1
        BY <3>1
      <4>2. \A d \in 2 .. e - 1 : IsChild(n, d, i) => n[d].name # name
        BY <4>1, <2>1, <2>3, <3>8
      <4> QED
        BY <1>2, <3>6, <3>8, <4>2
    <3> QED
      BY <3>5, <3>7, <3>8
  <2> QED
    BY <2>2, <2>3
<1> QED
  BY <1>5, <1>6

\* ChildNamed finds the child of a node that has the name, exactly when one has.
LEMMA ChildFound ==
  ASSUME NEW n, Linked(n), NEW i \in DOMAIN n, NEW name
  PROVE  \/ /\ ChildNamed(n, i, name) = NONE
            /\ \A c \in DOMAIN n : ~(IsChild(n, c, i) /\ n[c].name = name)
         \/ /\ ChildNamed(n, i, name) \in 2 .. Len(n)
            /\ IsChild(n, ChildNamed(n, i, name), i)
            /\ n[ChildNamed(n, i, name)].name = name
<1> DEFINE Body(f) == [c \in 0 .. Len(n) |-> IF c = NONE THEN NONE
                         ELSE IF n[c].name = name THEN c ELSE f[n[c].sibling]]
           from == CHOOSE f : f = Body(f)
<1>a. Len(n) \in Nat /\ Len(n) \in 0 .. Len(n) /\ Len(n) + 1 \in 1 .. Len(n) + 1
  BY DEF Linked
<1>1. ChildNamed(n, i, name) = from[n[i].child]
  BY DEF ChildNamed
<1>2. PICK f : Searches(f, n, name, Len(n))
  BY <1>a, SearchExists
<1>3. from = Body(from)
  <2>1. f = Body(f)
    BY <1>2 DEF Searches
  <2> QED
    BY <2>1
<1>4. Searches(from, n, name, Len(n))
  BY <1>3 DEF Searches
<1> HIDE DEF from
<1>5. Newest(n, i, n[i].child, Len(n) + 1)
  BY DEF Linked
<1>6. \/ /\ from[n[i].child] = NONE
         /\ \A d \in 2 .. (Len(n) + 1) - 1 : IsChild(n, d, i) => n[d].name # name
      \/ IsChild(n, from[n[i].child], i) /\ n[from[n[i].child]].name = name
  BY <1>a, <1>4, <1>5, SearchFinds
<1> QED
  BY <1>a, <1>1, <1>6, SMTT(30) DEF IsChild

-----------------------------------------------------------------------------
(* Loading: the files being extended are the beginning of the only chain   *)
(* there can be.                                                           *)

\* Where the k-th file of c leads, the first one being where the start does.
Place(c, k) == IF k = 0 THEN <<"cwd", start>> ELSE NextPlace(c[k])

Follows(c) ==
  \A k \in DOMAIN c : ~FileRefused(disk[c[k]]) /\ Leads(Place(c, k - 1), c[k])

Frame == [file : Files, value : Rests]

Trail == [k \in DOMAIN stack |-> stack[k].file]

OnTrail ==
  /\ Follows(Trail)
  /\ \A k \in DOMAIN stack : /\ Extends(stack[k].file)
                             /\ stack[k].value = Rest(disk[stack[k].file])
  /\ \A j, k \in DOMAIN stack : stack[j].file = stack[k].file => j = k
  /\ here = Place(Trail, Len(stack))

Stuck ==
  here \in DOMAIN Canonical =>
      Canonical[here] \in visited \/ FileRefused(disk[Canonical[here]])

LayersFrom(c, n) == [k \in 1 .. Len(c) - n |-> Rest(disk[c[n + k]])]

\* The layers of c that no stacked file stands for are one value.
Merged(c) ==
  /\ Len(stack) < Len(c)
  /\ \A k \in DOMAIN stack : stack[k].value = Rest(disk[c[k]])
  /\ value = Combination(LayersFrom(c, Len(stack)))

After == {"parse", "refused", "patch", "printed", "ready"}

ChainInv ==
  /\ disk \in [Files -> Contents \cup {Unread}]
  /\ stack \in Seq(Frame)
  /\ phase \notin {"merge"} \cup After => visited = {stack[k].file : k \in DOMAIN stack}
  /\ phase \in {"build", "built"} \cup After => stack = <<>>
  /\ phase \in {"load", "merge", "parse"} => start # NoPath
  /\ phase \in {"load", "unloadable"} => OnTrail
  /\ phase = "unloadable" => Stuck
  /\ phase \in {"merge"} \cup After => start = NoPath \/ \E c \in Chains : Merged(c)

\* from has what the last layers of a stack make, the last one at 0.
Lays(from, layers, n) ==
  from = [k \in 0 .. n |-> IF k = 0 THEN layers[Len(layers)]
                           ELSE Merge(from[k - 1], layers[Len(layers) - k])]

\* What one place of such a stack has.
LEMMA LaysAt ==
  ASSUME NEW from, NEW layers, NEW n, Lays(from, layers, n), NEW k \in 0 .. n
  PROVE  from[k] = IF k = 0 THEN layers[Len(layers)]
                   ELSE Merge(from[k - 1], layers[Len(layers) - k])
<1>1. from = [j \in 0 .. n |-> IF j = 0 THEN layers[Len(layers)]
                               ELSE Merge(from[j - 1], layers[Len(layers) - j])]
  BY Zenon DEF Lays
<1> DEFINE Value(j) == IF j = 0 THEN layers[Len(layers)]
                       ELSE Merge(from[j - 1], layers[Len(layers) - j])
<1>2. from = [j \in 0 .. n |-> Value(j)]
  BY <1>1, Zenon
<1>3. from[k] = Value(k)
  <2> HIDE DEF Value
  <2> QED
    BY <1>2
<1> QED
  BY <1>3, Zenon

LEMMA LaysExist ==
  ASSUME NEW layers, NEW n \in Nat
  PROVE  \E from : Lays(from, layers, n)
<1> DEFINE Bad == {m \in Nat : ~ \E from : Lays(from, layers, m)}
<1>0. SUFFICES ASSUME Bad # {} PROVE FALSE
  OBVIOUS
<1>1. PICK m \in Bad : \A k \in Bad : m <= k
  <2>1. Bad \in SUBSET Nat
    OBVIOUS
  <2> HIDE DEF Bad
  <2> QED
    BY <1>0, <2>1, Least
<1>2. CASE m = 0
  <2>1. Lays([k \in 0 .. 0 |-> layers[Len(layers)]], layers, 0)
    BY DEF Lays
  <2> QED
    BY <1>2, <2>1
<1>3. CASE m # 0
  <2>1. m - 1 \in Nat /\ m - 1 \notin Bad
    BY <1>1, <1>3
  <2>2. PICK at : Lays(at, layers, m - 1)
    BY <2>1
  <2> DEFINE b == [k \in 0 .. m |-> IF k = m THEN Merge(at[m - 1], layers[Len(layers) - m])
                                    ELSE at[k]]
  <2>3. ASSUME NEW k \in 0 .. m
        PROVE  b[k] = IF k = 0 THEN layers[Len(layers)]
                      ELSE Merge(b[k - 1], layers[Len(layers) - k])
    <3>1. CASE k = m
      BY <3>1, <2>1
    <3>2. CASE k # m
      <4>1. k \in 0 .. m - 1 /\ (k # 0 => k - 1 \in 0 .. m - 1)
        BY <3>2
      <4>2. at[k] = IF k = 0 THEN layers[Len(layers)]
                    ELSE Merge(at[k - 1], layers[Len(layers) - k])
        BY <2>2, <4>1 DEF Lays
      <4>3. b[k] = at[k] /\ (k # 0 => b[k - 1] = at[k - 1])
        BY <3>2, <4>1
      <4> QED
        BY <4>2, <4>3
    <3> QED
      BY <3>1, <3>2
  <2>4. Lays(b, layers, m)
    <3> HIDE DEF Bad
    <3> QED
      BY <2>3 DEF Lays
  <2> QED
    BY <2>4
<1> QED
  BY <1>2, <1>3

\* Combination is the last of the values the layers lay one over the other.
LEMMA CombinationLays ==
  ASSUME NEW layers, Len(layers) \in Nat \ {0}
  PROVE  \E from : /\ Lays(from, layers, Len(layers) - 1)
                   /\ Combination(layers) = from[Len(layers) - 1]
<1> DEFINE Body(f) == [k \in 0 .. Len(layers) - 1 |->
                         IF k = 0 THEN layers[Len(layers)]
                         ELSE Merge(f[k - 1], layers[Len(layers) - k])]
           from == CHOOSE f : f = Body(f)
<1>1. Combination(layers) = from[Len(layers) - 1]
  BY DEF Combination
<1>2. PICK f : Lays(f, layers, Len(layers) - 1)
  <2>1. Len(layers) - 1 \in Nat
    OBVIOUS
  <2> QED
    BY <2>1, LaysExist
<1>3. f = Body(f)
  BY <1>2 DEF Lays
<1>4. from = Body(from)
  BY <1>3
<1> QED
  BY <1>1, <1>4 DEF Lays

LEMMA CombinationOne ==
  ASSUME NEW layers, Len(layers) = 1
  PROVE  Combination(layers) = layers[1]
<1>1. PICK f : Lays(f, layers, Len(layers) - 1) /\ Combination(layers) = f[Len(layers) - 1]
  <2>1. Len(layers) \in Nat \ {0}
    OBVIOUS
  <2> QED
    BY <2>1, CombinationLays
<1>2. f[0] = layers[1]
  BY <1>1 DEF Lays
<1> QED
  BY <1>1, <1>2

LEMMA CombinationNext ==
  ASSUME NEW a, NEW b, Len(b) \in Nat \ {0}, Len(a) = Len(b) + 1,
         \A k \in 1 .. Len(b) : a[k + 1] = b[k]
  PROVE  Combination(a) = Merge(Combination(b), a[1])
<1> DEFINE n == Len(b)
<1>1. PICK f : Lays(f, a, n) /\ Combination(a) = f[n]
  <2>1. Len(a) \in Nat \ {0} /\ Len(a) - 1 = n
    OBVIOUS
  <2> QED
    BY <2>1, CombinationLays
<1>2. PICK g : Lays(g, b, n - 1) /\ Combination(b) = g[n - 1]
  BY CombinationLays
<1> DEFINE Bad == {k \in 0 .. n - 1 : f[k] # g[k]}
<1>3. Bad = {}
  <2> SUFFICES ASSUME Bad # {} PROVE FALSE
    OBVIOUS
  <2>1. PICK k \in Bad : \A j \in Bad : k <= j
    <3>1. Bad \in SUBSET Nat
      OBVIOUS
    <3> HIDE DEF Bad
    <3> QED
      BY <3>1, Least
  <2>2. k \in 0 .. n - 1 /\ k \in 0 .. n /\ f[k] # g[k]
    OBVIOUS
  <2>3. f[k] = IF k = 0 THEN a[Len(a)] ELSE Merge(f[k - 1], a[Len(a) - k])
    <3> HIDE DEF Bad, n
    <3> QED
      BY <1>1, <2>2, LaysAt
  <2>4. g[k] = IF k = 0 THEN b[Len(b)] ELSE Merge(g[k - 1], b[Len(b) - k])
    <3>1. Lays(g, b, n - 1) /\ k \in 0 .. n - 1
      BY <1>2, <2>2
    <3> HIDE DEF Bad, n
    <3> QED
      BY <3>1, LaysAt
  <2>5. a[Len(a)] = b[Len(b)]
    <3>1. Len(b) \in 1 .. Len(b)
      OBVIOUS
    <3>2. a[Len(b) + 1] = b[Len(b)]
      BY <3>1, Zenon
    <3> QED
      BY <3>2, Zenon
  <2>6. CASE k = 0
    <3> HIDE DEF Bad, n
    <3> QED
      BY <2>2, <2>3, <2>4, <2>5, <2>6, Zenon
  <2>7. CASE k # 0
    <3>1. k - 1 \in 0 .. n - 1 /\ f[k - 1] = g[k - 1]
      BY <2>1, <2>7
    <3>2. a[Len(a) - k] = b[Len(b) - k]
      <4>1. Len(b) - k \in 1 .. Len(b) /\ (Len(b) - k) + 1 = Len(a) - k
        BY <2>2, <2>7
      <4>2. a[(Len(b) - k) + 1] = b[Len(b) - k]
        BY <4>1, Zenon
      <4> QED
        BY <4>1, <4>2, Zenon
    <3> HIDE DEF Bad, n
    <3> QED
      BY <2>2, <2>3, <2>4, <2>7, <3>1, <3>2, Zenon
  <2> QED
    BY <2>6, <2>7
<1>4. f[n - 1] = g[n - 1]
  BY <1>3
<1>5. f[n] = Merge(f[n - 1], a[1])
  <2>1. n \in 0 .. n /\ n # 0 /\ Len(a) - n = 1
    OBVIOUS
  <2> HIDE DEF n
  <2>2. f[n] = Merge(f[n - 1], a[Len(a) - n])
    BY <1>1, <2>1, LaysAt
  <2> QED
    BY <2>1, <2>2
<1> QED
  BY <1>1, <1>2, <1>4, <1>5

LEMMA UnreadRefused == FileRefused(Unread)
BY DEF FileRefused, IsObject, Unread

\* Two ways from the same place are one, as far as both go.
LEMMA SameWay ==
  ASSUME NEW a \in Seq(Files), NEW b \in Seq(Files), Follows(a), Follows(b)
  PROVE  \A k \in DOMAIN a \cap DOMAIN b : a[k] = b[k]
<1> DEFINE Bad == {k \in DOMAIN a \cap DOMAIN b : a[k] # b[k]}
<1>0. SUFFICES ASSUME Bad # {} PROVE FALSE
  OBVIOUS
<1>1. PICK k \in Bad : \A j \in Bad : k <= j
  <2>1. Bad \in SUBSET Nat
    OBVIOUS
  <2> HIDE DEF Bad
  <2> QED
    BY <1>0, <2>1, Least
<1>2. k \in 1 .. Len(a) /\ k \in 1 .. Len(b) /\ a[k] # b[k]
  OBVIOUS
<1>3. Place(a, k - 1) = Place(b, k - 1)
  <2>1. CASE k = 1
    BY <2>1 DEF Place
  <2>2. CASE k # 1
    <3>1. k - 1 \in DOMAIN a \cap DOMAIN b
      BY <1>2, <2>2
    <3>2. a[k - 1] = b[k - 1]
      BY <1>1, <1>2, <3>1
    <3> QED
      BY <3>2 DEF Place
  <2> QED
    BY <2>1, <2>2
<1>4. Leads(Place(a, k - 1), a[k]) /\ Leads(Place(b, k - 1), b[k])
  BY <1>2 DEF Follows
<1> QED
  BY <1>2, <1>3, <1>4 DEF Leads

\* What it is to be a chain, whatever the number of files.
LEMMA ChainWay ==
  ASSUME NEW c \in Chains
  PROVE  /\ c \in Seq(Files) /\ Len(c) \in Nat \ {0} /\ Follows(c)
         /\ \A k \in 1 .. Len(c) - 1 : Extends(c[k])
         /\ ~Extends(c[Len(c)])
<1>1. PICK m \in 0 .. Cardinality(Files) : c \in [1 .. m -> Files]
  BY DEF Chains, BoundedSeq, SeqOf
<1>2. c \in Seq(Files) /\ c # <<>> /\ Len(c) \in Nat \ {0}
  <2>1. IsFiniteSet(Files) /\ Cardinality(Files) \in Nat
    BY FilesAssumption, FS_CardinalityType
  <2>2. m \in Nat
    BY <2>1
  <2> QED
    BY <1>1, <2>2 DEF Chains
<1>3. ASSUME NEW k \in DOMAIN c
      PROVE  ~FileRefused(disk[c[k]]) /\ Leads(Place(c, k - 1), c[k])
  <2>1. ~FileRefused(disk[c[k]])
    BY DEF Chains
  <2>2. CASE k = 1
    BY <2>1, <2>2 DEF Chains, Place
  <2>3. CASE k # 1
    <3>1. k - 1 \in 1 .. Len(c) - 1 /\ (k - 1) + 1 = k
      BY <1>2, <2>3
    <3>2. Leads(NextPlace(c[k - 1]), c[(k - 1) + 1])
      BY <3>1 DEF Chains
    <3> QED
      BY <2>1, <2>3, <3>1, <3>2 DEF Place
  <2> QED
    BY <2>2, <2>3
<1> QED
  BY <1>2, <1>3 DEF Follows, Chains

\* The files a start extends form at most one chain.
LEMMA OneChain ==
  ASSUME NEW c \in Chains, NEW d \in Chains
  PROVE  c = d
<1>1. /\ c \in Seq(Files) /\ Len(c) \in Nat \ {0} /\ Follows(c)
      /\ \A k \in 1 .. Len(c) - 1 : Extends(c[k])
      /\ ~Extends(c[Len(c)])
  BY ChainWay
<1>2. /\ d \in Seq(Files) /\ Len(d) \in Nat \ {0} /\ Follows(d)
      /\ \A k \in 1 .. Len(d) - 1 : Extends(d[k])
      /\ ~Extends(d[Len(d)])
  BY ChainWay
<1>3. \A k \in DOMAIN c \cap DOMAIN d : c[k] = d[k]
  BY <1>1, <1>2, SameWay
<1>4. ~(Len(c) < Len(d))
  <2> SUFFICES ASSUME Len(c) < Len(d) PROVE FALSE
    OBVIOUS
  <2>1. Len(c) \in DOMAIN c \cap DOMAIN d /\ Len(c) \in 1 .. Len(d) - 1
    BY <1>1, <1>2
  <2> QED
    BY <1>1, <1>2, <1>3, <2>1
<1>5. ~(Len(d) < Len(c))
  <2> SUFFICES ASSUME Len(d) < Len(c) PROVE FALSE
    OBVIOUS
  <2>1. Len(d) \in DOMAIN c \cap DOMAIN d /\ Len(d) \in 1 .. Len(c) - 1
    BY <1>1, <1>2
  <2> QED
    BY <1>1, <1>2, <1>3, <2>1
<1>6. Len(c) = Len(d)
  BY <1>1, <1>2, <1>4, <1>5
<1> QED
  BY <1>1, <1>2, <1>3, <1>6

\* A way with a file in two places comes back to it for ever: it is no chain.
LEMMA NoReturn ==
  ASSUME NEW c \in Chains, NEW i \in DOMAIN c, NEW j \in DOMAIN c, c[i] = c[j]
  PROVE  ~(i < j)
<1> SUFFICES ASSUME i < j PROVE FALSE
  OBVIOUS
<1> DEFINE p == j - i
           Bad == {k \in i .. Len(c) - p : c[k] # c[k + p]}
<1>1. /\ c \in Seq(Files) /\ Len(c) \in Nat \ {0} /\ Follows(c)
      /\ \A k \in 1 .. Len(c) - 1 : Extends(c[k])
      /\ ~Extends(c[Len(c)])
  BY ChainWay
<1>2. i \in 1 .. Len(c) /\ j \in 1 .. Len(c) /\ p \in 1 .. Len(c) - 1 /\ i + p = j
  BY <1>1
<1>3. Bad = {}
  <2> SUFFICES ASSUME Bad # {} PROVE FALSE
    OBVIOUS
  <2>1. PICK k \in Bad : \A l \in Bad : k <= l
    <3>1. Bad \in SUBSET Nat
      BY <1>2
    <3> HIDE DEF Bad
    <3> QED
      BY <3>1, Least
  <2>2. k \in i .. Len(c) - p /\ c[k] # c[k + p]
    OBVIOUS
  <2>3. k # i
    BY <1>2, <2>2
  <2> HIDE DEF Bad, p
  <2>4. /\ k - 1 \in i .. Len(c) - p /\ k - 1 # 0 /\ (k + p) - 1 # 0 /\ ~(k <= k - 1)
        /\ k \in DOMAIN c /\ k + p \in DOMAIN c /\ (k - 1) + p = (k + p) - 1
    BY <1>1, <1>2, <2>2, <2>3
  <2>5. c[k - 1] = c[(k - 1) + p]
    BY <2>1, <2>4 DEF Bad
  <2>6. Place(c, k - 1) = Place(c, (k + p) - 1)
    BY <2>4, <2>5 DEF Place
  <2>7. Leads(Place(c, k - 1), c[k]) /\ Leads(Place(c, (k + p) - 1), c[k + p])
    BY <1>1, <2>4 DEF Follows
  <2> QED
    BY <2>2, <2>6, <2>7 DEF Leads
<1>4. /\ Len(c) - p \in i .. Len(c) - p /\ Len(c) - p \in 1 .. Len(c) - 1
      /\ (Len(c) - p) + p = Len(c)
  <2> HIDE DEF p
  <2> QED
    BY <1>1, <1>2
<1>5. c[Len(c) - p] = c[Len(c)]
  BY <1>3, <1>4
<1> QED
  BY <1>1, <1>4, <1>5

\* Where the loader gives up, no chain exists: it stands at a missing, repeated or refused file.
LEMMA StuckChain ==
  ASSUME ChainInv, phase = "unloadable"
  PROVE  Chains = {}
<1> SUFFICES ASSUME NEW c \in Chains PROVE FALSE
  OBVIOUS
<1>0. OnTrail /\ Stuck /\ stack \in Seq(Frame)
  BY DEF ChainInv
<1>1. /\ c \in Seq(Files) /\ Len(c) \in Nat \ {0} /\ Follows(c)
      /\ \A k \in 1 .. Len(c) - 1 : Extends(c[k])
      /\ ~Extends(c[Len(c)])
  BY ChainWay
<1> DEFINE m == Len(stack)
<1>2. /\ m \in Nat /\ Trail \in Seq(Files) /\ DOMAIN Trail = 1 .. m /\ Len(Trail) = m
      /\ \A k \in 1 .. m : Trail[k] = stack[k].file
  <2>1. DOMAIN stack = 1 .. m /\ m \in Nat
    BY <1>0
  <2>2. \A k \in 1 .. m : stack[k].file \in Files
    <3>1. \A k \in 1 .. m : stack[k] \in Frame
      BY <1>0
    <3> QED
      BY <3>1 DEF Frame
  <2> HIDE DEF m
  <2>3. Trail = [k \in 1 .. m |-> stack[k].file]
    BY <2>1 DEF Trail
  <2> QED
    BY <2>1, <2>2, <2>3
<1>3. \A k \in DOMAIN c \cap DOMAIN Trail : c[k] = Trail[k]
  BY <1>0, <1>1, <1>2, SameWay DEF OnTrail
<1>4. m < Len(c)
  <2> SUFFICES ASSUME Len(c) <= m PROVE FALSE
    BY <1>1, <1>2
  <2>1. Len(c) \in DOMAIN c \cap DOMAIN Trail /\ Len(c) \in DOMAIN stack
    BY <1>0, <1>1, <1>2
  <2>2. Extends(c[Len(c)])
    BY <1>0, <1>2, <1>3, <2>1 DEF OnTrail
  <2> QED
    BY <1>1, <2>2
<1>5. m + 1 \in DOMAIN c /\ (m + 1) - 1 = m
  BY <1>1, <1>2, <1>4
<1>6. Place(c, m) = here
  <2>1. CASE m = 0
    BY <2>1, <1>0 DEF OnTrail, Place
  <2>2. CASE m # 0
    <3>1. m \in DOMAIN c \cap DOMAIN Trail
      BY <1>1, <1>2, <1>4, <2>2
    <3>2. c[m] = Trail[m]
      BY <1>3, <3>1
    <3> QED
      BY <2>2, <3>2, <1>0 DEF OnTrail, Place
  <2> QED
    BY <2>1, <2>2
<1>7. Leads(here, c[m + 1]) /\ ~FileRefused(disk[c[m + 1]])
  BY <1>1, <1>5, <1>6 DEF Follows
<1>8. c[m + 1] \in visited
  BY <1>0, <1>7 DEF Stuck, Leads
<1>9. PICK k \in DOMAIN stack : stack[k].file = c[m + 1]
  BY <1>8 DEF ChainInv, After
<1>10. k \in DOMAIN c /\ c[k] = c[m + 1] /\ k < m + 1
  <2>1. k \in 1 .. m
    BY <1>0, <1>2
  <2>2. k \in DOMAIN c \cap DOMAIN Trail
    BY <1>1, <1>2, <1>4, <2>1
  <2> QED
    BY <1>2, <1>3, <1>9, <2>1, <2>2
<1> QED
  BY <1>5, <1>10, NoReturn

LEMMA ChainInit == Init => ChainInv
BY DEF Init, ChainInv, Frame, After

\* Sequences without repetition are no longer than there are files.
LEMMA ShortEnough ==
  ASSUME NEW c \in Seq(Files), \A j, k \in DOMAIN c : c[j] = c[k] => j = k
  PROVE  c \in BoundedSeq(Files, Cardinality(Files))
<1>1. IsFiniteSet(Files) /\ Cardinality(Files) \in Nat
  BY FilesAssumption, FS_CardinalityType
<1>2. Len(c) \in Nat /\ c \in [1 .. Len(c) -> Files]
  OBVIOUS
<1>3. c \in Injection(1 .. Len(c), Files)
  BY <1>2 DEF Injection, IsInjective
<1>4. Cardinality(1 .. Len(c)) <= Cardinality(Files)
  BY <1>1, <1>3, FS_Injection
<1>5. Cardinality(1 .. Len(c)) = Len(c)
  BY <1>2, FS_Interval, SMTT(30)
<1>6. Len(c) \in 0 .. Cardinality(Files)
  BY <1>1, <1>2, <1>4, <1>5
<1> QED
  BY <1>2, <1>6 DEF BoundedSeq, SeqOf

\* What a step that leaves the disk and the stack alone needs.
LEMMA ChainSame ==
  ASSUME ChainInv, UNCHANGED <<start, disk, here, stack, visited, value>>,
         \/ phase' \in {"build", "built", "rejected"} /\ phase \in {"build", "built"}
         \/ phase = "merge" /\ stack = <<>> /\ phase' = "parse"
         \/ phase \in After /\ phase' \in After \ {"parse"}
         \/ phase' = phase
  PROVE  ChainInv'
<1>1. Chains' = Chains
  BY DEF Chains, Extends, NextPlace
<1>2. (\E c \in Chains : Merged(c)) => (\E c \in Chains : Merged(c))'
  BY <1>1 DEF Merged, LayersFrom
<1>3. OnTrail => OnTrail'
  BY DEF OnTrail, Follows, Trail, Place, NextPlace, Extends
<1>4. Stuck => Stuck'
  BY DEF Stuck
<1> QED
  BY <1>2, <1>3, <1>4 DEF ChainInv, After

LEMMA LaunchChain ==
  ASSUME ChainInv, Launch
  PROVE  ChainInv'
<1>1. stack' = <<>> /\ stack = <<>> /\ visited' = {} /\ disk' = disk
  BY DEF ChainInv, Launch, After
<1>2. OnTrail'
  <2>1. Trail' = <<>> /\ DOMAIN Trail' = {} /\ Len(stack') = 0 /\ DOMAIN stack' = {}
    BY <1>1 DEF Trail
  <2>2. here' = <<"cwd", start'>>
    BY DEF Launch
  <2> QED
    BY <2>1, <2>2 DEF OnTrail, Follows, Place
<1> QED
  BY <1>1, <1>2 DEF ChainInv, Launch, After

\* A file is read: those on the stack, all read before, stay what they are.
LEMMA TrailKept ==
  ASSUME ChainInv, phase = "load", NEW file \in Files, NEW content,
         file \notin visited, disk' = [disk EXCEPT ![file] = content]
  PROVE  /\ disk'[file] = content
         /\ \A k \in DOMAIN stack : /\ disk'[stack[k].file] = disk[stack[k].file]
                                    /\ stack[k].file \in Files /\ stack[k].file # file
<1>1. \A k \in DOMAIN stack : stack[k].file \in Files /\ stack[k].file # file
  <2> TAKE k \in DOMAIN stack
  <2>1. stack[k] \in Frame
    BY DEF ChainInv
  <2> QED
    BY <2>1 DEF ChainInv, Frame, After
<1>2. disk'[file] = content /\ \A f \in Files : f # file => disk'[f] = disk[f]
  BY DEF ChainInv
<1> QED
  BY <1>1, <1>2

\* Reading a file keeps the trail a way along the extends links, or ends the chain.
LEMMA LoadFileChain ==
  ASSUME ChainInv, LoadFile
  PROVE  ChainInv'
<1>0. PICK file, n : file = Canonical[here] /\ n = Len(stack)
  OBVIOUS
<1>1. file \in Files /\ file \notin visited /\ here \in DOMAIN Canonical
  BY <1>0, FilesAssumption DEF LoadFile
<1>2. PICK content \in IF disk[file] = Unread THEN Contents ELSE {disk[file]} :
          /\ disk' = [disk EXCEPT ![file] = content]
          /\ ~FileRefused(content)
          /\ IF "extends" \in DOMAIN content.object
             THEN /\ stack' = Append(stack, [file |-> file, value |-> Rest(content)])
                  /\ visited' = visited \cup {file}
                  /\ here' = <<Directory[file], content.object["extends"].text>>
                  /\ UNCHANGED <<phase, value>>
             ELSE /\ value' = Rest(content)
                  /\ phase' = "merge"
                  /\ UNCHANGED <<here, stack, visited>>
  BY <1>0 DEF LoadFile
<1>3. phase = "load" /\ OnTrail /\ start' = start /\ start # NoPath
  BY DEF LoadFile, ChainInv
<1>4. content \in Contents /\ Rest(content) \in Rests
  <2>1. disk[file] \in Contents \cup {Unread}
    BY <1>1 DEF ChainInv
  <2>2. content \in Contents
    BY <1>2, <2>1
  <2> QED
    BY <1>2, <2>2 DEF Rests
<1>5. disk' \in [Files -> Contents \cup {Unread}]
  BY <1>2, <1>4 DEF ChainInv
<1>6. /\ disk'[file] = content
      /\ \A k \in DOMAIN stack : /\ disk'[stack[k].file] = disk[stack[k].file]
                                 /\ stack[k].file \in Files /\ stack[k].file # file
  BY <1>1, <1>2, <1>3, TrailKept
<1>7. n \in Nat /\ DOMAIN stack = 1 .. n /\ stack \in Seq(Frame)
  BY <1>0 DEF ChainInv
<1>8. \A k \in 1 .. n : Trail[k] = stack[k].file
  BY <1>7 DEF Trail
<1>9. Leads(Place(Trail, n), file)
  BY <1>0, <1>1, <1>3 DEF OnTrail, Leads
<1>10. CASE "extends" \in DOMAIN content.object
  <2>1. /\ stack' = Append(stack, [file |-> file, value |-> Rest(content)])
        /\ visited' = visited \cup {file} /\ phase' = phase
        /\ here' = <<Directory[file], content.object["extends"].text>>
    BY <1>2, <1>10
  <2>2. [file |-> file, value |-> Rest(content)] \in Frame
    BY <1>1, <1>4 DEF Frame
  <2>3. /\ stack' \in Seq(Frame) /\ DOMAIN stack' = 1 .. n + 1 /\ Len(stack') = n + 1
        /\ \A k \in 1 .. n : stack'[k] = stack[k]
        /\ stack'[n + 1] = [file |-> file, value |-> Rest(content)]
    BY <1>7, <2>1, <2>2
  <2>4. Trail' = [k \in 1 .. n + 1 |-> stack'[k].file]
    BY <2>3 DEF Trail
  <2>5. \A k \in 0 .. n : Place(Trail, k)' = Place(Trail, k)
    <3> TAKE k \in 0 .. n
    <3>1. CASE k = 0
      BY <1>3, <3>1 DEF Place
    <3>2. CASE k # 0
      <4>1. k \in 1 .. n /\ k \in DOMAIN stack /\ k \in 1 .. n + 1
        BY <1>7, <3>2
      <4>2. Trail'[k] = Trail[k] /\ disk'[Trail[k]] = disk[Trail[k]]
        BY <1>6, <1>8, <2>3, <2>4, <4>1
      <4> QED
        BY <3>2, <4>2 DEF Place, NextPlace
    <3> QED
      BY <3>1, <3>2
  <2>6. ASSUME NEW k \in 1 .. n + 1
        PROVE  /\ ~FileRefused(disk'[stack'[k].file])
               /\ Leads(Place(Trail, k - 1)', stack'[k].file)
               /\ Extends(stack[k].file)'
               /\ stack'[k].value = Rest(disk'[stack'[k].file])
    <3>1. CASE k = n + 1
      <4>1. stack'[k].file = file /\ stack'[k].value = Rest(content)
        BY <2>3, <3>1
      <4>2. Place(Trail, k - 1)' = Place(Trail, n)
        BY <1>7, <2>5, <3>1
      <4> QED
        BY <1>2, <1>6, <1>9, <1>10, <4>1, <4>2 DEF Extends
    <3>2. CASE k # n + 1
      <4>1. k \in 1 .. n /\ k \in DOMAIN stack /\ k - 1 \in 0 .. n
        BY <1>7, <3>2
      <4>2. stack'[k] = stack[k] /\ disk'[stack[k].file] = disk[stack[k].file]
        BY <1>6, <2>3, <4>1
      <4>3. ~FileRefused(disk[stack[k].file]) /\ Leads(Place(Trail, k - 1), stack[k].file)
        BY <1>3, <1>8, <4>1 DEF OnTrail, Follows, Trail
      <4>4. Extends(stack[k].file) /\ stack[k].value = Rest(disk[stack[k].file])
        BY <1>3, <4>1 DEF OnTrail
      <4>5. Place(Trail, k - 1)' = Place(Trail, k - 1)
        BY <2>5, <4>1
      <4> QED
        BY <4>2, <4>3, <4>4, <4>5 DEF Extends
    <3> QED
      BY <3>1, <3>2
  <2>7. Follows(Trail)'
    BY <2>4, <2>6 DEF Follows
  <2>8. \A k \in DOMAIN stack' : /\ Extends(stack[k].file)'
                                 /\ stack'[k].value = Rest(disk'[stack'[k].file])
    BY <2>3, <2>6
  <2>9. \A j, k \in DOMAIN stack' : stack'[j].file = stack'[k].file => j = k
    <3> SUFFICES ASSUME NEW j \in 1 .. n + 1, NEW k \in 1 .. n + 1,
                        stack'[j].file = stack'[k].file, j # k
                 PROVE  FALSE
      BY <2>3
    <3>1. CASE j \in 1 .. n /\ k \in 1 .. n
      BY <1>3, <1>7, <2>3, <3>1 DEF OnTrail
    <3>2. CASE j = n + 1
      BY <1>6, <1>7, <2>3, <3>2
    <3>3. CASE k = n + 1
      BY <1>6, <1>7, <2>3, <3>3, SMTT(30)
    <3> QED
      BY <1>7, <3>1, <3>2, <3>3
  <2>10. here' = Place(Trail, Len(stack))'
    BY <1>6, <1>7, <2>1, <2>3, <2>4 DEF Place, NextPlace
  <2>11. OnTrail'
    BY <2>7, <2>8, <2>9, <2>10 DEF OnTrail
  <2>12. visited' = {stack'[k].file : k \in DOMAIN stack'}
    <3>1. visited = {stack[k].file : k \in 1 .. n}
      BY <1>3, <1>7 DEF ChainInv, After
    <3>2. 1 .. n + 1 = (1 .. n) \cup {n + 1}
      BY <1>7
    <3> QED
      BY <2>1, <2>3, <3>1, <3>2
  <2> QED
    BY <1>3, <1>5, <2>1, <2>3, <2>11, <2>12 DEF ChainInv, After
<1>11. CASE "extends" \notin DOMAIN content.object
  <2>1. value' = Rest(content) /\ phase' = "merge" /\ UNCHANGED <<here, stack, visited>>
    BY <1>2, <1>11
  <2>a. PICK c : c = [k \in 1 .. n + 1 |-> IF k = n + 1 THEN file ELSE stack[k].file]
    OBVIOUS
  <2>2. c \in Seq(Files) /\ Len(c) = n + 1 /\ DOMAIN c = 1 .. n + 1 /\ c[n + 1] = file
    BY <1>1, <1>6, <1>7, <2>a
  <2>3. \A k \in 1 .. n : c[k] = stack[k].file /\ c[k] = Trail[k]
    BY <1>7, <1>8, <2>a
  <2>4. \A j, k \in DOMAIN c : c[j] = c[k] => j = k
    <3> SUFFICES ASSUME NEW j \in 1 .. n + 1, NEW k \in 1 .. n + 1, c[j] = c[k], j # k
                 PROVE  FALSE
      BY <2>2
    <3>1. CASE j \in 1 .. n /\ k \in 1 .. n
      BY <1>3, <1>7, <2>3, <3>1 DEF OnTrail
    <3>2. CASE j = n + 1
      BY <1>6, <1>7, <2>2, <2>3, <3>2
    <3>3. CASE k = n + 1
      BY <1>6, <1>7, <2>2, <2>3, <3>3
    <3> QED
      BY <1>7, <3>1, <3>2, <3>3
  <2>5. c \in BoundedSeq(Files, Cardinality(Files)) /\ c # <<>>
    BY <1>7, <2>2, <2>4, ShortEnough
  <2>6. ASSUME NEW k \in 1 .. n
        PROVE  /\ disk'[c[k]] = disk[c[k]] /\ ~FileRefused(disk[c[k]]) /\ Extends(c[k])
               /\ stack[k].value = Rest(disk[c[k]])
               /\ Leads(Place(Trail, k - 1), c[k])
               /\ Place(Trail, k) = <<Directory[c[k]], disk[c[k]].object["extends"].text>>
    <3>1. k \in DOMAIN stack /\ k \in DOMAIN Trail /\ k # 0
      BY <1>7 DEF Trail
    <3>2. c[k] = stack[k].file /\ c[k] = Trail[k] /\ disk'[c[k]] = disk[c[k]]
      BY <1>6, <2>3, <3>1
    <3>3. ~FileRefused(disk[c[k]]) /\ Leads(Place(Trail, k - 1), c[k])
      BY <1>3, <3>1, <3>2 DEF OnTrail, Follows
    <3>4. Extends(c[k]) /\ stack[k].value = Rest(disk[c[k]])
      BY <1>3, <3>1, <3>2 DEF OnTrail
    <3>5. Place(Trail, k) = NextPlace(c[k])
      BY <3>1, <3>2 DEF Place
    <3> QED
      BY <3>2, <3>3, <3>4, <3>5 DEF NextPlace
  <2>7. \A k \in DOMAIN c : ~FileRefused(disk'[c[k]])
    BY <1>2, <1>6, <1>7, <2>2, <2>6
  <2>8. Leads(<<"cwd", start'>>, c[1])
    <3>1. CASE n = 0
      BY <1>3, <1>9, <2>2, <3>1 DEF Place
    <3>2. CASE n # 0
      <4>1. 1 \in 1 .. n /\ 1 - 1 = 0
        BY <1>7, <3>2
      <4> QED
        BY <1>3, <2>6, <4>1 DEF Place
    <3> QED
      BY <3>1, <3>2
  <2>9. \A k \in 1 .. Len(c) - 1 : Extends(c[k])' /\ Leads(NextPlace(c[k])', c[k + 1])
    <3> SUFFICES ASSUME NEW k \in 1 .. n PROVE Extends(c[k])' /\ Leads(NextPlace(c[k])', c[k + 1])
      BY <1>7, <2>2
    <3>1. NextPlace(c[k])' = Place(Trail, k)
      BY <2>6 DEF NextPlace
    <3>2. Leads(Place(Trail, k), c[k + 1])
      <4>1. CASE k = n
        BY <1>9, <2>2, <4>1
      <4>2. CASE k # n
        <5>1. k + 1 \in 1 .. n /\ (k + 1) - 1 = k
          BY <1>7, <4>2
        <5> QED
          BY <2>6, <5>1
      <4> QED
        BY <4>1, <4>2
    <3> QED
      BY <2>6, <3>1, <3>2 DEF Extends
  <2>10. ~Extends(c[Len(c)])'
    BY <1>6, <1>11, <2>2 DEF Extends
  <2>11. c \in Chains'
    BY <2>5, <2>7, <2>8, <2>9, <2>10 DEF Chains
  <2>12. value' = Combination(LayersFrom(c, n)')
    <3>0. PICK l : l = LayersFrom(c, n)'
      OBVIOUS
    <3>1. l = [k \in 1 .. 1 |-> Rest(disk'[c[n + k]])]
      BY <1>7, <2>2, <3>0 DEF LayersFrom
    <3>2. Len(l) = 1 /\ l[1] = Rest(content)
      BY <1>6, <1>7, <2>2, <3>1
    <3>3. Combination(l) = Rest(content)
      BY <3>2, CombinationOne
    <3> QED
      BY <2>1, <3>0, <3>3
  <2>13. Merged(c)'
    <3>1. \A k \in DOMAIN stack : stack[k].value = Rest(disk'[c[k]])
      BY <1>7, <2>6
    <3> QED
      BY <1>0, <1>7, <2>1, <2>2, <2>12, <3>1 DEF Merged
  <2> QED
    BY <1>3, <1>5, <2>1, <2>11, <2>13 DEF ChainInv, After
<1> QED
  BY <1>10, <1>11

\* A refusal while loading leaves the trail stuck where no chain goes on.
LEMMA LoadFailsChain ==
  ASSUME ChainInv, LoadFails
  PROVE  ChainInv'
<1>1. /\ phase = "load" /\ OnTrail /\ start # NoPath /\ phase' = "unloadable"
      /\ UNCHANGED <<start, here, stack, visited>>
  BY DEF LoadFails, ChainInv
<1>2. /\ disk' \in [Files -> Contents \cup {Unread}]
      /\ \A k \in DOMAIN stack : disk'[stack[k].file] = disk[stack[k].file]
      /\ Stuck'
  <2>1. CASE here \notin DOMAIN Canonical /\ UNCHANGED disk
    BY <1>1, <2>1 DEF ChainInv, Stuck
  <2>2. CASE here \in DOMAIN Canonical /\ Canonical[here] \in visited /\ UNCHANGED disk
    BY <1>1, <2>2 DEF ChainInv, Stuck
  <2>3. CASE /\ here \in DOMAIN Canonical
             /\ LET file == Canonical[here] IN
                /\ file \notin visited
                /\ disk[file] = Unread
                /\ \E content \in {c \in Contents : FileRefused(c)} :
                       disk' = [disk EXCEPT ![file] = content]
    <3>1. PICK file, content : /\ file = Canonical[here] /\ file \notin visited
                               /\ content \in Contents /\ FileRefused(content)
                               /\ disk' = [disk EXCEPT ![file] = content]
      BY <2>3
    <3>2. file \in Files
      BY <2>3, <3>1, FilesAssumption
    <3>3. /\ disk'[file] = content
          /\ \A k \in DOMAIN stack : disk'[stack[k].file] = disk[stack[k].file]
      BY <1>1, <3>1, <3>2, TrailKept, ZenonT(60)
    <3> QED
      BY <1>1, <3>1, <3>2, <3>3 DEF ChainInv, Stuck
  <2> QED
    BY <2>1, <2>2, <2>3 DEF LoadFails
<1>3. Trail' = Trail /\ DOMAIN Trail = DOMAIN stack /\ stack \in Seq(Frame)
      /\ \A k \in DOMAIN Trail : Trail[k] = stack[k].file
  BY <1>1 DEF Trail, ChainInv
<1>4. \A k \in 0 .. Len(stack) : Place(Trail, k)' = Place(Trail, k)
  <2> TAKE k \in 0 .. Len(stack)
  <2>1. k = 0 \/ k \in DOMAIN stack
    BY <1>3
  <2> QED
    BY <1>1, <1>2, <1>3, <2>1 DEF Place, NextPlace
<1>5. Follows(Trail)'
  <2> SUFFICES ASSUME NEW k \in DOMAIN stack
               PROVE  ~FileRefused(disk'[Trail[k]]) /\ Leads(Place(Trail, k - 1)', Trail[k])
    BY <1>3 DEF Follows
  <2>1. k \in DOMAIN Trail /\ k - 1 \in 0 .. Len(stack)
    BY <1>3
  <2>2. ~FileRefused(disk[Trail[k]]) /\ Leads(Place(Trail, k - 1), Trail[k])
    BY <1>1, <2>1 DEF OnTrail, Follows
  <2> QED
    BY <1>2, <1>3, <1>4, <2>1, <2>2
<1>6. here' = Place(Trail, Len(stack))'
  <2>1. Len(stack) \in 0 .. Len(stack)
    BY <1>3
  <2> QED
    BY <1>1, <1>4, <2>1 DEF OnTrail
<1>7. OnTrail'
  BY <1>1, <1>2, <1>5, <1>6 DEF OnTrail, Extends
<1> QED
  BY <1>1, <1>2, <1>7 DEF ChainInv, After

\* Returning from a file merges what it adds over what the rest of the chain came to.
LEMMA ReturnChain ==
  ASSUME ChainInv, Return
  PROVE  ChainInv'
<1>0. PICK n : n = Len(stack)
  OBVIOUS
<1>1. /\ phase = "merge" /\ phase' = "merge" /\ stack # <<>> /\ start # NoPath
      /\ value' = Merge(value, stack[n].value) /\ UNCHANGED <<start, disk>>
      /\ stack' = SubSeq(stack, 1, n - 1) /\ stack \in Seq(Frame)
  BY <1>0 DEF Return, ChainInv, Last, Front
<1>2. PICK c \in Chains : Merged(c)
  BY <1>1 DEF ChainInv
<1>3. n \in Nat \ {0} /\ n \in DOMAIN stack
  BY <1>0, <1>1
<1>4. /\ stack' \in Seq(Frame) /\ Len(stack') = n - 1 /\ DOMAIN stack' = 1 .. n - 1
      /\ \A k \in 1 .. n - 1 : stack'[k] = stack[k] /\ k \in DOMAIN stack
  BY <1>0, <1>1, <1>3
<1>5. Len(c) \in Nat /\ n < Len(c)
  BY <1>0, <1>2, ChainWay DEF Merged
<1>6. Combination(LayersFrom(c, n - 1)) = Merge(Combination(LayersFrom(c, n)), Rest(disk[c[n]]))
  <2>0. PICK a, b : a = LayersFrom(c, n - 1) /\ b = LayersFrom(c, n)
    OBVIOUS
  <2>1. a = [k \in 1 .. Len(c) - n + 1 |-> Rest(disk[c[n - 1 + k]])]
    BY <1>3, <1>5, <2>0 DEF LayersFrom
  <2>2. b = [k \in 1 .. Len(c) - n |-> Rest(disk[c[n + k]])]
    BY <2>0 DEF LayersFrom
  <2>3. Len(b) = Len(c) - n /\ Len(b) \in Nat \ {0} /\ Len(a) = Len(b) + 1
    BY <1>3, <1>5, <2>1, <2>2
  <2>4. ASSUME NEW k \in 1 .. Len(b) PROVE a[k + 1] = b[k]
    <3>1. k + 1 \in 1 .. Len(c) - n + 1 /\ n - 1 + (k + 1) = n + k
      BY <1>3, <1>5, <2>3
    <3>2. a[k + 1] = Rest(disk[c[n - 1 + (k + 1)]])
      BY <2>1, <3>1
    <3> QED
      BY <2>2, <2>3, <3>1, <3>2
  <2>5. a[1] = Rest(disk[c[n]])
    <3>1. 1 \in 1 .. Len(c) - n + 1 /\ n - 1 + 1 = n
      BY <1>3, <1>5
    <3>2. a[1] = Rest(disk[c[n - 1 + 1]])
      BY <2>1, <3>1
    <3> QED
      BY <3>1, <3>2
  <2> QED
    BY <2>0, <2>3, <2>4, <2>5, CombinationNext
<1>7. value' = Combination(LayersFrom(c, n - 1))
  BY <1>0, <1>1, <1>2, <1>3, <1>6 DEF Merged
<1>8. c \in Chains'
  BY <1>1, <1>2 DEF Chains, Extends, NextPlace
<1>9. Merged(c)'
  <2>1. \A k \in 1 .. n - 1 : stack'[k].value = Rest(disk[c[k]])
    BY <1>2, <1>4 DEF Merged
  <2>2. LayersFrom(c, Len(stack))' = LayersFrom(c, n - 1)
    BY <1>1, <1>4 DEF LayersFrom
  <2>3. Len(stack') < Len(c)
    BY <1>3, <1>4, <1>5
  <2> QED
    BY <1>1, <1>4, <1>7, <2>1, <2>2, <2>3 DEF Merged
<1> QED
  BY <1>1, <1>4, <1>8, <1>9 DEF ChainInv, After

\* Every step of the machine keeps the invariant of the chain.
LEMMA ChainNext ==
  ASSUME ChainInv, [Next]_vars
  PROVE  ChainInv'
<1>1. CASE BindOp
  BY <1>1, ChainSame DEF BindOp, Unchanging
<1>2. CASE Built
  BY <1>2, ChainSame DEF Built, Unchanging
<1>3. CASE Launch
  BY <1>3, LaunchChain
<1>4. CASE LoadFile
  BY <1>4, LoadFileChain
<1>5. CASE LoadFails
  BY <1>5, LoadFailsChain
<1>6. CASE Return
  BY <1>6, ReturnChain
<1>7. CASE Loaded
  BY <1>7, ChainSame DEF Loaded
<1>8. CASE Parse
  BY <1>8, ChainSame DEF Parse, After
<1>9. CASE IntoConfig
  BY <1>9, ChainSame DEF IntoConfig, After
<1>10. CASE UNCHANGED vars
  BY <1>10, ChainSame DEF vars
<1> QED
  BY <1>1, <1>2, <1>3, <1>4, <1>5, <1>6, <1>7, <1>8, <1>9, <1>10 DEF Next

\* The layers of a loaded configuration, whichever chain is chosen.
LEMMA LoadedLayers ==
  ASSUME ChainInv, phase \in After, start # NoPath
  PROVE  \E c \in Chains : /\ Layers = LayersFrom(c, 0) /\ value = Combination(Layers)
                           /\ Layers # <<>> /\ Len(Layers) = Len(c)
<1>1. PICK c \in Chains : Merged(c)
  BY DEF ChainInv
<1>2. Len(c) \in Nat \ {0} /\ c \in Seq(Files)
  BY ChainWay
<1>3. Layers = LayersFrom(c, 0)
  <2>1. (CHOOSE d \in Chains : TRUE) = c
    BY OneChain
  <2>2. Layers = [k \in DOMAIN c |-> Rest(disk[c[k]])]
    BY <2>1 DEF Layers
  <2>3. DOMAIN c = 1 .. Len(c) - 0 /\ \A k \in DOMAIN c : 0 + k = k
    BY <1>2
  <2> QED
    BY <2>2, <2>3 DEF LayersFrom
<1>4. Len(stack) = 0
  BY DEF ChainInv, After
<1>5. value = Combination(LayersFrom(c, 0))
  BY <1>1, <1>4 DEF Merged
<1>6. LayersFrom(c, 0) # <<>> /\ Len(LayersFrom(c, 0)) = Len(c)
  BY <1>2 DEF LayersFrom
<1> QED
  BY <1>3, <1>5, <1>6

\* Every configuration that loads is the whole of its one chain of files, each
\* laid over all that it extends, and one that does not load has no chain that
\* ends, for any files, links and contents.
THEOREM ChainsResolve == Spec => []ChainResolved
<1>1. ChainInv => ChainResolved
  <2> SUFFICES ASSUME ChainInv PROVE ChainResolved
    OBVIOUS
  <2>1. phase = "parse" => Layers # <<>> /\ value = Combination(Layers)
    BY LoadedLayers DEF ChainInv, After
  <2> QED
    BY <2>1, StuckChain DEF ChainResolved
<1> QED
  BY <1>1, ChainInit, ChainNext, PTL DEF Spec
-----------------------------------------------------------------------------
(* Settings: a layer over others has those it decides, and theirs shows    *)
(* through elsewhere.                                                      *)

LEMMA LookupOne == \A v, a : Lookup(v, <<a>>) = FieldOf(<<v>>, a)
<1> TAKE v, a
<1>1. PICK p, q : p = <<>> /\ q = <<a>>
  OBVIOUS
<1>2. Len(p) = 0 /\ Len(q) = 1 /\ q[1] = a
  BY <1>1
<1>3. Len(p) \in Nat /\ Len(q) = Len(p) + 1 /\ \A k \in 1 .. Len(p) : p[k] = q[k]
  BY <1>2
<1>4. Lookup(v, q) = FieldOf(Lookup(v, p), q[Len(q)])
  BY <1>3, LookupNext
<1> QED
  BY <1>1, <1>2, <1>4, LookupEmpty

LEMMA LookupTwo == \A v, a, b : Lookup(v, <<a, b>>) = FieldOf(FieldOf(<<v>>, a), b)
<1> TAKE v, a, b
<1>1. PICK p, q : p = <<a>> /\ q = <<a, b>>
  OBVIOUS
<1>2. Len(p) = 1 /\ Len(q) = 2 /\ p[1] = q[1] /\ q[2] = b
  BY <1>1
<1>3. Len(p) \in Nat /\ Len(q) = Len(p) + 1 /\ \A k \in 1 .. Len(p) : p[k] = q[k]
  BY <1>2
<1>4. Lookup(v, q) = FieldOf(Lookup(v, p), q[Len(q)])
  BY <1>3, LookupNext
<1> QED
  BY <1>1, <1>2, <1>4, LookupOne

LEMMA LookupThree ==
  \A v, a, b, c : Lookup(v, <<a, b, c>>) = FieldOf(FieldOf(FieldOf(<<v>>, a), b), c)
<1> TAKE v, a, b, c
<1>1. PICK p, q : p = <<a, b>> /\ q = <<a, b, c>>
  OBVIOUS
<1>2. Len(p) = 2 /\ Len(q) = 3 /\ p[1] = q[1] /\ p[2] = q[2] /\ q[3] = c
  BY <1>1
<1>3. Len(p) \in Nat /\ Len(q) = Len(p) + 1 /\ \A k \in 1 .. Len(p) : p[k] = q[k]
  BY <1>2
<1>4. Lookup(v, q) = FieldOf(Lookup(v, p), q[Len(q)])
  BY <1>3, LookupNext
<1> QED
  BY <1>1, <1>2, <1>4, LookupTwo

\* What is seen of a value that may be missing, as the setting s.
Seen(s, some) ==
  IF some # <<>> /\ IsText(some[1]) THEN Read(s, some[1].text) ELSE None

Option(some) == some = <<>> \/ some = <<some[1]>>

Over(x, y) ==
  IF y = <<>> THEN x ELSE IF x = <<>> THEN y ELSE <<Merge(x[1], y[1])>>

MergesAt(x, y) == x # <<>> /\ y # <<>> => Merge(x[1], y[1]) = Overlaid(x[1], y[1])

Blocks(y) == y # <<>> /\ ~IsObject(y[1])

LEMMA FieldOption == \A some, key : Option(FieldOf(some, key))
<1> TAKE some, key
<1>1. \A x : Option(<<x>>)
  BY DEF Option
<1> QED
  BY <1>1 DEF FieldOf, Option

LEMMA FieldOver ==
  \A x, y, key : Option(x) /\ Option(y) /\ MergesAt(x, y) =>
      FieldOf(Over(x, y), key)
        = IF Blocks(y) THEN <<>> ELSE Over(FieldOf(x, key), FieldOf(y, key))
<1> SUFFICES ASSUME NEW x, NEW y, NEW key, Option(x), Option(y), MergesAt(x, y)
             PROVE  FieldOf(Over(x, y), key)
                      = IF Blocks(y) THEN <<>> ELSE Over(FieldOf(x, key), FieldOf(y, key))
  OBVIOUS
<1>1. CASE y = <<>>
  BY <1>1 DEF Over, Blocks, FieldOf
<1>2. CASE y # <<>> /\ ~IsObject(y[1])
  <2>1. Over(x, y) # <<>> /\ Over(x, y)[1] = y[1]
    BY <1>2 DEF Over, MergesAt, Overlaid
  <2> QED
    BY <1>2, <2>1 DEF Blocks, FieldOf
<1>3. CASE y # <<>> /\ IsObject(y[1]) /\ (x = <<>> \/ ~IsObject(x[1]))
  <2>1. Over(x, y) # <<>> /\ Over(x, y)[1] = y[1]
    BY <1>3 DEF Over, MergesAt, Overlaid
  <2>2. FieldOf(x, key) = <<>>
    BY <1>3 DEF FieldOf
  <2> QED
    BY <1>3, <2>1, <2>2 DEF Blocks, FieldOf, Over
<1>4. CASE y # <<>> /\ IsObject(y[1]) /\ x # <<>> /\ IsObject(x[1])
  <2> DEFINE b == x[1].object
             o == y[1].object
             f == [k \in DOMAIN b \cup DOMAIN o |->
                     IF k \notin DOMAIN o THEN b[k]
                     ELSE IF k \notin DOMAIN b THEN o[k] ELSE Merge(b[k], o[k])]
  <2>1. Over(x, y) = <<Object(f)>>
    BY <1>4 DEF Over, MergesAt, Overlaid
  <2>2. Over(x, y) # <<>> /\ Over(x, y)[1] = Object(f)
    BY <2>1
  <2>3. IsObject(Object(f)) /\ Object(f).object = f
    BY DEF IsObject, Object
  <2> HIDE DEF f
  <2>4. FieldOf(Over(x, y), key) = IF key \in DOMAIN f THEN <<f[key]>> ELSE <<>>
    BY <2>2, <2>3 DEF FieldOf
  <2>5. /\ FieldOf(x, key) = IF key \in DOMAIN b THEN <<b[key]>> ELSE <<>>
        /\ FieldOf(y, key) = IF key \in DOMAIN o THEN <<o[key]>> ELSE <<>>
    BY <1>4 DEF FieldOf
  <2> HIDE DEF b, o
  <2>6. DOMAIN f = DOMAIN b \cup DOMAIN o
    BY DEF f
  <2>7. CASE key \notin DOMAIN o
    <3>1. key \in DOMAIN f => f[key] = b[key]
      BY <2>7 DEF f
    <3> QED
      BY <1>4, <2>4, <2>5, <2>6, <2>7, <3>1 DEF Over, Blocks
  <2>8. CASE key \in DOMAIN o /\ key \notin DOMAIN b
    <3>1. f[key] = o[key]
      BY <2>8 DEF f
    <3> QED
      BY <1>4, <2>4, <2>5, <2>6, <2>8, <3>1 DEF Over, Blocks
  <2>9. CASE key \in DOMAIN o /\ key \in DOMAIN b
    <3>1. f[key] = Merge(b[key], o[key])
      BY <2>9 DEF f
    <3> QED
      BY <1>4, <2>4, <2>5, <2>6, <2>9, <3>1 DEF Over, Blocks
  <2> QED
    BY <2>7, <2>8, <2>9
<1> QED
  BY <1>1, <1>2, <1>3, <1>4

LEMMA SeenOver ==
  \A s, x, y : Option(x) /\ Option(y) /\ MergesAt(x, y) =>
      Seen(s, Over(x, y)) = IF y # <<>> THEN Seen(s, y) ELSE Seen(s, x)
<1> SUFFICES ASSUME NEW s, NEW x, NEW y, Option(x), Option(y), MergesAt(x, y)
             PROVE  Seen(s, Over(x, y)) = IF y # <<>> THEN Seen(s, y) ELSE Seen(s, x)
  OBVIOUS
<1>1. CASE y = <<>> \/ x = <<>>
  BY <1>1 DEF Over
<1>2. CASE y # <<>> /\ x # <<>> /\ ~(IsObject(x[1]) /\ IsObject(y[1]))
  <2>1. Over(x, y) # <<>> /\ Over(x, y)[1] = y[1]
    BY <1>2 DEF Over, MergesAt, Overlaid
  <2> QED
    BY <1>2, <2>1 DEF Seen
<1>3. CASE y # <<>> /\ x # <<>> /\ IsObject(x[1]) /\ IsObject(y[1])
  <2>1. PICK f : Over(x, y) = <<Object(f)>>
    BY <1>3 DEF Over, MergesAt, Overlaid
  <2>2. ~IsText(Object(f)) /\ ~IsText(y[1])
    BY <1>3 DEF IsText, IsObject, Object
  <2> QED
    BY <1>3, <2>1, <2>2 DEF Seen
<1> QED
  BY <1>1, <1>2, <1>3


\* A beginning of a sequence, by its elements.
LEMMA Beginning ==
  ASSUME NEW q, NEW p, NEW S, p \in Seq(S), \A k \in 1 .. Len(p) : q[k] = p[k]
  PROVE  SubSeq(q, 1, Len(p)) = p
<1> DEFINE n == Len(p)
<1>1. n \in Nat /\ n \in Int /\ \A k \in 1 .. n : q[k] \in S
  OBVIOUS
<1>2. /\ SubSeq(q, 1, n) \in Seq(S)
      /\ Len(SubSeq(q, 1, n)) = IF 1 <= n THEN n - 1 + 1 ELSE 0
      /\ \A k \in 1 .. n - 1 + 1 : SubSeq(q, 1, n)[k] = q[1 + k - 1]
  BY <1>1, SubSeqProperties
<1>3. Len(SubSeq(q, 1, n)) = n /\ \A k \in 1 .. n : SubSeq(q, 1, n)[k] = p[k]
  BY <1>1, <1>2
<1> QED
  BY <1>2, <1>3, SeqEqual

LEMMA DecidesTwo ==
  \A v, a, b : IsObject(v) => (Decides(v, <<a, b>>) <=>
      FieldOf(FieldOf(<<v>>, a), b) # <<>> \/ Blocks(FieldOf(<<v>>, a)))
<1> TAKE v, a, b
<1>1. Len(<<a, b>>) = 2 /\ SubSeq(<<a, b>>, 1, 1) = <<a>>
  <2>1. PICK p, q : p = <<a>> /\ q = <<a, b>>
    OBVIOUS
  <2>2. Len(p) = 1 /\ Len(q) = 2 /\ p \in Seq({a}) /\ \A k \in 1 .. Len(p) : q[k] = p[k]
    BY <2>1
  <2>3. SubSeq(q, 1, Len(p)) = p
    BY <2>2, Beginning
  <2> QED
    BY <2>1, <2>2, <2>3
<1>2. Decides(v, <<a, b>>) <=> Has(v, <<a, b>>) \/ (Has(v, <<a>>) /\ ~IsObject(At(v, <<a>>)))
  <2>1. 1 .. Len(<<a, b>>) - 1 = {1}
    BY <1>1
  <2> QED
    BY <1>1, <2>1 DEF Decides
<1> QED
  BY <1>2, LookupOne, LookupTwo DEF Has, At, Blocks

LEMMA DecidesThree ==
  \A v, a, b, c : IsObject(v) => (Decides(v, <<a, b, c>>) <=>
      \/ FieldOf(FieldOf(FieldOf(<<v>>, a), b), c) # <<>>
      \/ Blocks(FieldOf(<<v>>, a)) \/ Blocks(FieldOf(FieldOf(<<v>>, a), b)))
<1> TAKE v, a, b, c
<1>1. /\ Len(<<a, b, c>>) = 3 /\ SubSeq(<<a, b, c>>, 1, 1) = <<a>>
      /\ SubSeq(<<a, b, c>>, 1, 2) = <<a, b>>
  <2>1. PICK p, q, r : p = <<a>> /\ q = <<a, b>> /\ r = <<a, b, c>>
    OBVIOUS
  <2>2. /\ p \in Seq({a, b}) /\ Len(p) = 1 /\ q \in Seq({a, b}) /\ Len(q) = 2 /\ Len(r) = 3
        /\ (\A k \in 1 .. Len(p) : r[k] = p[k]) /\ (\A k \in 1 .. Len(q) : r[k] = q[k])
    BY <2>1
  <2>3. SubSeq(r, 1, Len(p)) = p /\ SubSeq(r, 1, Len(q)) = q
    BY <2>2, Beginning
  <2> QED
    BY <2>1, <2>2, <2>3
<1>2. Decides(v, <<a, b, c>>) <=>
        \/ Has(v, <<a, b, c>>)
        \/ (Has(v, <<a>>) /\ ~IsObject(At(v, <<a>>)))
        \/ (Has(v, <<a, b>>) /\ ~IsObject(At(v, <<a, b>>)))
  <2>1. 1 .. Len(<<a, b, c>>) - 1 = {1, 2}
    BY <1>1
  <2> QED
    BY <1>1, <2>1 DEF Decides
<1> QED
  BY <1>2, LookupOne, LookupTwo, LookupThree DEF Has, At, Blocks

\* Of two documents one over the other.
Mergeable(b, o) ==
  \A path \in Sections \cup {SettingPath(s) : s \in Settings} :
      Has(b, path) /\ Has(o, path) => Merge(At(b, path), At(o, path)) = Overlaid(At(b, path), At(o, path))

LEMMA SettingOver ==
  ASSUME NEW b, NEW o, NEW s \in Settings, IsObject(o), Mergeable(b, o)
  PROVE  /\ Seen(s, Lookup(Merge(b, o), SettingPath(s)))
              = IF Decides(o, SettingPath(s)) THEN Seen(s, Lookup(o, SettingPath(s)))
                ELSE Seen(s, Lookup(b, SettingPath(s)))
         /\ IsObject(b) => IsObject(Merge(b, o))
<1> DEFINE m == Merge(b, o)
           path == SettingPath(s)
           x1 == FieldOf(<<b>>, "dragonball")
           y1 == FieldOf(<<o>>, "dragonball")
           z1 == FieldOf(<<m>>, "dragonball")
<1>0. \A p \in Sections \cup {path} : MergesAt(Lookup(b, p), Lookup(o, p))
  <2> TAKE p \in Sections \cup {path}
  <2>1. p \in Sections \cup {SettingPath(t) : t \in Settings}
    OBVIOUS
  <2> HIDE DEF path
  <2> QED
    BY <2>1 DEF Mergeable, MergesAt, Has, At
<1>1. <<m>> = Over(<<b>>, <<o>>) /\ MergesAt(<<b>>, <<o>>) /\ ~Blocks(<<o>>)
      /\ Option(<<b>>) /\ Option(<<o>>) /\ m = Overlaid(b, o)
  <2>1. MergesAt(<<b>>, <<o>>)
    BY <1>0, LookupEmpty DEF Sections
  <2> QED
    BY <2>1 DEF Over, Blocks, Option, MergesAt
<1>2. MergesAt(x1, y1) /\ Option(x1) /\ Option(y1)
  BY <1>0, LookupOne, FieldOption DEF Sections
<1>3. z1 = Over(x1, y1)
  BY <1>1, FieldOver
<1>4. IsObject(b) => IsObject(m)
  <2>1. IsObject(b) => \E f : m = Object(f)
    BY <1>1 DEF Overlaid
  <2> QED
    BY <2>1 DEF IsObject, Object
<1>5. CASE s \in ProcessFields
  <2>1. path = <<"dragonball", s>>
    BY <1>5 DEF SettingPath
  <2> HIDE DEF path, x1, y1, z1, m
  <2> DEFINE x2 == FieldOf(x1, s)
             y2 == FieldOf(y1, s)
  <2>2. Lookup(b, path) = x2 /\ Lookup(o, path) = y2 /\ Lookup(m, path) = FieldOf(z1, s)
    BY <2>1, LookupTwo DEF x1, y1, z1
  <2>3. Decides(o, path) <=> y2 # <<>> \/ Blocks(y1)
    BY <2>1, DecidesTwo DEF y1
  <2>4. MergesAt(x2, y2) /\ Option(x2) /\ Option(y2)
    BY <1>0, <2>2, FieldOption
  <2>5. FieldOf(z1, s) = IF Blocks(y1) THEN <<>> ELSE Over(x2, y2)
    BY <1>2, <1>3, FieldOver
  <2>6. Blocks(y1) => y2 = <<>>
    BY DEF Blocks, FieldOf
  <2> HIDE DEF x2, y2
  <2>7. Seen(s, FieldOf(z1, s)) = IF y2 # <<>> \/ Blocks(y1) THEN Seen(s, y2) ELSE Seen(s, x2)
    BY <2>4, <2>5, <2>6, SeenOver
  <2> QED
    BY <1>4, <2>2, <2>3, <2>7 DEF m, path
<1>6. CASE s \notin ProcessFields
  <2>1. path = <<"dragonball", "logger", s>>
    BY <1>6 DEF SettingPath
  <2> HIDE DEF path, x1, y1, z1, m
  <2> DEFINE x2 == FieldOf(x1, "logger")
             y2 == FieldOf(y1, "logger")
             z2 == FieldOf(z1, "logger")
             x3 == FieldOf(x2, s)
             y3 == FieldOf(y2, s)
  <2>2. Lookup(b, path) = x3 /\ Lookup(o, path) = y3 /\ Lookup(m, path) = FieldOf(z2, s)
    BY <2>1, LookupThree DEF x1, y1, z1
  <2>3. Decides(o, path) <=> y3 # <<>> \/ Blocks(y1) \/ Blocks(y2)
    BY <2>1, DecidesThree DEF y1
  <2>4. MergesAt(x3, y3) /\ Option(x3) /\ Option(y3)
    BY <1>0, <2>2, FieldOption
  <2>5. MergesAt(x2, y2) /\ Option(x2) /\ Option(y2)
    BY <1>0, LookupTwo, FieldOption DEF Sections, x1, y1
  <2>6. z2 = IF Blocks(y1) THEN <<>> ELSE Over(x2, y2)
    BY <1>2, <1>3, FieldOver
  <2>7. (Blocks(y1) => y2 = <<>>) /\ (y2 = <<>> \/ Blocks(y2) => y3 = <<>>) /\ FieldOf(<<>>, s) = <<>>
    BY DEF Blocks, FieldOf
  <2>8. FieldOf(Over(x2, y2), s) = IF Blocks(y2) THEN <<>> ELSE Over(x3, y3)
    BY <2>5, FieldOver
  <2> HIDE DEF x2, y2, z2, x3, y3
  <2>9. FieldOf(z2, s) = IF Blocks(y1) \/ Blocks(y2) THEN <<>> ELSE Over(x3, y3)
    BY <2>6, <2>7, <2>8
  <2>10. Seen(s, FieldOf(z2, s))
           = IF y3 # <<>> \/ Blocks(y1) \/ Blocks(y2) THEN Seen(s, y3) ELSE Seen(s, x3)
    BY <2>4, <2>7, <2>9, SeenOver
  <2> QED
    BY <1>4, <2>2, <2>3, <2>10 DEF m, path
<1> QED
  BY <1>5, <1>6


\* The first layer that decides a setting gives it its value.
LEMMA DecidedAt ==
  ASSUME NEW layers, NEW s, Len(layers) \in Nat, DOMAIN layers = 1 .. Len(layers),
         NEW i \in DOMAIN layers, Decides(layers[i], SettingPath(s)),
         \A j \in DOMAIN layers : j < i => ~Decides(layers[j], SettingPath(s))
  PROVE  Decided(layers, s) = Seen(s, Lookup(layers[i], SettingPath(s)))
<1> DEFINE path == SettingPath(s)
           deciding == {k \in DOMAIN layers : Decides(layers[k], path)}
           first == CHOOSE k \in deciding : \A j \in deciding : k <= j
<1> HIDE DEF path
<1>1. i \in deciding /\ \A j \in deciding : i <= j
  BY DEF path
<1>2. first = i
  <2>1. first \in deciding /\ first <= i
    BY <1>1
  <2>2. i <= first
    BY <1>1, <2>1
  <2>3. first \in Nat /\ i \in Nat
    BY <2>1
  <2> HIDE DEF first
  <2> QED
    BY <2>1, <2>2, <2>3
<1>3. Decided(layers, s) = IF deciding = {} \/ ~Has(layers[first], path) THEN None
                           ELSE LET v == At(layers[first], path)
                                IN  IF IsText(v) THEN Read(s, v.text) ELSE None
  BY DEF Decided, path
<1> HIDE DEF first
<1>4. deciding # {}
  BY <1>1
<1> QED
  BY <1>2, <1>3, <1>4 DEF Seen, Has, At, path

LEMMA DecidedNot ==
  ASSUME NEW layers, NEW s, \A j \in DOMAIN layers : ~Decides(layers[j], SettingPath(s))
  PROVE  Decided(layers, s) = None
BY DEF Decided

LEMMA DecidedNext ==
  ASSUME NEW a, NEW b, NEW s, Len(b) \in Nat, Len(a) = Len(b) + 1,
         DOMAIN a = 1 .. Len(a), DOMAIN b = 1 .. Len(b),
         \A k \in 1 .. Len(b) : a[k + 1] = b[k]
  PROVE  Decided(a, s) = IF Decides(a[1], SettingPath(s))
                         THEN Seen(s, Lookup(a[1], SettingPath(s))) ELSE Decided(b, s)
<1>0. Len(a) \in Nat /\ 1 \in DOMAIN a
  OBVIOUS
<1>1. CASE Decides(a[1], SettingPath(s))
  <2>1. \A j \in DOMAIN a : j < 1 => ~Decides(a[j], SettingPath(s))
    OBVIOUS
  <2> QED
    BY <1>0, <1>1, <2>1, DecidedAt
<1>2. CASE ~Decides(a[1], SettingPath(s))
  <2> DEFINE D == {k \in DOMAIN b : Decides(b[k], SettingPath(s))}
  <2>1. CASE D = {}
    <3>1. \A j \in DOMAIN a : ~Decides(a[j], SettingPath(s))
      <4> TAKE j \in DOMAIN a
      <4>1. CASE j = 1
        BY <1>2, <4>1
      <4>2. CASE j # 1
        <5>1. j - 1 \in DOMAIN b /\ (j - 1) + 1 = j
          BY <4>2
        <5>2. a[j] = b[j - 1]
          BY <5>1
        <5> QED
          BY <2>1, <5>1, <5>2
      <4> QED
        BY <4>1, <4>2
    <3>2. Decided(a, s) = None
      BY <3>1, DecidedNot
    <3>3. Decided(b, s) = None
      BY <2>1, DecidedNot
    <3> QED
      BY <1>2, <3>2, <3>3
  <2>2. CASE D # {}
    <3>1. PICK i \in D : \A j \in D : i <= j
      <4>1. D \in SUBSET Nat
        OBVIOUS
      <4> HIDE DEF D
      <4> QED
        BY <2>2, <4>1, Least
    <3>2. i \in DOMAIN b /\ i + 1 \in DOMAIN a /\ a[i + 1] = b[i]
      OBVIOUS
    <3>3. Decided(b, s) = Seen(s, Lookup(b[i], SettingPath(s)))
      <4>1. \A j \in DOMAIN b : j < i => ~Decides(b[j], SettingPath(s))
        BY <3>1
      <4> QED
        BY <4>1, DecidedAt
    <3>4. Decided(a, s) = Seen(s, Lookup(a[i + 1], SettingPath(s)))
      <4>1. \A j \in DOMAIN a : j < i + 1 => ~Decides(a[j], SettingPath(s))
        <5> SUFFICES ASSUME NEW j \in DOMAIN a, j < i + 1, Decides(a[j], SettingPath(s))
                     PROVE  FALSE
          OBVIOUS
        <5>1. j # 1
          BY <1>2
        <5>2. j - 1 \in DOMAIN b /\ (j - 1) + 1 = j /\ ~(i <= j - 1)
          BY <3>2, <5>1
        <5>3. a[j] = b[j - 1]
          BY <5>2
        <5>4. j - 1 \in D
          BY <5>2, <5>3
        <5> QED
          BY <3>1, <5>2, <5>4
      <4>2. Decides(a[i + 1], SettingPath(s))
        BY <3>2
      <4> QED
        BY <1>0, <3>2, <4>1, <4>2, DecidedAt
    <3> QED
      BY <1>2, <3>2, <3>3, <3>4
  <2> QED
    BY <2>1, <2>2
<1> QED
  BY <1>1, <1>2

LEMMA NotDecided ==
  ASSUME NEW v, NEW s, ~Decides(v, SettingPath(s))
  PROVE  Seen(s, Lookup(v, SettingPath(s))) = None
BY DEF Decides, Has, Seen

LEMMA RestObject == \A o \in Rests : IsObject(o)
BY DEF Rests, Rest, IsObject, Object

\* The stack of layers, however many, has each setting as its nearest layer to
\* decide it.
LEMMA CombinationDecides ==
  ASSUME NEW layers \in Seq(Rests), Len(layers) \in 1 .. Cardinality(Files)
  PROVE  /\ IsObject(Combination(layers))
         /\ \A s \in Settings :
               Seen(s, Lookup(Combination(layers), SettingPath(s))) = Decided(layers, s)
<1> DEFINE Good(l) == /\ IsObject(Combination(l))
                      /\ \A s \in Settings :
                            Seen(s, Lookup(Combination(l), SettingPath(s))) = Decided(l, s)
           Bad == {n \in 1 .. Cardinality(Files) : \E l \in Seq(Rests) : Len(l) = n /\ ~Good(l)}
<1>a. Cardinality(Files) \in Nat
  BY FilesAssumption, FS_CardinalityType
<1>0. SUFFICES ASSUME Bad # {} PROVE FALSE
  OBVIOUS
<1>1. PICK n \in Bad : \A m \in Bad : n <= m
  <2>1. Bad \in SUBSET Nat
    BY <1>a
  <2> HIDE DEF Bad
  <2> QED
    BY <1>0, <2>1, Least
<1>2. n \in 1 .. Cardinality(Files)
  OBVIOUS
<1>3. PICK a \in Seq(Rests) : Len(a) = n /\ ~Good(a)
  OBVIOUS
<1>4. DOMAIN a = 1 .. n /\ \A k \in 1 .. n : a[k] \in Rests
  BY <1>3
<1>5. IsObject(a[1])
  BY <1>2, <1>4, <1>a, RestObject
<1> DEFINE path(s) == SettingPath(s)
<1>6. CASE n = 1
  <2>1. Combination(a) = a[1]
    BY <1>3, <1>6, CombinationOne
  <2>2. ASSUME NEW s \in Settings
        PROVE  Seen(s, Lookup(a[1], SettingPath(s))) = Decided(a, s)
    <3>1. CASE Decides(a[1], SettingPath(s))
      <4>1. Len(a) \in Nat /\ DOMAIN a = 1 .. Len(a) /\ 1 \in DOMAIN a
            /\ \A j \in DOMAIN a : j < 1 => ~Decides(a[j], SettingPath(s))
        BY <1>3, <1>4, <1>6
      <4> QED
        BY <3>1, <4>1, DecidedAt
    <3>2. CASE ~Decides(a[1], SettingPath(s))
      <4>1. \A j \in DOMAIN a : ~Decides(a[j], SettingPath(s))
        BY <1>4, <1>6, <3>2
      <4> QED
        BY <3>2, <4>1, DecidedNot, NotDecided
    <3> QED
      BY <3>1, <3>2
  <2> QED
    BY <1>3, <1>5, <2>1, <2>2
<1>7. CASE n # 1
  <2>1. PICK b : b = Tail(a)
    OBVIOUS
  <2>2. a # <<>>
    BY <1>2, <1>3, <1>a
  <2>3. b \in Seq(Rests) /\ Len(b) = n - 1 /\ \A k \in 1 .. n - 1 : b[k] = a[k + 1]
    BY <1>3, <2>1, <2>2, HeadTailProperties
  <2>4. n - 1 \in 1 .. Cardinality(Files) /\ ~(n <= n - 1) /\ n - 1 \in Nat \ {0}
    BY <1>2, <1>7, <1>a
  <2>5. Good(b)
    <3>1. n - 1 \notin Bad
      BY <1>1, <2>4
    <3> QED
      BY <2>3, <2>4, <3>1
  <2>6. /\ Len(b) \in Nat \ {0} /\ Len(a) = Len(b) + 1
        /\ DOMAIN a = 1 .. Len(a) /\ DOMAIN b = 1 .. Len(b)
        /\ \A k \in 1 .. Len(b) : a[k + 1] = b[k]
    BY <1>3, <1>4, <2>3, <2>4
  <2>7. Combination(a) = Merge(Combination(b), a[1])
    BY <2>6, CombinationNext
  <2>8. Mergeable(Combination(b), a[1])
    <3>1. b \in BoundedSeq(Rests, Cardinality(Files) - 1) \ {<<>>}
      <4>1. b \in [1 .. n - 1 -> Rests] /\ b # <<>>
        BY <2>3, <2>4
      <4>2. n - 1 \in 0 .. Cardinality(Files) - 1
        BY <1>2, <1>a
      <4> QED
        BY <4>1, <4>2 DEF BoundedSeq, SeqOf
    <3>2. a[1] \in Rests
      BY <1>2, <1>4, <1>a
    <3> QED
      BY <3>1, <3>2, MergeAssumption DEF Mergeable
  <2>9. IsObject(Combination(a))
    <3>1. "level" \in Settings
      BY DEF Settings, LoggerFields
    <3> QED
      BY <1>5, <2>5, <2>7, <2>8, <3>1, SettingOver
  <2>10. ASSUME NEW s \in Settings
         PROVE  Seen(s, Lookup(Combination(a), SettingPath(s))) = Decided(a, s)
    <3>1. Seen(s, Lookup(Combination(a), SettingPath(s)))
            = IF Decides(a[1], SettingPath(s)) THEN Seen(s, Lookup(a[1], SettingPath(s)))
              ELSE Seen(s, Lookup(Combination(b), SettingPath(s)))
      BY <1>5, <2>7, <2>8, SettingOver
    <3>2. Decided(a, s) = IF Decides(a[1], SettingPath(s))
                          THEN Seen(s, Lookup(a[1], SettingPath(s))) ELSE Decided(b, s)
      BY <2>6, DecidedNext, ZenonT(60)
    <3>3. Seen(s, Lookup(Combination(b), SettingPath(s))) = Decided(b, s)
      BY <2>5
    <3> QED
      BY <3>1, <3>2, <3>3
  <2> QED
    BY <1>3, <2>9, <2>10
<1> QED
  BY <1>6, <1>7

\* What a document that is not refused has for a setting.
LEMMA ProcessSeen ==
  ASSUME NEW v, IsObject(v), ~ProcessRefused(Field(v, "dragonball"))
  PROVE  ProcessConfig(Field(v, "dragonball"))
           = [s \in Settings |-> Seen(s, Lookup(v, SettingPath(s)))]
<1> DEFINE d == Field(v, "dragonball")
           l == Field(d, "logger")
<1>1. IsObject(d) /\ IsObject(l)
  BY DEF ProcessRefused, SectionRefused
<1>2. \A key : FieldOf(FieldOf(<<v>>, "dragonball"), key) = FieldOf(<<d>>, key)
  BY DEF FieldOf, Field, EmptyObject, Object
<1>3. \A key : FieldOf(FieldOf(<<d>>, "logger"), key) = FieldOf(<<l>>, key)
  BY <1>1 DEF FieldOf, Field, EmptyObject, Object
<1> HIDE DEF d, l
<1>4. \A s, x : IsObject(x) => Seen(s, FieldOf(<<x>>, s))
        = IF s \in DOMAIN x.object /\ IsText(x.object[s]) THEN Read(s, x.object[s].text) ELSE None
  BY DEF Seen, FieldOf
<1>5. ASSUME NEW s \in Settings
      PROVE  ProcessConfig(d)[s] = Seen(s, Lookup(v, SettingPath(s)))
  <2>1. CASE s \in ProcessFields
    <3>1. ProcessConfig(d)[s] = Section(ProcessFields, d)[s]
      BY <2>1 DEF ProcessConfig
    <3>2. Lookup(v, SettingPath(s)) = FieldOf(<<d>>, s)
      BY <1>2, <2>1, LookupTwo DEF SettingPath
    <3> QED
      BY <1>1, <1>4, <2>1, <3>1, <3>2 DEF Section
  <2>2. CASE s \notin ProcessFields
    <3>1. s \in LoggerFields /\ ProcessConfig(d)[s] = Section(LoggerFields, l)[s]
      BY <2>2 DEF ProcessConfig, Settings, l
    <3>2. Lookup(v, SettingPath(s)) = FieldOf(<<l>>, s)
      <4>1. Lookup(v, SettingPath(s)) = FieldOf(FieldOf(FieldOf(<<v>>, "dragonball"), "logger"), s)
        BY <2>2, LookupThree DEF SettingPath
      <4> QED
        BY <1>2, <1>3, <4>1
    <3> QED
      BY <1>1, <1>4, <3>1, <3>2 DEF Section
  <2> QED
    BY <2>1, <2>2
<1>6. ProcessConfig(d) = [s \in Settings |-> ProcessConfig(d)[s]]
  BY DEF ProcessConfig
<1> QED
  BY <1>5, <1>6 DEF d

-----------------------------------------------------------------------------
(* Building the tree: its nodes' paths are the prefixes of the bindings    *)
(* placed so far, each once.                                               *)

Leading(p, q) == Len(p) <= Len(q) /\ \A k \in 1 .. Len(p) : p[k] = q[k]

\* Leading is IsPrefix, without the subsequence.
LEMMA PrefixLeading ==
  ASSUME NEW S, NEW p \in Seq(S), NEW q \in Seq(S)
  PROVE  IsPrefix(p, q) <=> Leading(p, q)
<1>1. SubSeq(p, 1, Len(p)) = p
  BY Beginning
<1>2. ASSUME IsPrefix(p, q) PROVE Leading(p, q)
  <2>1. Len(p) <= Len(q) /\ SubSeq(q, 1, Len(p)) = p
    BY <1>1, <1>2 DEF IsPrefix
  <2>2. \A k \in Int : 1 <= k /\ k <= Len(p) => q[k] \in S
    BY <2>1
  <2>3. Len(p) \in Int /\ Len(p) - 1 + 1 = Len(p) /\ \A k \in 1 .. Len(p) : q[k] \in S /\ 1 + k - 1 = k
    BY <2>2
  <2>4. \A k \in 1 .. Len(p) - 1 + 1 : SubSeq(q, 1, Len(p))[k] = q[1 + k - 1]
    BY <2>3, SubSeqProperties
  <2>5. \A k \in 1 .. Len(p) : p[k] = q[k]
    BY <2>1, <2>3, <2>4
  <2> QED
    BY <2>1, <2>5 DEF Leading
<1>3. ASSUME Leading(p, q) PROVE IsPrefix(p, q)
  <2>1. Len(p) <= Len(q) /\ \A k \in 1 .. Len(p) : q[k] = p[k]
    BY <1>3 DEF Leading
  <2>2. SubSeq(q, 1, Len(p)) = p
    BY <2>1, Beginning
  <2> QED
    BY <1>1, <2>1, <2>2 DEF IsPrefix
<1> QED
  BY <1>2, <1>3

\* The prefix of k segments, said by its elements.
LEMMA CutLeading ==
  ASSUME NEW S, NEW q \in Seq(S), NEW k \in 0 .. Len(q)
  PROVE  /\ SubSeq(q, 1, k) \in Seq(S) /\ Len(SubSeq(q, 1, k)) = k
         /\ \A m \in 1 .. k : SubSeq(q, 1, k)[m] = q[m]
         /\ Leading(SubSeq(q, 1, k), q)
<1>1. k \in Int /\ \A m \in 1 .. k : q[m] \in S
  <2>1. \A m \in 1 .. k : m \in 1 .. Len(q)
    OBVIOUS
  <2> QED
    BY <2>1
<1>2. /\ SubSeq(q, 1, k) \in Seq(S)
      /\ Len(SubSeq(q, 1, k)) = IF 1 <= k THEN k - 1 + 1 ELSE 0
      /\ \A m \in 1 .. k - 1 + 1 : SubSeq(q, 1, k)[m] = q[1 + m - 1]
  BY <1>1, SubSeqProperties
<1>3. Len(SubSeq(q, 1, k)) = k /\ \A m \in 1 .. k : SubSeq(q, 1, k)[m] = q[m]
  BY <1>1, <1>2
<1> QED
  BY <1>2, <1>3 DEF Leading

LEMMA LeadingSame ==
  ASSUME NEW S, NEW p \in Seq(S), NEW q \in Seq(S), NEW r \in Seq(S),
         Len(p) = Len(q), Leading(p, r), Leading(q, r)
  PROVE  p = q
<1>1. \A k \in 1 .. Len(p) : p[k] = q[k]
  BY DEF Leading
<1> QED
  BY <1>1, SeqEqual

\* An appended sequence leads where the sequence does, and on.
LEMMA AppendLeading ==
  ASSUME NEW S, NEW p \in Seq(S), NEW e \in S, NEW q \in Seq(S)
  PROVE  Leading(Append(p, e), q) <=>
            Leading(p, q) /\ Len(p) + 1 <= Len(q) /\ q[Len(p) + 1] = e
<1>1. /\ Len(Append(p, e)) = Len(p) + 1 /\ \A k \in 1 .. Len(p) : Append(p, e)[k] = p[k]
      /\ Append(p, e)[Len(p) + 1] = e /\ Len(p) \in Nat /\ Len(q) \in Nat
  BY AppendProperties
<1>2. 1 .. Len(p) + 1 = (1 .. Len(p)) \cup {Len(p) + 1}
  BY <1>1
<1> QED
  BY <1>1, <1>2 DEF Leading

LEMMA AppendOnce ==
  ASSUME NEW S, NEW p \in Seq(S), NEW q \in Seq(S), NEW e \in S, NEW f \in S,
         Append(p, e) = Append(q, f)
  PROVE  p = q /\ e = f
BY AppendInjective

\* A child's path ends with its name, and says whose child it is.
LEMMA OneParent ==
  ASSUME NEW n, Linked(n), NEW c \in DOMAIN n, NEW i \in DOMAIN n, NEW name \in Names,
         n[c].path = Append(n[i].path, name)
  PROVE  IsChild(n, c, i) /\ n[c].name = name /\ i < c
<1>1. n \in Seq(Node) /\ DOMAIN n = 1 .. Len(n) /\ \A d \in DOMAIN n : n[d] \in Node
  BY DEF Linked
<1>2. \A d \in DOMAIN n : n[d].path \in Seq(Names) /\ n[d].name \in Names
  BY <1>1 DEF Node
<1>3. Append(n[i].path, name) # <<>>
  BY <1>2, AppendProperties
<1>4. c \in 2 .. Len(n)
  <2>1. c # 1
    BY <1>3 DEF Linked
  <2> QED
    BY <1>1, <2>1
<1>5. PICK p \in 1 .. c - 1 : IsChild(n, c, p)
  BY <1>4 DEF Linked
<1>6. p \in DOMAIN n /\ n[c].path = Append(n[p].path, n[c].name)
  BY <1>1, <1>4, <1>5 DEF IsChild
<1>7. n[p].path = n[i].path /\ n[c].name = name
  <2>1. Append(n[p].path, n[c].name) = Append(n[i].path, name)
    BY <1>6
  <2>2. n[p].path \in Seq(Names) /\ n[i].path \in Seq(Names) /\ n[c].name \in Names
    BY <1>2, <1>6
  <2>3. PICK q, r, e : q = n[p].path /\ r = n[i].path /\ e = n[c].name
    OBVIOUS
  <2>4. q \in Seq(Names) /\ r \in Seq(Names) /\ e \in Names /\ Append(q, e) = Append(r, name)
    BY <2>1, <2>2, <2>3
  <2>5. q = r /\ e = name
    BY <2>4, AppendOnce
  <2> QED
    BY <2>3, <2>5
<1>8. p = i
  BY <1>6, <1>7 DEF Linked
<1> QED
  BY <1>1, <1>5, <1>7, <1>8

\* A pushed child leaves the arena linked, and every other node as it was.
LEMMA AddChildLinked ==
  ASSUME NEW n, Linked(n), NEW i \in DOMAIN n, NEW name \in Names,
         \A c \in DOMAIN n : ~(IsChild(n, c, i) /\ n[c].name = name)
  PROVE  LET m == AddChild(n, i, name)
         IN  /\ Linked(m) /\ Len(m) = Len(n) + 1
             /\ m[Len(n) + 1].path = Append(n[i].path, name) /\ m[Len(n) + 1].binding = NONE
             /\ \A c \in DOMAIN n : /\ m[c].path = n[c].path /\ m[c].name = n[c].name
                                    /\ m[c].binding = n[c].binding
<1> DEFINE new == Len(n) + 1
           node == [EmptyNode EXCEPT !.name = name, !.path = Append(n[i].path, name),
                                     !.sibling = n[i].child]
           base == [n EXCEPT ![i].child = new]
           m == AddChild(n, i, name)
<1>1. /\ n \in Seq(Node) /\ DOMAIN n = 1 .. Len(n) /\ Len(n) \in Nat /\ Len(n) >= 1
      /\ \A d \in DOMAIN n : n[d] \in Node
  BY DEF Linked
<1>2. \A d \in DOMAIN n : /\ n[d].path \in Seq(Names) /\ n[d].name \in Names
                          /\ n[d].child \in Nat /\ n[d].sibling \in Nat /\ n[d].binding \in Nat
  BY <1>1 DEF Node
<1>3. Append(n[i].path, name) \in Seq(Names) /\ Append(n[i].path, name) # <<>>
  BY <1>2, AppendProperties
<1>4. /\ node \in Node /\ node.name = name /\ node.path = Append(n[i].path, name)
      /\ node.sibling = n[i].child /\ node.child = NONE /\ node.binding = NONE
  BY <1>2, <1>3 DEF EmptyNode, Node, NONE
<1>5. /\ base \in Seq(Node) /\ Len(base) = Len(n)
      /\ \A d \in DOMAIN n : /\ base[d].path = n[d].path /\ base[d].name = n[d].name
                             /\ base[d].binding = n[d].binding /\ base[d].sibling = n[d].sibling
                             /\ base[d].child = IF d = i THEN new ELSE n[d].child
  <2>1. [n[i] EXCEPT !.child = new] \in Node
    <3>1. n[i] \in Node /\ new \in Nat
      BY <1>1
    <3> HIDE DEF new
    <3> QED
      BY <3>1 DEF Node
  <2>2. base = [n EXCEPT ![i] = [n[i] EXCEPT !.child = new]]
    OBVIOUS
  <2>3. base \in Seq(Node) /\ Len(base) = Len(n)
    BY <1>1, <2>1, <2>2, ExceptSeq
  <2>4. \A d \in DOMAIN n : base[d] = IF d = i THEN [n[i] EXCEPT !.child = new] ELSE n[d]
    BY <1>1, <2>2
  <2>5. \A d \in DOMAIN n : /\ base[d].path = n[d].path /\ base[d].name = n[d].name
                            /\ base[d].binding = n[d].binding /\ base[d].sibling = n[d].sibling
                            /\ base[d].child = IF d = i THEN new ELSE n[d].child
    <3> TAKE d \in DOMAIN n
    <3> HIDE DEF base
    <3>1. n[d] \in Node
      BY <1>1
    <3> QED
      BY <2>4, <3>1 DEF Node
  <2> QED
    BY <2>3, <2>5
<1>6. m = Append(base, node)
  BY DEF AddChild
<1> HIDE DEF base, node, m
<1>7. /\ m \in Seq(Node) /\ Len(m) = new /\ DOMAIN m = 1 .. new /\ m[new] = node
      /\ \A d \in DOMAIN n : m[d] = base[d]
  BY <1>1, <1>4, <1>5, <1>6, AppendProperties
<1>8. \A d \in DOMAIN n : /\ m[d].path = n[d].path /\ m[d].name = n[d].name
                          /\ m[d].binding = n[d].binding /\ m[d].sibling = n[d].sibling
                          /\ m[d].child = IF d = i THEN new ELSE n[d].child
  BY <1>5, <1>7
<1>9. \A d \in DOMAIN n : n[d].path # node.path
  <2> SUFFICES ASSUME NEW d \in DOMAIN n, n[d].path = node.path PROVE FALSE
    OBVIOUS
  <2>1. IsChild(n, d, i) /\ n[d].name = name
    BY <1>4, OneParent
  <2> QED
    BY <2>1
<1>10. \A c, d \in DOMAIN n : IsChild(m, c, d) <=> IsChild(n, c, d)
  <2> TAKE c, d \in DOMAIN n
  <2>1. m[c].path = n[c].path /\ m[c].name = n[c].name /\ m[d].path = n[d].path
    BY <1>8
  <2>2. c \in 2 .. Len(m) <=> c \in 2 .. Len(n)
    BY <1>1, <1>7
  <2> QED
    BY <2>1, <2>2 DEF IsChild
<1>11. \A d \in DOMAIN n : IsChild(m, new, d) <=> d = i
  <2> TAKE d \in DOMAIN n
  <2>1. IsChild(m, new, d) <=> Append(n[i].path, name) = Append(n[d].path, name)
    <3>1. m[new].path = Append(n[i].path, name) /\ m[new].name = name /\ m[d].path = n[d].path
      BY <1>4, <1>7, <1>8
    <3>2. new \in 2 .. Len(m)
      BY <1>1, <1>7
    <3> QED
      BY <3>1, <3>2 DEF IsChild
  <2>2. Append(n[i].path, name) = Append(n[d].path, name) => n[i].path = n[d].path
    <3>1. n[i].path \in Seq(Names) /\ n[d].path \in Seq(Names)
      BY <1>2
    <3> QED
      BY <3>1, AppendOnce
  <2> QED
    BY <2>1, <2>2 DEF Linked
<1>12. \A c \in DOMAIN m : ~IsChild(m, c, new)
  <2> SUFFICES ASSUME NEW c \in DOMAIN m, IsChild(m, c, new) PROVE FALSE
    OBVIOUS
  <2>1. c \in 2 .. new /\ m[c].path = Append(node.path, m[c].name)
    BY <1>7 DEF IsChild
  <2>2. CASE c = new
    <3>1. Len(node.path) = Len(node.path) + 1 /\ Len(node.path) \in Nat
      BY <1>3, <1>4, <1>7, <2>1, <2>2, AppendProperties
    <3> QED
      BY <3>1
  <2>3. CASE c # new
    <3>1. c \in DOMAIN n /\ c \in 2 .. Len(n)
      BY <1>1, <2>1, <2>3
    <3>2. PICK p \in 1 .. c - 1 : IsChild(n, c, p)
      BY <3>1 DEF Linked
    <3>3. p \in DOMAIN n /\ n[c].path = Append(n[p].path, n[c].name)
      BY <1>1, <3>1, <3>2 DEF IsChild
    <3>4. Append(n[p].path, n[c].name) = Append(node.path, n[c].name)
      BY <1>8, <2>1, <3>1, <3>3
    <3>5. n[p].path = node.path
      <4>1. n[p].path \in Seq(Names) /\ node.path \in Seq(Names) /\ n[c].name \in Names
        BY <1>2, <1>3, <1>4, <3>1, <3>3
      <4>2. PICK q, r, e : q = n[p].path /\ r = node.path /\ e = n[c].name
        OBVIOUS
      <4>3. q \in Seq(Names) /\ r \in Seq(Names) /\ e \in Names /\ Append(q, e) = Append(r, e)
        BY <3>4, <4>1, <4>2
      <4>4. q = r
        BY <4>3, AppendOnce
      <4> QED
        BY <4>2, <4>4
    <3> QED
      BY <1>9, <3>3, <3>5
  <2> QED
    BY <2>2, <2>3
<1>13. \A c \in 2 .. Len(m) : \E p \in 1 .. c - 1 : IsChild(m, c, p)
  <2> TAKE c \in 2 .. Len(m)
  <2>1. CASE c = new
    <3>1. i \in 1 .. c - 1
      BY <1>1, <2>1
    <3> QED
      BY <1>11, <2>1, <3>1
  <2>2. CASE c # new
    <3>1. c \in 2 .. Len(n) /\ c \in DOMAIN n
      BY <1>1, <1>7, <2>2
    <3>2. PICK p \in 1 .. c - 1 : IsChild(n, c, p)
      BY <3>1 DEF Linked
    <3>3. p \in DOMAIN n
      BY <1>1, <3>1
    <3> QED
      BY <1>10, <3>1, <3>2, <3>3
  <2> QED
    BY <2>1, <2>2
<1>14. \A c, d \in DOMAIN m : m[c].path = m[d].path => c = d
  <2> SUFFICES ASSUME NEW c \in DOMAIN m, NEW d \in DOMAIN m, m[c].path = m[d].path PROVE c = d
    OBVIOUS
  <2>1. (c \in DOMAIN n \/ c = new) /\ (d \in DOMAIN n \/ d = new)
    BY <1>1, <1>7
  <2>2. c \in DOMAIN n /\ d \in DOMAIN n => c = d
    BY <1>8 DEF Linked
  <2> QED
    BY <1>7, <1>8, <1>9, <2>1, <2>2
<1>15. ASSUME NEW d \in DOMAIN n, NEW c, NEW end \in 1 .. Len(n) + 1, Newest(n, d, c, end)
       PROVE  Newest(m, d, c, end)
  <2>1. \A x \in 2 .. end - 1 : x \in DOMAIN n
    BY <1>1
  <2>2. \A x \in c + 1 .. end - 1 : c \in 2 .. end - 1 => x \in 2 .. end - 1
    OBVIOUS
  <2> QED
    BY <1>10, <1>15, <2>1, <2>2 DEF Newest
<1>16. ASSUME NEW d \in DOMAIN m PROVE Newest(m, d, m[d].child, Len(m) + 1)
  <2>1. CASE d = i
    <3>1. m[d].child = new /\ new \in 2 .. Len(m) /\ IsChild(m, new, d)
          /\ \A x \in new + 1 .. Len(m) : FALSE
      BY <1>1, <1>7, <1>8, <1>11, <2>1
    <3> QED
      BY <1>7, <3>1 DEF Newest
  <2>2. CASE d = new
    <3>1. m[d].child = NONE
      BY <1>4, <1>7, <2>2
    <3> QED
      BY <1>1, <1>7, <1>12, <2>2, <3>1 DEF Newest
  <2>3. CASE d # i /\ d # new
    <3>1. d \in DOMAIN n /\ m[d].child = n[d].child
      BY <1>1, <1>7, <1>8, <2>3
    <3>2. Newest(n, d, n[d].child, Len(n) + 1) /\ Len(n) + 1 \in 1 .. Len(n) + 1
      BY <1>1, <3>1 DEF Linked
    <3>3. Newest(m, d, n[d].child, Len(n) + 1)
      BY <1>15, <3>1, <3>2
    <3>4. ~IsChild(m, new, d)
      BY <1>11, <2>3, <3>1
    <3>5. /\ \A x \in 2 .. Len(m) : x \in 2 .. Len(n) \/ x = new
          /\ \A x \in n[d].child + 1 .. Len(m) : x \in n[d].child + 1 .. Len(n) \/ x = new
          /\ 2 .. Len(n) \subseteq 2 .. Len(m)
      BY <1>1, <1>2, <1>7, <3>1
    <3>6. Len(n) + 1 - 1 = Len(n) /\ Len(m) + 1 - 1 = Len(m)
      BY <1>1, <1>7
    <3> QED
      BY <3>1, <3>3, <3>4, <3>5, <3>6 DEF Newest
  <2> QED
    BY <2>1, <2>2, <2>3
<1>17. ASSUME NEW d \in DOMAIN m, NEW c \in 2 .. Len(m), IsChild(m, c, d)
       PROVE  Newest(m, d, m[c].sibling, c)
  <2>1. d \in DOMAIN n
    BY <1>1, <1>7, <1>12, <1>17
  <2>2. CASE c = new
    <3>1. d = i /\ m[c].sibling = n[i].child
      BY <1>4, <1>7, <1>11, <1>17, <2>1, <2>2
    <3>2. Newest(n, i, n[i].child, Len(n) + 1) /\ Len(n) + 1 \in 1 .. Len(n) + 1
      BY <1>1 DEF Linked
    <3> QED
      BY <1>15, <2>2, <3>1, <3>2
  <2>3. CASE c # new
    <3>1. c \in DOMAIN n /\ c \in 2 .. Len(n) /\ c \in 1 .. Len(n) + 1 /\ m[c].sibling = n[c].sibling
      BY <1>1, <1>7, <1>8, <2>3
    <3>2. IsChild(n, c, d)
      BY <1>10, <1>17, <2>1, <3>1
    <3>3. Newest(n, d, n[c].sibling, c)
      BY <2>1, <3>1, <3>2 DEF Linked
    <3> QED
      BY <1>15, <2>1, <3>1, <3>3
  <2> QED
    BY <2>2, <2>3
<1>18. m[1].path = <<>> /\ m[1].sibling = NONE
  BY <1>1, <1>8 DEF Linked
<1>19. Linked(m)
  BY <1>1, <1>7, <1>13, <1>14, <1>16, <1>17, <1>18 DEF Linked
<1> QED
  BY <1>4, <1>7, <1>8, <1>19 DEF m


Paths(n) == {n[c].path : c \in DOMAIN n}

Before(list, i) == {j \in 1 .. i - 1 : Bound(list[j])}

PrefixesOf(list, D) == {q \in Seq(Names) : q = <<>> \/ \E j \in D : Leading(q, list[j].path)}

Upto(list, i, k) == {q \in Seq(Names) : Len(q) <= k /\ Leading(q, list[i].path)}

OwnUpto(list, i, k) == {x \in OwnPrefixes(list, i) : x <= k}

Own(list, D) == UNION {{j} \X OwnPrefixes(list, j) : j \in D}

Tree(n, list, D) ==
  /\ Linked(n) /\ Bindings(n) = D
  /\ \A c \in DOMAIN n : n[c].binding # NONE => n[c].path = list[n[c].binding].path
  /\ Paths(n) = PrefixesOf(list, D)
  /\ Len(n) = 1 + Cardinality(Own(list, D))

\* Bindings that can be in one tree.
Apart(list, D) ==
  \A i \in D : /\ WellFormed(list[i])
               /\ \A j \in D : j < i => /\ ~Leading(list[i].path, list[j].path)
                                        /\ ~Leading(list[j].path, list[i].path)

\* The first k segments of operation i are in the tree n has become.
Placed(place, n, list, i, k) ==
  /\ place = [nodes |-> place.nodes, at |-> place.at, ok |-> TRUE]
  /\ Linked(place.nodes) /\ DOMAIN n \subseteq DOMAIN place.nodes
  /\ \A c \in DOMAIN place.nodes :
        place.nodes[c].binding = IF c \in DOMAIN n THEN n[c].binding ELSE NONE
  /\ \A c \in DOMAIN n : place.nodes[c].path = n[c].path
  /\ Paths(place.nodes) = Paths(n) \cup Upto(list, i, k)
  /\ Len(place.nodes) = Len(n) + Cardinality(OwnUpto(list, i, k))
  /\ place.at \in DOMAIN place.nodes
  /\ Len(place.nodes[place.at].path) = k /\ Leading(place.nodes[place.at].path, list[i].path)
  /\ WellFormed(list[i])
  /\ \A j \in Before(list, i) : Len(list[j].path) < k => ~Leading(list[j].path, list[i].path)

LEMMA OperationPath ==
  ASSUME NEW list \in Seq(Operation), NEW i \in DOMAIN list
  PROVE  list[i].path \in Seq(Names) /\ Len(list[i].path) \in Nat
<1>1. list[i] \in Operation
  OBVIOUS
<1>2. PICK p : p = list[i].path /\ p \in Seq(STRING)
  BY <1>1 DEF Operation
<1>3. p \in Seq(Names)
  <2>1. \A e \in STRING : e \in Names
    BY DEF Names
  <2>2. p = [k \in 1 .. Len(p) |-> p[k]] /\ Len(p) \in Nat
    BY <1>2
  <2>3. \A k \in 1 .. Len(p) : p[k] \in STRING
    BY <1>2
  <2>4. p \in [1 .. Len(p) -> Names]
    BY <2>1, <2>2, <2>3
  <2> QED
    BY <2>2, <2>4, SeqDef
<1> QED
  BY <1>2, <1>3

\* The list validate() lets through is one of bindings that are apart.
LEMMA ValidApart ==
  ASSUME NEW list \in Seq(Operation)
  PROVE  Valid(list) <=> Apart(list, {j \in DOMAIN list : Bound(list[j])})
<1>1. \A i, j \in DOMAIN list : IsPrefix(list[i].path, list[j].path)
                                  <=> Leading(list[i].path, list[j].path)
  <2> TAKE i, j \in DOMAIN list
  <2>1. PICK p, q : p = list[i].path /\ q = list[j].path
    OBVIOUS
  <2>2. p \in Seq(Names) /\ q \in Seq(Names)
    BY <2>1, OperationPath
  <2> QED
    BY <2>1, <2>2, PrefixLeading
<1>2. \A i \in DOMAIN list : \A j : j \in 1 .. i - 1 <=> j \in DOMAIN list /\ j < i
  OBVIOUS
<1> QED
  BY <1>1, <1>2 DEF Valid, Apart

\* A prefix is an operation's own when no operation bound before passes through it.
LEMMA OwnLeading ==
  ASSUME NEW list \in Seq(Operation), NEW i \in DOMAIN list, NEW q \in Seq(Names),
         Leading(q, list[i].path), q # <<>>
  PROVE  /\ Len(q) \in OwnPrefixes(list, i) <=> q \notin PrefixesOf(list, Before(list, i))
         /\ Len(q) \in DOMAIN list[i].path
<1>1. PICK p : p = list[i].path /\ p \in Seq(Names)
  BY OperationPath
<1>2. Len(q) \in 0 .. Len(p) /\ Len(q) # 0 /\ Leading(q, p)
  BY <1>1 DEF Leading
<1>3. Len(q) \in DOMAIN p
  BY <1>1, <1>2
<1>4. SubSeq(p, 1, Len(q)) = q
  <2>1. PICK r : r = SubSeq(p, 1, Len(q))
    OBVIOUS
  <2>2. r \in Seq(Names) /\ Len(r) = Len(q) /\ Leading(r, p)
    BY <1>1, <1>2, <2>1, CutLeading
  <2> QED
    BY <1>1, <1>2, <2>1, <2>2, LeadingSame
<1>5. \A j \in 1 .. i - 1 : IsPrefix(q, list[j].path) <=> Leading(q, list[j].path)
  <2> TAKE j \in 1 .. i - 1
  <2>1. PICK r : r = list[j].path
    OBVIOUS
  <2>2. r \in Seq(Names)
    BY <2>1, OperationPath
  <2> QED
    BY <2>1, <2>2, PrefixLeading
<1>6. Len(q) \in OwnPrefixes(list, i)
        <=> \A j \in 1 .. i - 1 : Bound(list[j]) => ~Leading(q, list[j].path)
  BY <1>1, <1>3, <1>4, <1>5 DEF OwnPrefixes
<1> QED
  BY <1>1, <1>3, <1>6 DEF PrefixesOf, Before

LEMMA OwnSome ==
  ASSUME NEW list \in Seq(Operation), NEW i \in DOMAIN list
  PROVE  /\ IsFiniteSet(OwnPrefixes(list, i)) /\ Cardinality(OwnPrefixes(list, i)) \in Nat
         /\ OwnPrefixes(list, i) \subseteq 1 .. Len(list[i].path)
<1>1. OwnPrefixes(list, i) \in SUBSET (1 .. Len(list[i].path))
  BY OperationPath DEF OwnPrefixes
<1>2. IsFiniteSet(1 .. Len(list[i].path))
  BY OperationPath, FS_Interval
<1> QED
  BY <1>1, <1>2, FS_Subset, FS_CardinalityType

LEMMA OwnFinite ==
  ASSUME NEW list \in Seq(Operation), NEW D \in SUBSET DOMAIN list
  PROVE  IsFiniteSet(Own(list, D)) /\ Cardinality(Own(list, D)) \in Nat
<1>1. IsFiniteSet(D)
  <2>1. IsFiniteSet(1 .. Len(list))
    BY FS_Interval
  <2> QED
    BY <2>1, FS_Subset
<1> DEFINE S == {{j} \X OwnPrefixes(list, j) : j \in D}
<1>2. IsFiniteSet(S)
  <2> DEFINE f == [j \in D |-> {j} \X OwnPrefixes(list, j)]
  <2>1. f \in Surjection(D, S)
    BY DEF Surjection
  <2> HIDE DEF f, S
  <2> QED
    BY <1>1, <2>1, FS_Surjection
<1>3. ASSUME NEW T \in S PROVE IsFiniteSet(T)
  <2>1. PICK j \in D : T = {j} \X OwnPrefixes(list, j)
    OBVIOUS
  <2>2. IsFiniteSet(OwnPrefixes(list, j))
    BY OwnSome
  <2>3. IsFiniteSet({j})
    BY FS_Singleton
  <2> QED
    BY <2>1, <2>2, <2>3, FS_Product
<1>4. IsFiniteSet(UNION S)
  <2> HIDE DEF S
  <2> QED
    BY <1>2, <1>3, FS_UNION
<1> QED
  BY <1>4, FS_CardinalityType DEF Own

LEMMA OwnGrows ==
  ASSUME NEW list \in Seq(Operation), NEW D \in SUBSET DOMAIN list,
         NEW i \in DOMAIN list, i \notin D
  PROVE  Cardinality(Own(list, D \cup {i}))
           = Cardinality(Own(list, D)) + Cardinality(OwnPrefixes(list, i))
<1> DEFINE A == Own(list, D)
           B == {i} \X OwnPrefixes(list, i)
<1>1. IsFiniteSet(A) /\ Cardinality(A) \in Nat
  BY OwnFinite
<1>2. IsFiniteSet(OwnPrefixes(list, i)) /\ Cardinality(OwnPrefixes(list, i)) \in Nat
  BY OwnSome
<1>3. IsFiniteSet(B) /\ Cardinality(B) = Cardinality(OwnPrefixes(list, i))
  <2>1. IsFiniteSet({i}) /\ Cardinality({i}) = 1
    BY FS_Singleton
  <2>2. IsFiniteSet(B) /\ Cardinality(B) = 1 * Cardinality(OwnPrefixes(list, i))
    BY <1>2, <2>1, FS_Product
  <2> HIDE DEF B
  <2> QED
    BY <1>2, <2>2
<1>4. A \cap B = {}
  BY DEF Own
<1>5. Own(list, D \cup {i}) = A \cup B
  BY DEF Own
<1>6. Cardinality(A \cup B) = Cardinality(A) + Cardinality(B) - Cardinality(A \cap B)
  <2> HIDE DEF A, B
  <2> QED
    BY <1>1, <1>3, FS_Union
<1> HIDE DEF A, B
<1>7. Cardinality(A \cap B) = 0
  BY <1>4, FS_EmptySet
<1>8. Cardinality(A \cup B) = Cardinality(A) + Cardinality(B)
  BY <1>1, <1>2, <1>3, <1>6, <1>7
<1> QED
  BY <1>3, <1>5, <1>8 DEF A

\* The arena built so far leaves room for the prefixes of the next operation.
LEMMA OwnCounted ==
  ASSUME NEW list \in Seq(Operation), NEW D \in SUBSET DOMAIN list,
         NEW i \in DOMAIN list, i \notin D
  PROVE  /\ 1 + Cardinality(Own(list, D)) + Cardinality(OwnPrefixes(list, i)) <= NodeCount(list)
         /\ NodeCount(list) \in Nat
<1>1. IsFiniteSet(Own(list, DOMAIN list)) /\ Cardinality(Own(list, DOMAIN list)) \in Nat
  BY OwnFinite
<1>2. Own(list, D \cup {i}) \in SUBSET Own(list, DOMAIN list)
  BY DEF Own
<1>3. /\ Cardinality(Own(list, D \cup {i})) <= Cardinality(Own(list, DOMAIN list))
      /\ Cardinality(Own(list, D \cup {i})) \in Nat
  BY <1>1, <1>2, FS_Subset, FS_CardinalityType
<1>4. NodeCount(list) = 1 + Cardinality(Own(list, DOMAIN list))
  BY DEF NodeCount, Own
<1>5. Cardinality(Own(list, D)) \in Nat /\ Cardinality(OwnPrefixes(list, i)) \in Nat
  BY OwnFinite, OwnSome
<1> QED
  BY <1>1, <1>3, <1>4, <1>5, OwnGrows

\* One more prefix, own or not.
LEMMA OwnNext ==
  ASSUME NEW list \in Seq(Operation), NEW i \in DOMAIN list, NEW k \in Nat
  PROVE  /\ Cardinality(OwnUpto(list, i, k)) \in Nat
         /\ Cardinality(OwnUpto(list, i, k)) <= Cardinality(OwnPrefixes(list, i))
         /\ Cardinality(OwnUpto(list, i, k + 1))
              = Cardinality(OwnUpto(list, i, k)) + IF k + 1 \in OwnPrefixes(list, i) THEN 1 ELSE 0
         /\ Cardinality(OwnUpto(list, i, 0)) = 0
         /\ OwnUpto(list, i, Len(list[i].path)) = OwnPrefixes(list, i)
<1>1. IsFiniteSet(OwnPrefixes(list, i)) /\ Cardinality(OwnPrefixes(list, i)) \in Nat
      /\ OwnPrefixes(list, i) \subseteq 1 .. Len(list[i].path) /\ Len(list[i].path) \in Nat
  BY OwnSome, OperationPath
<1>2. OwnUpto(list, i, k) \in SUBSET OwnPrefixes(list, i)
  BY DEF OwnUpto
<1>3. /\ IsFiniteSet(OwnUpto(list, i, k)) /\ Cardinality(OwnUpto(list, i, k)) \in Nat
      /\ Cardinality(OwnUpto(list, i, k)) <= Cardinality(OwnPrefixes(list, i))
  BY <1>1, <1>2, FS_Subset, FS_CardinalityType
<1>4. OwnUpto(list, i, 0) = {} /\ OwnUpto(list, i, Len(list[i].path)) = OwnPrefixes(list, i)
  BY <1>1 DEF OwnUpto
<1>5. /\ Cardinality(OwnUpto(list, i, 0)) = 0
      /\ OwnUpto(list, i, Len(list[i].path)) = OwnPrefixes(list, i)
  BY <1>4, FS_EmptySet
<1>6. CASE k + 1 \in OwnPrefixes(list, i)
  <2>1. OwnUpto(list, i, k + 1) = OwnUpto(list, i, k) \cup {k + 1} /\ k + 1 \notin OwnUpto(list, i, k)
    BY <1>1, <1>6 DEF OwnUpto
  <2>2. Cardinality(OwnUpto(list, i, k + 1)) = Cardinality(OwnUpto(list, i, k)) + 1
    BY <1>3, <2>1, FS_AddElement
  <2> QED
    BY <1>3, <1>6, <1>5, <2>2
<1>7. CASE k + 1 \notin OwnPrefixes(list, i)
  <2>1. OwnUpto(list, i, k + 1) = OwnUpto(list, i, k)
    BY <1>1, <1>7 DEF OwnUpto
  <2>2. Cardinality(OwnUpto(list, i, k + 1)) = Cardinality(OwnUpto(list, i, k)) + 0
    BY <1>3, <2>1
  <2> QED
    BY <1>3, <1>7, <1>5, <2>2
<1> QED
  BY <1>6, <1>7


LEMMA UptoNext ==
  ASSUME NEW list \in Seq(Operation), NEW i \in DOMAIN list, NEW q \in Seq(Names),
         Leading(q, list[i].path), Len(q) > 0
  PROVE  Upto(list, i, Len(q)) = Upto(list, i, Len(q) - 1) \cup {q}
<1>1. PICK p : p = list[i].path /\ p \in Seq(Names)
  BY OperationPath
<1>2. ASSUME NEW r \in Upto(list, i, Len(q)), Len(r) > Len(q) - 1 PROVE r = q
  <2>1. r \in Seq(Names) /\ Len(r) = Len(q) /\ Leading(r, p) /\ Leading(q, p)
    BY <1>1, <1>2 DEF Upto
  <2> QED
    BY <1>1, <2>1, LeadingSame
<1> QED
  BY <1>2 DEF Upto

\* Operations before another, of which one is a beginning of the other.
LEMMA Overlap ==
  ASSUME NEW list \in Seq(Operation), NEW i \in DOMAIN list, Bound(list[i]),
         NEW j \in Before(list, i),
         Leading(list[i].path, list[j].path) \/ Leading(list[j].path, list[i].path)
  PROVE  ~Valid(list)
<1>1. j \in DOMAIN list /\ Bound(list[j]) /\ j < i
  BY DEF Before
<1>2. ~Apart(list, {k \in DOMAIN list : Bound(list[k])})
  BY <1>1 DEF Apart
<1> QED
  BY <1>2, ValidApart

\* One step of a descent stands at the node of the longer prefix, or the list is not valid.
LEMMA DescendStep ==
  ASSUME NEW list \in Seq(Operation), NEW i \in DOMAIN list, Bound(list[i]),
         NEW n, Tree(n, list, Before(list, i)),
         NEW k \in DOMAIN list[i].path, NEW place, Placed(place, n, list, i, k - 1)
  PROVE  LET next == Descend(place, list[i].path[k], NodeCount(list))
         IN  /\ next.ok => Placed(next, n, list, i, k)
             /\ ~next.ok => ~Valid(list)
<1> DEFINE next == Descend(place, list[i].path[k], NodeCount(list))
<1>0. PICK p, name, D, m, at : /\ p = list[i].path /\ name = p[k] /\ D = Before(list, i)
                               /\ m = place.nodes /\ at = place.at
  OBVIOUS
<1>1. p \in Seq(Names) /\ k \in 1 .. Len(p) /\ name \in Names
  BY <1>0, OperationPath
<1>2. /\ place = [nodes |-> m, at |-> at, ok |-> TRUE]
      /\ Linked(m) /\ DOMAIN n \subseteq DOMAIN m
      /\ \A c \in DOMAIN m : m[c].binding = IF c \in DOMAIN n THEN n[c].binding ELSE NONE
      /\ \A c \in DOMAIN n : m[c].path = n[c].path
      /\ Paths(m) = Paths(n) \cup Upto(list, i, k - 1)
      /\ Len(m) = Len(n) + Cardinality(OwnUpto(list, i, k - 1))
      /\ at \in DOMAIN m
      /\ Len(m[at].path) = k - 1 /\ Leading(m[at].path, p)
      /\ WellFormed(list[i])
      /\ \A j \in D : Len(list[j].path) < k - 1 => ~Leading(list[j].path, p)
  BY <1>0 DEF Placed
<1>3. /\ Linked(n) /\ Bindings(n) = D /\ Paths(n) = PrefixesOf(list, D)
      /\ \A c \in DOMAIN n : n[c].binding # NONE => n[c].path = list[n[c].binding].path
      /\ Len(n) = 1 + Cardinality(Own(list, D))
  BY <1>0 DEF Tree
<1>4. /\ DOMAIN n = 1 .. Len(n) /\ DOMAIN m = 1 .. Len(m) /\ Len(n) \in Nat /\ Len(m) \in Nat
      /\ \A c \in DOMAIN m : m[c].path \in Seq(Names) /\ m[c].name \in Names
      /\ Len(n) + 1 \notin DOMAIN n /\ Len(m) + 1 \notin DOMAIN m
  <2>1. n \in Seq(Node) /\ m \in Seq(Node)
    BY <1>2, <1>3 DEF Linked
  <2>2. \A c \in DOMAIN m : m[c] \in Node
    BY <2>1
  <2>3. \A c \in DOMAIN m : m[c].path \in Seq(Names) /\ m[c].name \in Names
    BY <2>2 DEF Node
  <2> QED
    BY <2>1, <2>3
<1>5. D \in SUBSET DOMAIN list /\ i \notin D
      /\ \A j \in D : list[j].path \in Seq(Names) /\ Len(list[j].path) \in Nat
  <2>1. D \in SUBSET DOMAIN list /\ i \notin D
    BY <1>0 DEF Before
  <2> QED
    BY <2>1, OperationPath
<1> DEFINE child == ChildNamed(m, at, name)
<1>6. next = IF m[at].binding # NONE THEN [place EXCEPT !.ok = FALSE]
             ELSE IF child # NONE THEN [place EXCEPT !.at = child]
             ELSE IF Len(m) >= NodeCount(list) THEN [place EXCEPT !.ok = FALSE]
             ELSE [place EXCEPT !.nodes = AddChild(m, at, name), !.at = Len(m) + 1]
  <2>1. place.ok = TRUE
    BY <1>2
  <2> QED
    BY <1>0, <2>1 DEF Descend
<1>7. PICK q : q = Append(m[at].path, name)
  OBVIOUS
<1>8. q \in Seq(Names) /\ Len(q) = k /\ q # <<>> /\ Leading(q, p)
  <2>1. PICK r : r = m[at].path /\ r \in Seq(Names)
    BY <1>2, <1>4
  <2>2. Len(r) = k - 1 /\ Leading(r, p) /\ Len(r) + 1 = k /\ Len(r) + 1 <= Len(p)
    BY <1>1, <1>2, <2>1
  <2>3. p[Len(r) + 1] = name
    BY <1>0, <2>2
  <2>4. q \in Seq(Names) /\ Len(q) = k /\ q # <<>>
    BY <1>1, <1>7, <2>1, <2>2, AppendProperties
  <2>5. Leading(Append(r, name), p)
    BY <1>1, <2>1, <2>2, <2>3, AppendLeading
  <2> QED
    BY <1>7, <2>1, <2>4, <2>5
<1>9. Upto(list, i, k) = Upto(list, i, k - 1) \cup {q} /\ q \notin Upto(list, i, k - 1)
  <2>1. Upto(list, i, Len(q)) = Upto(list, i, Len(q) - 1) \cup {q}
    <3>1. Leading(q, list[i].path) /\ Len(q) > 0
      BY <1>0, <1>1, <1>8
    <3> QED
      BY <1>8, <3>1, UptoNext
  <2>2. q \notin Upto(list, i, k - 1)
    BY <1>1, <1>8 DEF Upto
  <2> QED
    BY <1>8, <2>1, <2>2
<1>10. k \in OwnPrefixes(list, i) <=> q \notin Paths(n)
  BY <1>0, <1>3, <1>8, OwnLeading
<1>11. /\ Cardinality(OwnUpto(list, i, k))
            = Cardinality(OwnUpto(list, i, k - 1)) + IF k \in OwnPrefixes(list, i) THEN 1 ELSE 0
       /\ Cardinality(OwnUpto(list, i, k - 1)) \in Nat
       /\ Cardinality(OwnUpto(list, i, k)) \in Nat
       /\ Cardinality(OwnUpto(list, i, k)) <= Cardinality(OwnPrefixes(list, i))
  <2>1. k - 1 \in Nat /\ k \in Nat /\ (k - 1) + 1 = k
    BY <1>1
  <2> QED
    BY <2>1, OwnNext
<1>12. ASSUME m[at].binding = NONE, NEW j \in D, Len(list[j].path) < k
       PROVE  ~Leading(list[j].path, p)
  <2> SUFFICES ASSUME Leading(list[j].path, p) PROVE FALSE
    OBVIOUS
  <2>1. Len(list[j].path) = k - 1
    BY <1>1, <1>2, <1>5, <1>12
  <2>2. PICK a, b : a = list[j].path /\ b = m[at].path
    OBVIOUS
  <2>3. a \in Seq(Names) /\ b \in Seq(Names) /\ Len(a) = Len(b) /\ Leading(a, p) /\ Leading(b, p)
    BY <1>2, <1>4, <1>5, <2>1, <2>2
  <2>4. a = b
    BY <1>1, <2>3, LeadingSame
  <2>5. PICK c \in DOMAIN n : n[c].binding = j /\ j # NONE
    BY <1>3 DEF Bindings
  <2>6. m[c].path = m[at].path /\ c \in DOMAIN m
    BY <1>2, <1>3, <2>2, <2>4, <2>5
  <2>7. c = at
    BY <1>2, <2>6 DEF Linked
  <2> QED
    BY <1>2, <1>12, <2>5, <2>7
<1>13. CASE m[at].binding # NONE
  <2>1. at \in DOMAIN n /\ n[at].binding \in D /\ m[at].path = list[n[at].binding].path
    BY <1>2, <1>3, <1>13 DEF Bindings
  <2>2. Leading(list[n[at].binding].path, list[i].path)
    BY <1>0, <1>2, <2>1
  <2>3. ~Valid(list)
    BY <1>0, <2>1, <2>2, Overlap
  <2>4. next = [place EXCEPT !.ok = FALSE]
    BY <1>6, <1>13
  <2>5. next.ok = FALSE
    BY <1>2, <2>4
  <2> QED
    BY <2>3, <2>5
<1>14. CASE m[at].binding = NONE /\ child # NONE
  <2>1. next = [place EXCEPT !.at = child]
    BY <1>6, <1>14
  <2>2. next = [nodes |-> m, at |-> child, ok |-> TRUE]
    BY <1>2, <2>1
  <2>3. child \in DOMAIN m /\ IsChild(m, child, at) /\ m[child].name = name
    <3>1. child \in 2 .. Len(m) /\ IsChild(m, child, at) /\ m[child].name = name
      BY <1>2, <1>14, ChildFound
    <3> QED
      BY <1>4, <3>1
  <2>4. m[child].path = q
    BY <1>7, <2>3 DEF IsChild
  <2>5. q \in Paths(n) /\ Paths(m) = Paths(n) \cup Upto(list, i, k)
    <3>1. q \in Paths(m)
      BY <2>3, <2>4 DEF Paths
    <3> QED
      BY <1>2, <1>9, <3>1
  <2>6. Len(m) = Len(n) + Cardinality(OwnUpto(list, i, k))
    BY <1>2, <1>10, <1>11, <2>5
  <2>7. next.nodes = m /\ next.at = child /\ next.ok = TRUE
        /\ next = [nodes |-> next.nodes, at |-> next.at, ok |-> TRUE]
    BY <2>2
  <2> HIDE DEF next, child
  <2>8. Placed(next, n, list, i, k)
    BY <1>0, <1>2, <1>8, <1>12, <1>14, <2>3, <2>4, <2>5, <2>6, <2>7 DEF Placed
  <2> QED
    BY <2>7, <2>8 DEF next
<1>15. CASE m[at].binding = NONE /\ child = NONE
  <2>1. \A c \in DOMAIN m : ~(IsChild(m, c, at) /\ m[c].name = name)
    <3>1. \/ child = NONE /\ \A c \in DOMAIN m : ~(IsChild(m, c, at) /\ m[c].name = name)
          \/ child \in 2 .. Len(m)
      BY <1>2, ChildFound
    <3>2. child \notin 2 .. Len(m)
      BY <1>4, <1>15 DEF NONE
    <3> QED
      BY <3>1, <3>2
  <2>2. q \notin Paths(m)
    <3> SUFFICES ASSUME NEW c \in DOMAIN m, m[c].path = q PROVE FALSE
      BY DEF Paths
    <3>1. IsChild(m, c, at) /\ m[c].name = name
      <4>1. m[c].path = Append(m[at].path, name)
        BY <1>7
      <4>2. Linked(m) /\ at \in DOMAIN m /\ name \in Names
        BY <1>1, <1>2
      <4> QED
        BY <4>1, <4>2, OneParent
    <3> QED
      BY <2>1, <3>1
  <2>3. k \in OwnPrefixes(list, i)
    BY <1>2, <1>10, <2>2
  <2>4. Len(m) + 1 = Len(n) + Cardinality(OwnUpto(list, i, k))
    BY <1>2, <1>4, <1>11, <2>3
  <2>5. Len(m) < NodeCount(list)
    <3>1. /\ 1 + Cardinality(Own(list, D)) + Cardinality(OwnPrefixes(list, i)) <= NodeCount(list)
          /\ NodeCount(list) \in Nat
      BY <1>5, OwnCounted
    <3>2. Cardinality(OwnPrefixes(list, i)) \in Nat
      BY OwnSome
    <3> QED
      BY <1>3, <1>4, <1>11, <2>4, <3>1, <3>2
  <2>6. next = [place EXCEPT !.nodes = AddChild(m, at, name), !.at = Len(m) + 1]
    <3>1. ~(Len(m) >= NodeCount(list))
      <4>1. NodeCount(list) \in Nat
        BY <1>5, OwnCounted
      <4> QED
        BY <1>4, <2>5, <4>1
    <3> QED
      BY <1>6, <1>15, <3>1
  <2>7. next = [nodes |-> AddChild(m, at, name), at |-> Len(m) + 1, ok |-> TRUE]
    BY <1>2, <2>6
  <2>8. PICK w, new : w = AddChild(m, at, name) /\ new = Len(m) + 1
    OBVIOUS
  <2>9. /\ Linked(w) /\ Len(w) = new
        /\ w[new].path = q /\ w[new].binding = NONE
        /\ \A c \in DOMAIN m : w[c].path = m[c].path /\ w[c].binding = m[c].binding
    <3>1. Linked(m) /\ at \in DOMAIN m /\ name \in Names
      BY <1>1, <1>2
    <3>2. /\ Linked(AddChild(m, at, name)) /\ Len(AddChild(m, at, name)) = Len(m) + 1
          /\ AddChild(m, at, name)[Len(m) + 1].path = Append(m[at].path, name)
          /\ AddChild(m, at, name)[Len(m) + 1].binding = NONE
          /\ \A c \in DOMAIN m : /\ AddChild(m, at, name)[c].path = m[c].path
                                 /\ AddChild(m, at, name)[c].binding = m[c].binding
      BY <2>1, <3>1, AddChildLinked
    <3> QED
      BY <1>7, <2>8, <3>2
  <2>10. /\ w[new].path = q /\ w[new].binding = NONE /\ DOMAIN w = DOMAIN m \cup {new}
         /\ new \notin DOMAIN n /\ new \in DOMAIN w
    <3>1. DOMAIN w = 1 .. new
      BY <2>9 DEF Linked
    <3>2. 1 .. new = (1 .. Len(m)) \cup {new}
      BY <1>4, <2>8
    <3>3. new \notin DOMAIN n
      BY <1>2, <1>4, <2>8
    <3> QED
      BY <1>4, <2>9, <3>1, <3>2, <3>3
  <2>11. Paths(w) = Paths(n) \cup Upto(list, i, k)
    <3>1. Paths(w) = Paths(m) \cup {q}
      <4>1. \A c \in DOMAIN m : w[c].path = m[c].path
        BY <2>9
      <4> QED
        BY <2>10, <4>1 DEF Paths
    <3> QED
      BY <1>2, <1>9, <3>1
  <2>12. /\ DOMAIN n \subseteq DOMAIN w
         /\ \A c \in DOMAIN w : w[c].binding = IF c \in DOMAIN n THEN n[c].binding ELSE NONE
         /\ \A c \in DOMAIN n : w[c].path = n[c].path
    BY <1>2, <2>9, <2>10
  <2>13. /\ next.nodes = w /\ next.at = new /\ next.ok = TRUE
         /\ next = [nodes |-> next.nodes, at |-> next.at, ok |-> TRUE]
    BY <2>7, <2>8
  <2> HIDE DEF next, child
  <2>14. Len(w) = Len(n) + Cardinality(OwnUpto(list, i, k))
    BY <2>4, <2>8, <2>9
  <2>15. \A j \in D : Len(list[j].path) < k => ~Leading(list[j].path, p)
    BY <1>12, <1>15
  <2>16. Placed(next, n, list, i, k)
    BY <1>0, <1>2, <1>8, <2>9, <2>10, <2>11, <2>12, <2>13, <2>14, <2>15 DEF Placed
  <2> QED
    BY <2>13, <2>16 DEF next
<1> QED
  BY <1>13, <1>14, <1>15


\* place has where each segment of operation i leads, up to the n-th.
Descends(place, nodes0, list, i, count, n) ==
  place = [k \in 0 .. n |->
            IF k = 0 THEN [nodes |-> nodes0, at |-> 1, ok |-> WellFormed(list[i])]
            ELSE Descend(place[k - 1], list[i].path[k], count)]

LEMMA DescendsExist ==
  ASSUME NEW nodes0, NEW list, NEW i, NEW count, NEW n \in Nat
  PROVE  \E place : Descends(place, nodes0, list, i, count, n)
<1> DEFINE Bad == {m \in Nat : ~ \E place : Descends(place, nodes0, list, i, count, m)}
           first == [nodes |-> nodes0, at |-> 1, ok |-> WellFormed(list[i])]
<1>0. SUFFICES ASSUME Bad # {} PROVE FALSE
  OBVIOUS
<1>1. PICK m \in Bad : \A k \in Bad : m <= k
  <2>1. Bad \in SUBSET Nat
    OBVIOUS
  <2> HIDE DEF Bad
  <2> QED
    BY <1>0, <2>1, Least
<1>2. CASE m = 0
  <2>1. Descends([k \in 0 .. 0 |-> first], nodes0, list, i, count, 0)
    BY DEF Descends
  <2> QED
    BY <1>2, <2>1
<1>3. CASE m # 0
  <2>1. m - 1 \in Nat /\ m - 1 \notin Bad
    BY <1>1, <1>3
  <2>2. PICK at : Descends(at, nodes0, list, i, count, m - 1)
    BY <2>1
  <2> DEFINE b == [k \in 0 .. m |-> IF k = m THEN Descend(at[m - 1], list[i].path[m], count)
                                    ELSE at[k]]
  <2> HIDE DEF first
  <2>3. ASSUME NEW k \in 0 .. m
        PROVE  b[k] = IF k = 0 THEN first ELSE Descend(b[k - 1], list[i].path[k], count)
    <3>1. CASE k = m
      BY <3>1, <2>1
    <3>2. CASE k # m
      <4>1. k \in 0 .. m - 1 /\ (k # 0 => k - 1 \in 0 .. m - 1)
        BY <3>2
      <4>2. at[k] = IF k = 0 THEN first ELSE Descend(at[k - 1], list[i].path[k], count)
        BY <2>2, <4>1 DEF Descends, first
      <4>3. b[k] = at[k] /\ (k # 0 => b[k - 1] = at[k - 1])
        BY <3>2, <4>1
      <4> QED
        BY <4>2, <4>3
    <3> QED
      BY <3>1, <3>2
  <2>4. Descends(b, nodes0, list, i, count, m)
    <3> HIDE DEF Bad
    <3> QED
      BY <2>3 DEF Descends, first
  <2> QED
    BY <2>4
<1> QED
  BY <1>2, <1>3

\* What Bind() makes of the place the path ends at.
Bindable(end, i) ==
  LET leaf == end.nodes[end.at]
  IN  [ok |-> end.ok /\ leaf.binding = NONE /\ leaf.child = NONE,
       nodes |-> [end.nodes EXCEPT ![end.at].binding = i]]

\* Bind is the descent along the whole path, and what it leaves at its end.
LEMMA BindDescends ==
  ASSUME NEW nodes0, NEW list, NEW i, NEW count, Len(list[i].path) \in Nat
  PROVE  \E place :
            /\ Descends(place, nodes0, list, i, count, Len(list[i].path))
            /\ Bind(nodes0, list, i, count) = Bindable(place[Len(list[i].path)], i)
<1> DEFINE path == list[i].path
           Body(f) == [k \in 0 .. Len(path) |->
                         IF k = 0 THEN [nodes |-> nodes0, at |-> 1, ok |-> WellFormed(list[i])]
                         ELSE Descend(f[k - 1], path[k], count)]
           place == CHOOSE f : f = Body(f)
           end == place[Len(path)]
<1>1. Bind(nodes0, list, i, count) = Bindable(end, i)
  BY DEF Bind, Bindable
<1>2. PICK f : Descends(f, nodes0, list, i, count, Len(path))
  BY DescendsExist
<1>3. f = Body(f)
  BY <1>2 DEF Descends
<1>4. place = Body(place)
  BY <1>3
<1>5. Descends(place, nodes0, list, i, count, Len(path))
  BY <1>4 DEF Descends
<1> HIDE DEF place
<1> QED
  BY <1>1, <1>5

\* Every step of a descent is placed, or the list is not valid.
LEMMA DescendsPlaced ==
  ASSUME NEW list \in Seq(Operation), NEW i \in DOMAIN list, Bound(list[i]),
         NEW n, Tree(n, list, Before(list, i)),
         NEW place, Descends(place, n, list, i, NodeCount(list), Len(list[i].path)),
         NEW k \in 0 .. Len(list[i].path)
  PROVE  /\ place[k].ok => Placed(place[k], n, list, i, k)
         /\ ~place[k].ok => ~Valid(list)
<1> DEFINE Right(x) == /\ place[x].ok => Placed(place[x], n, list, i, x)
                       /\ ~place[x].ok => ~Valid(list)
           Bad == {x \in 0 .. Len(list[i].path) : ~Right(x)}
<1>a. Len(list[i].path) \in Nat /\ list[i].path \in Seq(Names)
      /\ DOMAIN list[i].path = 1 .. Len(list[i].path)
  BY OperationPath
<1>0. SUFFICES ASSUME Bad # {} PROVE FALSE
  OBVIOUS
<1>1. PICK m \in Bad : \A x \in Bad : m <= x
  <2>1. Bad \in SUBSET Nat
    BY <1>a
  <2> HIDE DEF Bad
  <2> QED
    BY <1>0, <2>1, Least
<1>2. m \in 0 .. Len(list[i].path) /\ ~Right(m)
  OBVIOUS
<1> HIDE DEF Bad
<1>3. CASE m = 0
  <2>1. place[0] = [nodes |-> n, at |-> 1, ok |-> WellFormed(list[i])]
    BY <1>a DEF Descends
  <2>2. CASE WellFormed(list[i])
    <3>1. WellFormed(list[i]) = TRUE
      BY <2>2 DEF WellFormed
    <3>2. place[0] = [nodes |-> n, at |-> 1, ok |-> TRUE]
      BY <2>1, <3>1
    <3>3. place[0].nodes = n /\ place[0].at = 1 /\ place[0].ok = TRUE
      BY <3>2
    <3>4. /\ Linked(n) /\ Bindings(n) = Before(list, i) /\ 1 \in DOMAIN n /\ n[1].path = <<>>
          /\ Len(n) \in Nat
      BY DEF Tree, Linked
    <3>5. Upto(list, i, 0) \subseteq Paths(n)
      <4>1. \A q \in Upto(list, i, 0) : q = <<>>
        BY DEF Upto
      <4> QED
        BY <3>4, <4>1 DEF Paths
    <3>6. Cardinality(OwnUpto(list, i, 0)) = 0
      BY OwnNext
    <3>7. Len(<<>>) = 0 /\ Leading(<<>>, list[i].path)
      BY <1>a DEF Leading
    <3>8. \A j \in Before(list, i) : ~(Len(list[j].path) < 0)
      <4> TAKE j \in Before(list, i)
      <4>1. j \in DOMAIN list
        BY DEF Before
      <4>2. Len(list[j].path) \in Nat
        BY <4>1, OperationPath
      <4> QED
        BY <4>2
    <3>9. Placed(place[0], n, list, i, 0)
      BY <2>2, <3>2, <3>3, <3>4, <3>5, <3>6, <3>7, <3>8 DEF Placed
    <3> QED
      BY <1>2, <1>3, <3>3, <3>9
  <2>3. CASE ~WellFormed(list[i])
    <3>1. ~place[0].ok /\ ~Valid(list)
      BY <2>1, <2>3 DEF Valid
    <3>2. place[0].ok = FALSE
      <4>1. WellFormed(list[i]) = FALSE
        BY <2>3 DEF WellFormed
      <4> QED
        BY <2>1, <4>1
    <3> QED
      BY <1>2, <1>3, <3>1, <3>2
  <2> QED
    BY <2>2, <2>3
<1>4. CASE m # 0
  <2>1. m \in DOMAIN list[i].path /\ m - 1 \in 0 .. Len(list[i].path) /\ ~(m <= m - 1)
    BY <1>a, <1>2, <1>4
  <2>2. Right(m - 1)
    BY <1>1, <2>1 DEF Bad
  <2>3. place[m] = Descend(place[m - 1], list[i].path[m], NodeCount(list))
    BY <1>2, <1>4 DEF Descends
  <2>4. CASE place[m - 1].ok
    <3>1. PICK before : before = place[m - 1] /\ Placed(before, n, list, i, m - 1)
      BY <2>2, <2>4
    <3>2. LET next == Descend(before, list[i].path[m], NodeCount(list))
          IN  /\ next.ok => Placed(next, n, list, i, m)
              /\ ~next.ok => ~Valid(list)
      BY <2>1, <3>1, DescendStep
    <3> QED
      BY <1>2, <2>3, <3>1, <3>2
  <2>5. CASE ~place[m - 1].ok
    <3>1. place[m] = [place[m - 1] EXCEPT !.ok = FALSE] /\ ~Valid(list)
      BY <2>2, <2>3, <2>5 DEF Descend
    <3>2. ~Right(m) /\ ~Valid(list) => place[m].ok
      OBVIOUS
    <3>3. ~place[m].ok
      <4>1. "ok" \in DOMAIN place[m - 1] => place[m].ok = FALSE
        BY <3>1
      <4> QED
        BY <3>1, <4>1
    <3> QED
      BY <1>2, <3>1, <3>2, <3>3
  <2> QED
    BY <2>4, <2>5
<1> QED
  BY <1>3, <1>4


\* A binding written to a node leaves the arena linked, and every other node as it was.
LEMMA BindingLinked ==
  ASSUME NEW m, Linked(m), NEW at \in DOMAIN m, NEW i \in Nat
  PROVE  LET w == [m EXCEPT ![at].binding = i]
         IN  /\ Linked(w) /\ Len(w) = Len(m) /\ DOMAIN w = DOMAIN m
             /\ \A c \in DOMAIN m : /\ w[c].path = m[c].path
                                    /\ w[c].binding = IF c = at THEN i ELSE m[c].binding
<1>0. PICK w : w = [m EXCEPT ![at].binding = i]
  OBVIOUS
<1>1. m \in Seq(Node) /\ DOMAIN m = 1 .. Len(m) /\ Len(m) \in Nat
  BY DEF Linked
<1>2. PICK node : node = [m[at] EXCEPT !.binding = i]
  OBVIOUS
<1>3. m[at] \in Node
  BY <1>1
<1>4. /\ node \in Node /\ node.path = m[at].path /\ node.name = m[at].name /\ node.binding = i
      /\ node.child = m[at].child /\ node.sibling = m[at].sibling
  BY <1>2, <1>3 DEF Node
<1>5. w = [m EXCEPT ![at] = node]
  BY <1>0, <1>2
<1>6. /\ w \in Seq(Node) /\ Len(w) = Len(m) /\ DOMAIN w = DOMAIN m
      /\ \A c \in DOMAIN m : w[c] = IF c = at THEN node ELSE m[c]
  BY <1>1, <1>4, <1>5, ExceptSeq
<1>7. \A c \in DOMAIN m : /\ w[c].path = m[c].path /\ w[c].name = m[c].name
                          /\ w[c].child = m[c].child /\ w[c].sibling = m[c].sibling
                          /\ w[c].binding = IF c = at THEN i ELSE m[c].binding
  BY <1>4, <1>6
<1>8. \A c, d \in DOMAIN m : IsChild(w, c, d) <=> IsChild(m, c, d)
  <2> TAKE c, d \in DOMAIN m
  <2>1. w[c].path = m[c].path /\ w[c].name = m[c].name /\ w[d].path = m[d].path
    BY <1>7
  <2> QED
    BY <1>6, <2>1 DEF IsChild
<1>9. ASSUME NEW d \in DOMAIN m, NEW c, NEW end \in 1 .. Len(m) + 1, Newest(m, d, c, end)
      PROVE  Newest(w, d, c, end)
  <2>1. \A x \in 2 .. end - 1 : x \in DOMAIN m
    BY <1>1
  <2>2. \A x \in c + 1 .. end - 1 : c \in 2 .. end - 1 => x \in 2 .. end - 1
    OBVIOUS
  <2> QED
    BY <1>8, <1>9, <2>1, <2>2 DEF Newest
<1>10. \A d \in DOMAIN w : Newest(w, d, w[d].child, Len(w) + 1)
  <2> TAKE d \in DOMAIN w
  <2>1. Newest(m, d, m[d].child, Len(m) + 1) /\ Len(m) + 1 \in 1 .. Len(m) + 1
    BY <1>1, <1>6 DEF Linked
  <2>2. Newest(w, d, m[d].child, Len(m) + 1)
    BY <1>6, <1>9, <2>1
  <2> QED
    BY <1>6, <1>7, <2>2
<1>11. \A d \in DOMAIN w : \A c \in 2 .. Len(w) :
          IsChild(w, c, d) => Newest(w, d, w[c].sibling, c)
  <2> SUFFICES ASSUME NEW d \in DOMAIN w, NEW c \in 2 .. Len(w), IsChild(w, c, d)
               PROVE  Newest(w, d, w[c].sibling, c)
    OBVIOUS
  <2>1. c \in DOMAIN m /\ c \in 1 .. Len(m) + 1 /\ d \in DOMAIN m /\ c \in 2 .. Len(m)
    BY <1>1, <1>6
  <2>2. Newest(m, d, m[c].sibling, c)
    BY <1>8, <2>1 DEF Linked
  <2>3. Newest(w, d, m[c].sibling, c)
    BY <1>9, <2>1, <2>2
  <2> QED
    BY <1>7, <2>1, <2>3
<1>12. \A c \in 2 .. Len(w) : \E p \in 1 .. c - 1 : IsChild(w, c, p)
  <2> TAKE c \in 2 .. Len(w)
  <2>1. c \in DOMAIN m /\ c \in 2 .. Len(m)
    BY <1>1, <1>6
  <2>2. PICK p \in 1 .. c - 1 : IsChild(m, c, p)
    BY <2>1 DEF Linked
  <2>3. p \in DOMAIN m
    BY <1>1, <2>1
  <2> QED
    BY <1>8, <2>1, <2>2, <2>3
<1>13. \A c, d \in DOMAIN w : w[c].path = w[d].path => c = d
  BY <1>6, <1>7 DEF Linked
<1>14. Len(w) >= 1 /\ w[1].path = <<>> /\ w[1].sibling = NONE
  BY <1>1, <1>6, <1>7 DEF Linked
<1>15. Linked(w)
  BY <1>6, <1>10, <1>11, <1>12, <1>13, <1>14 DEF Linked
<1> QED
  BY <1>0, <1>6, <1>7, <1>15

\* A node on whose way a longer path goes on has a child.
LEMMA Inner ==
  ASSUME NEW m, Linked(m), NEW at \in DOMAIN m, NEW q \in Seq(Names),
         Leading(m[at].path, q), Len(m[at].path) < Len(q),
         SubSeq(q, 1, Len(m[at].path) + 1) \in Paths(m)
  PROVE  m[at].child # NONE
<1>1. PICK p : p = m[at].path /\ p \in Seq(Names)
  <2>1. m[at] \in Node
    BY DEF Linked
  <2> QED
    BY <2>1 DEF Node
<1>2. PICK k : k = Len(p) + 1 /\ k \in 0 .. Len(q) /\ k \in 1 .. Len(q)
  BY <1>1
<1>3. PICK r : r = SubSeq(q, 1, k)
  OBVIOUS
<1>4. r \in Seq(Names) /\ Len(r) = k /\ Leading(r, q)
  BY <1>2, <1>3, CutLeading
<1>5. PICK name \in Names : name = q[k]
  <2>1. \A e \in DOMAIN q : q[e] \in Names
    OBVIOUS
  <2>2. q[k] \in Names
    BY <1>2, <2>1
  <2> QED
    BY <2>2
<1>6. r = Append(p, name)
  <2>1. PICK a : a = Append(p, name)
    OBVIOUS
  <2>2. a \in Seq(Names) /\ Len(a) = k
    BY <1>1, <1>2, <2>1, AppendProperties
  <2>3. Leading(p, q) /\ Len(p) + 1 <= Len(q) /\ q[Len(p) + 1] = name
    BY <1>1, <1>2, <1>5
  <2>4. Leading(Append(p, name), q)
    BY <1>1, <2>3, AppendLeading
  <2>5. Leading(a, q)
    BY <2>1, <2>4
  <2>6. r = a
    BY <1>4, <2>2, <2>5, LeadingSame
  <2> QED
    BY <2>1, <2>6
<1>7. PICK c \in DOMAIN m : m[c].path = Append(m[at].path, name)
  BY <1>1, <1>2, <1>3, <1>6 DEF Paths
<1>8. IsChild(m, c, at)
  BY <1>7, OneParent
<1>9. c \in 2 .. Len(m) + 1 - 1 /\ Len(m) \in Nat
  BY <1>8 DEF IsChild, Linked
<1>10. Newest(m, at, m[at].child, Len(m) + 1)
  BY DEF Linked
<1> QED
  BY <1>8, <1>9, <1>10 DEF Newest, NONE

\* Binding the next operation keeps the arena the tree of the operations bound, or the list is not valid.
LEMMA BindStep ==
  ASSUME NEW list \in Seq(Operation), NEW i \in DOMAIN list, Bound(list[i]),
         NEW n, Tree(n, list, Before(list, i)), Apart(list, Before(list, i))
  PROVE  LET bound == Bind(n, list, i, NodeCount(list))
         IN  /\ bound.ok => /\ Tree(bound.nodes, list, Before(list, i) \cup {i})
                            /\ Apart(list, Before(list, i) \cup {i})
             /\ ~bound.ok => ~Valid(list)
<1>0. PICK p, D : p = list[i].path /\ D = Before(list, i)
  OBVIOUS
<1>1. p \in Seq(Names) /\ Len(p) \in Nat /\ Len(p) \in 0 .. Len(p) /\ p # <<>>
      /\ i \in Nat /\ i # NONE
  BY <1>0, OperationPath DEF Bound, NONE
<1>2. /\ D \in SUBSET DOMAIN list /\ i \notin D /\ \A j \in D : j < i
      /\ \A j \in D : list[j].path \in Seq(Names) /\ Len(list[j].path) \in Nat
  <2>1. D \in SUBSET DOMAIN list /\ i \notin D /\ \A j \in D : j < i
    BY <1>0 DEF Before
  <2> QED
    BY <2>1, OperationPath
<1>3. PICK place : /\ Descends(place, n, list, i, NodeCount(list), Len(list[i].path))
                   /\ Bind(n, list, i, NodeCount(list)) = Bindable(place[Len(list[i].path)], i)
  <2>1. Len(list[i].path) \in Nat
    BY <1>0, <1>1
  <2> QED
    BY <2>1, BindDescends
<1>4. PICK end, m, at, bound : /\ end = place[Len(p)] /\ m = end.nodes /\ at = end.at
                               /\ bound = Bind(n, list, i, NodeCount(list))
  BY Zenon
<1>5. bound = [ok |-> end.ok /\ m[at].binding = NONE /\ m[at].child = NONE,
               nodes |-> [m EXCEPT ![at].binding = i]]
  BY <1>0, <1>3, <1>4, Zenon DEF Bindable
<1>6. (end.ok => Placed(end, n, list, i, Len(p))) /\ (~end.ok => ~Valid(list))
  BY <1>0, <1>1, <1>3, <1>4, DescendsPlaced
<1>7. /\ bound.ok <=> end.ok /\ m[at].binding = NONE /\ m[at].child = NONE
      /\ bound.nodes = [m EXCEPT ![at].binding = i]
  BY <1>5
<1>8. CASE ~end.ok
  BY <1>4, <1>6, <1>7, <1>8
<1>9. CASE end.ok
  <2>1. /\ Linked(m) /\ DOMAIN n \subseteq DOMAIN m /\ at \in DOMAIN m
        /\ \A c \in DOMAIN m : m[c].binding = IF c \in DOMAIN n THEN n[c].binding ELSE NONE
        /\ \A c \in DOMAIN n : m[c].path = n[c].path
        /\ Paths(m) = Paths(n) \cup Upto(list, i, Len(p))
        /\ Len(m) = Len(n) + Cardinality(OwnUpto(list, i, Len(p)))
        /\ Len(m[at].path) = Len(p) /\ Leading(m[at].path, p)
        /\ WellFormed(list[i])
        /\ \A j \in D : Len(list[j].path) < Len(p) => ~Leading(list[j].path, p)
    BY <1>0, <1>4, <1>6, <1>9, Zenon DEF Placed
  <2>2. /\ Bindings(n) = D /\ Paths(n) = PrefixesOf(list, D)
        /\ \A c \in DOMAIN n : n[c].binding # NONE => n[c].path = list[n[c].binding].path
        /\ Len(n) = 1 + Cardinality(Own(list, D))
    BY <1>0 DEF Tree
  <2>3. m[at].path = p
    <3>1. PICK q : q = m[at].path /\ q \in Seq(Names)
      <4>1. m[at] \in Node
        BY <2>1 DEF Linked
      <4> QED
        BY <4>1 DEF Node
    <3>2. \A k \in 1 .. Len(q) : q[k] = p[k]
      BY <2>1, <3>1 DEF Leading
    <3>3. Len(q) = Len(p)
      BY <2>1, <3>1
    <3> QED
      BY <1>1, <3>1, <3>2, <3>3, SeqEqual
  <2>4. Leading(p, p)
    BY <1>1 DEF Leading
  <2>5. CASE m[at].binding # NONE
    <3>1. n[at].binding \in D /\ list[n[at].binding].path = p
      BY <2>1, <2>2, <2>3, <2>5 DEF Bindings
    <3>2. ~Valid(list)
      <4>1. Leading(list[i].path, list[n[at].binding].path)
        BY <1>0, <2>4, <3>1
      <4> QED
        BY <1>0, <3>1, <4>1, Overlap
    <3> QED
      BY <1>4, <1>7, <2>5, <3>2
  <2>6. CASE m[at].child # NONE
    <3>1. PICK c : c = m[at].child
      OBVIOUS
    <3>2. IsChild(m, c, at) /\ c \in DOMAIN m
      <4>1. Newest(m, at, c, Len(m) + 1) /\ Len(m) \in Nat /\ DOMAIN m = 1 .. Len(m)
        BY <2>1, <3>1 DEF Linked
      <4> QED
        BY <2>6, <3>1, <4>1 DEF Newest
    <3>3. PICK name \in Names, q \in Seq(Names) :
             q = m[c].path /\ q = Append(p, name) /\ q \in Paths(m)
      <4>1. m[c].path = Append(p, m[c].name) /\ m[c].path \in Paths(m)
        BY <2>3, <3>2 DEF IsChild, Paths
      <4>2. m[c] \in Node
        BY <2>1, <3>2 DEF Linked
      <4> QED
        BY <4>1, <4>2 DEF Node
    <3>4. Len(q) = Len(p) + 1 /\ q # <<>>
      <4>1. Len(Append(p, name)) = Len(p) + 1 /\ Append(p, name) # <<>>
        BY <1>1, <3>3, AppendProperties
      <4> QED
        BY <3>3, <4>1
    <3>5. q \in PrefixesOf(list, D)
      BY <1>1, <2>1, <2>2, <3>3, <3>4 DEF Upto
    <3>6. PICK j \in D : Leading(q, list[j].path)
      BY <3>4, <3>5 DEF PrefixesOf
    <3>7. Leading(p, list[j].path)
      <4>1. PICK r : r = list[j].path /\ r \in Seq(Names) /\ Leading(Append(p, name), r)
        BY <1>2, <3>3, <3>6
      <4>2. Leading(p, r)
        BY <1>1, <4>1, AppendLeading
      <4> QED
        BY <4>1, <4>2
    <3>8. ~Valid(list)
      BY <1>0, <3>6, <3>7, Overlap, ZenonT(60)
    <3> QED
      BY <1>4, <1>7, <2>6, <3>8
  <2>7. CASE m[at].binding = NONE /\ m[at].child = NONE
    <3>1. PICK w : w = [m EXCEPT ![at].binding = i]
      OBVIOUS
    <3>2. /\ Linked(w) /\ Len(w) = Len(m) /\ DOMAIN w = DOMAIN m
          /\ \A c \in DOMAIN m : /\ w[c].path = m[c].path
                                 /\ w[c].binding = IF c = at THEN i ELSE m[c].binding
      <4>1. LET v == [m EXCEPT ![at].binding = i]
            IN  /\ Linked(v) /\ Len(v) = Len(m) /\ DOMAIN v = DOMAIN m
                /\ \A c \in DOMAIN m : /\ v[c].path = m[c].path
                                       /\ v[c].binding = IF c = at THEN i ELSE m[c].binding
        <5>1. Linked(m) /\ at \in DOMAIN m /\ i \in Nat
          BY <1>1, <2>1
        <5> QED
          BY <5>1, BindingLinked
      <4> QED
        BY <3>1, <4>1
    <3>3. Bindings(w) = D \cup {i}
      <4>1. \A b : b \in Bindings(w) => b \in D \cup {i}
        BY <2>1, <2>2, <3>2 DEF Bindings
      <4>2. i \in Bindings(w)
        BY <1>1, <2>1, <3>2 DEF Bindings
      <4>3. ASSUME NEW b \in D PROVE b \in Bindings(w)
        <5>1. PICK c \in DOMAIN n : n[c].binding = b /\ b # NONE
          BY <2>2 DEF Bindings
        <5>2. c \in DOMAIN m /\ m[c].binding = b /\ c # at
          BY <2>1, <2>7, <5>1
        <5> QED
          BY <3>2, <5>1, <5>2 DEF Bindings
      <4> QED
        BY <4>1, <4>2, <4>3
    <3>4. \A c \in DOMAIN w : w[c].binding # NONE => w[c].path = list[w[c].binding].path
      BY <1>0, <2>1, <2>2, <2>3, <3>2
    <3>5. Paths(w) = PrefixesOf(list, D \cup {i})
      <4>1. Paths(w) = Paths(m)
        BY <3>2 DEF Paths
      <4>2. \A q \in Seq(Names) : Leading(q, p) => Len(q) <= Len(p)
        BY DEF Leading
      <4> QED
        BY <1>0, <2>1, <2>2, <4>1, <4>2 DEF PrefixesOf, Upto
    <3>6. Len(w) = 1 + Cardinality(Own(list, D \cup {i}))
      <4>1. OwnUpto(list, i, Len(p)) = OwnPrefixes(list, i)
        BY <1>0, <1>1, OwnNext
      <4>2. Cardinality(Own(list, D)) \in Nat /\ Cardinality(OwnPrefixes(list, i)) \in Nat
        BY <1>2, OwnFinite, OwnSome
      <4>3. Cardinality(Own(list, D \cup {i}))
              = Cardinality(Own(list, D)) + Cardinality(OwnPrefixes(list, i))
        BY <1>2, OwnGrows
      <4> QED
        BY <2>1, <2>2, <3>2, <4>1, <4>2, <4>3
    <3>7. Tree(w, list, D \cup {i})
      BY <3>2, <3>3, <3>4, <3>5, <3>6 DEF Tree
    <3>8. ASSUME NEW j \in D PROVE list[j].path # p
      <4> SUFFICES ASSUME list[j].path = p PROVE FALSE
        OBVIOUS
      <4>1. PICK c \in DOMAIN n : n[c].binding = j /\ j # NONE
        BY <2>2 DEF Bindings
      <4>2. m[c].path = m[at].path /\ c \in DOMAIN m /\ m[c].binding = j
        BY <2>1, <2>2, <2>3, <4>1
      <4>3. c = at
        BY <2>1, <4>2 DEF Linked
      <4> QED
        BY <2>7, <4>1, <4>2, <4>3
    <3>9. ASSUME NEW j \in D PROVE ~Leading(list[j].path, p) /\ ~Leading(p, list[j].path)
      <4>0. PICK r : r = list[j].path /\ r \in Seq(Names) /\ Len(r) \in Nat
        BY <1>2
      <4>1. Len(r) # Len(p) \/ ~(\A k \in 1 .. Len(r) : r[k] = p[k])
        <5> SUFFICES ASSUME Len(r) = Len(p), \A k \in 1 .. Len(r) : r[k] = p[k] PROVE FALSE
          OBVIOUS
        <5>1. r = p
          BY <1>1, <4>0, SeqEqual
        <5> QED
          BY <3>8, <4>0, <5>1
      <4>2. ~Leading(r, p)
        <5> SUFFICES ASSUME Leading(r, p) PROVE FALSE
          OBVIOUS
        <5>1. Len(r) <= Len(p) /\ \A k \in 1 .. Len(r) : r[k] = p[k]
          BY DEF Leading
        <5>2. Len(r) < Len(p)
          BY <1>1, <4>0, <4>1, <5>1
        <5> QED
          BY <2>1, <4>0, <5>2
      <4>3. ~Leading(p, r)
        <5> SUFFICES ASSUME Leading(p, r) PROVE FALSE
          OBVIOUS
        <5>1. Len(p) <= Len(r) /\ \A k \in 1 .. Len(p) : p[k] = r[k]
          BY DEF Leading
        <5>2. Len(p) < Len(r)
          BY <1>1, <4>0, <4>1, <5>1
        <5>3. PICK k : k = Len(p) + 1 /\ k \in 0 .. Len(r)
          BY <1>1, <4>0, <5>2
        <5>4. PICK q : q = SubSeq(r, 1, k)
          OBVIOUS
        <5>5. q \in Seq(Names) /\ Leading(q, r)
          BY <4>0, <5>3, <5>4, CutLeading
        <5>6. q \in Paths(m)
          BY <2>1, <2>2, <4>0, <5>5 DEF PrefixesOf
        <5>7. m[at].child # NONE
          <6>1. /\ Leading(m[at].path, r) /\ Len(m[at].path) < Len(r)
                /\ SubSeq(r, 1, Len(m[at].path) + 1) \in Paths(m)
            BY <2>3, <5>2, <5>3, <5>4, <5>6
          <6> QED
            BY <2>1, <4>0, <6>1, Inner
        <5> QED
          BY <2>7, <5>7
      <4> QED
        BY <4>0, <4>2, <4>3
    <3>10. Apart(list, D \cup {i})
      <4> SUFFICES ASSUME NEW a \in D \cup {i}
                   PROVE  /\ WellFormed(list[a])
                          /\ \A j \in D \cup {i} : j < a => /\ ~Leading(list[a].path, list[j].path)
                                                            /\ ~Leading(list[j].path, list[a].path)
        BY DEF Apart
      <4>1. CASE a = i
        BY <1>0, <1>1, <2>1, <3>9, <4>1
      <4>2. CASE a \in D
        <5>1. ~(i < a)
          <6>1. a < i /\ a \in Nat
            BY <1>2, <4>2
          <6> QED
            BY <1>1, <6>1
        <5>2. WellFormed(list[a]) /\ \A j \in D : j < a => /\ ~Leading(list[a].path, list[j].path)
                                                           /\ ~Leading(list[j].path, list[a].path)
          BY <1>0, <4>2 DEF Apart
        <5> QED
          BY <5>1, <5>2
      <4> QED
        BY <4>1, <4>2
    <3> QED
      BY <1>0, <1>4, <1>7, <1>9, <2>7, <3>1, <3>7, <3>10, Zenon
  <2> QED
    BY <2>5, <2>6, <2>7, ZenonT(60)
<1> QED
  BY <1>8, <1>9


AllBound(list) == {j \in DOMAIN list : Bound(list[j])}

\* At compile time the tree is that of the operations up to some point; what is
\* rejected is no valid list, and what is built is the tree of them all.
TreeInv ==
  /\ ops \in Lists
  /\ phase = "build" => \E i \in 1 .. Len(ops) + 1 : /\ Tree(nodes, ops, Before(ops, i))
                                                     /\ Apart(ops, Before(ops, i))
  /\ phase = "rejected" => ~Valid(ops)
  /\ phase \notin {"build", "rejected"} => Valid(ops) /\ Tree(nodes, ops, AllBound(ops))

\* The root alone is the tree of no operation.
LEMMA RootTree ==
  ASSUME NEW list \in Seq(Operation)
  PROVE  Tree(<<EmptyNode>>, list, {})
<1>0. PICK n : n = <<EmptyNode>>
  OBVIOUS
<1>1. EmptyNode \in Node /\ EmptyNode.path = <<>> /\ EmptyNode.binding = NONE
      /\ EmptyNode.child = NONE /\ EmptyNode.sibling = NONE
  <2>1. <<>> \in Seq(Names)
    BY EmptySeq
  <2>2. PICK r : r = <<>> /\ r \in Seq(Names)
    BY <2>1
  <2>3. EmptyNode = [name |-> "", path |-> r, binding |-> 0, child |-> 0, sibling |-> 0]
    BY <2>2 DEF EmptyNode, NONE
  <2>4. EmptyNode.path = r /\ EmptyNode.binding = 0 /\ EmptyNode.child = 0 /\ EmptyNode.sibling = 0
    BY <2>3
  <2>5. EmptyNode \in Node
    BY <2>2, <2>3 DEF Node, Names
  <2> QED
    BY <2>2, <2>4, <2>5 DEF NONE
<1>2. n \in Seq(Node) /\ Len(n) = 1 /\ DOMAIN n = 1 .. 1 /\ n[1] = EmptyNode
  BY <1>0, <1>1
<1>3. DOMAIN n = {1} /\ \A c \in 2 .. Len(n) : FALSE
  BY <1>2
<1>4. \A d \in DOMAIN n : Newest(n, d, n[d].child, Len(n) + 1)
  BY <1>1, <1>2, <1>3 DEF Newest, IsChild
<1>5. Linked(n)
  BY <1>1, <1>2, <1>3, <1>4 DEF Linked
<1>6. Bindings(n) = {}
  BY <1>1, <1>2, <1>3 DEF Bindings
<1>7. Paths(n) = {<<>>}
  BY <1>1, <1>2, <1>3 DEF Paths
<1>8. PrefixesOf(list, {}) = {<<>>}
  BY EmptySeq DEF PrefixesOf
<1>9. Cardinality(Own(list, {})) = 0
  BY FS_EmptySet DEF Own
<1>10. \A c \in DOMAIN n : n[c].binding = NONE
  BY <1>1, <1>2, <1>3
<1>11. Len(n) = 1 + Cardinality(Own(list, {}))
  BY <1>2, <1>9
<1>12. Tree(n, list, {})
  BY <1>5, <1>6, <1>7, <1>8, <1>10, <1>11 DEF Tree
<1> QED
  BY <1>0, <1>12

\* node_count() counts what the whole tree has.
LEMMA AllCounted ==
  ASSUME NEW list \in Seq(Operation)
  PROVE  NodeCount(list) = 1 + Cardinality(Own(list, AllBound(list)))
<1>1. \A j \in DOMAIN list : ~Bound(list[j]) => OwnPrefixes(list, j) = {}
  BY DEF Bound, OwnPrefixes
<1>2. Own(list, AllBound(list)) = UNION {{j} \X OwnPrefixes(list, j) : j \in DOMAIN list}
  BY <1>1 DEF Own, AllBound
<1> QED
  BY <1>2 DEF NodeCount

LEMMA TreeInit == Init => TreeInv
<1> SUFFICES ASSUME Init PROVE TreeInv
  OBVIOUS
<1>1. ops \in Lists /\ ops \in Seq(Operation) /\ phase = "build" /\ nodes = <<EmptyNode>>
  BY ListsAssumption DEF Init
<1>2. Before(ops, 1) = {} /\ 1 \in 1 .. Len(ops) + 1
  BY <1>1 DEF Before
<1>3. Tree(nodes, ops, Before(ops, 1)) /\ Apart(ops, Before(ops, 1))
  BY <1>1, <1>2, RootTree DEF Apart
<1> QED
  BY <1>1, <1>2, <1>3 DEF TreeInv

\* While there are operations left, the next is the first of those not in the tree.
LEMMA NextBefore ==
  ASSUME NEW i \in 1 .. Len(ops) + 1, ops \in Seq(Operation), Bindings(nodes) = Before(ops, i)
  PROVE  /\ NextOp = {} => Before(ops, i) = AllBound(ops)
         /\ \A k \in NextOp : (\A j \in NextOp : k <= j) => Before(ops, k) = Before(ops, i)
<1>1. DOMAIN ops = 1 .. Len(ops) /\ Len(ops) \in Nat
  OBVIOUS
<1>2. \A j \in DOMAIN ops : Bound(ops[j]) => j \in Before(ops, i) \/ j \in NextOp
  BY <1>1 DEF NextOp, Before
<1>3. Before(ops, i) \subseteq AllBound(ops)
  BY <1>1 DEF Before, AllBound
<1>4. ASSUME NEW k \in NextOp, \A j \in NextOp : k <= j PROVE Before(ops, k) = Before(ops, i)
  <2>1. k \in DOMAIN ops /\ \A j \in Before(ops, i) : j < k
    BY DEF NextOp
  <2>2. \A j \in Before(ops, i) : j \in Before(ops, k)
    BY <1>1, <2>1 DEF Before
  <2>3. ASSUME NEW j \in Before(ops, k) PROVE j \in Before(ops, i)
    <3>1. j \in DOMAIN ops /\ Bound(ops[j]) /\ ~(k <= j)
      BY <1>1, <2>1 DEF Before
    <3> QED
      BY <1>2, <1>4, <3>1
  <2> QED
    BY <2>2, <2>3
<1> QED
  BY <1>2, <1>3, <1>4 DEF AllBound

LEMMA BindOpTree == TreeInv /\ BindOp => TreeInv'
<1> SUFFICES ASSUME TreeInv, BindOp PROVE TreeInv'
  OBVIOUS
<1>1. ops \in Lists /\ ops \in Seq(Operation) /\ phase = "build" /\ NextOp # {} /\ ops' = ops
  BY ListsAssumption DEF TreeInv, BindOp
<1>2. PICK i \in 1 .. Len(ops) + 1 : Tree(nodes, ops, Before(ops, i)) /\ Apart(ops, Before(ops, i))
  BY <1>1 DEF TreeInv
<1>3. PICK k : k = CHOOSE x \in NextOp : \A j \in NextOp : x <= j
  OBVIOUS
<1>4. k \in NextOp /\ \A j \in NextOp : k <= j
  <2>1. NextOp \in SUBSET Nat
    BY <1>1 DEF NextOp
  <2>2. PICK m \in NextOp : \A j \in NextOp : m <= j
    BY <1>1, <2>1, Least
  <2> QED
    BY <1>3, <2>2
<1>5. k \in DOMAIN ops /\ Bound(ops[k])
  BY <1>4 DEF NextOp
<1>6. Before(ops, k) = Before(ops, i)
  BY <1>1, <1>2, <1>4, NextBefore DEF Tree
<1>7. PICK bound : bound = Bind(nodes, ops, k, NodeCount(ops))
  OBVIOUS
<1>8. /\ bound.ok => nodes' = bound.nodes /\ phase' = phase
      /\ ~bound.ok => phase' = "rejected"
  BY <1>3, <1>7 DEF BindOp
<1>9. /\ bound.ok => /\ Tree(bound.nodes, ops, Before(ops, k) \cup {k})
                     /\ Apart(ops, Before(ops, k) \cup {k})
      /\ ~bound.ok => ~Valid(ops)
  <2>1. /\ ops \in Seq(Operation) /\ k \in DOMAIN ops /\ Bound(ops[k])
        /\ Tree(nodes, ops, Before(ops, k)) /\ Apart(ops, Before(ops, k))
    BY <1>1, <1>2, <1>5, <1>6
  <2> QED
    BY <1>7, <2>1, BindStep
<1>10. CASE bound.ok
  <2>1. Before(ops, k) \cup {k} = Before(ops, k + 1) /\ k + 1 \in 1 .. Len(ops) + 1
    <3>1. k \in 1 .. Len(ops) /\ Len(ops) \in Nat
      BY <1>1, <1>5
    <3>2. 1 .. k + 1 - 1 = (1 .. k - 1) \cup {k}
      BY <3>1
    <3> QED
      BY <1>5, <3>1, <3>2 DEF Before
  <2>2. Tree(nodes', ops, Before(ops, k + 1)) /\ Apart(ops, Before(ops, k + 1))
    BY <1>8, <1>9, <1>10, <2>1
  <2>3. phase' = "build"
    BY <1>1, <1>8, <1>10
  <2> QED
    BY <1>1, <2>1, <2>2, <2>3 DEF TreeInv
<1>11. CASE ~bound.ok
  BY <1>1, <1>8, <1>9, <1>11 DEF TreeInv
<1> QED
  BY <1>10, <1>11

LEMMA BuiltTree == TreeInv /\ Built => TreeInv'
<1> SUFFICES ASSUME TreeInv, Built PROVE TreeInv'
  OBVIOUS
<1>1. /\ ops \in Lists /\ ops \in Seq(Operation) /\ phase = "build" /\ NextOp = {}
      /\ ops' = ops /\ nodes' = nodes
      /\ phase' = IF Len(nodes) = NodeCount(ops) THEN "built" ELSE "rejected"
  BY ListsAssumption DEF TreeInv, Built
<1>2. PICK i \in 1 .. Len(ops) + 1 : Tree(nodes, ops, Before(ops, i)) /\ Apart(ops, Before(ops, i))
  BY <1>1 DEF TreeInv
<1>3. Before(ops, i) = AllBound(ops)
  BY <1>1, <1>2, NextBefore DEF Tree
<1>4. Len(nodes) = NodeCount(ops)
  BY <1>1, <1>2, <1>3, AllCounted DEF Tree
<1>5. Valid(ops)
  BY <1>1, <1>2, <1>3, ValidApart DEF AllBound
<1>6. phase' = "built"
  BY <1>1, <1>4
<1> QED
  BY <1>1, <1>2, <1>3, <1>5, <1>6 DEF TreeInv

\* Every step of the machine keeps the invariant of the tree.
LEMMA TreeNext == TreeInv /\ [Next]_vars => TreeInv'
<1> SUFFICES ASSUME TreeInv, [Next]_vars PROVE TreeInv'
  OBVIOUS
<1>1. CASE BindOp
  BY <1>1, BindOpTree
<1>2. CASE Built
  BY <1>2, BuiltTree
<1>3. CASE ops' = ops /\ nodes' = nodes /\ phase \notin {"build", "rejected"}
           /\ phase' \notin {"build", "rejected"}
  BY <1>3 DEF TreeInv
<1>4. CASE UNCHANGED vars
  BY <1>4 DEF TreeInv, vars
<1> QED
  BY <1>1, <1>2, <1>3, <1>4 DEF Next, Launch, LoadFile, LoadFails, Return, Loaded, Parse, IntoConfig
-----------------------------------------------------------------------------
(* Reading a document along the tree.                                      *)

\* The tree of a whole list whose bindings are apart.
Whole(n, list) ==
  list \in Seq(Operation) /\ Tree(n, list, AllBound(list)) /\ Apart(list, AllBound(list))

LEMMA SeqGrows ==
  ASSUME NEW S, NEW T, S \subseteq T, NEW p \in Seq(S)
  PROVE  p \in Seq(T)
<1>1. p = [k \in 1 .. Len(p) |-> p[k]] /\ Len(p) \in Nat
  OBVIOUS
<1>2. \A k \in 1 .. Len(p) : p[k] \in S
  OBVIOUS
<1>3. p \in [1 .. Len(p) -> T]
  BY <1>1, <1>2
<1> QED
  BY <1>1, <1>3, SeqDef

LEMMA NodeTyped ==
  ASSUME NEW n, Linked(n)
  PROVE  /\ DOMAIN n = 1 .. Len(n) /\ Len(n) \in Nat /\ 1 \in DOMAIN n
         /\ \A c \in DOMAIN n : /\ n[c].path \in Seq(Names) /\ n[c].name \in Names
                                /\ Len(n[c].path) \in Nat
<1>1. n \in Seq(Node) /\ Len(n) >= 1
  BY DEF Linked
<1>2. DOMAIN n = 1 .. Len(n) /\ Len(n) \in Nat /\ \A c \in DOMAIN n : n[c] \in Node
  BY <1>1
<1>3. ASSUME NEW c \in DOMAIN n
      PROVE  n[c].path \in Seq(Names) /\ n[c].name \in Names /\ Len(n[c].path) \in Nat
  <2>1. n[c] \in Node
    BY <1>2
  <2>2. PICK p : p = n[c].path /\ p \in Seq(Names)
    BY <2>1 DEF Node
  <2>3. Len(p) \in Nat
    BY <2>2
  <2> QED
    BY <2>1, <2>2, <2>3 DEF Node
<1> QED
  BY <1>1, <1>2, <1>3

\* No bound path leads another's: two operations on one way are one.
LEMMA ApartOnce ==
  ASSUME NEW list \in Seq(Operation), Apart(list, AllBound(list)),
         NEW i \in AllBound(list), NEW j \in AllBound(list), Leading(list[i].path, list[j].path)
  PROVE  i = j
<1>1. i \in Nat /\ j \in Nat
  BY DEF AllBound
<1>2. ~(i < j) /\ ~(j < i)
  BY DEF Apart
<1> QED
  BY <1>1, <1>2

\* Of the nodes on the way to a binding, the last has it and no other has any.
LEMMA WayBound ==
  ASSUME NEW n, NEW list, Whole(n, list), NEW c \in DOMAIN n, NEW j \in AllBound(list),
         Leading(n[c].path, list[j].path)
  PROVE  /\ n[c].binding # NONE => Len(n[c].path) = Len(list[j].path)
         /\ Len(n[c].path) = Len(list[j].path) => n[c].binding = j /\ n[c].path = list[j].path
         /\ j # NONE
<1>1. /\ list \in Seq(Operation) /\ Linked(n) /\ Bindings(n) = AllBound(list)
      /\ \A d \in DOMAIN n : n[d].binding # NONE => n[d].path = list[n[d].binding].path
      /\ Apart(list, AllBound(list))
  BY DEF Whole, Tree
<1>2. j \in DOMAIN list /\ j # NONE
  BY <1>1 DEF AllBound, NONE
<1>3. PICK p, q : p = n[c].path /\ q = list[j].path
  OBVIOUS
<1>4. p \in Seq(Names) /\ q \in Seq(Names) /\ Leading(p, q)
  BY <1>1, <1>2, <1>3, NodeTyped, OperationPath
<1>5. ASSUME n[c].binding # NONE PROVE Len(p) = Len(q)
  <2>1. n[c].binding \in AllBound(list) /\ Leading(list[n[c].binding].path, list[j].path)
    BY <1>1, <1>3, <1>4, <1>5 DEF Bindings
  <2>2. n[c].binding = j
    BY <1>1, <2>1, ApartOnce
  <2> QED
    BY <1>1, <1>3, <1>5, <2>2
<1>6. ASSUME Len(p) = Len(q) PROVE n[c].binding = j /\ p = q
  <2>1. p = q
    <3>1. \A k \in 1 .. Len(p) : p[k] = q[k]
      BY <1>4 DEF Leading
    <3> QED
      BY <1>4, <1>6, <3>1, SeqEqual
  <2>2. PICK d \in DOMAIN n : n[d].binding = j
    BY <1>1 DEF Bindings
  <2>3. n[d].path = n[c].path
    BY <1>1, <1>2, <1>3, <2>1, <2>2
  <2>4. d = c
    BY <1>1, <2>3 DEF Linked
  <2> QED
    BY <2>1, <2>2, <2>4
<1> QED
  BY <1>2, <1>3, <1>5, <1>6

\* collect() comes to a node from its parent, which has no binding.
LEMMA FromParent ==
  ASSUME NEW n, NEW list, Whole(n, list), NEW c \in 2 .. Len(n)
  PROVE  \E p \in 1 .. c - 1 :
            /\ IsChild(n, c, p)
            /\ {q \in 1 .. c - 1 : /\ n[q].binding = NONE
                                   /\ ChildNamed(n, q, n[c].name) = c} = {p}
<1>1. /\ list \in Seq(Operation) /\ Linked(n) /\ Paths(n) = PrefixesOf(list, AllBound(list))
  BY DEF Whole, Tree
<1>2. DOMAIN n = 1 .. Len(n) /\ Len(n) \in Nat /\ c \in DOMAIN n
  BY <1>1, NodeTyped
<1>3. PICK p \in 1 .. c - 1 : IsChild(n, c, p)
  BY <1>1 DEF Linked
<1>4. p \in DOMAIN n /\ n[c].path = Append(n[p].path, n[c].name)
  BY <1>2, <1>3 DEF IsChild
<1>5. PICK a, name, b : a = n[p].path /\ name = n[c].name /\ b = n[c].path
  OBVIOUS
<1>6. a \in Seq(Names) /\ name \in Names /\ b \in Seq(Names) /\ b = Append(a, name)
  BY <1>1, <1>2, <1>4, <1>5, NodeTyped
<1>7. b # <<>> /\ b \in Paths(n)
  <2>1. Append(a, name) # <<>>
    BY <1>6, AppendProperties
  <2> QED
    BY <1>2, <1>5, <1>6, <2>1 DEF Paths
<1>8. PICK j \in AllBound(list) : Leading(b, list[j].path)
  BY <1>1, <1>7 DEF PrefixesOf
<1>9. n[p].binding = NONE
  <2>1. PICK q : q = list[j].path /\ q \in Seq(Names)
    BY <1>1, OperationPath DEF AllBound
  <2>2. Leading(Append(a, name), q)
    BY <1>6, <1>8, <2>1
  <2>3. Leading(a, q) /\ Len(a) + 1 <= Len(q)
    BY <1>6, <2>1, <2>2, AppendLeading
  <2>4. Len(a) # Len(q)
    BY <1>6, <2>1, <2>3
  <2> QED
    BY <1>4, <1>5, <2>1, <2>3, <2>4, WayBound
<1>10. ChildNamed(n, p, name) = c
  <2>1. \/ \A d \in DOMAIN n : ~(IsChild(n, d, p) /\ n[d].name = name)
        \/ /\ ChildNamed(n, p, name) \in 2 .. Len(n)
           /\ IsChild(n, ChildNamed(n, p, name), p)
           /\ n[ChildNamed(n, p, name)].name = name
    BY <1>1, <1>4, ChildFound
  <2>2. PICK d : d = ChildNamed(n, p, name)
    OBVIOUS
  <2>3. d \in 2 .. Len(n) /\ IsChild(n, d, p) /\ n[d].name = name
    BY <1>2, <1>3, <1>5, <2>1, <2>2
  <2>4. d \in DOMAIN n /\ n[d].path = n[c].path
    BY <1>2, <1>4, <1>5, <2>3 DEF IsChild
  <2>5. d = c
    BY <1>1, <1>2, <2>4 DEF Linked
  <2> QED
    BY <2>2, <2>5
<1>11. ASSUME NEW q \in 1 .. c - 1, ChildNamed(n, q, name) = c PROVE q = p
  <2>1. q \in DOMAIN n
    BY <1>2
  <2>2. IsChild(n, c, q)
    <3>1. \/ ChildNamed(n, q, name) = NONE
          \/ IsChild(n, ChildNamed(n, q, name), q)
      BY <1>1, <2>1, ChildFound
    <3>2. c # NONE
      BY <1>2 DEF NONE
    <3> QED
      BY <1>11, <3>1, <3>2
  <2>3. PICK r : r = n[q].path /\ r \in Seq(Names)
    BY <1>1, <2>1, NodeTyped
  <2>4. Append(r, name) = Append(a, name)
    BY <1>5, <1>6, <2>2, <2>3 DEF IsChild
  <2>5. r = a
    BY <1>6, <2>3, <2>4, AppendOnce
  <2> QED
    BY <1>1, <1>4, <1>5, <2>1, <2>3, <2>5 DEF Linked
<1> QED
  BY <1>3, <1>5, <1>9, <1>10, <1>11

\* What Reached() is the fixed point of.
ReachStep(at, n, v, i) ==
  IF i = 1 THEN <<v>>
  ELSE LET from == {p \in 1 .. i - 1 : /\ n[p].binding = NONE
                                       /\ ChildNamed(n, p, n[i].name) = i}
       IN  IF from = {} THEN <<>>
           ELSE FieldOf(at[CHOOSE p \in from : TRUE], n[i].name)

Reaches(at, n, v) == at = [i \in DOMAIN n |-> ReachStep(at, n, v, i)]

\* Whatever has the value at a node's parent's path has that at the node's.
LEMMA ReachNext ==
  ASSUME NEW n, NEW list, Whole(n, list), NEW v, NEW at, NEW i \in DOMAIN n,
         \A p \in 1 .. i - 1 : at[p] = Lookup(v, n[p].path)
  PROVE  ReachStep(at, n, v, i) = Lookup(v, n[i].path)
<1>1. Linked(n) /\ DOMAIN n = 1 .. Len(n) /\ Len(n) \in Nat
  BY NodeTyped DEF Whole, Tree
<1>2. CASE i = 1
  BY <1>1, <1>2, LookupEmpty DEF ReachStep, Linked
<1>3. CASE i # 1
  <2>1. i \in 2 .. Len(n)
    BY <1>1, <1>3
  <2>2. PICK p \in 1 .. i - 1 :
           /\ IsChild(n, i, p)
           /\ {q \in 1 .. i - 1 : /\ n[q].binding = NONE
                                  /\ ChildNamed(n, q, n[i].name) = i} = {p}
    BY <2>1, FromParent
  <2>3. (CHOOSE q \in {p} : TRUE) = p
    OBVIOUS
  <2>4. ReachStep(at, n, v, i) = FieldOf(at[p], n[i].name)
    BY <1>3, <2>2, <2>3 DEF ReachStep
  <2>5. p \in DOMAIN n /\ n[i].path = Append(n[p].path, n[i].name)
    BY <1>1, <2>1, <2>2 DEF IsChild
  <2>6. PICK a, name : a = n[p].path /\ name = n[i].name
    OBVIOUS
  <2>7. a \in Seq(Names) /\ name \in Names
    BY <1>1, <2>5, <2>6, NodeTyped
  <2>8. Lookup(v, Append(a, name)) = FieldOf(Lookup(v, a), name)
    BY <2>7, LookupAppend
  <2> QED
    BY <2>4, <2>5, <2>6, <2>8
<1> QED
  BY <1>2, <1>3

\* Walking the tree, a node is reached with the value its path looks up.
LEMMA ReachedLookup ==
  ASSUME NEW n, NEW list, Whole(n, list), NEW v
  PROVE  \A i \in DOMAIN n : Reached(n, v)[i] = Lookup(v, n[i].path)
<1> DEFINE paths == [i \in DOMAIN n |-> Lookup(v, n[i].path)]
           Body(f) == [i \in DOMAIN n |->
                         IF i = 1 THEN <<v>>
                         ELSE LET from == {p \in 1 .. i - 1 :
                                             /\ n[p].binding = NONE
                                             /\ ChildNamed(n, p, n[i].name) = i}
                              IN  IF from = {} THEN <<>>
                                  ELSE FieldOf(f[CHOOSE p \in from : TRUE], n[i].name)]
           at == CHOOSE f : f = Body(f)
           Bad == {i \in DOMAIN n : at[i] # Lookup(v, n[i].path)}
<1>1. DOMAIN n = 1 .. Len(n) /\ Len(n) \in Nat
  BY NodeTyped DEF Whole, Tree
<1>2. Reached(n, v) = at
  BY DEF Reached
<1>3. \A f : Body(f) = [i \in DOMAIN n |-> ReachStep(f, n, v, i)]
  BY DEF ReachStep
<1>4. paths = Body(paths)
  <2>1. ASSUME NEW i \in DOMAIN n PROVE ReachStep(paths, n, v, i) = Lookup(v, n[i].path)
    <3>1. \A p \in 1 .. i - 1 : paths[p] = Lookup(v, n[p].path)
      BY <1>1
    <3> HIDE DEF paths
    <3> QED
      BY <3>1, ReachNext
  <2> HIDE DEF Body
  <2>2. Body(paths) = [i \in DOMAIN n |-> ReachStep(paths, n, v, i)]
    BY <1>3
  <2>3. [i \in DOMAIN n |-> ReachStep(paths, n, v, i)] = [i \in DOMAIN n |-> Lookup(v, n[i].path)]
    <3> HIDE DEF paths
    <3> QED
      BY <2>1
  <2> QED
    BY <2>2, <2>3
<1>5. at = Body(at)
  <2> HIDE DEF Body, paths
  <2> QED
    BY <1>4
<1>6. \A i \in DOMAIN n : at[i] = ReachStep(at, n, v, i)
  <2>1. at = [i \in DOMAIN n |-> ReachStep(at, n, v, i)]
    <3> HIDE DEF Body, at
    <3> QED
      BY <1>3, <1>5
  <2> HIDE DEF at
  <2> QED
    BY <2>1
<1> HIDE DEF at
<1>7. Bad = {}
  <2> SUFFICES ASSUME Bad # {} PROVE FALSE
    OBVIOUS
  <2>1. Bad \in SUBSET Nat
    BY <1>1
  <2>2. PICK m \in Bad : \A x \in Bad : m <= x
    <3> HIDE DEF Bad
    <3> QED
      BY <2>1, Least
  <2>3. m \in DOMAIN n /\ at[m] # Lookup(v, n[m].path)
    OBVIOUS
  <2>4. ASSUME NEW p \in 1 .. m - 1 PROVE at[p] = Lookup(v, n[p].path)
    <3>1. p \in DOMAIN n /\ ~(m <= p)
      BY <1>1, <2>3
    <3> QED
      BY <2>2, <3>1
  <2>5. ReachStep(at, n, v, m) = Lookup(v, n[m].path)
    BY <2>3, <2>4, ReachNext
  <2> QED
    BY <1>6, <2>3, <2>5
<1> QED
  BY <1>2, <1>7

\* The nodes without a binding are those at the paths above one.
LEMMA AboveNodes ==
  ASSUME NEW n, NEW list, Whole(n, list)
  PROVE  Above(list) = {n[i].path : i \in {j \in DOMAIN n : n[j].binding = NONE}}
<1> DEFINE D == AllBound(list)
           Inner0 == {n[i].path : i \in {j \in DOMAIN n : n[j].binding = NONE}}
<1>1. /\ list \in Seq(Operation) /\ Linked(n) /\ Paths(n) = PrefixesOf(list, D)
      /\ \A c \in DOMAIN n : n[c].binding # NONE => n[c].path = list[n[c].binding].path
      /\ Bindings(n) = D
  BY DEF Whole, Tree
<1>2. /\ Above(list) = {<<>>} \cup UNION {{SubSeq(p, 1, k) : k \in 0 .. Len(p) - 1} : p \in BoundPaths(list)}
      /\ BoundPaths(list) = {list[j].path : j \in D}
  BY DEF Above, BoundPaths, AllBound
<1>3. \A j \in D : /\ list[j].path \in Seq(Names) /\ Len(list[j].path) \in Nat
                   /\ list[j].path # <<>>
  BY <1>1, OperationPath DEF AllBound, Bound
<1>4. <<>> \in Inner0
  <2>1. 1 \in DOMAIN n /\ n[1].path = <<>>
    BY <1>1, NodeTyped DEF Linked
  <2>2. n[1].binding = NONE
    BY <1>1, <1>3, <2>1 DEF Bindings
  <2> QED
    BY <2>1, <2>2
<1>5. ASSUME NEW j \in D, NEW k \in 0 .. Len(list[j].path) - 1
      PROVE  SubSeq(list[j].path, 1, k) \in Inner0
  <2>1. PICK p : p = list[j].path /\ p \in Seq(Names) /\ Len(p) \in Nat
    BY <1>3
  <2>2. PICK q : q = SubSeq(p, 1, k)
    OBVIOUS
  <2>3. k \in 0 .. Len(p) /\ k < Len(p)
    BY <2>1
  <2>4. q \in Seq(Names) /\ Len(q) = k /\ Leading(q, p)
    BY <2>1, <2>2, <2>3, CutLeading
  <2>5. q \in Paths(n)
    BY <1>1, <2>1, <2>4 DEF PrefixesOf
  <2>6. PICK c \in DOMAIN n : n[c].path = q
    BY <2>5 DEF Paths
  <2>7. n[c].binding = NONE
    <3>1. Leading(n[c].path, list[j].path) /\ Len(n[c].path) # Len(list[j].path)
      BY <2>1, <2>3, <2>4, <2>6
    <3> QED
      BY <3>1, WayBound
  <2> QED
    BY <2>1, <2>2, <2>6, <2>7
<1>6. ASSUME NEW i \in DOMAIN n, n[i].binding = NONE PROVE n[i].path \in Above(list)
  <2>1. CASE n[i].path = <<>>
    BY <1>2, <2>1
  <2>2. CASE n[i].path # <<>>
    <3>1. n[i].path \in PrefixesOf(list, D)
      BY <1>1 DEF Paths
    <3>2. PICK j \in D : Leading(n[i].path, list[j].path)
      BY <2>2, <3>1 DEF PrefixesOf
    <3>3. PICK q, p : q = n[i].path /\ p = list[j].path
      OBVIOUS
    <3>4. q \in Seq(Names) /\ Len(q) \in Nat /\ p \in Seq(Names) /\ Len(p) \in Nat /\ Leading(q, p)
      BY <1>1, <1>3, <3>2, <3>3, NodeTyped
    <3>5. Len(q) # Len(p)
      BY <1>6, <3>2, <3>3, WayBound
    <3>6. Len(q) \in 0 .. Len(p) - 1 /\ Len(q) \in 0 .. Len(p)
      BY <3>4, <3>5 DEF Leading
    <3>7. SubSeq(p, 1, Len(q)) = q
      <4>1. PICK r : r = SubSeq(p, 1, Len(q))
        OBVIOUS
      <4>2. r \in Seq(Names) /\ Len(r) = Len(q) /\ Leading(r, p)
        BY <3>4, <3>6, <4>1, CutLeading
      <4>3. r = q
        BY <3>4, <4>2, LeadingSame
      <4> QED
        BY <4>1, <4>3
    <3>8. q \in {SubSeq(p, 1, k) : k \in 0 .. Len(p) - 1}
      BY <3>6, <3>7
    <3>9. p \in BoundPaths(list)
      BY <1>2, <3>3
    <3>10. \E r \in BoundPaths(list) : q \in {SubSeq(r, 1, k) : k \in 0 .. Len(r) - 1}
      BY <3>8, <3>9
    <3>11. q \in Above(list)
      BY <1>2, <3>10
    <3> QED
      BY <3>3, <3>11
  <2> QED
    BY <2>1, <2>2
<1>7. Above(list) \subseteq Inner0
  <2> SUFFICES ASSUME NEW q \in Above(list) PROVE q \in Inner0
    OBVIOUS
  <2> HIDE DEF Inner0
  <2>1. CASE q = <<>>
    BY <1>4, <2>1
  <2>2. CASE q # <<>>
    <3>1. PICK j \in D : q \in {SubSeq(list[j].path, 1, k) : k \in 0 .. Len(list[j].path) - 1}
      BY <1>2, <2>2
    <3> QED
      BY <1>5, <3>1
  <2> QED
    BY <2>1, <2>2
<1> QED
  BY <1>6, <1>7

\* A node has a child of a name exactly if a binding is that way.
LEMMA ChildLeads ==
  ASSUME NEW n, NEW list, Whole(n, list), NEW i \in DOMAIN n, NEW key
  PROVE  ChildNamed(n, i, key) # NONE
           <=> \E p \in BoundPaths(list) : IsPrefix(Append(n[i].path, key), p)
<1> DEFINE D == AllBound(list)
           S == Names \cup {key}
<1>1. /\ list \in Seq(Operation) /\ Linked(n) /\ Paths(n) = PrefixesOf(list, D)
      /\ BoundPaths(list) = {list[j].path : j \in D}
  BY DEF Whole, Tree, BoundPaths, AllBound
<1>2. PICK a : a = n[i].path /\ a \in Seq(Names)
  BY <1>1, NodeTyped
<1>3. a \in Seq(S) /\ key \in S
  BY <1>2, SeqGrows
<1>4. ASSUME NEW p \in Seq(Names)
      PROVE  IsPrefix(Append(a, key), p) <=> key \in Names /\ Leading(Append(a, key), p)
  <2>1. p \in Seq(S)
    BY SeqGrows
  <2>2. PICK b : b = Append(a, key) /\ b \in Seq(S)
    BY <1>3, AppendProperties
  <2>3. IsPrefix(b, p) <=> Leading(b, p)
    <3> HIDE DEF S
    <3> QED
      BY <2>1, <2>2, PrefixLeading
  <2>4. Leading(Append(a, key), p) => Len(a) + 1 <= Len(p) /\ p[Len(a) + 1] = key
    <3> HIDE DEF S
    <3> QED
      BY <1>3, <2>1, AppendLeading
  <2>5. Len(a) + 1 <= Len(p) => p[Len(a) + 1] \in Names
    <3>1. Len(a) \in Nat /\ \A k \in 1 .. Len(p) : p[k] \in Names
      BY <1>2
    <3> QED
      BY <3>1
  <2> QED
    BY <2>2, <2>3, <2>4, <2>5
<1>5. \A j \in D : list[j].path \in Seq(Names)
  BY <1>1, OperationPath DEF AllBound
<1>6. (\E p \in BoundPaths(list) : IsPrefix(Append(a, key), p))
        <=> key \in Names /\ Append(a, key) \in Paths(n)
  <2>1. (\E p \in BoundPaths(list) : IsPrefix(Append(a, key), p))
          <=> key \in Names /\ \E j \in D : Leading(Append(a, key), list[j].path)
    BY <1>1, <1>4, <1>5
  <2>2. ASSUME key \in Names
        PROVE  Append(a, key) \in Paths(n) <=> \E j \in D : Leading(Append(a, key), list[j].path)
    <3>1. Append(a, key) \in Seq(Names) /\ Append(a, key) # <<>>
      BY <1>2, <2>2, AppendProperties
    <3> QED
      BY <1>1, <3>1 DEF PrefixesOf
  <2> QED
    BY <2>1, <2>2
<1>7. \/ /\ ChildNamed(n, i, key) = NONE
         /\ \A c \in DOMAIN n : ~(IsChild(n, c, i) /\ n[c].name = key)
      \/ /\ ChildNamed(n, i, key) \in 2 .. Len(n)
         /\ IsChild(n, ChildNamed(n, i, key), i)
         /\ n[ChildNamed(n, i, key)].name = key
  BY <1>1, ChildFound
<1>8. ASSUME ChildNamed(n, i, key) # NONE PROVE key \in Names /\ Append(a, key) \in Paths(n)
  <2>1. PICK c : c = ChildNamed(n, i, key)
    OBVIOUS
  <2>2. c \in 2 .. Len(n) /\ IsChild(n, c, i) /\ n[c].name = key
    BY <1>7, <1>8, <2>1
  <2>3. c \in DOMAIN n
    BY <1>1, <2>2, NodeTyped
  <2>4. n[c].path = Append(a, key)
    BY <1>2, <2>2 DEF IsChild
  <2> QED
    BY <1>1, <2>2, <2>3, <2>4, NodeTyped DEF Paths
<1>9. ASSUME key \in Names, Append(a, key) \in Paths(n) PROVE ChildNamed(n, i, key) # NONE
  <2>1. PICK c \in DOMAIN n : n[c].path = Append(n[i].path, key)
    BY <1>2, <1>9 DEF Paths
  <2>2. IsChild(n, c, i) /\ n[c].name = key
    BY <1>1, <1>9, <2>1, OneParent
  <2>3. \A x \in 2 .. Len(n) : x # NONE
    BY DEF NONE
  <2> QED
    BY <1>7, <2>2, <2>3
<1> QED
  BY <1>2, <1>6, <1>8, <1>9

\* The walk takes every field exactly when the document's fields lead to bound paths.
LEMMA CollectsLead ==
  ASSUME NEW n, NEW list, Whole(n, list), NEW v
  PROVE  Collects(n, v) <=> FieldsLead(list, v)
<1> DEFINE Sound(i) ==
             LET at == Lookup(v, n[i].path)
             IN  at # <<>> => /\ IsObject(at[1])
                              /\ \A key \in DOMAIN at[1].object :
                                    \E p \in BoundPaths(list) : IsPrefix(Append(n[i].path, key), p)
<1>1. Collects(n, v) <=> \A i \in DOMAIN n : n[i].binding = NONE => Sound(i)
  <2>1. \A i \in DOMAIN n : Reached(n, v)[i] = Lookup(v, n[i].path)
    BY ReachedLookup
  <2>2. ASSUME NEW i \in DOMAIN n
        PROVE  LET at == Reached(n, v)
               IN  (at[i] # <<>> /\ n[i].binding = NONE =>
                      /\ IsObject(at[i][1])
                      /\ \A key \in DOMAIN at[i][1].object : ChildNamed(n, i, key) # NONE)
                     <=> (n[i].binding = NONE => Sound(i))
    <3>1. \A key : ChildNamed(n, i, key) # NONE
                     <=> \E p \in BoundPaths(list) : IsPrefix(Append(n[i].path, key), p)
      BY ChildLeads
    <3> QED
      BY <2>1, <3>1
  <2> HIDE DEF Sound
  <2> QED
    BY <2>2 DEF Collects
<1>2. FieldsLead(list, v) <=> \A i \in DOMAIN n : n[i].binding = NONE => Sound(i)
  <2> DEFINE Right(q) ==
               LET at == Lookup(v, q)
               IN  at # <<>> => /\ IsObject(at[1])
                                /\ \A key \in DOMAIN at[1].object :
                                      \E p \in BoundPaths(list) : IsPrefix(Append(q, key), p)
  <2>1. FieldsLead(list, v) <=> \A q \in Above(list) : Right(q)
    BY DEF FieldsLead, Has, At
  <2>2. \A i \in DOMAIN n : Sound(i) <=> Right(n[i].path)
    OBVIOUS
  <2> HIDE DEF Sound, Right
  <2> QED
    BY <2>1, <2>2, AboveNodes
<1> QED
  BY <1>1, <1>2

\* What is collected for an operation is the value at its path, if there is one.
LEMMA CollectedAt ==
  ASSUME NEW n, NEW list, Whole(n, list), NEW v, NEW i \in DOMAIN list
  PROVE  Collected(n, v, i) = IF Bound(list[i]) /\ Has(v, list[i].path)
                              THEN {At(v, list[i].path)} ELSE {}
<1>1. /\ list \in Seq(Operation) /\ Linked(n) /\ Bindings(n) = AllBound(list)
      /\ \A c \in DOMAIN n : n[c].binding # NONE => n[c].path = list[n[c].binding].path
  BY DEF Whole, Tree
<1>2. i # NONE
  BY <1>1 DEF NONE
<1>3. Collected(n, v, i) = {Lookup(v, n[c].path)[1] :
                              c \in {d \in DOMAIN n : n[d].binding = i /\ Lookup(v, n[d].path) # <<>>}}
  BY ReachedLookup DEF Collected
<1>4. CASE ~Bound(list[i])
  <2>1. \A c \in DOMAIN n : n[c].binding # i
    BY <1>1, <1>2, <1>4 DEF Bindings, AllBound
  <2> QED
    BY <1>3, <1>4, <2>1
<1>5. CASE Bound(list[i])
  <2>1. PICK c \in DOMAIN n : n[c].binding = i
    BY <1>1, <1>5 DEF Bindings, AllBound
  <2>2. \A d \in DOMAIN n : n[d].binding = i <=> d = c
    BY <1>1, <1>2, <2>1 DEF Linked
  <2>3. n[c].path = list[i].path
    BY <1>1, <1>2, <2>1
  <2>4. Collected(n, v, i) = {Lookup(v, list[i].path)[1] : d \in {d \in {c} : Lookup(v, list[i].path) # <<>>}}
    BY <1>3, <2>2, <2>3
  <2> QED
    BY <1>5, <2>4 DEF Has, At
<1> QED
  BY <1>4, <1>5

\* A document parses by the tree exactly when it instructs by the paths of its operations.
LEMMA ParsesInstructs ==
  ASSUME NEW n, NEW list, Whole(n, list), NEW v
  PROVE  Parses(list, n, v) <=> Instructs(list, v)
<1>1. \A i \in DOMAIN list :
         (\A bound \in Collected(n, v, i) : Takes(list[i], bound))
           <=> (Bound(list[i]) /\ Has(v, list[i].path) => Takes(list[i], At(v, list[i].path)))
  BY CollectedAt
<1> QED
  BY <1>1, CollectsLead DEF Parses, Instructs

\* The commands the walk makes are those the paths of the operations ask for.
LEMMA CommandsInstructions ==
  ASSUME NEW n, NEW list, Whole(n, list), NEW v
  PROVE  Commands(list, n, v) = Instructions(list, v)
<1>1. ASSUME NEW i \in DOMAIN list
      PROVE  (IF Collected(n, v, i) = {} THEN <<>>
              ELSE Calls(list, i, CHOOSE bound \in Collected(n, v, i) : TRUE))
               = IF Bound(list[i]) /\ Has(v, list[i].path)
                 THEN Calls(list, i, At(v, list[i].path)) ELSE <<>>
  <2>1. (CHOOSE bound \in {At(v, list[i].path)} : TRUE) = At(v, list[i].path)
    OBVIOUS
  <2> QED
    BY <2>1, CollectedAt
<1>2. [i \in DOMAIN list |->
         IF Collected(n, v, i) = {} THEN <<>>
         ELSE Calls(list, i, CHOOSE bound \in Collected(n, v, i) : TRUE)]
        = [i \in DOMAIN list |->
             IF Bound(list[i]) /\ Has(v, list[i].path) THEN Calls(list, i, At(v, list[i].path))
             ELSE <<>>]
  BY <1>1
<1> QED
  BY <1>2 DEF Commands, Instructions

\* Every list of operations validate() lets through is built into its tree, in the
\* nodes that were counted, and no other list is; and the tree reads every document
\* as the paths say, for any operations and documents.
THEOREM TreesRead == Spec => []BindingsAgree
<1>1. TreeInv => BindingsAgree
  <2> SUFFICES ASSUME TreeInv, phase = "built"
               PROVE  /\ Valid(ops)
                      /\ \A v \in Documents :
                            /\ Parses(ops, nodes, v) <=> Instructs(ops, v)
                            /\ Instructs(ops, v) => Commands(ops, nodes, v) = Instructions(ops, v)
    BY DEF TreeInv, BindingsAgree
  <2>1. Valid(ops) /\ Tree(nodes, ops, AllBound(ops)) /\ ops \in Seq(Operation)
    BY ListsAssumption DEF TreeInv
  <2>2. Whole(nodes, ops)
    BY <2>1, ValidApart DEF Whole, AllBound
  <2> QED
    BY <2>1, <2>2, ParsesInstructs, CommandsInstructions
<1> QED
  BY <1>1, TreeInit, TreeNext, PTL DEF Spec

-----------------------------------------------------------------------------
(* Where settings and commands come from.                                  *)
Shown == {"patch", "printed", "ready"}

\* Up to parse() there is nothing; after it there is what the files say, and in
\* the end the command line over that and the defaults under it.
LayerInv ==
  /\ phase \notin Shown => settings = Unset /\ commands = <<>>
  /\ phase \in {"patch", "printed"} => settings = [s \in Settings |-> Decided(Layers, s)]
  /\ phase = "ready" =>
        settings = [s \in Settings |-> Or(Given(cli)[s], Or(Decided(Layers, s), Default(s)))]
  /\ phase \in Shown =>
        commands = IF Layers = <<>> THEN <<>> ELSE Instructions(ops, Bare(Combination(Layers)))

LEMMA LayersTyped ==
  ASSUME ChainInv, phase \in After, start # NoPath
  PROVE  /\ Layers \in Seq(Rests) /\ Len(Layers) \in 1 .. Cardinality(Files) /\ Layers # <<>>
         /\ value = Combination(Layers)
<1>1. PICK c \in Chains : /\ Layers = LayersFrom(c, 0) /\ value = Combination(Layers)
                          /\ Layers # <<>> /\ Len(Layers) = Len(c)
  BY LoadedLayers
<1>2. c \in Seq(Files) /\ Len(c) \in Nat \ {0} /\ Follows(c)
  BY ChainWay
<1>3. Len(c) \in 1 .. Cardinality(Files)
  <2>1. PICK m \in 0 .. Cardinality(Files) : c \in [1 .. m -> Files]
    BY DEF Chains, BoundedSeq, SeqOf
  <2>2. Cardinality(Files) \in Nat
    BY FilesAssumption, FS_CardinalityType
  <2>3. Len(c) = m
    BY <2>1, <2>2
  <2> QED
    BY <1>2, <2>1, <2>2, <2>3
<1>4. ASSUME NEW k \in 1 .. Len(c) PROVE Rest(disk[c[k]]) \in Rests
  <2>1. k \in DOMAIN c /\ c[k] \in Files
    BY <1>2
  <2>2. ~FileRefused(disk[c[k]]) /\ disk[c[k]] \in Contents \cup {Unread}
    BY <1>2, <2>1 DEF Follows, ChainInv
  <2>3. FileRefused(Unread)
    BY DEF FileRefused, IsObject, Unread
  <2> QED
    BY <2>2, <2>3 DEF Rests
<1>5. Layers = [k \in 1 .. Len(c) |-> Rest(disk[c[k]])]
  <2>1. Len(c) - 0 = Len(c) /\ \A k \in 1 .. Len(c) : 0 + k = k
    BY <1>2
  <2> QED
    BY <1>1, <2>1 DEF LayersFrom
<1>6. Layers \in [1 .. Len(c) -> Rests]
  BY <1>4, <1>5
<1>7. Layers \in Seq(Rests)
  BY <1>2, <1>6, SeqDef
<1> QED
  BY <1>1, <1>3, <1>7

\* What the layers are depends on the first path and on the files.
LEMMA LayersSame == ASSUME start' = start, disk' = disk PROVE Layers' = Layers
<1>1. Chains' = Chains
  BY DEF Chains, Leads, Extends, NextPlace
<1> QED
  BY <1>1 DEF Layers

LEMMA NoLayers == ASSUME start = NoPath PROVE Layers = <<>>
BY DEF Layers

LEMMA LaunchLayer == LayerInv /\ Launch => LayerInv'
<1> SUFFICES ASSUME LayerInv, Launch PROVE LayerInv'
  OBVIOUS
<1>1. settings = Unset /\ commands = <<>> /\ settings' = settings /\ commands' = commands
  BY DEF LayerInv, Launch, Shown
<1>2. CASE start' = NoPath
  <2>1. Layers' = <<>>
    BY <1>2 DEF Layers
  <2>2. \A s : Decided(<<>>, s) = None
    BY DEF Decided
  <2>3. phase' = "patch" /\ settings' = [s \in Settings |-> Decided(<<>>, s)]
    BY <1>1, <1>2, <2>2 DEF Launch, Unset
  <2> QED
    BY <1>1, <2>1, <2>3 DEF LayerInv, Shown
<1>3. CASE start' # NoPath
  <2>1. phase' = "load"
    BY <1>3 DEF Launch
  <2> QED
    BY <1>1, <2>1 DEF LayerInv, Shown
<1> QED
  BY <1>2, <1>3

\* The document parse() takes is the combined layers: its settings are those the
\* nearest deciding layers have, its commands those it instructs.
LEMMA ParseLayer == LayerInv /\ ChainInv /\ TreeInv /\ Parse => LayerInv'
<1> SUFFICES ASSUME LayerInv, ChainInv, TreeInv, Parse PROVE LayerInv'
  OBVIOUS
<1>1. phase = "parse" /\ start # NoPath /\ phase \in After /\ start' = start /\ disk' = disk /\ ops' = ops
  BY DEF Parse, ChainInv, After
<1>2. Layers' = Layers
  BY <1>1, LayersSame
<1>3. CASE Refused(value)
  <2>1. phase' = "refused" /\ settings' = settings /\ commands' = commands
    BY <1>3 DEF Parse
  <2> QED
    BY <1>1, <2>1 DEF LayerInv, Shown
<1>4. CASE ~Refused(value)
  <2>1. /\ settings' = ProcessConfig(Field(value, "dragonball"))
        /\ commands' = Commands(ops, nodes, Bare(value))
        /\ phase' \in {"printed", "patch"}
    BY <1>4 DEF Parse
  <2>2. PICK layers : layers = Layers
    OBVIOUS
  <2>3. /\ layers \in Seq(Rests) /\ Len(layers) \in 1 .. Cardinality(Files) /\ layers # <<>>
        /\ value = Combination(layers)
    BY <1>1, <2>2, LayersTyped
  <2>4. IsObject(value) /\ \A s \in Settings : Seen(s, Lookup(value, SettingPath(s))) = Decided(layers, s)
    BY <2>3, CombinationDecides
  <2>5. settings' = [s \in Settings |-> Decided(layers, s)]
    <3>1. ~ProcessRefused(Field(value, "dragonball"))
      BY <1>4 DEF Refused
    <3>2. ProcessConfig(Field(value, "dragonball"))
            = [s \in Settings |-> Seen(s, Lookup(value, SettingPath(s)))]
      BY <2>4, <3>1, ProcessSeen
    <3> QED
      BY <2>1, <2>4, <3>2
  <2>6. commands' = Instructions(ops, Bare(Combination(layers)))
    <3>1. Valid(ops) /\ Tree(nodes, ops, AllBound(ops)) /\ ops \in Seq(Operation)
      BY <1>1, ListsAssumption DEF TreeInv
    <3>2. Whole(nodes, ops)
      BY <3>1, ValidApart DEF Whole, AllBound
    <3> QED
      BY <2>1, <2>3, <3>2, CommandsInstructions
  <2> QED
    BY <1>1, <1>2, <2>1, <2>2, <2>3, <2>5, <2>6 DEF LayerInv, Shown
<1> QED
  BY <1>3, <1>4

LEMMA IntoConfigLayer == LayerInv /\ IntoConfig => LayerInv'
<1> SUFFICES ASSUME LayerInv, IntoConfig PROVE LayerInv'
  OBVIOUS
<1>1. /\ phase = "patch" /\ phase' = "ready" /\ commands' = commands /\ ops' = ops
      /\ settings' = ApplyDefaults(Patch(Given(cli'), settings))
      /\ start' = start /\ disk' = disk
  BY DEF IntoConfig
<1>2. Layers' = Layers
  BY <1>1, LayersSame
<1>3. \A a, b, c : Or(Or(a, b), c) = Or(a, Or(b, c))
  BY DEF Or
<1>4. settings = [s \in Settings |-> Decided(Layers, s)]
  BY <1>1 DEF LayerInv
<1>5. settings' = [s \in Settings |-> Or(Given(cli')[s], Or(Decided(Layers, s), Default(s)))]
  <2>1. settings' = [s \in Settings |-> Or(Or(Given(cli')[s], Decided(Layers, s)), Default(s))]
    BY <1>1, <1>4 DEF ApplyDefaults, Patch
  <2> QED
    BY <1>3, <2>1
<1> QED
  BY <1>1, <1>2, <1>5 DEF LayerInv, Shown

\* Every step of the machine keeps the invariant of the layers.
LEMMA LayerNext == LayerInv /\ ChainInv /\ TreeInv /\ [Next]_vars => LayerInv'
<1> SUFFICES ASSUME LayerInv, ChainInv, TreeInv, [Next]_vars PROVE LayerInv'
  OBVIOUS
<1>1. CASE Launch
  BY <1>1, LaunchLayer
<1>2. CASE Parse
  BY <1>2, ParseLayer
<1>3. CASE IntoConfig
  BY <1>3, IntoConfigLayer
<1>4. CASE phase \notin Shown /\ phase' \notin Shown /\ settings' = settings /\ commands' = commands
  BY <1>4 DEF LayerInv, Shown
<1>5. CASE UNCHANGED vars
  <2>1. Layers' = Layers
    BY <1>5, LayersSame DEF vars
  <2> QED
    BY <1>5, <2>1 DEF LayerInv, vars
<1> QED
  BY <1>1, <1>2, <1>3, <1>4, <1>5
  DEF Next, BindOp, Built, LoadFile, LoadFails, Return, Loaded, Unchanging, Shown

\* A started process has each setting from the command line, or else from the
\* nearest file that decides it, or else the default, and the commands its merged
\* files instruct, whatever files it was given and in whatever order they extend
\* one another.
THEOREM SettingsLayered == Spec => []Layered
<1>1. Init => LayerInv
  BY DEF Init, LayerInv, Shown
<1>2. LayerInv => Layered
  BY DEF LayerInv, Layered, Shown
<1> QED
  BY <1>1, <1>2, ChainInit, ChainNext, TreeInit, TreeNext, LayerNext, PTL DEF Spec
=============================================================================
