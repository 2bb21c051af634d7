--------------------------- MODULE WorkspaceProofs ---------------------------
(***************************************************************************)
(* What the algorithms of Workspace do for every path, pattern and         *)
(* manifest.  They are recursive functions over 0..n, so the facts are     *)
(* proved by induction over how far they have come; the induction is over  *)
(* the set of the positions where the fact holds.                          *)
(***************************************************************************)
EXTENDS Workspace, WellFoundedInduction, TLAPS

LEMMA LeastNat ==
  ASSUME NEW T, T \subseteq Nat, T # {}
  PROVE  \E x \in T : \A y \in T : ~(y < x)
<1> DEFINE R == OpToRel(<, Nat)
<1>1. IsWellFoundedOn(R, Nat)
  BY NatLessThanWellFounded, Zenon
<1>2. \E x \in T : \A y \in T : ~(<<y, x>> \in R)
  <2> HIDE DEF R
  <2> QED
    BY <1>1, WFMin, Zenon
<1> QED
  BY <1>2 DEF OpToRel

LEMMA SeqGrows ==
  ASSUME NEW A, NEW B, \A a \in A : a \in B
  PROVE  \A q \in Seq(A) : q \in Seq(B)
<1> SUFFICES ASSUME NEW q \in Seq(A) PROVE q \in Seq(B)
  OBVIOUS
<1>1. q \in [1..Len(q) -> A] /\ Len(q) \in Nat
  OBVIOUS
<1>2. q \in [1..Len(q) -> B]
  BY <1>1
<1> QED
  BY <1>1, <1>2

LEMMA GreatestNat ==
  ASSUME NEW n \in Nat, NEW T, T \subseteq 1..n, T # {}
  PROVE  \E x \in T : \A y \in T : y <= x
<1> DEFINE D == {n - x : x \in T}
<1>1. D \subseteq Nat /\ D # {}
  <2>1. \A x \in T : n - x \in Nat
    OBVIOUS
  <2> QED
    BY <2>1
<1>2. PICK d \in D : \A e \in D : ~(e < d)
  <2> HIDE DEF D
  <2> QED
    BY <1>1, LeastNat
<1>3. PICK x \in T : d = n - x
  BY <1>2
<1>4. ASSUME NEW y \in T PROVE y <= x
  <2>1. n - y \in D
    OBVIOUS
  <2>2. ~(n - y < n - x)
    BY <1>2, <1>3, <2>1
  <2> QED
    BY <2>2
<1> QED
  BY <1>4

(* Induction up to n: H is the set of the positions where something holds. *)
LEMMA Induction ==
  ASSUME NEW n \in Nat, NEW H, 0 \in H, \A i \in 1..n : i - 1 \in H => i \in H
  PROVE  \A i \in 0..n : i \in H
<1> DEFINE T == {i \in 0..n : i \notin H}
<1>1. SUFFICES ASSUME T # {} PROVE FALSE
  OBVIOUS
<1>2. PICK x \in T : \A y \in T : ~(y < x)
  <2>1. T \subseteq Nat
    OBVIOUS
  <2> HIDE DEF T
  <2> QED
    BY <1>1, <2>1, LeastNat
<1>3. x \in 1..n /\ x - 1 \in 0..n
  BY <1>2
<1>4. x - 1 \in H
  BY <1>2, <1>3
<1> QED
  BY <1>2, <1>3, <1>4

(* A recursive function over 0..n exists. *)
Follows(r, n, base, G) == r[0] = base /\ \A i \in 1..n : r[i] = G[i][r[i - 1]]

LEMMA Recursion ==
  ASSUME NEW n \in Nat, NEW S, NEW base \in S, NEW G \in [1..n -> [S -> S]]
  PROVE  \E r \in [0..n -> S] : Follows(r, n, base, G)
<1> DEFINE Good(m, r) == /\ r \in [0..m -> S]
                         /\ r[0] = base
                         /\ \A i \in 1..m : r[i] = G[i][r[i - 1]]
           H == {m \in 0..n : \E r \in [0..m -> S] : Good(m, r)}
<1>1. 0 \in H
  <2> DEFINE r == [i \in 0..0 |-> base]
  <2>1. r \in [0..0 -> S] /\ Good(0, r)
    OBVIOUS
  <2> HIDE DEF r
  <2>2. \E t \in [0..0 -> S] : Good(0, t)
    BY <2>1
  <2>3. 0 \in 0..n
    OBVIOUS
  <2> QED
    BY <2>2, <2>3
<1>2. ASSUME NEW m \in 1..n, m - 1 \in H PROVE m \in H
  <2>1. PICK r \in [0..m - 1 -> S] : Good(m - 1, r)
    BY <1>2
  <2> DEFINE q == [i \in 0..m |-> IF i = m THEN G[m][r[m - 1]] ELSE r[i]]
  <2>2. r[m - 1] \in S /\ G[m][r[m - 1]] \in S
    BY <2>1
  <2>3. q \in [0..m -> S]
    BY <2>1, <2>2
  <2>4. q[0] = base
    BY <2>1
  <2>5. \A i \in 1..m : q[i] = G[i][q[i - 1]]
    <3> TAKE i \in 1..m
    <3>1. CASE i = m
      BY <3>1
    <3>2. CASE i # m
      <4>1. i \in 1..m - 1 /\ i - 1 \in 0..m - 1
        BY <3>2
      <4>2. q[i] = r[i] /\ q[i - 1] = r[i - 1]
        BY <3>2, <4>1
      <4> QED
        BY <2>1, <4>1, <4>2
    <3> QED
      BY <3>1, <3>2
  <2> HIDE DEF q
  <2> QED
    BY <2>3, <2>4, <2>5
<1> HIDE DEF H
<1>3. n \in H
  <2>1. \A i \in 0..n : i \in H
    BY <1>1, <1>2, Induction
  <2> QED
    BY <2>1
<1>4. PICK r \in [0..n -> S] : Good(n, r)
  BY <1>3 DEF H
<1> QED
  BY <1>4 DEF Follows

-----------------------------------------------------------------------------
(* Paths and patterns.                                                      *)

LEMMA TextType ==
  ASSUME NEW P, {".", "/"} \subseteq P, NEW path \in Seq(Seq(P))
  PROVE  Text(path) \in Seq(P)
<1> DEFINE n == Len(path)
           S == Seq(P)
           base == <<".">>
           Step(i, t) == Joined(t, i, path[i])
           G == [i \in 1..n |-> [t \in S |-> Step(i, t)]]
           Shape(t) == t = [i \in 0..n |-> IF i = 0 THEN base ELSE Step(i, t[i - 1])]
           f == CHOOSE t : Shape(t)
<1>1. n \in Nat /\ path \in [1..n -> Seq(P)]
  OBVIOUS
<1>2. base \in S /\ <<"/">> \in S
  OBVIOUS
<1>3. Text(path) = f[n]
  BY DEF Text
<1>4. \A i \in 1..n : \A t \in S : Step(i, t) \in S
  BY <1>1, <1>2 DEF Joined
<1> HIDE DEF S, n, Step, base
<1>5. PICK r \in [0..n -> S] : Follows(r, n, base, G)
  <2>1. G \in [1..n -> [S -> S]]
    BY <1>4
  <2>2. n \in Nat
    BY <1>1
  <2>3. base \in S
    BY <1>2
  <2> HIDE DEF G
  <2> QED
    BY <2>1, <2>2, <2>3, Recursion
<1>6. Shape(r)
  <2>1. \A i \in 1..n : r[i] = Step(i, r[i - 1])
    <3> TAKE i \in 1..n
    <3>1. r[i - 1] \in S
      BY <1>1
    <3>2. G[i][r[i - 1]] = Step(i, r[i - 1])
      BY <3>1
    <3> QED
      BY <1>5, <3>2 DEF Follows
  <2>2. n \in Nat /\ r[0] = base
    BY <1>1, <1>5 DEF Follows
  <2> QED
    BY <2>1, <2>2
<1>7. Shape(f)
  BY <1>6
<1> HIDE DEF f
<1> DEFINE H == {i \in 0..n : f[i] \in S}
<1>8. 0 \in H
  BY <1>1, <1>2, <1>7
<1>9. ASSUME NEW i \in 1..n, i - 1 \in H PROVE i \in H
  <2>1. f[i] = Step(i, f[i - 1]) /\ f[i - 1] \in S /\ i \in 0..n
    BY <1>1, <1>7, <1>9
  <2>2. Step(i, f[i - 1]) \in S
    BY <1>4, <2>1
  <2> QED
    BY <2>1, <2>2
<1>10. \A i \in 0..n : i \in H
  <2> HIDE DEF H
  <2> QED
    BY <1>1, <1>8, <1>9, Induction
<1> QED
  BY <1>1, <1>3, <1>10 DEF S

(* Every text without a class matches itself, read as a pattern: what is
   listed by name, even with a star in it, is matched. *)
LEMMA MatchesItself ==
  ASSUME NEW P, P \cap Classes = {}, NEW text \in Seq(P)
  PROVE  Matches(text, text)
<1> DEFINE n == Len(text)
           S == SUBSET Nat
           base == {0}
           Step(j, before) == Reached(text, before, text[j])
           G == [j \in 1..n |-> [before \in S |-> Step(j, before)]]
           Shape(r) == r = [j \in 0..n |-> IF j = 0 THEN base ELSE Step(j, r[j - 1])]
           f == CHOOSE r : Shape(r)
<1>1. n \in Nat /\ base \in S
  OBVIOUS
<1>2. Matches(text, text) <=> n \in f[n]
  BY DEF Matches
<1>3. \A j \in 1..n : \A before \in S : Step(j, before) \in S
  BY <1>1 DEF Reached
<1>4. \A j \in 1..n : \A before : j - 1 \in before => j \in Step(j, before)
  <2> TAKE j \in 1..n
  <2>1. text[j] \in P
    BY <1>1
  <2>2. text[j] \in Letters(text[j])
    BY <2>1 DEF Letters
  <2> QED
    BY <1>1, <2>2 DEF Reached
<1> HIDE DEF S, n, Step
<1>5. PICK r \in [0..n -> S] : Follows(r, n, base, G)
  <2>1. G \in [1..n -> [S -> S]]
    BY <1>3
  <2> HIDE DEF G, base
  <2> QED
    BY <1>1, <2>1, Recursion
<1>6. Shape(r)
  <2>1. \A j \in 1..n : r[j] = Step(j, r[j - 1])
    <3> TAKE j \in 1..n
    <3>1. r[j - 1] \in S
      BY <1>1
    <3>2. G[j][r[j - 1]] = Step(j, r[j - 1])
      BY <3>1
    <3> QED
      BY <1>5, <3>2 DEF Follows
  <2> QED
    BY <1>1, <1>5, <2>1 DEF Follows
<1>7. Shape(f)
  BY <1>6
<1> HIDE DEF f, base
<1> DEFINE H == {j \in 0..n : j \in f[j]}
<1>8. 0 \in H
  BY <1>1, <1>7 DEF base
<1>9. ASSUME NEW j \in 1..n, j - 1 \in H PROVE j \in H
  <2>1. f[j] = Step(j, f[j - 1])
    BY <1>1, <1>7
  <2>2. j - 1 \in f[j - 1] /\ j \in 0..n
    BY <1>1, <1>9
  <2> QED
    BY <1>4, <2>1, <2>2
<1>10. \A j \in 0..n : j \in H
  <2> HIDE DEF H
  <2> QED
    BY <1>1, <1>8, <1>9, Induction
<1> QED
  BY <1>1, <1>2, <1>10

LEMMA NormalisedType == ASSUME NEW path \in Path PROVE Normalised(path) \in Path
<1> DEFINE n == Len(path)
           base == <<>>
           Step(i, done) == Climb(done, path[i])
           G == [i \in 1..n |-> [done \in Path |-> Step(i, done)]]
           Shape(r) == r = [i \in 0..n |-> IF i = 0 THEN base ELSE Step(i, r[i - 1])]
           f == CHOOSE r : Shape(r)
<1>1. n \in Nat /\ path \in [1..n -> Seq(STRING)] /\ base \in Path
  BY DEF Path
<1>2. Normalised(path) = f[n]
  BY DEF Normalised
<1>3. \A i \in 1..n : \A done \in Path : Step(i, done) \in Path
  <2> TAKE i \in 1..n
  <2> TAKE done \in Path
  <2>1. done # <<>> => Front(done) \in Path
    BY DEF Path, Front
  <2>2. Append(done, path[i]) \in Path
    BY <1>1 DEF Path
  <2> QED
    BY <2>1, <2>2 DEF Climb
<1> HIDE DEF n, Step
<1>4. PICK r \in [0..n -> Path] : Follows(r, n, base, G)
  <2>1. G \in [1..n -> [Path -> Path]]
    BY <1>3
  <2> HIDE DEF G, base
  <2> QED
    BY <1>1, <2>1, Recursion
<1>5. Shape(r)
  <2>1. \A i \in 1..n : r[i] = Step(i, r[i - 1])
    <3> TAKE i \in 1..n
    <3>1. r[i - 1] \in Path
      BY <1>1
    <3>2. G[i][r[i - 1]] = Step(i, r[i - 1])
      BY <3>1
    <3> QED
      BY <1>4, <3>2 DEF Follows
  <2> QED
    BY <1>1, <1>4, <2>1 DEF Follows
<1>6. Shape(f)
  BY <1>5
<1> HIDE DEF f
<1> DEFINE H == {i \in 0..n : f[i] \in Path}
<1>7. 0 \in H
  BY <1>1, <1>6
<1>8. ASSUME NEW i \in 1..n, i - 1 \in H PROVE i \in H
  <2>1. f[i] = Step(i, f[i - 1]) /\ f[i - 1] \in Path /\ i \in 0..n
    BY <1>1, <1>6, <1>8
  <2> QED
    BY <1>3, <2>1
<1>9. \A i \in 0..n : i \in H
  <2> HIDE DEF H
  <2> QED
    BY <1>1, <1>7, <1>8, Induction
<1> QED
  BY <1>1, <1>2, <1>9

LEMMA AncestorsBelow ==
  ASSUME NEW p \in Path, NEW q \in Ancestors(p)
  PROVE  IsPrefix(q, p) /\ q # p
<1>1. PICK n \in 0..Len(p) - 1 : q = SubSeq(p, 1, n)
  BY DEF Ancestors
<1>2. Len(p) \in Nat /\ p \in Seq(Seq(STRING))
  BY DEF Path
<1>3. Len(q) = n /\ q \in Seq(Seq(STRING))
  BY <1>1, <1>2
<1>4. SubSeq(q, 1, n) = SubSeq(p, 1, n)
  BY <1>1, <1>2, <1>3
<1> QED
  BY <1>2, <1>3, <1>4 DEF IsPrefix

-----------------------------------------------------------------------------
(* Manifests.  A manifest leaves a history of trees; in each tree, a path   *)
(* has a slot, which is empty or holds a content.                          *)

IsTree(t) == t = [files |-> [p \in DOMAIN t.files |-> t.files[p]], dirs |-> t.dirs]

Slot(t, p) == IF p \in DOMAIN t.files THEN <<t.files[p]>> ELSE <<>>

LEMMA SlotWrite ==
  ASSUME NEW t, IsTree(t), NEW q, NEW c
  PROVE  /\ IsTree(Write(t, q, c)) /\ Write(t, q, c).dirs = t.dirs
         /\ \A p : Slot(Write(t, q, c), p) = IF p = q THEN <<c>> ELSE Slot(t, p)
  BY DEF IsTree, Write, Slot

LEMMA SlotDelete ==
  ASSUME NEW t, IsTree(t), NEW q
  PROVE  /\ IsTree(Delete(t, q)) /\ Delete(t, q).dirs = t.dirs
         /\ \A p : Slot(Delete(t, q), p) = IF p = q THEN <<>> ELSE Slot(t, p)
  BY DEF IsTree, Delete, Slot

LEMMA SlotParents ==
  ASSUME NEW t, IsTree(t), NEW q
  PROVE  /\ IsTree(MakeParents(t, q))
         /\ t.dirs \subseteq MakeParents(t, q).dirs
         /\ MakeParents(t, q).dirs \subseteq t.dirs \cup Ancestors(q)
         /\ \A p : Slot(MakeParents(t, q), p) = Slot(t, p)
  BY DEF IsTree, MakeParents, Slot

LEMMA SlotDomain ==
  ASSUME NEW t, NEW p
  PROVE  p \in DOMAIN t.files <=> Slot(t, p) # <<>>
  BY DEF Slot

LEMMA SlotsEqual ==
  ASSUME NEW t, IsTree(t), NEW u, IsTree(u), \A p : Slot(t, p) = Slot(u, p)
  PROVE  t.files = u.files
<1>1. \A p : p \in DOMAIN t.files <=> p \in DOMAIN u.files
  BY SlotDomain
<1>2. \A p \in DOMAIN t.files : t.files[p] = u.files[p]
  BY <1>1 DEF Slot
<1>3. DOMAIN t.files = DOMAIN u.files
  BY <1>1
<1>4. t.files = [p \in DOMAIN t.files |-> t.files[p]]
  BY DEF IsTree
<1>5. u.files = [p \in DOMAIN u.files |-> u.files[p]]
  BY DEF IsTree
<1> QED
  BY <1>2, <1>3, <1>4, <1>5

(* What an entry does to a slot, where can is whether it may be created. *)
Effect(can, entry, allowed, forbidden, p, slot) ==
  IF ~Carried(entry, allowed, forbidden) \/ p # Normalised(entry.path) THEN slot
  ELSE IF entry.action = "delete" THEN <<>>
  ELSE IF entry.action = "replace" THEN IF slot = <<>> THEN <<>> ELSE <<entry.content>>
  ELSE IF can THEN <<entry.content>> ELSE slot

LEMMA AppliedSlots ==
  ASSUME NEW t, IsTree(t), NEW entry, NEW allowed, NEW forbidden, NEW u,
         u = Applied(t, entry, allowed, forbidden).tree
  PROVE  LET q == Normalised(entry.path) IN
         /\ IsTree(u)
         /\ t.dirs \subseteq u.dirs /\ u.dirs \subseteq t.dirs \cup Ancestors(q)
         /\ \A p : Slot(u, p) = Effect(CanCreate(t, q), entry, allowed, forbidden, p, Slot(t, p))
<1> DEFINE q == Normalised(entry.path)
           c == entry.content
           m == MakeParents(t, q)
<1>1. CASE ~Carried(entry, allowed, forbidden)
  BY <1>1 DEF Applied, Effect
<1>2. CASE Carried(entry, allowed, forbidden) /\ entry.action = "delete"
  <2>1. CASE q \in DOMAIN t.files
    <3>1. u = Delete(t, q)
      BY <1>2, <2>1 DEF Applied
    <3> QED
      BY <1>2, <3>1, SlotDelete DEF Effect
  <2>2. CASE q \notin DOMAIN t.files
    <3>1. u = t /\ Slot(t, q) = <<>>
      BY <1>2, <2>2 DEF Applied, Slot
    <3> QED
      BY <1>2, <3>1 DEF Effect
  <2> QED
    BY <2>1, <2>2
<1>3. CASE Carried(entry, allowed, forbidden) /\ entry.action = "replace"
  <2>1. CASE q \in DOMAIN t.files
    <3>1. u = Write(t, q, c) /\ Slot(t, q) # <<>>
      BY <1>3, <2>1 DEF Applied, Slot
    <3> QED
      BY <1>3, <3>1, SlotWrite DEF Effect
  <2>2. CASE q \notin DOMAIN t.files
    <3>1. u = t /\ Slot(t, q) = <<>>
      BY <1>3, <2>2 DEF Applied, Slot
    <3> QED
      BY <1>3, <3>1 DEF Effect
  <2> QED
    BY <2>1, <2>2
<1>4. CASE Carried(entry, allowed, forbidden) /\ entry.action \notin {"delete", "replace"}
  <2>1. CASE CanCreate(t, q)
    <3>1. u = Write(m, q, c)
      BY <1>4, <2>1 DEF Applied
    <3>2. IsTree(m) /\ t.dirs \subseteq m.dirs /\ m.dirs \subseteq t.dirs \cup Ancestors(q)
      BY SlotParents
    <3>3. IsTree(u) /\ u.dirs = m.dirs
      BY <3>1, <3>2, SlotWrite
    <3>4. \A p : Slot(u, p) = IF p = q THEN <<c>> ELSE Slot(t, p)
      BY <3>1, <3>2, SlotWrite, SlotParents
    <3> QED
      BY <1>4, <2>1, <3>2, <3>3, <3>4 DEF Effect
  <2>2. CASE ~CanCreate(t, q)
    <3>1. u = m
      BY <1>4, <2>2 DEF Applied
    <3> QED
      BY <1>4, <2>2, <3>1, SlotParents DEF Effect
  <2> QED
    BY <2>1, <2>2
<1> QED
  BY <1>1, <1>2, <1>3, <1>4

IsHistory(h, tree, files, allowed, forbidden) ==
  /\ h[0] = tree
  /\ \A i \in 1..Len(files) : h[i] = Applied(h[i - 1], files[i], allowed, forbidden).tree

LEMMA ApplyHistory ==
  ASSUME NEW E, NEW files \in Seq(E), NEW tree, NEW allowed, NEW forbidden
  PROVE  \E h : /\ IsHistory(h, tree, files, allowed, forbidden)
                /\ ApplyManifest(tree, files, allowed, forbidden).tree = h[Len(files)]
<1> DEFINE n == Len(files)
           base == Begun(tree)
           Step(i, r) == Continued(r, files[i], allowed, forbidden)
           Shape(r, m) == r = [i \in 0..m |-> IF i = 0 THEN base ELSE Step(i, r[i - 1])]
           f == CHOOSE r : Shape(r, n)
           H == {m \in 0..n : \E r : Shape(r, m)}
<1>1. n \in Nat
  OBVIOUS
<1>2. ApplyManifest(tree, files, allowed, forbidden) = f[n]
  BY DEF ApplyManifest
<1>3. base.tree = tree /\ base.stopped = FALSE
  BY DEF Begun
<1>4. \A i, r : r.stopped = FALSE =>
        /\ Step(i, r).stopped = FALSE
        /\ Step(i, r).tree = Applied(r.tree, files[i], allowed, forbidden).tree
  BY DEF Continued, ContinueAfter
<1> HIDE DEF n, base, Step
<1>5. 0 \in H
  <2> DEFINE r == [i \in 0..0 |-> base]
  <2>1. Shape(r, 0)
    OBVIOUS
  <2> HIDE DEF r
  <2>2. \E t : Shape(t, 0)
    BY <2>1
  <2>3. 0 \in 0..n
    BY <1>1
  <2> QED
    BY <2>2, <2>3
<1>6. ASSUME NEW m \in 1..n, m - 1 \in H PROVE m \in H
  <2>1. PICK r : Shape(r, m - 1)
    BY <1>6
  <2>2. m \in Nat /\ m - 1 \in Nat /\ m \in 0..n
    BY <1>1
  <2> DEFINE q == [i \in 0..m |-> IF i = m THEN Step(m, r[m - 1]) ELSE r[i]]
  <2>3. q[0] = base
    BY <2>1, <2>2
  <2>4. \A i \in 1..m : q[i] = Step(i, q[i - 1])
    <3> TAKE i \in 1..m
    <3>1. CASE i = m
      BY <2>2, <3>1
    <3>2. CASE i # m
      <4>1. i \in 0..m - 1 /\ i - 1 \in 0..m - 1 /\ i # 0
        BY <2>2, <3>2
      <4>2. r[i] = Step(i, r[i - 1])
        BY <2>1, <2>2, <4>1
      <4>3. q[i] = r[i] /\ q[i - 1] = r[i - 1]
        BY <2>2, <3>2, <4>1
      <4> QED
        BY <4>2, <4>3
    <3> QED
      BY <3>1, <3>2
  <2>5. q = [i \in 0..m |-> q[i]]
    OBVIOUS
  <2> HIDE DEF q
  <2>6. \A i \in 0..m : q[i] = IF i = 0 THEN base ELSE Step(i, q[i - 1])
    BY <2>2, <2>3, <2>4
  <2>7. Shape(q, m)
    BY <2>5, <2>6
  <2>8. \E t : Shape(t, m)
    BY <2>7
  <2> QED
    BY <2>2, <2>8
<1>7. Shape(f, n)
  <2>1. \A m \in 0..n : m \in H
    <3> HIDE DEF H
    <3> QED
      BY <1>1, <1>5, <1>6, Induction
  <2>2. n \in H
    BY <1>1, <2>1
  <2> QED
    BY <2>2
<1> HIDE DEF f
<1> DEFINE h == [i \in 0..n |-> f[i].tree]
           K == {i \in 0..n : f[i].stopped = FALSE}
<1>8. \A i \in 0..n : i \in K
  <2>1. 0 \in K
    BY <1>1, <1>3, <1>7
  <2>2. ASSUME NEW i \in 1..n, i - 1 \in K PROVE i \in K
    <3>1. f[i] = Step(i, f[i - 1]) /\ i \in 0..n
      BY <1>1, <1>7
    <3>2. f[i - 1].stopped = FALSE
      BY <2>2
    <3> QED
      BY <1>4, <3>1, <3>2
  <2> HIDE DEF K
  <2> QED
    BY <1>1, <2>1, <2>2, Induction
<1>9. h[0] = tree
  BY <1>1, <1>3, <1>7
<1>10. ASSUME NEW i \in 1..n PROVE h[i] = Applied(h[i - 1], files[i], allowed, forbidden).tree
  <2>1. f[i] = Step(i, f[i - 1]) /\ i \in 0..n /\ i - 1 \in 0..n
    BY <1>1, <1>7
  <2>2. f[i - 1].stopped = FALSE
    BY <1>8, <2>1
  <2>3. f[i].tree = Applied(f[i - 1].tree, files[i], allowed, forbidden).tree
    BY <1>4, <2>1, <2>2
  <2> QED
    BY <2>1, <2>3
<1>11. h[n] = f[n].tree
  BY <1>1
<1> HIDE DEF h
<1>12. IsHistory(h, tree, files, allowed, forbidden)
  BY <1>9, <1>10 DEF IsHistory, n
<1> QED
  BY <1>2, <1>11, <1>12 DEF n

Entries == [absolute : BOOLEAN, path : Path, action : STRING, content : STRING]

LEMMA HistoryTrees ==
  ASSUME NEW E, NEW files \in Seq(E), NEW tree, IsTree(tree), NEW allowed, NEW forbidden,
         NEW h, IsHistory(h, tree, files, allowed, forbidden)
  PROVE  \A i \in 0..Len(files) : IsTree(h[i])
<1> DEFINE H == {i \in 0..Len(files) : IsTree(h[i])}
<1>1. 0 \in H
  BY DEF IsHistory
<1>2. ASSUME NEW i \in 1..Len(files), i - 1 \in H PROVE i \in H
  BY <1>2, AppliedSlots DEF IsHistory
<1>3. \A i \in 0..Len(files) : i \in H
  <2>1. Len(files) \in Nat
    OBVIOUS
  <2> HIDE DEF H
  <2> QED
    BY <1>1, <1>2, <2>1, Induction
<1> QED
  BY <1>3

(* An entry that is carried out has a path that may be changed. *)
LEMMA CarriedMayChange ==
  ASSUME NEW entry, NEW allowed, NEW forbidden, Carried(entry, allowed, forbidden)
  PROVE  MayChange(Normalised(entry.path), allowed, forbidden)
  BY DEF Carried, ValidPath, Checked, InsideRoot, MayChange

(* Only files change that a package may change (runtime.py:70-193). *)
THEOREM Confinement ==
  ASSUME NEW E, NEW files \in Seq(E), NEW tree, IsTree(tree), NEW allowed, NEW forbidden
  PROVE  ChangesAllowed(tree, files, allowed, forbidden)
<1>1. PICK h : /\ IsHistory(h, tree, files, allowed, forbidden)
               /\ ApplyManifest(tree, files, allowed, forbidden).tree = h[Len(files)]
  BY ApplyHistory
<1> DEFINE H == {i \in 0..Len(files) :
                   \A p : Slot(h[i], p) = Slot(tree, p) \/ MayChange(p, allowed, forbidden)}
<1>2. 0 \in H
  BY <1>1 DEF IsHistory
<1>3. ASSUME NEW i \in 1..Len(files), i - 1 \in H PROVE i \in H
  <2>1. h[i] = Applied(h[i - 1], files[i], allowed, forbidden).tree
    BY <1>1 DEF IsHistory
  <2>2. IsTree(h[i - 1])
    <3>1. \A k \in 0..Len(files) : IsTree(h[k])
      BY <1>1, HistoryTrees
    <3>2. i - 1 \in 0..Len(files)
      OBVIOUS
    <3> QED
      BY <3>1, <3>2
  <2>3. ASSUME NEW p PROVE Slot(h[i], p) = Slot(tree, p) \/ MayChange(p, allowed, forbidden)
    <3>1. Slot(h[i - 1], p) = Slot(tree, p) \/ MayChange(p, allowed, forbidden)
      BY <1>3
    <3>2. CASE Carried(files[i], allowed, forbidden) /\ p = Normalised(files[i].path)
      BY <3>2, CarriedMayChange
    <3>3. CASE ~(Carried(files[i], allowed, forbidden) /\ p = Normalised(files[i].path))
      <4>1. Slot(h[i], p) = Slot(h[i - 1], p)
        BY <2>1, <2>2, <3>3, AppliedSlots DEF Effect
      <4> QED
        BY <3>1, <4>1
    <3> QED
      BY <3>2, <3>3
  <2> QED
    BY <2>3
<1>4. \A i \in 0..Len(files) : i \in H
  <2>1. Len(files) \in Nat
    OBVIOUS
  <2> HIDE DEF H
  <2> QED
    BY <1>2, <1>3, <2>1, Induction
<1> QED
  <2>1. SUFFICES ASSUME NEW p \in Changed(tree.files, h[Len(files)].files)
                 PROVE  MayChange(p, allowed, forbidden)
    BY <1>1 DEF ChangesAllowed
  <2>2. Slot(h[Len(files)], p) # Slot(tree, p)
    BY DEF Changed, Slot
  <2> QED
    BY <1>4, <2>2

-----------------------------------------------------------------------------
(* Manifests that are applied again.  Where no path of the manifest lies     *)
(* below another, whether a path may be created never changes while it is   *)
(* applied: what each entry does to a slot is fixed in advance.            *)

Framed(t, tree, files) ==
  \A j \in 1..Len(files) :
    LET p == Normalised(files[j].path) IN
    /\ p \in t.dirs <=> p \in tree.dirs
    /\ \A a \in Ancestors(p) : Slot(t, a) = Slot(tree, a)

LEMMA FramedCan ==
  ASSUME NEW t, NEW tree, NEW files, Framed(t, tree, files), NEW j \in 1..Len(files)
  PROVE  CanCreate(t, Normalised(files[j].path)) <=> CanCreate(tree, Normalised(files[j].path))
<1> DEFINE p == Normalised(files[j].path)
<1>1. p \in t.dirs <=> p \in tree.dirs
  BY DEF Framed
<1>2. \A a \in Ancestors(p) : Slot(t, a) = Slot(tree, a)
  BY DEF Framed
<1>3. \A a \in Ancestors(p) : a \in DOMAIN t.files <=> a \in DOMAIN tree.files
  BY <1>2, SlotDomain
<1>4. BelowFile(t, p) <=> BelowFile(tree, p)
  BY <1>3 DEF BelowFile
<1> QED
  BY <1>1, <1>4 DEF CanCreate

LEMMA FramedStep ==
  ASSUME NEW files \in Seq(Entries), NoneBelowAnother(files), NEW allowed, NEW forbidden,
         NEW t, IsTree(t), NEW tree, Framed(t, tree, files), NEW i \in 1..Len(files),
         NEW u, u = Applied(t, files[i], allowed, forbidden).tree
  PROVE  Framed(u, tree, files)
<1> DEFINE q == Normalised(files[i].path)
<1>1. \A k \in 1..Len(files) : Normalised(files[k].path) \in Path
  <2> TAKE k \in 1..Len(files)
  <2>1. files[k] \in Entries
    OBVIOUS
  <2>2. files[k].path \in Path
    BY <2>1 DEF Entries
  <2> QED
    BY <2>2, NormalisedType
<1>2. t.dirs \subseteq u.dirs /\ u.dirs \subseteq t.dirs \cup Ancestors(q)
  BY AppliedSlots
<1>3. \A a : a # q => Slot(u, a) = Slot(t, a)
  BY AppliedSlots DEF Effect
<1>4. SUFFICES ASSUME NEW j \in 1..Len(files)
               PROVE  LET p == Normalised(files[j].path) IN
                      /\ p \in u.dirs <=> p \in tree.dirs
                      /\ \A a \in Ancestors(p) : Slot(u, a) = Slot(tree, a)
  BY DEF Framed
<1> DEFINE p == Normalised(files[j].path)
<1>5. i \in DOMAIN files /\ j \in DOMAIN files
  OBVIOUS
<1>6. p \notin Ancestors(q)
  <2>1. p = q \/ ~IsPrefix(p, q)
    BY <1>5 DEF NoneBelowAnother
  <2> QED
    BY <1>1, <2>1, AncestorsBelow
<1>7. q \notin Ancestors(p)
  <2>1. q = p \/ ~IsPrefix(q, p)
    BY <1>5 DEF NoneBelowAnother
  <2> QED
    BY <1>1, <2>1, AncestorsBelow
<1>8. p \in t.dirs <=> p \in tree.dirs
  BY DEF Framed
<1>9. \A a \in Ancestors(p) : Slot(t, a) = Slot(tree, a)
  BY DEF Framed
<1>10. p \in u.dirs <=> p \in tree.dirs
  BY <1>2, <1>6, <1>8
<1>11. \A a \in Ancestors(p) : Slot(u, a) = Slot(tree, a)
  BY <1>3, <1>7, <1>9
<1> QED
  BY <1>10, <1>11

(* A history from a framed tree acts on each slot by itself; its manifest is
   part of the one that frames. *)
Within(files, all) == \A i \in 1..Len(files) : \E k \in 1..Len(all) : files[i] = all[k]

LEMMA HistorySlots ==
  ASSUME NEW all \in Seq(Entries), NoneBelowAnother(all), NEW allowed, NEW forbidden,
         NEW files \in Seq(Entries), Within(files, all),
         NEW tree, NEW t, IsTree(t), Framed(t, tree, all),
         NEW h, IsHistory(h, t, files, allowed, forbidden)
  PROVE  /\ \A i \in 0..Len(files) : Framed(h[i], tree, all)
         /\ \A i \in 1..Len(files) : \A p :
              Slot(h[i], p) = Effect(CanCreate(tree, p), files[i], allowed, forbidden, p,
                                     Slot(h[i - 1], p))
<1> DEFINE H == {i \in 0..Len(files) : Framed(h[i], tree, all)}
<1>0. Len(files) \in Nat
  OBVIOUS
<1>1. \A i \in 0..Len(files) : IsTree(h[i])
  BY HistoryTrees
<1>2. \A i \in 1..Len(files) : h[i] = Applied(h[i - 1], files[i], allowed, forbidden).tree
  BY DEF IsHistory
<1>3. 0 \in H
  BY DEF IsHistory
<1>4. ASSUME NEW i \in 1..Len(files), i - 1 \in H PROVE i \in H
  <2>1. IsTree(h[i - 1]) /\ Framed(h[i - 1], tree, all)
    BY <1>1, <1>4
  <2>2. PICK k \in 1..Len(all) : files[i] = all[k]
    BY DEF Within
  <2>3. h[i] = Applied(h[i - 1], all[k], allowed, forbidden).tree
    BY <1>2, <2>2
  <2>4. Framed(h[i], tree, all)
    BY <2>1, <2>3, FramedStep
  <2> QED
    BY <2>4
<1>5. \A i \in 0..Len(files) : i \in H
  <2> HIDE DEF H
  <2> QED
    BY <1>0, <1>3, <1>4, Induction
<1>6. ASSUME NEW i \in 1..Len(files), NEW p
      PROVE  Slot(h[i], p) = Effect(CanCreate(tree, p), files[i], allowed, forbidden, p,
                                    Slot(h[i - 1], p))
  <2> DEFINE q == Normalised(files[i].path)
  <2>1. i - 1 \in 0..Len(files)
    OBVIOUS
  <2>2. IsTree(h[i - 1]) /\ Framed(h[i - 1], tree, all)
    BY <1>1, <1>5, <2>1
  <2>3. Slot(h[i], p) = Effect(CanCreate(h[i - 1], q), files[i], allowed, forbidden, p,
                               Slot(h[i - 1], p))
    BY <1>2, <2>2, AppliedSlots
  <2>4. CanCreate(h[i - 1], q) <=> CanCreate(tree, q)
    <3>1. PICK k \in 1..Len(all) : files[i] = all[k]
      BY DEF Within
    <3> QED
      BY <2>2, <3>1, FramedCan
  <2>5. CASE p = q
    BY <2>3, <2>4, <2>5 DEF Effect
  <2>6. CASE p # q
    BY <2>3, <2>6 DEF Effect
  <2> QED
    BY <2>5, <2>6
<1> QED
  BY <1>5, <1>6

(* a are the slots of a path under the first n entries. *)
Acts(a, n, can, files, allowed, forbidden, p) ==
  \A i \in 1..n : a[i] = Effect(can, files[i], allowed, forbidden, p, a[i - 1])

(* Some entry sets a slot whatever was in it. *)
Settles(can, entry, allowed, forbidden, p) ==
  /\ Carried(entry, allowed, forbidden) /\ p = Normalised(entry.path)
  /\ entry.action = "delete" \/ (entry.action # "replace" /\ can)

(* Slots that were equal at first stay equal. *)
LEMMA SlotsStay ==
  ASSUME NEW n \in Nat, NEW can, NEW files, NEW allowed, NEW forbidden, NEW p,
         NEW a, NEW b, a[0] = b[0],
         Acts(a, n, can, files, allowed, forbidden, p),
         Acts(b, n, can, files, allowed, forbidden, p)
  PROVE  a[n] = b[n]
<1> DEFINE H == {i \in 0..n : a[i] = b[i]}
<1>1. 0 \in H
  OBVIOUS
<1>2. ASSUME NEW i \in 1..n, i - 1 \in H PROVE i \in H
  BY <1>2 DEF Acts
<1>3. \A i \in 0..n : i \in H
  <2> HIDE DEF H
  <2> QED
    BY <1>1, <1>2, Induction
<1> QED
  BY <1>3

(* Slots are equal behind an entry that settles them. *)
LEMMA SlotsSettle ==
  ASSUME NEW n \in Nat, NEW can, NEW files, NEW allowed, NEW forbidden, NEW p,
         NEW a, NEW b, NEW k \in 1..n, Settles(can, files[k], allowed, forbidden, p),
         Acts(a, n, can, files, allowed, forbidden, p),
         Acts(b, n, can, files, allowed, forbidden, p)
  PROVE  a[n] = b[n]
<1> DEFINE H == {i \in 0..n : i >= k => a[i] = b[i]}
<1>1. 0 \in H
  OBVIOUS
<1>2. ASSUME NEW i \in 1..n, i - 1 \in H PROVE i \in H
  <2>1. CASE i < k
    BY <2>1
  <2>2. CASE i = k
    <3>1. \A s, t : Effect(can, files[k], allowed, forbidden, p, s)
                     = Effect(can, files[k], allowed, forbidden, p, t)
      BY DEF Effect, Settles
    <3>2. /\ a[k] = Effect(can, files[k], allowed, forbidden, p, a[k - 1])
          /\ b[k] = Effect(can, files[k], allowed, forbidden, p, b[k - 1])
      BY DEF Acts
    <3> QED
      BY <2>2, <3>1, <3>2
  <2>3. CASE i > k
    <3>1. a[i - 1] = b[i - 1]
      BY <1>2, <2>3
    <3>2. /\ a[i] = Effect(can, files[i], allowed, forbidden, p, a[i - 1])
          /\ b[i] = Effect(can, files[i], allowed, forbidden, p, b[i - 1])
      BY DEF Acts
    <3> QED
      BY <3>1, <3>2
  <2> QED
    BY <2>1, <2>2, <2>3
<1>3. \A i \in 0..n : i \in H
  <2> HIDE DEF H
  <2> QED
    BY <1>1, <1>2, Induction
<1>4. n \in H
  BY <1>3
<1> QED
  BY <1>4

(* A slot changes only under an entry for its path; an empty one that cannot
   be created stays empty. *)
LEMMA SlotsKept ==
  ASSUME NEW n \in Nat, NEW can, NEW files, NEW allowed, NEW forbidden, NEW p,
         NEW a, Acts(a, n, can, files, allowed, forbidden, p),
         \/ \A i \in 1..n :
              ~(Carried(files[i], allowed, forbidden) /\ p = Normalised(files[i].path))
         \/ a[0] = <<>> /\ ~can
  PROVE  a[n] = a[0]
<1> DEFINE H == {i \in 0..n : a[i] = a[0]}
<1>1. 0 \in H
  OBVIOUS
<1>2. ASSUME NEW i \in 1..n, i - 1 \in H PROVE i \in H
  <2>1. a[i] = Effect(can, files[i], allowed, forbidden, p, a[i - 1]) /\ a[i - 1] = a[0]
    BY <1>2 DEF Acts
  <2>2. a[i] = a[0]
    BY <2>1 DEF Effect
  <2> QED
    BY <2>2
<1>3. \A i \in 0..n : i \in H
  <2> HIDE DEF H
  <2> QED
    BY <1>1, <1>2, Induction
<1> QED
  BY <1>3

(* A job cut short is executed again with another manifest: only what the
   first wrote and the second does not settle can tell the difference
   (runtime.py:123-193 under implementation.py:96-130). *)
THEOREM Convergence ==
  ASSUME NEW first \in Seq(Entries), NEW second \in Seq(Entries),
         NoneBelowAnother(first \o second),
         NEW tree, IsTree(tree), IsFileTree(tree), NEW allowed, NEW forbidden
  PROVE  RepeatConverges(tree, first, second, allowed, forbidden)
<1> DEFINE all == first \o second
           M == Len(second)
<1>1. SUFFICES ASSUME NEW n \in 0..Len(first), NEW begun, begun = SubSeq(first, 1, n),
                      NEW cut, cut = ApplyManifest(tree, begun, allowed, forbidden).tree,
                      NEW p \in Changed(ApplyManifest(tree, second, allowed, forbidden).tree.files,
                                        ApplyManifest(cut, second, allowed, forbidden).tree.files)
               PROVE  /\ p \in Paths(Carrying(begun, allowed, forbidden))
                      /\ p \notin Paths({e \in Carrying(second, allowed, forbidden) :
                                          e.action # "replace"})
  BY DEF RepeatConverges
<1>2. /\ begun \in Seq(Entries) /\ Len(begun) = n /\ n \in Nat
      /\ \A i \in 1..n : begun[i] = first[i]
      /\ M \in Nat /\ all \in Seq(Entries) /\ Len(all) = Len(first) + M
  BY <1>1
<1>3. Within(begun, all) /\ Within(second, all)
  <2>1. \A i \in 1..n : begun[i] = all[i] /\ i \in 1..Len(all)
    BY <1>2
  <2>2. \A i \in 1..M : second[i] = all[Len(first) + i] /\ Len(first) + i \in 1..Len(all)
    BY <1>2
  <2> HIDE DEF all
  <2> QED
    BY <1>2, <2>1, <2>2 DEF Within
<1> HIDE DEF all, M
<1>4. NoneBelowAnother(all)
  BY DEF all
<1>5. PICK f : /\ IsHistory(f, tree, begun, allowed, forbidden)
               /\ cut = f[Len(begun)]
  BY <1>1, <1>2, ApplyHistory
<1>6. PICK h : /\ IsHistory(h, tree, second, allowed, forbidden)
               /\ ApplyManifest(tree, second, allowed, forbidden).tree = h[Len(second)]
  BY ApplyHistory
<1>7. PICK g : /\ IsHistory(g, cut, second, allowed, forbidden)
               /\ ApplyManifest(cut, second, allowed, forbidden).tree = g[Len(second)]
  BY ApplyHistory
<1>8. Framed(tree, tree, all)
  BY DEF Framed
<1>9. /\ \A i \in 0..Len(begun) : Framed(f[i], tree, all)
      /\ \A i \in 1..Len(begun) : \A q :
           Slot(f[i], q) = Effect(CanCreate(tree, q), begun[i], allowed, forbidden, q,
                                  Slot(f[i - 1], q))
  <2>1. begun \in Seq(Entries) /\ all \in Seq(Entries) /\ Within(begun, all)
    BY <1>2, <1>3
  <2>2. IsHistory(f, tree, begun, allowed, forbidden)
    BY <1>5
  <2>3. \A i \in 0..Len(begun) : Framed(f[i], tree, all)
    BY <1>4, <1>8, <2>1, <2>2, HistorySlots
  <2>4. \A i \in 1..Len(begun) : \A q :
          Slot(f[i], q) = Effect(CanCreate(tree, q), begun[i], allowed, forbidden, q,
                                 Slot(f[i - 1], q))
    BY <1>4, <1>8, <2>1, <2>2, HistorySlots
  <2> QED
    BY <2>3, <2>4
<1>10. \A i \in 0..Len(begun) : IsTree(f[i])
  BY <1>2, <1>5, HistoryTrees
<1>11. IsTree(cut) /\ Framed(cut, tree, all)
  BY <1>2, <1>5, <1>9, <1>10
<1>12. \A i \in 1..Len(second) : \A q :
         Slot(h[i], q) = Effect(CanCreate(tree, q), second[i], allowed, forbidden, q,
                                Slot(h[i - 1], q))
  BY <1>2, <1>3, <1>4, <1>6, <1>8, HistorySlots
<1>13. \A i \in 1..Len(second) : \A q :
         Slot(g[i], q) = Effect(CanCreate(tree, q), second[i], allowed, forbidden, q,
                                Slot(g[i - 1], q))
  BY <1>2, <1>3, <1>4, <1>7, <1>11, HistorySlots
<1> DEFINE c == [i \in 0..n |-> Slot(f[i], p)]
           a == [i \in 0..M |-> Slot(h[i], p)]
           b == [i \in 0..M |-> Slot(g[i], p)]
           can == CanCreate(tree, p)
<1>14. Acts(c, n, can, begun, allowed, forbidden, p)
  <2>1. Len(begun) = n
    BY <1>2
  <2>2. \A i \in 1..n : Slot(f[i], p) = Effect(can, begun[i], allowed, forbidden, p, Slot(f[i - 1], p))
    BY <1>9, <2>1
  <2>3. \A i \in 1..n : i \in 0..n /\ i - 1 \in 0..n
    BY <1>2
  <2> HIDE DEF can
  <2> QED
    BY <2>2, <2>3 DEF Acts
<1>15. Acts(a, M, can, second, allowed, forbidden, p)
  BY <1>2, <1>12 DEF Acts, M
<1>16. Acts(b, M, can, second, allowed, forbidden, p)
  BY <1>2, <1>13 DEF Acts, M
<1>17. c[0] = Slot(tree, p) /\ a[0] = Slot(tree, p) /\ b[0] = c[n]
  BY <1>2, <1>5, <1>6, <1>7 DEF IsHistory
<1>18. a[M] # b[M]
  <2>1. Slot(h[M], p) # Slot(g[M], p)
    BY <1>1, <1>6, <1>7 DEF Changed, Slot, M
  <2> QED
    BY <1>2, <2>1
<1>19. ~can => Slot(tree, p) = <<>>
  BY DEF IsFileTree, CanCreate, BelowFile, Slot
<1> HIDE DEF a, b, c, can
<1>20. c[n] # c[0]
  <2>1. SUFFICES ASSUME c[n] = c[0] PROVE FALSE
    OBVIOUS
  <2>2. a[0] = b[0]
    BY <1>17, <2>1
  <2> QED
    BY <1>2, <1>15, <1>16, <1>18, <2>2, SlotsStay
<1>21. can
  <2>1. SUFFICES ASSUME ~can PROVE FALSE
    OBVIOUS
  <2>2. c[0] = <<>>
    BY <1>17, <1>19, <2>1
  <2> QED
    BY <1>2, <1>14, <1>20, <2>1, <2>2, SlotsKept
<1>22. PICK i \in 1..n : Carried(begun[i], allowed, forbidden) /\ p = Normalised(begun[i].path)
  BY <1>2, <1>14, <1>20, SlotsKept
<1>23. p \in Paths(Carrying(begun, allowed, forbidden))
  <2>1. begun[i] \in ToSet(begun)
    BY <1>2 DEF ToSet
  <2> QED
    BY <1>22, <2>1 DEF Paths, Carrying
<1>24. ASSUME NEW e \in Carrying(second, allowed, forbidden),
              e.action # "replace", p = Normalised(e.path)
       PROVE  FALSE
  <2>1. PICK k \in 1..M : e = second[k]
    BY DEF Carrying, ToSet, M
  <2>2. Settles(can, second[k], allowed, forbidden, p)
    BY <1>21, <1>24, <2>1 DEF Settles, Carrying
  <2> QED
    BY <1>2, <1>15, <1>16, <1>18, <2>2, SlotsSettle
<1> QED
  BY <1>23, <1>24 DEF Paths
=============================================================================
