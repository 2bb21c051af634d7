--------------------------- MODULE AlgorithmsProofs ---------------------------
(***************************************************************************)
(* The properties of Algorithms for all inputs of the shapes its           *)
(* assumptions name.                                                       *)
(***************************************************************************)
EXTENDS Algorithms, WorkspaceProofs

(* A state is an input, or none yet. *)
GivenInput ==
  \/ case = [kind |-> "none"]
  \/ case \in Plans \/ case \in Manifests \/ case \in Calls
  \/ case \in Payloads \/ case \in Saved \/ case \in Projects

LEMMA InputsGiven == Spec => []GivenInput
<1>1. Init => GivenInput
  BY DEF Init, GivenInput
<1>2. GivenInput /\ [Next]_case => GivenInput'
  BY DEF Next, GivenInput
<1> QED
  BY <1>1, <1>2, PTL DEF Spec

LEMMA KindOf ==
  ASSUME GivenInput
  PROVE  /\ case.kind = "plan" => case \in Plans
         /\ case.kind = "manifest" => case \in Manifests
         /\ case.kind = "call" => case \in Calls
         /\ case.kind = "payload" => case \in Payloads
         /\ case.kind = "settings" => case \in Saved
         /\ case.kind = "project" => case \in Projects
<1>1. \A x \in Plans : x.kind = "plan"
  BY PlansAssumption
<1>2. \A x \in Manifests : x.kind = "manifest"
  BY ManifestsAssumption
<1>3. \A x \in Calls : x.kind = "call"
  BY CallsAssumption
<1>4. \A x \in Payloads : x.kind = "payload"
  BY PayloadsAssumption
<1>5. \A x \in Saved : x.kind = "settings"
  BY SavedAssumption
<1>6. \A x \in Projects : x.kind = "project"
  BY ProjectsAssumption
<1> QED
  BY <1>1, <1>2, <1>3, <1>4, <1>5, <1>6 DEF GivenInput

-----------------------------------------------------------------------------
(* Plans.  The names that the code itself gives are among the texts.        *)

Texts ==
  STRING \cup {"", "wave_0", "wave_1", "infrastructure_setup", "infrastructure", "/", ".",
               "*", ".json", ".md", "Dockerfile", "docker-compose", ".yml"}
Patterns == Seq(Seq(Texts))
WorkPackages ==
  [key : Texts, role : Texts, wave : Texts,
   allowed : SUBSET Patterns, forbidden : SUBSET Patterns, deps : SUBSET STRING]
Scopes == [alias : BOOLEAN, packages : Seq(WorkPackages)]
Waves == [key : Texts, members : SUBSET Texts]

LEMMA LastListed ==
  ASSUME NEW waves \in Seq(Waves), NEW key
  PROVE  LET i == LastListing(waves, key) IN
         /\ i \in 0..Len(waves)
         /\ i # 0 => key \in waves[i].members
         /\ \A j \in 1..Len(waves) : key \in waves[j].members => i # 0 /\ j <= i
<1> DEFINE T == {i \in DOMAIN waves : key \in waves[i].members}
<1>1. DOMAIN waves = 1..Len(waves) /\ Len(waves) \in Nat
  OBVIOUS
<1>2. LastListing(waves, key) = IF T = {} THEN 0 ELSE CHOOSE i \in T : \A j \in T : j <= i
  BY DEF LastListing
<1>3. \A j \in 1..Len(waves) : key \in waves[j].members => j \in T
  BY <1>1
<1>4. \A j \in T : j \in 1..Len(waves) /\ key \in waves[j].members
  BY <1>1
<1> HIDE DEF T
<1>5. CASE T = {}
  BY <1>1, <1>2, <1>3, <1>5
<1>6. CASE T # {}
  <2>1. \E i \in T : \A j \in T : j <= i
    BY <1>1, <1>4, <1>6, GreatestNat
  <2>2. LastListing(waves, key) \in T /\ \A j \in T : j <= LastListing(waves, key)
    BY <1>2, <1>6, <2>1
  <2> QED
    BY <1>3, <1>4, <2>2
<1> QED
  BY <1>5, <1>6

(* What each step does to one package. *)
Same(p, q) ==
  p.key = q.key /\ p.role = q.role /\ p.allowed = q.allowed /\ p.deps = q.deps

LEMMA InAnotherWave ==
  ASSUME NEW p \in WorkPackages, NEW w \in Texts
  PROVE  /\ [p EXCEPT !.wave = w] \in WorkPackages
         /\ Same([p EXCEPT !.wave = w], p)
         /\ [p EXCEPT !.wave = w].wave = w
  BY DEF WorkPackages, Same

LEMMA UnblockedShape ==
  ASSUME NEW p \in WorkPackages
  PROVE  /\ Unblocked(p) \in WorkPackages
         /\ Same(Unblocked(p), p) /\ Unblocked(p).wave = p.wave
  BY DEF WorkPackages, Same, Unblocked

LEMMA AvoidingShape ==
  ASSUME NEW p \in WorkPackages, NEW paths
  PROVE  /\ Same(Avoiding(p, paths), p) /\ Avoiding(p, paths).wave = p.wave
         /\ Avoiding(p, paths).forbidden = p.forbidden \cup paths
  BY DEF WorkPackages, Same, Avoiding

LEMMA InfraShape ==
  ASSUME NEW w \in Texts
  PROVE  InfraPackage(w) \in WorkPackages
<1>1. InfraPaths \subseteq Patterns
  <2> DEFINE S == Seq(Texts)
  <2>1. {"*", ".json", ".md", "Dockerfile", "docker-compose", ".yml"} \subseteq Texts
    BY DEF Texts
  <2>2. {<<"*", ".json">>, <<"*", ".md">>, <<"Dockerfile">>, <<"docker-compose", ".yml">>}
          \subseteq S
    BY <2>1
  <2> HIDE DEF S
  <2>3. {<<<<"*", ".json">>>>, <<<<"*", ".md">>>>, <<<<"Dockerfile">>>>,
         <<<<"docker-compose", ".yml">>>>} \subseteq Seq(S)
    BY <2>2
  <2> QED
    BY <2>3 DEF InfraPaths, Patterns, S, Star
<1> HIDE DEF Patterns, InfraPaths
<1> QED
  BY <1>1 DEF InfraPackage, WorkPackages, Texts

LEMMA NumberedKeysCount == Len(NumberedKeys) \in Nat /\ Len(NumberedKeys) >= 2
<1> DEFINE K == STRING \ {""}
<1>1. NumberedKeys \in Seq(K) /\ Len(NumberedKeys) >= 2
  BY NumberedKeysAssumption
<1> HIDE DEF K
<1> QED
  BY <1>1

Unnamed(wave) == wave.key = ""

LEMMA NamedShape ==
  ASSUME NEW wave \in Waves, NEW i \in 1..Len(NumberedKeys)
  PROVE  /\ Named(wave, i) \in Waves /\ Named(wave, i).key # ""
         /\ ~Unnamed(wave) => Named(wave, i).key = wave.key
<1>1. NumberedKeys[i] \in STRING \ {""}
  <2> DEFINE K == STRING \ {""}
  <2>1. NumberedKeys \in Seq(K)
    BY NumberedKeysAssumption
  <2> HIDE DEF K
  <2>2. NumberedKeys[i] \in K
    BY <2>1
  <2> QED
    BY <2>2 DEF K
<1>2. NumberedKeys[i] \in Texts
  BY <1>1 DEF Texts
<1> HIDE DEF Texts
<1> QED
  BY <1>1, <1>2 DEF Named, Waves, Unnamed

(* Where a package stands behind _normalize_plan. *)
PlacedIn(p, waves) ==
  IF waves = <<>> THEN Assigned(p, waves)
  ELSE PlaceUnassigned(Assigned(p, waves), Named(waves[1], 1).key)

LEMMA PlacedShape ==
  ASSUME NEW p \in WorkPackages, NEW waves \in Seq(Waves), Len(waves) <= Len(NumberedKeys)
  PROVE  LET at == LastListing(waves, p.key) IN
         /\ PlacedIn(p, waves) \in WorkPackages
         /\ Same(PlacedIn(p, waves), p)
         /\ waves # <<>> /\ (at # 0 \/ p.wave = "") =>
              \E i \in 1..Len(waves) : PlacedIn(p, waves).wave = Named(waves[i], i).key
         /\ at # 0 /\ ~Unnamed(waves[at]) => PlacedIn(p, waves).wave = waves[at].key
<1> DEFINE at == LastListing(waves, p.key)
           a == Assigned(p, waves)
           q == PlacedIn(p, waves)
           first == Named(waves[1], 1).key
<1>1. at \in 0..Len(waves) /\ Len(waves) \in Nat /\ (waves # <<>> => 1 \in 1..Len(waves))
  BY LastListed
<1>2. \A i \in 1..Len(waves) : waves[i] \in Waves /\ waves[i].key \in Texts
  <2>1. \A w \in Waves : w.key \in Texts
    BY DEF Waves
  <2> QED
    BY <2>1
<1>3. Len(NumberedKeys) \in Nat
  BY NumberedKeysCount
<1>4. \A i \in 1..Len(waves) :
        /\ Named(waves[i], i) \in Waves /\ Named(waves[i], i).key \in Texts
        /\ Named(waves[i], i).key # ""
        /\ ~Unnamed(waves[i]) => Named(waves[i], i).key = waves[i].key
  <2> TAKE i \in 1..Len(waves)
  <2>1. i \in 1..Len(NumberedKeys)
    BY <1>1, <1>3
  <2> QED
    BY <1>2, <2>1, NamedShape DEF Waves
<1>5. a = IF at = 0 THEN p ELSE [p EXCEPT !.wave = waves[at].key]
  BY DEF Assigned
<1>6. q = IF waves = <<>> \/ a.wave # "" THEN a ELSE [a EXCEPT !.wave = first]
  BY DEF PlacedIn, PlaceUnassigned
<1> HIDE DEF at, q, first
<1>7. /\ a \in WorkPackages /\ Same(a, p)
      /\ at = 0 => a.wave = p.wave
      /\ at # 0 => a.wave = waves[at].key
  <2>1. CASE at = 0
    BY <1>5, <2>1 DEF Same
  <2>2. CASE at # 0
    <3>1. waves[at].key \in Texts
      BY <1>1, <1>2, <2>2
    <3> HIDE DEF a
    <3> QED
      BY <1>5, <2>2, <3>1, InAnotherWave
  <2> QED
    BY <2>1, <2>2
<1> HIDE DEF a
<1>8. /\ q \in WorkPackages /\ Same(q, p)
      /\ waves = <<>> \/ a.wave # "" => q.wave = a.wave
      /\ waves # <<>> /\ a.wave = "" => q.wave = first
  <2>1. CASE waves = <<>> \/ a.wave # ""
    BY <1>6, <1>7, <2>1
  <2>2. CASE ~(waves = <<>> \/ a.wave # "")
    <3>1. first \in Texts
      BY <1>1, <1>4, <2>2 DEF first
    <3>2. [a EXCEPT !.wave = first] \in WorkPackages /\ Same([a EXCEPT !.wave = first], a)
          /\ [a EXCEPT !.wave = first].wave = first
      BY <1>7, <3>1, InAnotherWave
    <3> QED
      BY <1>6, <1>7, <2>2, <3>2 DEF Same
  <2> QED
    BY <2>1, <2>2
<1>9. ASSUME at # 0, ~Unnamed(waves[at]) PROVE q.wave = waves[at].key
  BY <1>7, <1>8, <1>9 DEF Unnamed
<1>10. ASSUME waves # <<>>, at # 0 \/ p.wave = ""
       PROVE  \E i \in 1..Len(waves) : q.wave = Named(waves[i], i).key
  <2>1. CASE a.wave = ""
    <3>1. q.wave = Named(waves[1], 1).key /\ 1 \in 1..Len(waves)
      BY <1>1, <1>8, <1>10, <2>1 DEF first
    <3> QED
      BY <3>1
  <2>2. CASE a.wave # ""
    <3>1. at # 0 /\ a.wave = waves[at].key
      BY <1>7, <1>10, <2>2
    <3>2. at \in 1..Len(waves) /\ q.wave = Named(waves[at], at).key
      <4>1. at \in 1..Len(waves)
        BY <1>1, <3>1
      <4>2. Named(waves[at], at).key = waves[at].key
        BY <1>4, <2>2, <3>1, <4>1 DEF Unnamed
      <4> QED
        BY <1>8, <2>2, <3>1, <4>1, <4>2
    <3> QED
      BY <3>2
  <2> QED
    BY <2>1, <2>2
<1> QED
  BY <1>8, <1>9, <1>10 DEF at, q

LEMMA Normalizes ==
  ASSUME NEW scope \in Scopes, NEW waves \in Seq(Waves), Len(waves) <= Len(NumberedKeys)
  PROVE  LET n == NormalizePlan(MergePlan(scope, waves)) IN
         /\ n.packages \in Seq(WorkPackages) /\ Len(n.packages) = Len(scope.packages)
         /\ \A i \in 1..Len(scope.packages) :
              n.packages[i] = PlacedIn(scope.packages[i], waves)
         /\ n.waves \in Seq(Waves) /\ Len(n.waves) = Len(waves)
         /\ \A i \in 1..Len(waves) : n.waves[i] = Named(waves[i], i)
<1> DEFINE n == NormalizePlan(MergePlan(scope, waves))
           ps == scope.packages
           named == [i \in 1..Len(waves) |-> Named(waves[i], i)]
           placed == [i \in 1..Len(ps) |-> PlacedIn(ps[i], waves)]
<1>1. /\ ps \in Seq(WorkPackages) /\ DOMAIN ps = 1..Len(ps) /\ Len(ps) \in Nat
      /\ DOMAIN waves = 1..Len(waves) /\ Len(waves) \in Nat
      /\ waves = <<>> <=> Len(waves) = 0
  BY DEF Scopes
<1>2. named \in Seq(Waves) /\ Len(named) = Len(waves)
  <2>1. \A i \in 1..Len(waves) : Named(waves[i], i) \in Waves
    <3> TAKE i \in 1..Len(waves)
    <3>1. Len(NumberedKeys) \in Nat
      BY NumberedKeysCount
    <3>2. i \in 1..Len(NumberedKeys) /\ waves[i] \in Waves
      BY <1>1, <3>1
    <3> QED
      BY <3>2, NamedShape
  <2>2. named \in [1..Len(waves) -> Waves]
    BY <2>1
  <2> HIDE DEF named
  <2> QED
    BY <1>1, <2>2
<1>3. placed \in Seq(WorkPackages) /\ Len(placed) = Len(ps)
  <2>1. \A i \in 1..Len(ps) : PlacedIn(ps[i], waves) \in WorkPackages
    <3> TAKE i \in 1..Len(ps)
    <3>1. ps[i] \in WorkPackages
      BY <1>1
    <3> QED
      BY <3>1, PlacedShape
  <2>2. placed \in [1..Len(ps) -> WorkPackages]
    BY <2>1
  <2> HIDE DEF placed
  <2> QED
    BY <1>1, <2>2
<1>4. named = <<>> <=> waves = <<>>
  <2> HIDE DEF named
  <2> QED
    BY <1>1, <1>2
<1>5. n.waves = named
  BY <1>1 DEF NormalizePlan, MergePlan
<1>6. n.packages = placed
  <2> DEFINE merged == [i \in DOMAIN ps |-> Assigned(ps[i], waves)]
  <2>1. MergePlan(scope, waves) = [packages |-> merged, waves |-> waves]
    BY DEF MergePlan
  <2>2. n.packages = IF named = <<>> THEN merged
                     ELSE [i \in DOMAIN merged |-> PlaceUnassigned(merged[i], named[1].key)]
    <3> HIDE DEF merged
    <3> QED
      BY <1>1, <2>1 DEF NormalizePlan
  <2>3. CASE waves = <<>>
    <3>1. n.packages = merged
      BY <1>4, <2>2, <2>3
    <3> QED
      BY <1>1, <2>3, <3>1 DEF PlacedIn
  <2>4. CASE waves # <<>>
    <3>1. n.packages = [i \in DOMAIN merged |-> PlaceUnassigned(merged[i], named[1].key)]
      BY <1>4, <2>2, <2>4
    <3>2. named[1] = Named(waves[1], 1)
      BY <1>1, <2>4
    <3>3. \A i \in 1..Len(ps) : PlaceUnassigned(merged[i], named[1].key) = PlacedIn(ps[i], waves)
      <4> HIDE DEF named
      <4> QED
        BY <1>1, <2>4, <3>2 DEF PlacedIn
    <3>4. DOMAIN merged = 1..Len(ps)
      BY <1>1
    <3> HIDE DEF merged, named
    <3> QED
      BY <3>1, <3>3, <3>4
  <2> QED
    BY <2>3, <2>4
<1> HIDE DEF n
<1> QED
  BY <1>2, <1>3, <1>5, <1>6 DEF n

LEMMA Ensures ==
  ASSUME NEW plan, plan.packages \in Seq(WorkPackages), plan.waves \in Seq(Waves)
  PROVE  LET e == EnsureInfrastructure(plan) IN
         /\ e.packages \in Seq(WorkPackages)
         /\ plan.waves # <<>> => e.waves = plan.waves
         /\ \A i \in 1..Len(plan.packages) :
              \E j \in 1..Len(e.packages) : e.packages[j] = plan.packages[i]
         /\ \A j \in 1..Len(e.packages) :
              \/ e.packages[j].deps = {}
              \/ \E i \in 1..Len(plan.packages) : e.packages[j] = plan.packages[i]
<1> DEFINE e == EnsureInfrastructure(plan)
           ps == plan.packages
           waves == IF plan.waves = <<>> THEN <<[key |-> "wave_0", members |-> {}]>>
                    ELSE plan.waves
           infra == InfraPackage(waves[1].key)
<1>1. CASE \E p \in ToSet(plan.packages) : p.role = "infrastructure"
  <2>1. e = plan
    BY <1>1 DEF EnsureInfrastructure
  <2> QED
    BY <2>1
<1>2. CASE ~ \E p \in ToSet(plan.packages) : p.role = "infrastructure"
  <2>1. e.packages = <<infra>> \o ps /\ e.waves = waves
    BY <1>2 DEF EnsureInfrastructure
  <2>2. waves[1].key \in Texts
    <3>1. CASE plan.waves = <<>>
      BY <3>1 DEF Texts
    <3>2. CASE plan.waves # <<>>
      <4>1. plan.waves[1] \in Waves
        BY <3>2
      <4> QED
        BY <3>2, <4>1 DEF Waves
    <3> QED
      BY <3>1, <3>2
  <2>3. infra \in WorkPackages /\ infra.deps = {}
    <3> HIDE DEF waves
    <3> QED
      BY <2>2, InfraShape DEF InfraPackage
  <2> HIDE DEF infra, e
  <2>4. /\ e.packages \in Seq(WorkPackages) /\ Len(e.packages) = Len(ps) + 1
        /\ e.packages[1] = infra
        /\ \A i \in 1..Len(ps) : e.packages[i + 1] = ps[i]
    BY <2>1, <2>3
  <2>5. Len(ps) \in Nat
    OBVIOUS
  <2>6. ASSUME NEW i \in 1..Len(ps) PROVE \E j \in 1..Len(e.packages) : e.packages[j] = ps[i]
    <3>1. i + 1 \in 1..Len(e.packages)
      BY <2>4, <2>5
    <3> QED
      BY <2>4, <3>1
  <2>7. ASSUME NEW j \in 1..Len(e.packages), e.packages[j].deps # {}
        PROVE  \E i \in 1..Len(ps) : e.packages[j] = ps[i]
    <3>1. j # 1
      BY <2>3, <2>4, <2>7
    <3>2. j - 1 \in 1..Len(ps) /\ (j - 1) + 1 = j
      BY <2>4, <2>5, <3>1
    <3>3. e.packages[(j - 1) + 1] = ps[j - 1]
      BY <2>4, <3>2
    <3> QED
      BY <3>2, <3>3
  <2> QED
    BY <2>1, <2>4, <2>6, <2>7 DEF e
<1> QED
  BY <1>1, <1>2

(* The plan before _resolve_path_overlaps. *)
Fixed(scope, waves) ==
  FixPathConflicts(EnsureInfrastructure(NormalizePlan(MergePlan(scope, waves))))

LEMMA Fixes ==
  ASSUME NEW scope \in Scopes, NEW waves \in Seq(Waves), Len(waves) <= Len(NumberedKeys)
  PROVE  LET x == Fixed(scope, waves)
             ps == scope.packages IN
         /\ x.packages \in Seq(WorkPackages)
         /\ waves # <<>> =>
              /\ x.waves \in Seq(Waves) /\ Len(x.waves) = Len(waves)
              /\ \A i \in 1..Len(waves) : x.waves[i] = Named(waves[i], i)
         /\ \A k \in 1..Len(ps) : \E j \in 1..Len(x.packages) :
              Same(x.packages[j], ps[k]) /\ x.packages[j].wave = PlacedIn(ps[k], waves).wave
         /\ \A j \in 1..Len(x.packages) :
              \/ x.packages[j].deps = {}
              \/ \E k \in 1..Len(ps) :
                   Same(x.packages[j], ps[k]) /\ x.packages[j].wave = PlacedIn(ps[k], waves).wave
<1> DEFINE ps == scope.packages
           n == NormalizePlan(MergePlan(scope, waves))
           e == EnsureInfrastructure(n)
           x == Fixed(scope, waves)
<1>1. /\ n.packages \in Seq(WorkPackages) /\ Len(n.packages) = Len(ps)
      /\ \A i \in 1..Len(ps) : n.packages[i] = PlacedIn(ps[i], waves)
      /\ n.waves \in Seq(Waves) /\ Len(n.waves) = Len(waves)
      /\ \A i \in 1..Len(waves) : n.waves[i] = Named(waves[i], i)
  BY Normalizes
<1>2. x = [packages |-> [i \in DOMAIN e.packages |-> Unblocked(e.packages[i])],
           waves |-> e.waves]
  BY DEF Fixed, FixPathConflicts
<1> HIDE DEF n, x
<1>3. /\ e.packages \in Seq(WorkPackages)
      /\ n.waves # <<>> => e.waves = n.waves
      /\ \A i \in 1..Len(n.packages) :
           \E j \in 1..Len(e.packages) : e.packages[j] = n.packages[i]
      /\ \A j \in 1..Len(e.packages) :
           \/ e.packages[j].deps = {}
           \/ \E i \in 1..Len(n.packages) : e.packages[j] = n.packages[i]
  BY <1>1, Ensures
<1> HIDE DEF e
<1>4. /\ DOMAIN e.packages = 1..Len(e.packages) /\ Len(e.packages) \in Nat
      /\ \A i \in 1..Len(e.packages) : e.packages[i] \in WorkPackages
  BY <1>3
<1>5. \A i \in 1..Len(e.packages) :
        /\ x.packages[i] = Unblocked(e.packages[i]) /\ x.packages[i] \in WorkPackages
        /\ Same(x.packages[i], e.packages[i]) /\ x.packages[i].wave = e.packages[i].wave
  <2> TAKE i \in 1..Len(e.packages)
  <2>1. x.packages[i] = Unblocked(e.packages[i])
    BY <1>2, <1>4
  <2> QED
    BY <1>4, <2>1, UnblockedShape DEF Same
<1>6. x.packages \in Seq(WorkPackages) /\ Len(x.packages) = Len(e.packages)
  <2>1. x.packages = [i \in 1..Len(e.packages) |-> x.packages[i]]
    BY <1>2, <1>4
  <2>2. x.packages \in [1..Len(e.packages) -> WorkPackages]
    BY <1>5, <2>1
  <2> QED
    BY <1>4, <2>2
<1>7. /\ Len(ps) \in Nat /\ Len(waves) \in Nat
      /\ \A k \in 1..Len(ps) : ps[k] \in WorkPackages
      /\ waves # <<>> => n.waves # <<>>
  BY <1>1 DEF Scopes
<1>8. \A k \in 1..Len(ps) : Same(PlacedIn(ps[k], waves), ps[k])
  BY <1>7, PlacedShape
<1>9. ASSUME waves # <<>>
      PROVE  /\ x.waves \in Seq(Waves) /\ Len(x.waves) = Len(waves)
             /\ \A i \in 1..Len(waves) : x.waves[i] = Named(waves[i], i)
  BY <1>1, <1>2, <1>3, <1>7, <1>9
<1>10. ASSUME NEW k \in 1..Len(ps)
       PROVE  \E j \in 1..Len(x.packages) :
                Same(x.packages[j], ps[k]) /\ x.packages[j].wave = PlacedIn(ps[k], waves).wave
  <2>1. PICK j \in 1..Len(e.packages) : e.packages[j] = PlacedIn(ps[k], waves)
    BY <1>1, <1>3
  <2>2. Same(x.packages[j], PlacedIn(ps[k], waves))
        /\ x.packages[j].wave = PlacedIn(ps[k], waves).wave
    BY <1>5, <2>1
  <2>3. Same(x.packages[j], ps[k])
    BY <1>8, <2>2 DEF Same
  <2> QED
    BY <1>6, <2>2, <2>3
<1>11. ASSUME NEW j \in 1..Len(x.packages), x.packages[j].deps # {}
       PROVE  \E k \in 1..Len(ps) :
                Same(x.packages[j], ps[k]) /\ x.packages[j].wave = PlacedIn(ps[k], waves).wave
  <2>1. j \in 1..Len(e.packages) /\ e.packages[j].deps # {}
    BY <1>5, <1>6, <1>11 DEF Same
  <2>2. PICK k \in 1..Len(ps) : e.packages[j] = PlacedIn(ps[k], waves)
    BY <1>1, <1>3, <2>1
  <2>3. Same(x.packages[j], PlacedIn(ps[k], waves))
        /\ x.packages[j].wave = PlacedIn(ps[k], waves).wave
    BY <1>5, <2>1, <2>2
  <2>4. Same(x.packages[j], ps[k])
    BY <1>8, <2>3 DEF Same
  <2> QED
    BY <2>3, <2>4
<1> QED
  BY <1>6, <1>9, <1>10, <1>11 DEF x

(* _resolve_path_overlaps adds the overlaps, and does not change them. *)
LEMMA Resolves ==
  ASSUME NEW x, x.packages \in Seq(WorkPackages)
  PROVE  LET plan == ResolvePathOverlaps(x) IN
         /\ DOMAIN plan.packages = 1..Len(x.packages) /\ plan.waves = x.waves
         /\ \A i \in 1..Len(x.packages) :
              /\ Same(plan.packages[i], x.packages[i])
              /\ plan.packages[i].wave = x.packages[i].wave
              /\ plan.packages[i].forbidden = x.packages[i].forbidden \cup OverlapsOf(plan, i)
<1> DEFINE plan == ResolvePathOverlaps(x)
<1>1. /\ DOMAIN x.packages = 1..Len(x.packages)
      /\ \A i \in 1..Len(x.packages) : x.packages[i] \in WorkPackages
  OBVIOUS
<1>2. /\ plan.packages = [i \in DOMAIN x.packages |-> Avoiding(x.packages[i], OverlapsOf(x, i))]
      /\ plan.waves = x.waves
  BY DEF ResolvePathOverlaps
<1> HIDE DEF plan
<1>3. \A i \in 1..Len(x.packages) :
        /\ Same(plan.packages[i], x.packages[i])
        /\ plan.packages[i].wave = x.packages[i].wave
        /\ plan.packages[i].forbidden = x.packages[i].forbidden \cup OverlapsOf(x, i)
  <2> TAKE i \in 1..Len(x.packages)
  <2>1. plan.packages[i] = Avoiding(x.packages[i], OverlapsOf(x, i))
    BY <1>1, <1>2
  <2> QED
    BY <1>1, <2>1, AvoidingShape
<1>4. \A i \in 1..Len(x.packages) : OverlapsOf(plan, i) = OverlapsOf(x, i)
  <2> TAKE i \in 1..Len(x.packages)
  <2>1. DOMAIN plan.packages = DOMAIN x.packages
    BY <1>2
  <2>2. WaveMates(plan, i) = WaveMates(x, i) /\ WaveMates(x, i) \subseteq 1..Len(x.packages)
    BY <1>1, <1>3, <2>1 DEF WaveMates
  <2>3. \A j \in 1..Len(x.packages) : plan.packages[j].allowed = x.packages[j].allowed
    BY <1>3 DEF Same
  <2> DEFINE over(p, j) == Overlaps(p.packages[i].allowed, p.packages[j].allowed)
  <2>4. \A j \in WaveMates(x, i) : over(plan, j) = over(x, j)
    BY <2>2, <2>3
  <2>5. /\ OverlapsOf(plan, i) = UNION {over(plan, j) : j \in WaveMates(plan, i)}
        /\ OverlapsOf(x, i) = UNION {over(x, j) : j \in WaveMates(x, i)}
    BY DEF OverlapsOf
  <2> HIDE DEF over
  <2>6. {over(plan, j) : j \in WaveMates(plan, i)} = {over(x, j) : j \in WaveMates(x, i)}
    BY <2>2, <2>4
  <2> QED
    BY <2>5, <2>6
<1> QED
  BY <1>1, <1>2, <1>3, <1>4 DEF plan

LEMMA PlanIsResolved ==
  ASSUME NEW scope, NEW waves
  PROVE  Plan(scope, waves) = ResolvePathOverlaps(Fixed(scope, waves))
  BY DEF Plan, Fixed

LEMMA SharedAreForbidden ==
  ASSUME NEW scope \in Scopes, NEW waves \in Seq(Waves), Len(waves) <= Len(NumberedKeys)
  PROVE  SharedPathsExclusive(Plan(scope, waves))
<1> DEFINE x == Fixed(scope, waves)
           plan == Plan(scope, waves)
<1>1. x.packages \in Seq(WorkPackages)
  BY Fixes
<1>2. plan = ResolvePathOverlaps(x)
  BY PlanIsResolved
<1> HIDE DEF x, plan
<1>3. /\ DOMAIN plan.packages = 1..Len(x.packages)
      /\ \A i \in 1..Len(x.packages) :
           /\ Same(plan.packages[i], x.packages[i])
           /\ plan.packages[i].wave = x.packages[i].wave
           /\ plan.packages[i].forbidden = x.packages[i].forbidden \cup OverlapsOf(plan, i)
  BY <1>1, <1>2, Resolves
<1>4. \A i \in 1..Len(x.packages) : plan.packages[i].allowed \subseteq Patterns
  <2> TAKE i \in 1..Len(x.packages)
  <2>1. x.packages[i] \in WorkPackages
    BY <1>1
  <2>2. x.packages[i].allowed \subseteq Patterns
    BY <2>1 DEF WorkPackages
  <2> QED
    BY <1>3, <2>2 DEF Same
<1>5. ASSUME NEW p \in Stored(plan), NEW q \in Stored(plan), p.key # q.key, p.wave = q.wave,
             NEW path \in p.allowed \cap q.allowed, Literal(path), Classless(path),
             Normalised(path) = path
      PROVE  ~MayWrite(p, path)
  <2>1. PICK i \in 1..Len(x.packages) : p = plan.packages[i]
    BY <1>3 DEF Stored, ToSet
  <2>2. PICK j \in 1..Len(x.packages) : q = plan.packages[j]
    BY <1>3 DEF Stored, ToSet
  <2>3. j \in WaveMates(plan, i)
    BY <1>3, <1>5, <2>1, <2>2 DEF WaveMates
  <2>4. path \in Patterns
    BY <1>4, <1>5, <2>1
  <2>5. Text(path) \in Seq(Texts)
    <3>1. {".", "/"} \subseteq Texts
      BY DEF Texts
    <3>2. path \in Seq(Seq(Texts))
      BY <2>4 DEF Patterns
    <3> QED
      BY <3>1, <3>2, TextType
  <2>6. path \in PairOverlaps(path, path)
    <3>1. IsPrefix(Text(path), Text(path))
      BY <2>5 DEF IsPrefix
    <3> QED
      BY <1>5, <3>1 DEF PairOverlaps
  <2>7. path \in Overlaps(plan.packages[i].allowed, plan.packages[j].allowed)
    BY <1>5, <2>1, <2>2, <2>6 DEF Overlaps
  <2>8. path \in p.forbidden
    BY <1>3, <2>1, <2>3, <2>7 DEF OverlapsOf
  <2>9. Matches(Text(path), Text(path))
    <3> DEFINE Unclassed == Texts \ Classes
    <3>1. {".", "/"} \subseteq Unclassed /\ Unclassed \cap Classes = {}
      BY DEF Texts, Classes
    <3>2. path \in Seq(Seq(Unclassed))
      <4>1. path \in Seq(Seq(Texts))
        BY <2>4 DEF Patterns
      <4>2. ASSUME NEW k \in 1..Len(path) PROVE path[k] \in Seq(Unclassed)
        <5>1. path[k] \in Seq(Texts) /\ ToSet(path[k]) \cap Classes = {}
          BY <1>5, <4>1, <4>2 DEF Classless
        <5> QED
          BY <5>1 DEF ToSet
      <4> HIDE DEF Unclassed
      <4> QED
        BY <4>1, <4>2
    <3> HIDE DEF Unclassed
    <3>3. Text(path) \in Seq(Unclassed)
      BY <3>1, <3>2, TextType
    <3> QED
      BY <3>1, <3>3, MatchesItself
  <2> QED
    BY <1>5, <2>8, <2>9 DEF MayWrite, ValidPath, Checked, MatchesAny
<1>6. SharedPathsExclusive(plan)
  BY <1>5 DEF SharedPathsExclusive
<1> QED
  BY <1>6 DEF plan

LEMMA KeepsPlaced ==
  ASSUME NEW scope \in Scopes, NEW waves \in Seq(Waves), Len(waves) <= Len(NumberedKeys)
  PROVE  LosesOnlyMisplaced(scope, waves)
<1> DEFINE x == Fixed(scope, waves)
           plan == Plan(scope, waves)
           ps == scope.packages
<1>1. /\ x.packages \in Seq(WorkPackages)
      /\ waves # <<>> =>
           /\ x.waves \in Seq(Waves) /\ Len(x.waves) = Len(waves)
           /\ \A i \in 1..Len(waves) : x.waves[i] = Named(waves[i], i)
      /\ \A k \in 1..Len(ps) : \E j \in 1..Len(x.packages) :
           Same(x.packages[j], ps[k]) /\ x.packages[j].wave = PlacedIn(ps[k], waves).wave
  BY Fixes
<1>2. plan = ResolvePathOverlaps(x)
  BY PlanIsResolved
<1> HIDE DEF x, plan
<1>3. /\ DOMAIN plan.packages = 1..Len(x.packages) /\ plan.waves = x.waves
      /\ \A i \in 1..Len(x.packages) :
           /\ Same(plan.packages[i], x.packages[i])
           /\ plan.packages[i].wave = x.packages[i].wave
  BY <1>1, <1>2, Resolves
<1>4. ASSUME NEW p \in ToSet(ps), waves # <<>>, LastListing(waves, p.key) # 0 \/ p.wave = ""
      PROVE  \E s \in Stored(plan) : s.key = p.key
  <2>1. PICK k \in 1..Len(ps) : p = ps[k]
    BY DEF ToSet, Scopes
  <2>2. p \in WorkPackages
    BY <2>1 DEF Scopes
  <2>3. PICK j \in 1..Len(x.packages) :
          Same(x.packages[j], p) /\ x.packages[j].wave = PlacedIn(p, waves).wave
    BY <1>1, <2>1
  <2>4. PICK i \in 1..Len(waves) : PlacedIn(p, waves).wave = Named(waves[i], i).key
    BY <1>4, <2>2, PlacedShape
  <2>5. Named(waves[i], i).key # ""
    <3>1. i \in 1..Len(NumberedKeys) /\ waves[i] \in Waves
      BY NumberedKeysCount
    <3> QED
      BY <3>1, NamedShape
  <2>6. x.waves[i] \in ToSet(plan.waves) /\ x.waves[i] = Named(waves[i], i)
    <3>1. x.waves \in Seq(Waves) /\ Len(x.waves) = Len(waves) /\ plan.waves = x.waves
      BY <1>1, <1>3, <1>4
    <3>2. i \in DOMAIN plan.waves
      BY <3>1
    <3> QED
      BY <1>1, <1>4, <3>1, <3>2 DEF ToSet
  <2>7. plan.packages[j] \in ToSet(plan.packages)
    BY <1>3 DEF ToSet
  <2>8. plan.packages[j].wave = Named(waves[i], i).key /\ plan.packages[j].key = p.key
    BY <1>3, <2>3, <2>4 DEF Same
  <2>9. plan.packages[j] \in Stored(plan)
    BY <2>5, <2>6, <2>7, <2>8 DEF Stored
  <2> QED
    BY <2>8, <2>9
<1>5. \A p \in ToSet(ps) :
        \/ \E s \in Stored(plan) : s.key = p.key
        \/ LastListing(waves, p.key) = 0 /\ p.wave # ""
        \/ waves = <<>>
  BY <1>4
<1> QED
  BY <1>5 DEF LosesOnlyMisplaced, plan

LEMMA PositionShape ==
  ASSUME NEW plan, plan.waves \in Seq(Waves), NEW key
  PROVE  /\ Position(plan, key) \in 0..Len(plan.waves)
         /\ Position(plan, key) # 0 => plan.waves[Position(plan, key)].key = key
         /\ \A i \in 1..Len(plan.waves) : plan.waves[i].key = key => Position(plan, key) # 0
<1> DEFINE at == {i \in DOMAIN plan.waves : plan.waves[i].key = key}
<1>1. DOMAIN plan.waves = 1..Len(plan.waves) /\ Len(plan.waves) \in Nat
  OBVIOUS
<1>2. Position(plan, key) = IF at = {} THEN 0 ELSE CHOOSE i \in at : \A j \in at : i <= j
  BY DEF Position
<1>3. \A i \in at : i \in 1..Len(plan.waves) /\ plan.waves[i].key = key
  BY <1>1
<1>4. \A i \in 1..Len(plan.waves) : plan.waves[i].key = key => i \in at
  BY <1>1
<1> HIDE DEF at
<1>5. at # {} => \E i \in at : \A j \in at : i <= j
  <2> SUFFICES ASSUME at # {} PROVE \E i \in at : \A j \in at : i <= j
    OBVIOUS
  <2>1. at \subseteq Nat
    BY <1>3
  <2>2. PICK i \in at : \A j \in at : ~(j < i)
    BY <2>1, LeastNat
  <2>3. \A j \in at : i <= j
    BY <2>1, <2>2
  <2> QED
    BY <2>3
<1> DEFINE i == Position(plan, key)
<1>6. at # {} => i \in at
  BY <1>2, <1>5
<1>7. at = {} => i = 0
  BY <1>2
<1> HIDE DEF i
<1>8. i \in 0..Len(plan.waves) /\ (i # 0 => plan.waves[i].key = key)
  BY <1>1, <1>3, <1>6, <1>7
<1>9. \A j \in 1..Len(plan.waves) : plan.waves[j].key = key => i # 0
  BY <1>1, <1>3, <1>4, <1>6
<1> QED
  BY <1>8, <1>9 DEF i

LEMMA WaveOfShape ==
  ASSUME NEW key \in Texts, NEW S, KeysOf(S) \subseteq Texts
  PROVE  LET w == WaveOf(key, S) IN
         /\ w \in Seq(Waves) /\ Len(w) = IF S = {} THEN 0 ELSE 1
         /\ \A i \in 1..Len(w) : w[i].key = key /\ w[i].members = KeysOf(S)
<1> DEFINE a == [key |-> key, members |-> KeysOf(S)]
           w == WaveOf(key, S)
<1>1. a \in Waves /\ a.key = key /\ a.members = KeysOf(S)
  BY DEF Waves
<1>2. w = IF S = {} THEN <<>> ELSE <<a>>
  BY DEF WaveOf
<1> HIDE DEF a, w
<1>3. CASE S = {}
  BY <1>2, <1>3 DEF w
<1>4. CASE S # {}
  BY <1>1, <1>2, <1>4 DEF w
<1> QED
  BY <1>3, <1>4

(* The default waves: no more than two, of which the last, if there is a
   package with dependencies, has all of those. *)
LEMMA DefaultWavesShape ==
  ASSUME NEW scope \in Scopes, ~scope.alias
  PROVE  LET waves == DefaultWaves(scope) IN
         /\ waves \in Seq(Waves) /\ Len(waves) <= 2
         /\ \A i, j \in 1..Len(waves) : i # j => waves[i].key # waves[j].key
         /\ \A i \in 1..Len(waves) : ~Unnamed(waves[i])
         /\ \A p \in ToSet(scope.packages) :
              p.deps # {} => waves # <<>> /\ p.key \in waves[Len(waves)].members
<1> DEFINE all == ToSet(scope.packages)
           first == {p \in all : Independent(p)}
           rest == all \ first
           w0 == WaveOf("wave_0", first)
           w1 == WaveOf("wave_1", rest)
           waves == DefaultWaves(scope)
<1>1. waves = w0 \o w1
  BY DEF DefaultWaves
<1>2. \A p \in all : p.key \in Texts
  <2>1. \A p \in WorkPackages : p.key \in Texts
    BY DEF WorkPackages
  <2>2. scope.packages \in Seq(WorkPackages)
    BY DEF Scopes
  <2>3. \A p \in all : p \in WorkPackages
    BY <2>2 DEF ToSet
  <2> QED
    BY <2>1, <2>3
<1>3. KeysOf(first) \subseteq Texts /\ KeysOf(rest) \subseteq Texts
  BY <1>2 DEF KeysOf
<1>4. \A p \in all : p.deps # {} => p \in rest
  BY DEF Independent
<1>5. "wave_0" \in Texts /\ "wave_1" \in Texts
  BY DEF Texts
<1> HIDE DEF first, rest, waves
<1>6. /\ w0 \in Seq(Waves) /\ Len(w0) \in 0..1
      /\ \A i \in 1..Len(w0) : w0[i].key = "wave_0"
  BY <1>3, <1>5, WaveOfShape
<1>7. /\ w1 \in Seq(Waves) /\ Len(w1) = IF rest = {} THEN 0 ELSE 1
      /\ \A i \in 1..Len(w1) : w1[i].key = "wave_1" /\ w1[i].members = KeysOf(rest)
  BY <1>3, <1>5, WaveOfShape
<1> HIDE DEF w0, w1
<1>8. /\ waves \in Seq(Waves) /\ Len(waves) = Len(w0) + Len(w1)
      /\ \A i \in 1..Len(w0) : waves[i] = w0[i]
      /\ \A i \in 1..Len(w1) : waves[Len(w0) + i] = w1[i]
  BY <1>1, <1>6, <1>7
<1>9. Len(w0) \in 0..1 /\ Len(w1) \in 0..1 /\ Len(waves) \in 0..2
  BY <1>6, <1>7, <1>8
<1>10. \A i \in 1..Len(waves) :
         \/ i \in 1..Len(w0) /\ waves[i].key = "wave_0"
         \/ i = Len(w0) + 1 /\ waves[i].key = "wave_1"
  <2> TAKE i \in 1..Len(waves)
  <2>1. CASE i <= Len(w0)
    BY <1>6, <1>8, <1>9, <2>1
  <2>2. CASE ~(i <= Len(w0))
    <3>1. i = Len(w0) + 1 /\ 1 \in 1..Len(w1)
      BY <1>8, <1>9, <2>2
    <3>2. waves[Len(w0) + 1] = w1[1]
      BY <1>8, <3>1
    <3> QED
      BY <1>7, <3>1, <3>2
  <2> QED
    BY <2>1, <2>2
<1>11. \A i, j \in 1..Len(waves) : i # j => waves[i].key # waves[j].key
  <2>0. SUFFICES ASSUME NEW i \in 1..Len(waves), NEW j \in 1..Len(waves), i # j
               PROVE  waves[i].key # waves[j].key
    OBVIOUS
  <2>1. ~(i \in 1..Len(w0) /\ j \in 1..Len(w0)) /\ ~(i = Len(w0) + 1 /\ j = Len(w0) + 1)
    <3> DEFINE n == Len(w0)
    <3>1. n \in 0..1 /\ i \in 1..2 /\ j \in 1..2
      <4> DEFINE m == Len(waves)
      <4>1. m \in 0..2 /\ i \in 1..m /\ j \in 1..m
        BY <1>9
      <4> HIDE DEF m
      <4>2. i \in 1..2 /\ j \in 1..2
        BY <4>1
      <4> QED
        BY <1>9, <4>2
    <3> HIDE DEF n
    <3>2. ~(i \in 1..n /\ j \in 1..n) /\ ~(i = n + 1 /\ j = n + 1)
      BY <2>0, <3>1
    <3> QED
      BY <3>2 DEF n
  <2>2. "wave_0" # "wave_1"
    OBVIOUS
  <2> QED
    BY <1>10, <2>1, <2>2
<1>12. \A i \in 1..Len(waves) : ~Unnamed(waves[i])
  BY <1>10 DEF Unnamed
<1>13. ASSUME NEW p \in ToSet(scope.packages), p.deps # {}
       PROVE  waves # <<>> /\ p.key \in waves[Len(waves)].members
  <2>1. p \in rest /\ p.key \in KeysOf(rest)
    BY <1>4, <1>13 DEF KeysOf
  <2>2. Len(w1) = 1 /\ Len(waves) = Len(w0) + 1
    BY <1>7, <1>8, <2>1
  <2>3. waves[Len(w0) + 1] = w1[1] /\ w1[1].members = KeysOf(rest)
    BY <1>7, <1>8, <2>2
  <2>4. waves # <<>>
    BY <1>8, <1>9, <2>2
  <2> QED
    BY <2>1, <2>2, <2>3, <2>4
<1> QED
  BY <1>8, <1>9, <1>11, <1>12, <1>13 DEF waves

LEMMA DefaultsFollow ==
  ASSUME NEW scope \in Scopes
  PROVE  DefaultsFollowDependencies(scope)
<1> DEFINE waves == DefaultWaves(scope)
           x == Fixed(scope, waves)
           plan == Plan(scope, waves)
           ps == scope.packages
<1>1. SUFFICES ASSUME ~scope.alias,
                      NEW p \in Stored(plan), NEW q \in Stored(plan), q.key \in p.deps
               PROVE  Position(plan, q.wave) <= Position(plan, p.wave)
  BY DEF DefaultsFollowDependencies
<1>2. /\ waves \in Seq(Waves) /\ Len(waves) <= 2
      /\ \A i, j \in 1..Len(waves) : i # j => waves[i].key # waves[j].key
      /\ \A i \in 1..Len(waves) : ~Unnamed(waves[i])
      /\ \A r \in ToSet(ps) :
           r.deps # {} => waves # <<>> /\ r.key \in waves[Len(waves)].members
  BY <1>1, DefaultWavesShape
<1> HIDE DEF waves
<1>3. Len(waves) \in Nat /\ Len(waves) <= Len(NumberedKeys)
  <2>1. waves \in Seq(Waves) /\ Len(waves) <= 2
    BY <1>2
  <2>2. Len(waves) \in Nat
    BY <2>1
  <2> QED
    BY <2>1, <2>2, NumberedKeysCount
<1>4. /\ x.packages \in Seq(WorkPackages)
      /\ waves # <<>> =>
           /\ x.waves \in Seq(Waves) /\ Len(x.waves) = Len(waves)
           /\ \A i \in 1..Len(waves) : x.waves[i] = Named(waves[i], i)
      /\ \A j \in 1..Len(x.packages) :
           \/ x.packages[j].deps = {}
           \/ \E k \in 1..Len(ps) :
                Same(x.packages[j], ps[k]) /\ x.packages[j].wave = PlacedIn(ps[k], waves).wave
  BY <1>2, <1>3, Fixes
<1>5. plan = ResolvePathOverlaps(x)
  BY PlanIsResolved
<1> HIDE DEF x, plan
<1>6. /\ DOMAIN plan.packages = 1..Len(x.packages) /\ plan.waves = x.waves
      /\ \A i \in 1..Len(x.packages) :
           /\ Same(plan.packages[i], x.packages[i])
           /\ plan.packages[i].wave = x.packages[i].wave
  BY <1>4, <1>5, Resolves
<1>7. PICK j \in 1..Len(x.packages) : p = plan.packages[j]
  BY <1>6 DEF Stored, ToSet
<1>8. x.packages[j].deps # {}
  BY <1>1, <1>6, <1>7 DEF Same
<1>9. PICK k \in 1..Len(ps) :
        Same(x.packages[j], ps[k]) /\ x.packages[j].wave = PlacedIn(ps[k], waves).wave
  BY <1>4, <1>8
<1>10. ps[k] \in WorkPackages /\ ps[k] \in ToSet(ps) /\ ps[k].deps # {}
  BY <1>8, <1>9 DEF Same, Scopes, ToSet
<1> DEFINE n == Len(waves)
           at == LastListing(waves, ps[k].key)
<1>11. waves # <<>> /\ n \in 1..Len(waves) /\ ps[k].key \in waves[n].members
  <2>1. waves # <<>> /\ ps[k].key \in waves[n].members
    BY <1>2, <1>10
  <2>2. waves \in Seq(Waves)
    BY <1>2
  <2>3. Len(waves) # 0
    BY <2>1, <2>2
  <2> QED
    BY <1>3, <2>1, <2>3
<1>12. at = n
  <2>1. at \in 0..Len(waves) /\ at # 0 /\ n <= at
    BY <1>2, <1>11, LastListed
  <2> HIDE DEF at
  <2> QED
    BY <1>3, <2>1
<1>13. p.wave = waves[n].key
  <2>1. PlacedIn(ps[k], waves).wave = waves[n].key
    <3>1. n # 0 /\ ~Unnamed(waves[n])
      <4>1. \A i \in 1..Len(waves) : ~Unnamed(waves[i])
        BY <1>2
      <4> QED
        BY <1>3, <1>11, <4>1
    <3> QED
      BY <1>2, <1>3, <1>10, <1>12, <3>1, PlacedShape
  <2> QED
    BY <1>6, <1>7, <1>9, <2>1
<1>14. \A i \in 1..Len(waves) : plan.waves[i].key = waves[i].key
  <2> TAKE i \in 1..Len(waves)
  <2>1. i \in 1..Len(NumberedKeys)
    BY <1>3, NumberedKeysCount
  <2>2. waves[i] \in Waves /\ ~Unnamed(waves[i])
    <3>1. waves \in Seq(Waves) /\ \A o \in 1..Len(waves) : ~Unnamed(waves[o])
      BY <1>2
    <3> QED
      BY <3>1
  <2>3. Named(waves[i], i).key = waves[i].key
    BY <2>1, <2>2, NamedShape
  <2> QED
    BY <1>4, <1>6, <1>11, <2>3
<1>15. plan.waves \in Seq(Waves) /\ Len(plan.waves) = n
  BY <1>4, <1>6, <1>11
<1>16. Position(plan, p.wave) = n
  <2> DEFINE i == Position(plan, p.wave)
  <2>1. i \in 0..n /\ i # 0 /\ plan.waves[i].key = p.wave
    <3>1. i \in 0..n /\ (i # 0 => plan.waves[i].key = p.wave)
      BY <1>15, PositionShape
    <3>2. plan.waves[n].key = p.wave /\ n \in 1..Len(plan.waves)
      BY <1>11, <1>13, <1>14, <1>15
    <3>3. i # 0
      BY <1>15, <3>2, PositionShape
    <3> QED
      BY <3>1, <3>3
  <2> HIDE DEF i
  <2>2. i \in 1..Len(waves) /\ waves[i].key = waves[n].key
    BY <1>3, <1>13, <1>14, <2>1
  <2>3. i = n
    BY <1>2, <1>11, <2>2
  <2> QED
    BY <2>3 DEF i
<1>17. Position(plan, q.wave) \in 0..n
  BY <1>15, PositionShape
<1> QED
  BY <1>3, <1>16, <1>17

LEMMA PlanInputs ==
  ASSUME NEW x \in Plans
  PROVE  x.scope \in Scopes /\ x.waves \in Seq(Waves) /\ Len(x.waves) <= Len(NumberedKeys)
<1> DEFINE A == Seq(Packages)
           W == [key : STRING, members : SUBSET STRING]
           B == Seq(W)
<1>1. x.scope \in [alias : BOOLEAN, packages : A] /\ x.waves \in B
      /\ Len(x.waves) <= Len(NumberedKeys)
  BY PlansAssumption
<1>2. STRING \subseteq Texts
  BY DEF Texts
<1>3. Path \subseteq Patterns
  <2>1. \A s \in Seq(STRING) : s \in Seq(Texts)
    BY <1>2, SeqGrows
  <2>2. \A s \in Seq(Seq(STRING)) : s \in Seq(Seq(Texts))
    BY <2>1, SeqGrows
  <2> QED
    BY <2>2 DEF Path, Patterns
<1>4. \A p \in Packages : p \in WorkPackages
  <2> SUFFICES ASSUME NEW p \in Packages PROVE p \in WorkPackages
    OBVIOUS
  <2> HIDE DEF Texts, Patterns, Path
  <2> QED
    BY <1>2, <1>3 DEF Packages, WorkPackages
<1>5. \A w \in W : w \in Waves
  BY <1>2 DEF Waves
<1>6. x.scope \in Scopes
  <2>1. \A s \in Seq(Packages) : s \in Seq(WorkPackages)
    BY <1>4, SeqGrows
  <2> DEFINE C == Seq(WorkPackages)
  <2>2. A \subseteq C
    BY <2>1
  <2> HIDE DEF A, C
  <2>3. x.scope \in [alias : BOOLEAN, packages : C]
    BY <1>1, <2>2
  <2> QED
    BY <2>3 DEF Scopes, C
<1>7. x.waves \in Seq(Waves)
  <2> HIDE DEF W
  <2> QED
    BY <1>1, <1>5, SeqGrows
<1> QED
  BY <1>1, <1>6, <1>7

(* PlanKeepsPackages: for any answers, a package is lost only if they put it
   into a wave that does not exist or plan no wave, and the default waves
   follow the dependencies (planning.py:88-342). *)
THEOREM PlansKeepPackages == Spec => []PlanKeepsPackages
<1>1. GivenInput => PlanKeepsPackages
  BY KindOf, PlanInputs, KeepsPlaced, DefaultsFollow DEF PlanKeepsPackages
<1> QED
  BY <1>1, InputsGiven, PTL

(* SharedFilesExclusive: for any answers, a file that two packages of a wave
   list by name is forbidden to both (planning.py:233-342,
   runtime.py:70-117). *)
THEOREM SharedFilesAreExclusive == Spec => []SharedFilesExclusive
<1>1. GivenInput => SharedFilesExclusive
  BY KindOf, PlanInputs, SharedAreForbidden DEF SharedFilesExclusive
<1> QED
  BY <1>1, InputsGiven, PTL

-----------------------------------------------------------------------------
(* Manifests.                                                               *)

LEMMA ManifestShape ==
  ASSUME GivenInput, case.kind = "manifest"
  PROVE  /\ IsTree(case.tree) /\ IsFileTree(case.tree)
         /\ case.files \in Seq(Entries) /\ case.again \in Seq(Entries)
  BY KindOf, ManifestsAssumption DEF IsTree, Entries

(* ManifestConfined: for any workspace, manifest and patterns, only files
   change that the package may change (runtime.py:70-193). *)
THEOREM ManifestsConfined == Spec => []ManifestConfined
<1>1. GivenInput => ManifestConfined
  BY ManifestShape, Confinement DEF ManifestConfined
<1> QED
  BY <1>1, InputsGiven, PTL

(* RetryConverges: for any workspace and any two manifests without a path
   below another, the first cut short behind any of its entries, what it wrote
   shows behind the second only where the second neither creates nor deletes
   (runtime.py:123-193, implementation.py:96-130). *)
THEOREM RetriesConverge == Spec => []RetryConverges
<1>1. GivenInput => RetryConverges
  BY ManifestShape, Convergence DEF RetryConverges
<1> QED
  BY <1>1, InputsGiven, PTL

-----------------------------------------------------------------------------
(* Verdicts.                                                                *)

LEMMA AttemptsPositive ==
  ASSUME NEW config \in Configs, NEW asked \in Int
  PROVE  Attempts(config, asked) \in Nat \ {0}
<1> DEFINE v == IF asked # -1 THEN asked ELSE IF config.retries = 0 THEN 1 ELSE config.retries
<1>1. v \in Int
  BY DEF Configs
<1> HIDE DEF v
<1>2. \E x \in {1, v} : \A y \in {1, v} : x >= y
  BY <1>1
<1>3. Max({1, v}) \in {1, v} /\ \A y \in {1, v} : Max({1, v}) >= y
  BY <1>2 DEF Max
<1>4. Attempts(config, asked) = Max({1, v})
  BY DEF Attempts, v
<1> QED
  BY <1>1, <1>3, <1>4

LEMMA MinIn == ASSUME NEW T, T \subseteq Nat, T # {} PROVE Min(T) \in T
<1>1. PICK x \in T : \A y \in T : ~(y < x)
  BY LeastNat
<1>2. \A y \in T : x =< y
  BY <1>1
<1> QED
  BY <1>2 DEF Min

(* classify_error finds the same codes retryable, however it learns them. *)
LEMMA CodesAgree ==
  ASSUME NEW code \in Nat
  PROVE  OfCode(code).retryable = OfStatus(code).retryable
<1>1. CASE code = 429
  BY <1>1 DEF OfCode, OfStatus, Verdict
<1>2. CASE code >= 500
  <2>1. /\ code # 429 /\ code \notin {401, 403}
        /\ code # 400 /\ code # 404 /\ code # 413
    BY <1>2
  <2>2. OfCode(code) = Verdict("server_error", TRUE)
    BY <1>2, <2>1 DEF OfCode
  <2>3. CASE code \in {500, 502, 503, 504}
    <3>1. OfStatus(code) = Verdict("server_error", TRUE)
      BY <2>1, <2>3, Zenon DEF OfStatus
    <3> QED
      BY <2>2, <3>1
  <2>4. CASE code \notin {500, 502, 503, 504}
    <3>1. OfStatus(code) = Verdict("http_error", TRUE)
      BY <1>2, <2>1, <2>4, Zenon DEF OfStatus
    <3> QED
      BY <2>2, <3>1 DEF Verdict
  <2> QED
    BY <2>3, <2>4
<1>3. CASE code # 429 /\ ~(code >= 500)
  <2>1. code \notin {500, 502, 503, 504}
    BY <1>3
  <2>2. OfCode(code).retryable = FALSE
    BY <1>3 DEF OfCode, Verdict
  <2>3. OfStatus(code).retryable = FALSE
    BY <1>3, <2>1 DEF OfStatus, Verdict
  <2> QED
    BY <2>2, <2>3
<1> QED
  BY <1>1, <1>2, <1>3

(* What chat makes of a failure it names says as much as the failure itself,
   and of any other what the words of its text do. *)
LEMMA SaysAWord ==
  ASSUME NEW e, e.code = 0, e.says \subseteq Words
  PROVE  OfLLMError(e).retryable <=> e.says # {}
<1>1. CASE e.says \cap {"Timed out", "timeout"} # {}
  <2>1. OfLLMError(e) = Verdict("timeout", TRUE)
    BY <1>1 DEF OfLLMError
  <2>2. e.says # {}
    BY <1>1
  <2> QED
    BY <2>1, <2>2 DEF Verdict
<1>2. CASE e.says \cap {"Timed out", "timeout"} = {}
  <2>1. CASE e.says \cap {"Connection error", "disconnected", "server"} # {}
    <3>1. OfLLMError(e) = Verdict("connection_error", TRUE)
      BY <1>2, <2>1 DEF OfLLMError
    <3>2. e.says # {}
      BY <2>1
    <3> QED
      BY <3>1, <3>2 DEF Verdict
  <2>2. CASE e.says \cap {"Connection error", "disconnected", "server"} = {}
    <3>1. OfLLMError(e) = Verdict("unknown", FALSE)
      BY <1>2, <2>2 DEF OfLLMError
    <3>2. e.says = {}
      BY <1>2, <2>2 DEF Words
    <3> QED
      BY <3>1, <3>2 DEF Verdict
  <2> QED
    BY <2>1, <2>2
<1> QED
  BY <1>1, <1>2

LEMMA VerdictKept ==
  ASSUME NEW f \in [kind : STRING, code : Nat, words : SUBSET Words],
         f.kind = "status" <=> f.code # 0
  PROVE  IF f.kind \in Identified
         THEN OfLLMError(Wrapped(f)).retryable = OfFailure(f).retryable
         ELSE OfLLMError(Wrapped(f)).retryable <=> f.words # {}
<1>1. CASE f.code # 0
  <2>1. OfLLMError(Wrapped(f)) = OfCode(f.code) /\ OfFailure(f) = OfStatus(f.code)
    BY <1>1 DEF OfLLMError, Wrapped, OfFailure
  <2>2. f.kind \in Identified
    BY <1>1 DEF Identified
  <2> QED
    BY <2>1, <2>2, CodesAgree
<1>2. CASE f.code = 0
  <2>1. f.kind # "status" /\ Wrapped(f).code = 0
    BY <1>2 DEF Wrapped
  <2>2. Wrapped(f).says \subseteq Words
    BY DEF Wrapped, Words
  <2>3. OfLLMError(Wrapped(f)).retryable <=> Wrapped(f).says # {}
    BY <2>1, <2>2, SaysAWord
  <2>4. CASE f.kind \in {"connect", "read_timeout", "pool_timeout"}
    <3>1. OfFailure(f).retryable = TRUE
      BY <2>1, <2>4 DEF OfFailure, Verdict
    <3>2. Wrapped(f).says \cap Words # {}
      BY <2>4 DEF Wrapped, Words
    <3>3. f.kind \in Identified
      BY <2>4 DEF Identified
    <3>4. OfLLMError(Wrapped(f)).retryable = TRUE
      <4>1. \/ OfLLMError(Wrapped(f)) = Verdict("timeout", TRUE)
            \/ OfLLMError(Wrapped(f)) = Verdict("connection_error", TRUE)
        BY <2>1, <3>2 DEF OfLLMError, Words
      <4> QED
        BY <4>1 DEF Verdict
    <3> QED
      BY <3>1, <3>3, <3>4
  <2>5. CASE f.kind = "not_json"
    <3>1. OfFailure(f).retryable = FALSE
      BY <2>1, <2>5 DEF OfFailure, Verdict
    <3>2. Wrapped(f).says = {}
      BY <2>5 DEF Wrapped
    <3>3. f.kind \in Identified
      BY <2>5 DEF Identified
    <3>4. OfLLMError(Wrapped(f)).retryable = FALSE
      BY <2>1, <3>2 DEF OfLLMError, Verdict
    <3>5. OfLLMError(Wrapped(f)).retryable = OfFailure(f).retryable
      BY <3>1, <3>4
    <3> QED
      BY <3>3, <3>5
  <2>6. CASE f.kind \notin {"connect", "read_timeout", "pool_timeout", "not_json"}
    <3>1. Wrapped(f).says = f.words
      BY <2>6 DEF Wrapped
    <3>2. f.kind \notin Identified
      BY <2>1, <2>6 DEF Identified
    <3> QED
      BY <2>3, <3>1, <3>2
  <2> QED
    BY <2>4, <2>5, <2>6
<1> QED
  BY <1>1, <1>2

LEMMA CallsKeep ==
  ASSUME NEW x \in Calls
  PROVE  KeepsVerdict(x.config, x.asked, x.outcomes)
<1> DEFINE n == Attempts(x.config, x.asked)
           r == Chat(x.config, x.asked, 0, x.outcomes)
           ends == {i \in 1..n : x.outcomes[i].kind \in {"ok", "content"}}
           calls == IF ends = {} THEN n ELSE Min(ends)
<1>1. /\ x.config \in Configs /\ x.asked \in Int
      /\ x.outcomes \in Seq([kind : STRING, code : Nat, words : SUBSET Words])
      /\ n <= Len(x.outcomes)
      /\ \A f \in ToSet(x.outcomes) : f.kind = "status" <=> f.code # 0
  BY CallsAssumption
<1>2. n \in Nat \ {0}
  BY <1>1, AttemptsPositive
<1>3. SUFFICES ASSUME r.calls > 0, ~r.ok
               PROVE  IF x.outcomes[r.calls].kind \in Identified
                      THEN OfLLMError(r.error).retryable = OfFailure(x.outcomes[r.calls]).retryable
                      ELSE OfLLMError(r.error).retryable <=> x.outcomes[r.calls].words # {}
  BY DEF KeepsVerdict
<1>4. calls \in 1..n
  <2>1. ends \subseteq Nat
    OBVIOUS
  <2>2. ends # {} => Min(ends) \in ends
    <3> HIDE DEF ends
    <3> QED
      BY <2>1, MinIn
  <2> QED
    BY <1>2, <2>2
<1>5. r.calls = calls /\ r.error = Wrapped(x.outcomes[calls])
  <2>1. Refusal(x.config, 0) = "none"
    BY <1>3 DEF Chat
  <2> QED
    BY <2>1 DEF Chat
<1>6. calls \in DOMAIN x.outcomes
  BY <1>1, <1>2, <1>4
<1> DEFINE f == x.outcomes[calls]
<1> HIDE DEF calls
<1>7. f \in [kind : STRING, code : Nat, words : SUBSET Words] /\ f \in ToSet(x.outcomes)
  <2>1. f \in ToSet(x.outcomes)
    BY <1>6 DEF ToSet
  <2>2. calls \in 1..Len(x.outcomes)
    BY <1>1, <1>6
  <2>3. f \in [kind : STRING, code : Nat, words : SUBSET Words]
    <3> DEFINE R == [kind : STRING, code : Nat, words : SUBSET Words]
    <3>1. x.outcomes \in Seq(R)
      BY <1>1
    <3> HIDE DEF R
    <3>2. f \in R
      BY <2>2, <3>1
    <3> QED
      BY <3>2 DEF R
  <2> QED
    BY <2>1, <2>3
<1>8. f.kind = "status" <=> f.code # 0
  BY <1>1, <1>7
<1> QED
  BY <1>3, <1>5, <1>7, <1>8, VerdictKept

(* VerdictsKept: whatever the endpoint answers, the error chat raises is
   retryable exactly if the failure it stands for is, where chat names the
   failure, and exactly if the failure's text holds one of five words, where
   it does not (llm_client.py:294-375, resilience.py:31-151). *)
THEOREM VerdictsAreKept == Spec => []VerdictsKept
<1>1. GivenInput => VerdictsKept
  BY KindOf, CallsKeep DEF VerdictsKept
<1> QED
  BY <1>1, InputsGiven, PTL

-----------------------------------------------------------------------------
(* Settings.                                                                *)

Environments == [Fields -> STRING]
Forms == [key : STRING \cup {"", Masked}, base : STRING, wire : STRING]
Disks == [config : Configs, secret : STRING]

(* Loading what was saved gives, field by field, what was saved. *)
LEMMA LoadedAgain ==
  ASSUME NEW disk \in Disks, NEW env \in Environments, NEW config \in Configs
  PROVE  LET again == LoadConfig(SaveConfig(config, disk), env) IN
         /\ again.key = Set(env.key, Set(disk.secret, ""))
         /\ again.base = Set(env.base, config.base)
         /\ again.wire = Set(env.wire, config.wire)
         /\ again.profile = Set(env.profile, config.profile)
         /\ again.path = Set(env.path, config.path)
         /\ again.headers = PlainHeaders(config.headers)
  BY DEF LoadConfig, SaveConfig, LoadedKey, Disks, Configs

(* A configuration with the fields of an endpoint. *)
Pointing(c, key, base, wire, profile, path) ==
  [c EXCEPT !.key = key, !.base = base, !.wire = wire, !.profile = profile, !.path = path]

LEMMA ConfigFields ==
  ASSUME NEW c \in Configs, NEW key \in STRING, NEW base \in STRING, NEW wire \in STRING,
         NEW profile \in STRING, NEW path \in STRING
  PROVE  Pointing(c, key, base, wire, profile, path) \in Configs
  BY DEF Configs, Pointing

LEMMA Loaded ==
  ASSUME NEW disk \in Disks, NEW env \in Environments
  PROVE  LoadConfig(disk, env) \in Configs
<1>1. \A x, y \in STRING : Set(x, y) \in STRING
  BY DEF Set
<1>2. /\ env.key \in STRING /\ env.base \in STRING /\ env.wire \in STRING
      /\ env.profile \in STRING /\ env.path \in STRING
  BY DEF Environments, Fields
<1> DEFINE c == disk.config
<1>3. c \in Configs /\ disk.secret \in STRING
  BY DEF Disks
<1>4. /\ c.key \in STRING /\ c.base \in STRING /\ c.wire \in STRING
      /\ c.profile \in STRING /\ c.path \in STRING
  BY <1>3 DEF Configs
<1> DEFINE key == Set(env.key, Set(disk.secret, c.key))
           base == Set(env.base, c.base)
           wire == Set(env.wire, c.wire)
           profile == Set(env.profile, c.profile)
           path == Set(env.path, c.path)
<1>5. /\ key \in STRING /\ base \in STRING /\ wire \in STRING
      /\ profile \in STRING /\ path \in STRING
  BY <1>1, <1>2, <1>3, <1>4
<1>6. LoadConfig(disk, env) = Pointing(c, key, base, wire, profile, path)
  BY <1>3 DEF LoadConfig, LoadedKey, Configs, Pointing
<1>7. c \in Configs
  BY <1>3
<1> HIDE DEF c, key, base, wire, profile, path
<1>8. Pointing(c, key, base, wire, profile, path) \in Configs
  BY <1>5, <1>7, ConfigFields
<1> QED
  BY <1>6, <1>8

LEMMA PutFields ==
  ASSUME NEW form \in Forms, NEW config \in Configs
  PROVE  LET saved == PutSettings(form, config) IN
         /\ saved \in Configs
         /\ saved.key = KeyOf(form, config)
         /\ saved.base = Set(form.base, config.base)
         /\ saved.wire = Set(form.wire, config.wire)
         /\ saved.profile = config.profile /\ saved.path = config.path
         /\ saved.headers = config.headers
  BY DEF PutSettings, KeyOf, Set, Forms, Configs

(* A form with another key. *)
Keyed(form, key) == [form EXCEPT !.key = key]

LEMMA KeyedForm ==
  ASSUME NEW form \in Forms, NEW key \in {Masked, ""}
  PROVE  Keyed(form, key) \in Forms /\ Keyed(form, key).key = key
  BY DEF Forms, Keyed

LEMMA FormsSurvive ==
  ASSUME NEW form \in Forms, NEW disk \in Disks, NEW env \in Environments
  PROVE  SavedFormSurvives(form, disk, env)
<1> DEFINE config == LoadConfig(disk, env)
           key == Shown(config).key
           shown == Keyed(form, key)
           saved == PutSettings(shown, config)
           again == LoadConfig(SaveConfig(saved, disk), env)
<1>1. config \in Configs
  BY Loaded
<1>2. config.key = Set(env.key, Set(disk.secret, disk.config.key))
  BY DEF LoadConfig, LoadedKey, Disks, Configs
<1>3. key \in {Masked, ""}
  BY DEF Shown
<1>4. shown \in Forms /\ shown.key = key
  BY <1>3, KeyedForm
<1> HIDE DEF config, key, shown
<1>5. saved \in Configs /\ saved.key = KeyOf(shown, config)
  BY <1>1, <1>4, PutFields
<1>6. KeyOf(shown, config) = config.key
  BY <1>3, <1>4 DEF KeyOf
<1> HIDE DEF saved
<1>7. /\ again.key = Set(env.key, Set(disk.secret, ""))
      /\ again.base = Set(env.base, saved.base)
      /\ again.wire = Set(env.wire, saved.wire)
      /\ again.profile = Set(env.profile, saved.profile)
      /\ again.path = Set(env.path, saved.path)
      /\ again.headers = PlainHeaders(saved.headers)
  BY <1>5, LoadedAgain
<1> HIDE DEF again
<1>8. disk.config.key = "" => again.key = saved.key
  BY <1>2, <1>5, <1>6, <1>7
<1>9. ASSUME NEW f \in Fields \ {"key"}, env[f] = "" PROVE again[f] = saved[f]
  <2>1. CASE f = "base"
    BY <1>7, <1>9, <2>1 DEF Set
  <2>2. CASE f = "wire"
    BY <1>7, <1>9, <2>2 DEF Set
  <2>3. CASE f = "profile"
    BY <1>7, <1>9, <2>3 DEF Set
  <2>4. CASE f = "path"
    BY <1>7, <1>9, <2>4 DEF Set
  <2> QED
    BY <2>1, <2>2, <2>3, <2>4 DEF Fields
<1> QED
  BY <1>7, <1>8, <1>9 DEF SavedFormSurvives, Keyed, again, saved, shown, key, config

LEMMA TestsFaithful ==
  ASSUME NEW form \in Forms, NEW config \in Configs
  PROVE  TestIsFaithful(form, config)
<1> SUFFICES ASSUME config.profile = "", config.path = "", form.base # "", form.wire # ""
             PROVE  Endpoint(TestedConfig(form, config)) = Endpoint(PutSettings(form, config))
  BY DEF TestIsFaithful
<1> DEFINE t == TestedConfig(form, config)
           s == PutSettings(form, config)
<1>1. /\ t.key = KeyOf(form, config) /\ t.base = form.base /\ t.wire = form.wire
      /\ t.profile = "" /\ t.path = ""
  BY DEF TestedConfig, Configs
<1>2. /\ s.key = KeyOf(form, config) /\ s.base = form.base /\ s.wire = form.wire
      /\ s.profile = "" /\ s.path = ""
  BY PutFields DEF Set
<1> HIDE DEF t, s
<1>3. ResolveProfile(t) = ResolveProfile(s)
  BY <1>1, <1>2 DEF ResolveProfile
<1>4. Url(t) = Url(s) /\ EffectiveWire(t) = EffectiveWire(s)
  BY <1>1, <1>2, <1>3 DEF Url, EffectiveWire
<1>5. Endpoint(t) = Endpoint(s)
  BY <1>1, <1>2, <1>3, <1>4 DEF Endpoint
<1> QED
  BY <1>5 DEF t, s

(* SettingsSurvive: for any configuration on disk, environment and form, the
   saved form is what the next start loads, and its test is about the
   endpoint it will lead to (api.py:496-531, config.py:347-463). *)
THEOREM SettingsKept == Spec => []SettingsSurvive
<1>1. ASSUME NEW x \in Saved
      PROVE  /\ SavedFormSurvives(x.form, x.disk, x.env)
             /\ TestIsFaithful(x.form, LoadConfig(x.disk, x.env))
  <2>1. x.form \in Forms /\ x.disk \in Disks /\ x.env \in Environments
    BY SavedAssumption DEF Forms, Disks, Environments
  <2> QED
    BY <2>1, FormsSurvive, TestsFaithful, Loaded
<1>2. GivenInput => SettingsSurvive
  BY <1>1, KindOf DEF SettingsSurvive
<1> QED
  BY <1>2, InputsGiven, PTL

-----------------------------------------------------------------------------
(* Scales.                                                                  *)

(* What becomes of a profile: nothing, unless it is medium. *)
Grown(given) == {given} \cup (IF given = "medium" THEN {"large", "xlarge_100k"} ELSE {})

LEMMA UpgradeGrows ==
  ASSUME NEW given, NEW name \in Grown(given), NEW stage, NEW counts
  PROVE  Upgraded(name, stage, counts) \in Grown(given)
<1>1. CASE name # "medium"
  BY <1>1 DEF Upgraded
<1>2. CASE name = "medium"
  <2> DEFINE d == ScaleFromScore(Score(stage, counts))
  <2>1. given = "medium"
    BY <1>2 DEF Grown
  <2>2. d \in {"small", "medium", "large", "xlarge_100k"}
    BY DEF ScaleFromScore
  <2>3. DOMAIN ScaleOrder = {"small", "medium", "large", "xlarge_100k"}
    BY DEF ScaleOrder
  <2>4. NormalizeScale(name) = "medium" /\ NormalizeScale(d) = d
    BY <1>2, <2>2, <2>3 DEF NormalizeScale
  <2>5. Upgraded(name, stage, counts) = ChooseLarger(name, d)
    BY <1>2 DEF Upgraded
  <2> HIDE DEF d
  <2>6. ChooseLarger(name, d) \in {"medium", "large", "xlarge_100k"}
    BY <2>2, <2>4 DEF ChooseLarger, ScaleOrder
  <2> QED
    BY <2>1, <2>5, <2>6 DEF Grown
<1> QED
  BY <1>1, <1>2

LEMMA ProfilesGrow ==
  ASSUME NEW name, NEW answers, NEW n \in Nat
  PROVE  ProfileAfter(name, answers, n) \in Grown(ResolveProfileName(name))
<1> DEFINE base == ResolveProfileName(name)
           S == Grown(base)
           Step(i, p) == Upgraded(p, i, answers[i])
           G == [i \in 1..n |-> [p \in S |-> Step(i, p)]]
           Shape(r) == r = [i \in 0..n |-> IF i = 0 THEN base ELSE Step(i, r[i - 1])]
           f == CHOOSE r : Shape(r)
<1>1. ProfileAfter(name, answers, n) = f[n]
  BY DEF ProfileAfter
<1>2. base \in S
  BY DEF Grown
<1>3. \A i \in 1..n : \A p \in S : Step(i, p) \in S
  BY UpgradeGrows
<1> HIDE DEF S, Step, base
<1>4. PICK r \in [0..n -> S] : Follows(r, n, base, G)
  <2>1. G \in [1..n -> [S -> S]]
    BY <1>3
  <2> HIDE DEF G
  <2> QED
    BY <1>2, <2>1, Recursion
<1>5. Shape(r)
  <2>1. \A i \in 1..n : r[i] = Step(i, r[i - 1])
    <3> TAKE i \in 1..n
    <3>1. r[i - 1] \in S
      OBVIOUS
    <3>2. G[i][r[i - 1]] = Step(i, r[i - 1])
      BY <3>1
    <3> QED
      BY <1>4, <3>2 DEF Follows
  <2> QED
    BY <1>4, <2>1 DEF Follows
<1>6. Shape(f)
  BY <1>5
<1> HIDE DEF f
<1> DEFINE H == {i \in 0..n : f[i] \in S}
<1>7. 0 \in H
  BY <1>2, <1>6
<1>8. ASSUME NEW i \in 1..n, i - 1 \in H PROVE i \in H
  <2>1. f[i] = Step(i, f[i - 1]) /\ f[i - 1] \in S /\ i \in 0..n
    BY <1>6, <1>8
  <2> QED
    BY <1>3, <2>1
<1>9. \A i \in 0..n : i \in H
  <2> HIDE DEF H
  <2> QED
    BY <1>7, <1>8, Induction
<1> QED
  BY <1>1, <1>9 DEF S, base

Unaided == DOMAIN DefaultAttempts \ {"quality", "release_notes"}

(* What a medium profile grows to gives each of these jobs no fewer attempts. *)
LEMMA LargerGiveMore ==
  ASSUME NEW job \in Unaided, NEW p \in {"medium", "large", "xlarge_100k"}
  PROVE  JobAttempts[p][job] >= JobAttempts["medium"][job]
<1>1. DefaultAttempts[job] \in 2..3 /\ DefaultAttempts["repair"] = 2
  BY DEF DefaultAttempts, Unaided
<1>2. job \in DOMAIN DefaultAttempts /\ job # "quality" /\ job # "release_notes"
  BY DEF Unaided
<1> DEFINE large == With(DefaultAttempts, Work \cup {"code_review"}, 4)
           most == With(large, {"integration"}, 4)
           medium == With(DefaultAttempts, {"quality", "release_notes"}, 3)
<1>3. medium[job] = DefaultAttempts[job]
  BY <1>2 DEF With
<1>4. DOMAIN large = DOMAIN DefaultAttempts /\ large[job] \in {4, DefaultAttempts[job]}
  BY <1>2 DEF With
<1>5. DOMAIN most = DOMAIN DefaultAttempts /\ most[job] \in {4, large[job]}
  BY <1>2, <1>4 DEF With
<1>6. With(most, {"repair"}, 3)[job] = IF job = "repair" THEN 3 ELSE most[job]
  BY <1>2, <1>5 DEF With
<1>7. JobAttempts["medium"] = medium /\ JobAttempts["large"] = large
  BY DEF JobAttempts
<1>8. JobAttempts["xlarge_100k"] = With(most, {"repair"}, 3)
  BY DEF JobAttempts
<1> HIDE DEF large, most, medium
<1>9. CASE p = "medium"
  BY <1>1, <1>3, <1>7, <1>9
<1>10. CASE p = "large"
  BY <1>1, <1>3, <1>4, <1>7, <1>10
<1>11. CASE p = "xlarge_100k"
  BY <1>1, <1>3, <1>4, <1>5, <1>6, <1>7, <1>8, <1>11
<1> QED
  BY <1>9, <1>10, <1>11

LEMMA AttemptsCount ==
  ASSUME NEW job \in Unaided, NEW p \in Profiles
  PROVE  JobAttempts[p][job] \in Nat
<1> DEFINE Counts(attempts) == job \in DOMAIN attempts /\ attempts[job] \in Nat
           large == With(DefaultAttempts, Work \cup {"code_review"}, 4)
           enterprise ==
             With(DefaultAttempts, Work \cup {"code_review", "integration", "repair"}, 5)
<1>1. Counts(DefaultAttempts)
  BY DEF DefaultAttempts, Unaided
<1>2. \A attempts, jobs, n : n \in Nat /\ Counts(attempts) => Counts(With(attempts, jobs, n))
  BY DEF With
<1> HIDE DEF Counts
<1>3. Counts(large) /\ Counts(enterprise)
  BY <1>1, <1>2
<1> HIDE DEF large, enterprise
<1>4. /\ Counts(With(DefaultAttempts, {"architecture_design", "package_planning"}, 2))
      /\ Counts(With(DefaultAttempts, {"quality", "release_notes"}, 3))
      /\ Counts(With(With(large, {"integration"}, 4), {"repair"}, 3))
      /\ Counts(With(enterprise, {"repair"}, 4))
  BY <1>1, <1>2, <1>3
<1>5. Counts(JobAttempts[p])
  BY <1>3, <1>4 DEF JobAttempts, Profiles, Names, large, enterprise
<1> QED
  BY <1>5 DEF Counts

(* ScaleOnlyGrows: however the answers of a project count, its run keeps the
   scale it names unless that is medium, and no job but quality and
   release_notes has fewer attempts for what was inferred
   (pipeline.py:483-508, profiles.py:74-168). *)
THEOREM ScalesOnlyGrow == Spec => []ScaleOnlyGrows
<1>1. ASSUME NEW x \in Projects PROVE InferenceOnlyAdds(x.scale, x.answers)
  <2> DEFINE given == ResolveProfileName(x.scale)
             after(n) == ProfileAfter(x.scale, x.answers, n)
  <2>1. given \in Profiles
    <3>1. \E p \in Profiles : x.scale \in Names[p]
      BY ProjectsAssumption DEF Known
    <3> QED
      BY <3>1 DEF ResolveProfileName
  <2>2. \A n \in Nat : after(n) \in Grown(given)
    BY ProfilesGrow
  <2>3. \A n \in Nat : given # "medium" => after(n) = given
    BY <2>2 DEF Grown
  <2>4. \A n \in Nat : given = "medium" => after(n) \in {"medium", "large", "xlarge_100k"}
    BY <2>2 DEF Grown
  <2>5. ASSUME NEW job \in Unaided
        PROVE  AttemptsGiven(x.scale, x.answers, job) >= JobAttempts[given][job]
    <3> DEFINE n == EnqueuedAfter(job)
    <3>1. n \in Nat
      BY DEF EnqueuedAfter
    <3>2. AttemptsGiven(x.scale, x.answers, job) = JobAttempts[after(n)][job]
      BY DEF AttemptsGiven
    <3> HIDE DEF n, given, after
    <3>3. CASE given = "medium"
      BY <2>4, <3>1, <3>2, <3>3, LargerGiveMore
    <3>4. CASE given # "medium"
      <4>1. JobAttempts[given][job] \in Nat
        BY <2>1, AttemptsCount
      <4> QED
        BY <2>3, <3>1, <3>2, <3>4, <4>1
    <3> QED
      BY <3>3, <3>4
  <2> QED
    BY <2>3, <2>5 DEF InferenceOnlyAdds, Unaided
<1>2. GivenInput => ScaleOnlyGrows
  BY <1>1, KindOf DEF ScaleOnlyGrows
<1> QED
  BY <1>2, InputsGiven, PTL
-----------------------------------------------------------------------------
(* Payloads.                                                                *)

Sums(f, numbers) ==
  /\ f \in [0..Len(numbers) -> Nat] /\ f[0] = 0
  /\ \A i \in 1..Len(numbers) : f[i] = f[i - 1] + numbers[i]

LEMMA SumUnfolds ==
  ASSUME NEW numbers \in Seq(Nat)
  PROVE  \E f : Sums(f, numbers) /\ Sum(numbers) = f[Len(numbers)]
<1> DEFINE n == Len(numbers)
           Step(i, s) == s + numbers[i]
           G == [i \in 1..n |-> [s \in Nat |-> Step(i, s)]]
           Shape(r) == r = [i \in 0..n |-> IF i = 0 THEN 0 ELSE Step(i, r[i - 1])]
           f == CHOOSE r : Shape(r)
<1>1. n \in Nat /\ numbers \in [1..n -> Nat]
  OBVIOUS
<1>2. Sum(numbers) = f[n]
  BY DEF Sum
<1>3. \A i \in 1..n : \A s \in Nat : Step(i, s) \in Nat
  BY <1>1
<1>4. \A i \in 1..n, s \in Nat : Step(i, s) = s + numbers[i]
  OBVIOUS
<1> HIDE DEF n, Step
<1>5. PICK r \in [0..n -> Nat] : Follows(r, n, 0, G)
  <2>1. G \in [1..n -> [Nat -> Nat]]
    BY <1>3
  <2> HIDE DEF G
  <2> QED
    BY <1>1, <2>1, Recursion
<1>6. Shape(r)
  <2>1. \A i \in 1..n : r[i] = Step(i, r[i - 1])
    <3> TAKE i \in 1..n
    <3>1. r[i - 1] \in Nat
      BY <1>1
    <3>2. G[i][r[i - 1]] = Step(i, r[i - 1])
      BY <3>1
    <3> QED
      BY <1>5, <3>2 DEF Follows
  <2> QED
    BY <1>1, <1>5, <2>1 DEF Follows
<1>7. Shape(f)
  BY <1>6
<1> HIDE DEF f
<1> DEFINE H == {i \in 0..n : f[i] \in Nat}
<1>8. 0 \in H
  BY <1>1, <1>7
<1>9. ASSUME NEW i \in 1..n, i - 1 \in H PROVE i \in H
  <2>1. f[i] = Step(i, f[i - 1]) /\ f[i - 1] \in Nat /\ i \in 0..n
    BY <1>1, <1>7, <1>9
  <2> QED
    BY <1>3, <2>1
<1>10. \A i \in 0..n : i \in H
  <2> HIDE DEF H
  <2> QED
    BY <1>1, <1>8, <1>9, Induction
<1>11. \A i \in 1..n : f[i] = f[i - 1] + numbers[i]
  <2> TAKE i \in 1..n
  <2>1. i - 1 \in 0..n
    BY <1>1
  <2>2. f[i] = Step(i, f[i - 1]) /\ f[i - 1] \in Nat
    BY <1>1, <1>7, <1>10, <2>1
  <2> QED
    BY <1>4, <2>2
<1>12. f[0] = 0 /\ f \in [0..n -> Nat]
  BY <1>1, <1>7, <1>10
<1>13. Sums(f, numbers)
  BY <1>11, <1>12 DEF Sums, n
<1> QED
  BY <1>2, <1>13 DEF n

LEMMA Fifths ==
  ASSUME NEW o \in Nat, o > 0
  PROVE  (o * 6) \div 5 \in Nat /\ (o * 6) \div 5 >= o
  OBVIOUS

LEMMA KeepShape ==
  ASSUME NEW length \in Nat, NEW o \in Int, o > 0
  PROVE  /\ Keep(length, o) \in Nat /\ Keep(length, o) >= 500
         /\ Keep(length, o) # 500 => length - Keep(length, o) >= o
         /\ Keep(length, o) >= length => length <= 500
<1> DEFINE d == (o * 6) \div 5
<1>1. d \in Nat /\ d >= o
  BY Fifths
<1>2. Keep(length, o) = IF length - d > 500 THEN length - d ELSE 500
  BY DEF Keep
<1> HIDE DEF d
<1> QED
  BY <1>1, <1>2

(* What is left of an excess behind a string. *)
LeftOver(length, was) ==
  IF IsCut(length, was) THEN was - CutAway(length, Keep(length, was)) ELSE was

LEMMA LeftOverShape ==
  ASSUME NEW length \in Nat, NEW was \in Int
  PROVE  LeftOver(length, was) \in Int /\ LeftOver(length, was) <= was
<1>1. CASE IsCut(length, was)
  <2>1. was > 0 /\ Keep(length, was) < length
    BY <1>1 DEF IsCut
  <2>2. Keep(length, was) \in Nat
    BY <2>1, KeepShape
  <2>3. LeftOver(length, was) = was - (length - Keep(length, was))
    BY <1>1 DEF LeftOver, CutAway
  <2> QED
    BY <2>1, <2>2, <2>3
<1>2. CASE ~IsCut(length, was)
  BY <1>2 DEF LeftOver
<1> QED
  BY <1>1, <1>2

LEMMA ExcessUnfolds ==
  ASSUME NEW payload, NEW limit, payload.strings \in Seq(Nat), Size(payload) - limit \in Int
  PROVE  LET over == Excess(payload, limit) IN
         /\ over \in [0..Len(payload.strings) -> Int]
         /\ over[0] = Size(payload) - limit
         /\ \A i \in 1..Len(payload.strings) :
              over[i] = LeftOver(payload.strings[i], over[i - 1])
<1> DEFINE n == Len(payload.strings)
           base == Size(payload) - limit
           Step(i, was) == LeftOver(payload.strings[i], was)
           G == [i \in 1..n |-> [was \in Int |-> Step(i, was)]]
           Shape(r) == r = [i \in 0..n |-> IF i = 0 THEN base ELSE Step(i, r[i - 1])]
           f == CHOOSE r : Shape(r)
<1>1. n \in Nat /\ payload.strings \in [1..n -> Nat] /\ base \in Int
  OBVIOUS
<1>2. Excess(payload, limit) = f
  BY DEF Excess, LeftOver
<1>3. \A i \in 1..n : \A was \in Int : Step(i, was) \in Int
  BY <1>1, LeftOverShape
<1>4. \A i \in 1..n : \A was : Step(i, was) = LeftOver(payload.strings[i], was)
  OBVIOUS
<1> HIDE DEF n, Step, base
<1>5. PICK r \in [0..n -> Int] : Follows(r, n, base, G)
  <2>1. G \in [1..n -> [Int -> Int]]
    BY <1>3
  <2> HIDE DEF G
  <2> QED
    BY <1>1, <2>1, Recursion
<1>6. Shape(r)
  <2>1. \A i \in 1..n : r[i] = Step(i, r[i - 1])
    <3> TAKE i \in 1..n
    <3>1. r[i - 1] \in Int
      BY <1>1
    <3>2. G[i][r[i - 1]] = Step(i, r[i - 1])
      BY <3>1
    <3> QED
      BY <1>5, <3>2 DEF Follows
  <2> QED
    BY <1>1, <1>5, <2>1 DEF Follows
<1>7. Shape(f)
  BY <1>6
<1> HIDE DEF f
<1> DEFINE H == {i \in 0..n : f[i] \in Int}
<1>8. 0 \in H
  BY <1>1, <1>7
<1>9. ASSUME NEW i \in 1..n, i - 1 \in H PROVE i \in H
  <2>1. f[i] = Step(i, f[i - 1]) /\ f[i - 1] \in Int /\ i \in 0..n
    BY <1>1, <1>7, <1>9
  <2> QED
    BY <1>3, <2>1
<1>10. \A i \in 0..n : i \in H
  <2> HIDE DEF H
  <2> QED
    BY <1>1, <1>8, <1>9, Induction
<1>11. \A i \in 1..n : f[i] = LeftOver(payload.strings[i], f[i - 1])
  <2> TAKE i \in 1..n
  <2>1. f[i] = Step(i, f[i - 1])
    BY <1>1, <1>7
  <2> QED
    BY <1>4, <2>1
<1>12. f[0] = base /\ f \in [0..n -> Int]
  BY <1>1, <1>7, <1>10
<1> QED
  BY <1>2, <1>11, <1>12 DEF n, base

(* What truncation makes of each string, and its mark. *)
MarkOf(length, was) == IF IsCut(length, was) THEN MarkerSize(length) ELSE 0
CutOf(length, was) ==
  IF MarkOf(length, was) = 0 THEN length ELSE Keep(length, was) + MarkOf(length, was)

LEMMA CutShape ==
  ASSUME NEW length \in Nat, NEW was \in Int
  PROVE  /\ MarkOf(length, was) \in Nat /\ CutOf(length, was) \in Nat
         /\ CutOf(length, was) = length - (was - LeftOver(length, was)) + MarkOf(length, was)
         /\ LeftOver(length, was) > 0 => CutOf(length, was) <= 500 + MarkerSize(length)
<1>1. MarkerSize(length) \in 32..35
  BY SMT DEF MarkerSize
<1>2. CASE IsCut(length, was)
  <2>1. was > 0 /\ Keep(length, was) < length
    BY <1>2 DEF IsCut
  <2>2. /\ Keep(length, was) \in Nat
        /\ Keep(length, was) # 500 => length - Keep(length, was) >= was
    BY <2>1, KeepShape
  <2>3. LeftOver(length, was) = was - (length - Keep(length, was))
    BY <1>2 DEF LeftOver, CutAway
  <2>4. /\ MarkOf(length, was) = MarkerSize(length)
        /\ CutOf(length, was) = Keep(length, was) + MarkerSize(length)
    BY <1>1, <1>2 DEF MarkOf, CutOf
  <2> QED
    BY <1>1, <2>1, <2>2, <2>3, <2>4
<1>3. CASE ~IsCut(length, was)
  <2>1. LeftOver(length, was) = was /\ MarkOf(length, was) = 0 /\ CutOf(length, was) = length
    BY <1>3 DEF LeftOver, MarkOf, CutOf
  <2>2. was > 0 => length <= 500
    <3> SUFFICES ASSUME was > 0 PROVE length <= 500
      OBVIOUS
    <3>1. length <= 200 \/ ~(Keep(length, was) < length)
      BY <1>3 DEF IsCut
    <3>2. Keep(length, was) \in Nat /\ (Keep(length, was) >= length => length <= 500)
      BY KeepShape
    <3> QED
      BY <3>1, <3>2
  <2> QED
    BY <1>1, <2>1, <2>2
<1> QED
  BY <1>2, <1>3

LEMMA SumsAdvance ==
  ASSUME NEW a \in Nat, NEW b \in Nat, NEW c \in Nat, NEW s \in Nat, NEW m \in Nat,
         NEW first \in Int, NEW was \in Int, NEW is \in Int, NEW t,
         c = a - (first - was) + b, t = s - (was - is) + m
  PROVE  c + t = (a + s) - (first - is) + (b + m)
  OBVIOUS

LEMMA SumsEnd ==
  ASSUME NEW a \in Nat, NEW b \in Nat, NEW c \in Nat, NEW rest \in Nat, NEW limit \in Nat,
         NEW first \in Int, NEW is \in Int,
         c = a - (first - is) + b, first = rest + a - limit
  PROVE  rest + c = limit + is + b
  OBVIOUS

LEMMA Truncated ==
  ASSUME NEW payload \in [counted : Nat, uncounted : Nat, strings : Seq(Nat)],
         NEW limit \in Nat
  PROVE  LET r == Truncate(payload, limit) IN
         \/ Size(r) <= limit + Sum(Marks(payload, limit))
         \/ \A i \in DOMAIN r.strings : r.strings[i] <= 500 + MarkerSize(payload.strings[i])
<1> DEFINE s == payload.strings
           n == Len(s)
           over == Excess(payload, limit)
           m == Marks(payload, limit)
           cut(i) == IF m[i] = 0 THEN s[i] ELSE Keep(s[i], over[i - 1]) + m[i]
           t == [i \in 1..n |-> cut(i)]
           r == Truncate(payload, limit)
           rest == payload.counted + payload.uncounted
<1>1. /\ s \in Seq(Nat) /\ s \in [1..n -> Nat] /\ n \in Nat /\ DOMAIN s = 1..n
      /\ Len(s) = n
      /\ rest \in Nat
  OBVIOUS
<1>2. PICK a : Sums(a, s) /\ Sum(s) = a[n]
  BY <1>1, SumUnfolds
<1>3. a \in [0..n -> Nat] /\ a[0] = 0 /\ \A i \in 1..n : a[i] = a[i - 1] + s[i]
  BY <1>1, <1>2 DEF Sums
<1>4. Size(payload) = rest + a[n] /\ Size(payload) - limit \in Int
  <2>1. Size(payload) = rest + Sum(s)
    BY DEF Size
  <2> HIDE DEF rest, n, s
  <2>2. a[n] \in Nat
    BY <1>1, <1>3
  <2> QED
    BY <1>1, <1>2, <2>1, <2>2
<1>5. /\ over \in [0..n -> Int] /\ over[0] = Size(payload) - limit
      /\ \A i \in 1..n : over[i] = LeftOver(s[i], over[i - 1])
  BY <1>1, <1>4, ExcessUnfolds
<1>6. m = [i \in 1..n |-> IF IsCut(s[i], over[i - 1]) THEN MarkerSize(s[i]) ELSE 0]
  BY <1>1 DEF Marks
<1>7. r = IF Size(payload) <= limit THEN payload ELSE [payload EXCEPT !.strings = t]
  BY <1>1 DEF Truncate
<1> HIDE DEF over, m, n, s, r, rest
<1>8. ASSUME NEW i \in 1..n
      PROVE  /\ m[i] \in Nat /\ t[i] \in Nat
             /\ t[i] = s[i] - (over[i - 1] - over[i]) + m[i]
             /\ over[i] > 0 => t[i] <= 500 + MarkerSize(s[i])
             /\ over[i] <= over[i - 1]
  <2>1. s[i] \in Nat /\ over[i - 1] \in Int
    BY <1>1, <1>5
  <2>2. m[i] = MarkOf(s[i], over[i - 1])
    BY <1>6 DEF MarkOf
  <2>3. over[i] = LeftOver(s[i], over[i - 1])
    BY <1>5
  <2>4. t[i] = CutOf(s[i], over[i - 1])
    BY <2>2 DEF CutOf
  <2> HIDE DEF t
  <2>5. /\ MarkOf(s[i], over[i - 1]) \in Nat /\ CutOf(s[i], over[i - 1]) \in Nat
        /\ CutOf(s[i], over[i - 1])
             = s[i] - (over[i - 1] - LeftOver(s[i], over[i - 1])) + MarkOf(s[i], over[i - 1])
        /\ LeftOver(s[i], over[i - 1]) > 0 => CutOf(s[i], over[i - 1]) <= 500 + MarkerSize(s[i])
    BY <2>1, CutShape
  <2>6. LeftOver(s[i], over[i - 1]) <= over[i - 1]
    BY <2>1, LeftOverShape
  <2> QED
    BY <2>2, <2>3, <2>4, <2>5, <2>6
<1>9. DOMAIN t = 1..n /\ t = [i \in 1..n |-> t[i]]
  OBVIOUS
<1> HIDE DEF t
<1>10. m \in [1..n -> Nat] /\ t \in [1..n -> Nat]
  <2>1. m = [i \in 1..n |-> m[i]]
    BY <1>6
  <2> QED
    BY <1>8, <1>9, <2>1
<1>11. /\ m \in Seq(Nat) /\ Len(m) = n
      /\ t \in Seq(Nat) /\ Len(t) = n
  BY <1>1, <1>10
<1>12. PICK b : Sums(b, m) /\ Sum(m) = b[n]
  BY <1>11, SumUnfolds
<1>13. b \in [0..n -> Nat] /\ b[0] = 0 /\ \A i \in 1..n : b[i] = b[i - 1] + m[i]
  BY <1>11, <1>12 DEF Sums
<1>14. CASE Size(payload) <= limit
  <2>1. r = payload
    BY <1>7, <1>14
  <2>2. Size(r) <= limit + Sum(m)
    BY <1>1, <1>3, <1>4, <1>12, <1>13, <1>14, <2>1
  <2> QED
    BY <2>2 DEF m, r
<1>15. CASE ~(Size(payload) <= limit)
  <2>1. r = [payload EXCEPT !.strings = t]
    BY <1>7, <1>15
  <2>2. r.strings = t /\ r.counted + r.uncounted = rest
    BY <2>1 DEF rest
  <2>3. CASE over[n] > 0
    <3> DEFINE H == {j \in 0..n : over[n - j] > 0}
    <3>1. 0 \in H
      BY <1>1, <2>3
    <3>2. ASSUME NEW j \in 1..n, j - 1 \in H PROVE j \in H
      <4>1. n - j + 1 \in 1..n /\ (n - j + 1) - 1 = n - j /\ n - (j - 1) = n - j + 1
        BY <1>1
      <4>2. over[n - j + 1] <= over[n - j] /\ over[n - j + 1] > 0
        BY <1>8, <3>2, <4>1
      <4>3. over[n - j] \in Int /\ over[n - j + 1] \in Int
        BY <1>1, <1>5
      <4> QED
        BY <4>2, <4>3
    <3>3. \A j \in 0..n : j \in H
      <4> HIDE DEF H
      <4> QED
        BY <1>1, <3>1, <3>2, Induction
    <3>4. \A i \in 1..n : over[i] > 0
      <4> TAKE i \in 1..n
      <4>1. n - i \in 0..n /\ n - (n - i) = i
        BY <1>1
      <4>2. n - i \in H
        BY <3>3, <4>1
      <4> QED
        BY <4>1, <4>2
    <3>5. \A i \in 1..n : t[i] <= 500 + MarkerSize(s[i])
      BY <1>8, <3>4
    <3>7. \A i \in DOMAIN r.strings : r.strings[i] <= 500 + MarkerSize(payload.strings[i])
      BY <1>9, <2>2, <3>5 DEF s
    <3> QED
      BY <3>7 DEF r
  <2>4. CASE ~(over[n] > 0)
    <3>1. over[n] <= 0
      BY <1>1, <1>5, <2>4
    <3>4. PICK c : Sums(c, t) /\ Sum(t) = c[n]
      BY <1>11, SumUnfolds
    <3>5. c \in [0..n -> Nat] /\ c[0] = 0 /\ \A i \in 1..n : c[i] = c[i - 1] + t[i]
      BY <1>11, <3>4 DEF Sums
    <3> DEFINE H == {i \in 0..n : c[i] = a[i] - (over[0] - over[i]) + b[i]}
    <3>6. 0 \in H
      BY <1>1, <1>3, <1>5, <1>13, <3>5
    <3>7. ASSUME NEW i \in 1..n, i - 1 \in H PROVE i \in H
      <4>1. /\ a[i] = a[i - 1] + s[i] /\ b[i] = b[i - 1] + m[i] /\ c[i] = c[i - 1] + t[i]
            /\ t[i] = s[i] - (over[i - 1] - over[i]) + m[i]
        BY <1>3, <1>8, <1>13, <3>5
      <4>2. i \in 0..n /\ i - 1 \in 0..n /\ 0 \in 0..n
        BY <1>1
      <4>3. /\ over[i] \in Int /\ over[i - 1] \in Int /\ over[0] \in Int
            /\ s[i] \in Nat /\ m[i] \in Nat
            /\ a[i - 1] \in Nat /\ b[i - 1] \in Nat /\ c[i - 1] \in Nat
        BY <1>1, <1>3, <1>5, <1>10, <1>13, <3>5, <4>2
      <4>4. c[i - 1] = a[i - 1] - (over[0] - over[i - 1]) + b[i - 1]
        BY <3>7
      <4>5. c[i - 1] + t[i]
              = (a[i - 1] + s[i]) - (over[0] - over[i]) + (b[i - 1] + m[i])
        <5> DEFINE A == a[i - 1]
                   B == b[i - 1]
                   C == c[i - 1]
                   first == over[0]
                   was == over[i - 1]
                   is == over[i]
        <5>1. /\ A \in Nat /\ B \in Nat /\ C \in Nat /\ s[i] \in Nat /\ m[i] \in Nat
              /\ first \in Int /\ was \in Int /\ is \in Int
              /\ C = A - (first - was) + B /\ t[i] = s[i] - (was - is) + m[i]
          BY <4>1, <4>3, <4>4
        <5> HIDE DEF A, B, C, first, was, is
        <5>2. C + t[i] = (A + s[i]) - (first - is) + (B + m[i])
          BY <5>1, SumsAdvance
        <5> QED
          BY <5>2 DEF A, B, C, first, is
      <4>6. c[i] = a[i] - (over[0] - over[i]) + b[i]
        BY <4>1, <4>5
      <4> QED
        BY <4>2, <4>6
    <3>8. \A i \in 0..n : i \in H
      <4> HIDE DEF H
      <4> QED
        BY <1>1, <3>6, <3>7, Induction
    <3>9. c[n] = a[n] - (over[0] - over[n]) + b[n]
      <4>1. n \in H
        BY <1>1, <3>8
      <4> QED
        BY <4>1
    <3>10. Size(r) = rest + c[n]
      BY <2>2, <3>4 DEF Size
    <3>11. /\ over[0] \in Int /\ over[n] \in Int /\ a[n] \in Nat /\ b[n] \in Nat /\ c[n] \in Nat
      BY <1>1, <1>3, <1>5, <1>13, <3>5
    <3>12. over[0] = rest + a[n] - limit
      BY <1>1, <1>3, <1>4, <1>5, <3>11
    <3>13. Size(r) = limit + over[n] + b[n]
      <4>1. rest + c[n] = limit + over[n] + b[n]
        <5> DEFINE A == a[n]
                   B == b[n]
                   C == c[n]
                   first == over[0]
                   last == over[n]
        <5>1. /\ A \in Nat /\ B \in Nat /\ C \in Nat /\ first \in Int /\ last \in Int
              /\ C = A - (first - last) + B /\ first = rest + A - limit
          BY <3>9, <3>11, <3>12
        <5>2. rest \in Nat
          BY <1>1
        <5> HIDE DEF A, B, C, first, last
        <5>3. rest + C = limit + last + B
          BY <5>1, <5>2, SumsEnd
        <5> QED
          BY <5>3 DEF B, C, last
      <4> QED
        BY <3>10, <4>1
    <3>14. Size(r) <= limit + Sum(m)
      BY <1>12, <3>1, <3>11, <3>13
    <3> QED
      BY <3>14 DEF m, r
  <2> QED
    BY <2>3, <2>4
<1> QED
  BY <1>14, <1>15

LEMMA Sent ==
  ASSUME NEW payload \in [counted : Nat, uncounted : Nat, strings : Seq(Nat)],
         NEW limit \in Nat
  PROVE  FitsOrSpent(payload, limit)
<1>1. CASE Estimate(payload) > limit
  <2>1. Prepared(payload, limit) = Truncate(payload, limit)
    BY <1>1 DEF Prepared
  <2> QED
    BY <1>1, <2>1, Truncated DEF FitsOrSpent
<1>2. CASE ~(Estimate(payload) > limit)
  <2>1. Prepared(payload, limit) = payload
    BY <1>2 DEF Prepared
  <2>2. PICK f : Sums(f, payload.strings) /\ Sum(payload.strings) = f[Len(payload.strings)]
    BY SumUnfolds
  <2>3. Sum(payload.strings) \in Nat
    BY <2>2 DEF Sums
  <2>4. Size(payload) <= limit + payload.uncounted
    BY <1>2, <2>3 DEF Size, Estimate
  <2> QED
    BY <1>2, <2>1, <2>4 DEF FitsOrSpent
<1> QED
  BY <1>1, <1>2

(* PayloadsFit: a payload that is still too long behind its truncation is so
   by the marks of the cuts only, or all of its strings are as short as
   truncation makes them; one that passes the gate uncut is too long by what
   the estimate leaves out at most (scheduler.py:80-137, 182-189). *)
THEOREM PayloadsFitOrSpent == Spec => []PayloadsFit
<1>1. ASSUME NEW x \in Payloads PROVE FitsOrSpent(x.payload, x.limit)
  <2>1. \A n \in StringLengths : n \in Nat
    BY SMT DEF StringLengths
  <2>2. \A q \in Seq(StringLengths) : q \in Seq(Nat)
    BY <2>1, SeqGrows
  <2>3. x.payload \in [counted : Nat, uncounted : Nat, strings : Seq(Nat)] /\ x.limit \in Nat
    <3> DEFINE A == Seq(StringLengths)
               B == Seq(Nat)
    <3>1. x \in [kind : {"payload"}, payload : [counted : Nat, uncounted : Nat, strings : A],
                limit : Nat]
      BY PayloadsAssumption
    <3>2. A \subseteq B
      BY <2>2
    <3> HIDE DEF A, B
    <3>3. x.payload \in [counted : Nat, uncounted : Nat, strings : B] /\ x.limit \in Nat
      BY <3>1, <3>2
    <3> QED
      BY <3>3 DEF B
  <2> QED
    BY <2>3, Sent
<1>2. GivenInput => PayloadsFit
  BY <1>1, KindOf DEF PayloadsFit
<1> QED
  BY <1>2, InputsGiven, PTL
=============================================================================
