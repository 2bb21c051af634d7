------------------------------ MODULE Planning ------------------------------
(***************************************************************************)
(* How the plan of a run is made from the two answers of the planner       *)
(* (phases/planning.py): a scope answer that lists the work packages and a *)
(* wave answer that lists the waves, or the defaults that stand in for an  *)
(* answer that failed.  Paths are those of Workspace.                      *)
(*                                                                         *)
(* A package is [key, role, wave, allowed, forbidden, deps]; role is       *)
(* "infrastructure" or another, wave is "" when the answer has none.  A    *)
(* wave is [key, members], its key "" when the answer has none and members *)
(* the set of the keys it lists.                                           *)
(***************************************************************************)
EXTENDS Workspace, FiniteSets

CONSTANT NumberedKeys   \* "wave_0", "wave_1", ... for the waves an answer may have

ASSUME NumberedKeysAssumption ==
  /\ NumberedKeys \in Seq(STRING \ {""})
  /\ Len(NumberedKeys) >= 2
  /\ NumberedKeys[1] = "wave_0" /\ NumberedKeys[2] = "wave_1"

Star == "*"

(* _merge_plan: a package goes where the last wave that lists it is.  The
   scope answer may list its packages under one of three names. *)
LastListing(waves, key) ==
  LET listing == {i \in DOMAIN waves : key \in waves[i].members} IN
  IF listing = {} THEN 0 ELSE CHOOSE i \in listing : \A j \in listing : j <= i

Assigned(package, waves) ==
  LET i == LastListing(waves, package.key) IN
  IF i = 0 THEN package ELSE [package EXCEPT !.wave = waves[i].key]

MergePlan(scope, waves) ==
  [packages |-> [i \in DOMAIN scope.packages |-> Assigned(scope.packages[i], waves)],
   waves |-> waves]

(* _normalize_plan: waves without a key are numbered from 0; packages without
   a wave go to the first. *)
Named(wave, i) == IF wave.key = "" THEN [wave EXCEPT !.key = NumberedKeys[i]] ELSE wave

KeepUnplaced(package, first) == package
PlaceUnassigned(package, first) ==
  IF package.wave = "" THEN [package EXCEPT !.wave = first] ELSE package

NormalizePlan(plan) ==
  LET named == [i \in DOMAIN plan.waves |-> Named(plan.waves[i], i)] IN
  [packages |-> IF named = <<>> THEN plan.packages
                ELSE [i \in DOMAIN plan.packages |->
                        PlaceUnassigned(plan.packages[i], named[1].key)],
   waves |-> named]

(* _ensure_infrastructure_package: always in the first wave, which is created
   when there is none.  Four of its thirteen patterns stand for all. *)
InfraPaths == {<<<<Star, ".json">>>>, <<<<Star, ".md">>>>,
               <<<<"Dockerfile">>>>, <<<<"docker-compose", ".yml">>>>}

InfraPackage(wave) ==
  [key |-> "infrastructure_setup", role |-> "infrastructure", wave |-> wave,
   allowed |-> InfraPaths, forbidden |-> {}, deps |-> {}]

EnsureInfrastructure(plan) ==
  IF \E p \in ToSet(plan.packages) : p.role = "infrastructure" THEN plan
  ELSE LET waves == IF plan.waves = <<>> THEN <<[key |-> "wave_0", members |-> {}]>>
                    ELSE plan.waves IN
       [packages |-> <<InfraPackage(waves[1].key)>> \o plan.packages,
        waves |-> waves]

(* _fix_path_conflicts: a forbidden pattern goes when it and an allowed one,
   both without trailing slashes and stars, one is a prefix of the other. *)
Stem(path) ==
  LET t == Text(path)
      kept == {i \in DOMAIN t : t[i] \notin {"/", Star}} IN
  IF kept = {} THEN <<>>
  ELSE SubSeq(t, 1, CHOOSE i \in kept : \A j \in kept : j <= i)

Conflict(f, a) == IsPrefix(Stem(a), Stem(f)) \/ IsPrefix(Stem(f), Stem(a))

Unblocked(package) ==
  [package EXCEPT !.forbidden = {f \in @ : \A a \in package.allowed : ~Conflict(f, a)}]

FixPathConflicts(plan) ==
  [packages |-> [i \in DOMAIN plan.packages |-> Unblocked(plan.packages[i])],
   waves |-> plan.waves]

(* _find_path_overlaps.  A literal path that begins with another gives the
   shorter one; any two paths with two literal segments in common, compared
   position by position, give those segments. *)
Literal(path) == \A i \in DOMAIN path : Star \notin ToSet(path[i])
LiteralSegments(path) == SelectSeq(path, LAMBDA seg : Star \notin ToSet(seg))

Common(a, b) ==
  LET p == LiteralSegments(a)
      q == LiteralSegments(b)
      n == IF Len(p) <= Len(q) THEN Len(p) ELSE Len(q)
      same == SelectSeq([i \in 1..n |-> i], LAMBDA i : p[i] = q[i]) IN
  [i \in DOMAIN same |-> p[same[i]]]

PairOverlaps(a, b) ==
  (IF /\ Literal(a) /\ Literal(b)
      /\ IsPrefix(Text(a), Text(b)) \/ IsPrefix(Text(b), Text(a))
   THEN {IF Len(Text(a)) <= Len(Text(b)) THEN a ELSE b} ELSE {})
  \cup (IF Len(Common(a, b)) >= 2 THEN {Common(a, b)} ELSE {})

Overlaps(as, bs) == UNION {PairOverlaps(a, b) : a \in as, b \in bs}

(* _resolve_path_overlaps: packages of one wave, which run in parallel, must
   both keep away from what they overlap in. *)
NeighboursOnly(plan, i) ==
  {j \in {i - 1, i + 1} \cap DOMAIN plan.packages :
     plan.packages[j].wave = plan.packages[i].wave}
WaveMates(plan, i) ==
  {j \in DOMAIN plan.packages \ {i} : plan.packages[j].wave = plan.packages[i].wave}

OverlapsOf(plan, i) ==
  UNION {Overlaps(plan.packages[i].allowed, plan.packages[j].allowed) : j \in WaveMates(plan, i)}

Avoiding(package, paths) == [package EXCEPT !.forbidden = @ \cup paths]

ResolvePathOverlaps(plan) ==
  [packages |-> [i \in DOMAIN plan.packages |->
                   Avoiding(plan.packages[i], OverlapsOf(plan, i))],
   waves |-> plan.waves]

(* execute, from the answers to the plan that is stored. *)
Plan(scope, waves) ==
  ResolvePathOverlaps(FixPathConflicts(EnsureInfrastructure(
    NormalizePlan(MergePlan(scope, waves)))))

(* The packages that are stored: those of a wave that was.  One of role
   "infrastructure" raises when it is stored, and the packages behind it are
   not stored in that execution; Phases has that, here it counts as stored. *)
Stored(plan) ==
  {p \in ToSet(plan.packages) : p.wave # "" /\ \E w \in ToSet(plan.waves) : w.key = p.wave}

-----------------------------------------------------------------------------
(* The defaults.                                                            *)

NotSource == {<<<<"tests">>>>, <<<<"test">>>>, <<<<"docs">>>>, <<<<"dist">>>>,
              <<<<"build">>>>, <<<<"public">>>>, <<<<"static">>>>}

(* _default_scope_plan, for the directories of the layout, in order. *)
DefaultScope(directories) ==
  LET found == SelectSeq(directories, LAMBDA d : d \notin NotSource)
      dirs == IF found = <<>> THEN << <<<<"src">>>> >> ELSE found IN
  [alias |-> FALSE, packages |-> <<
    [key |-> "backend", role |-> "backend", wave |-> "",
     allowed |-> {d \o <<<<Star, Star>>, <<Star, ".py">>>> : d \in ToSet(dirs)}
                 \cup {<<<<Star, ".py">>>>, <<<<Star, ".json">>>>},
     forbidden |-> {<<<<"tests">>, <<Star, Star>>>>}, deps |-> {}],
    [key |-> "tests", role |-> "qa", wave |-> "",
     allowed |-> {<<<<"tests">>, <<Star, Star>>, <<Star, ".py">>>>,
                  <<<<"test_", Star, ".py">>>>},
     forbidden |-> {}, deps |-> {"backend"}]>>]

(* _default_wave_plan, which knows one of the three names only: packages that
   depend on others go to a second wave. *)
Independent(package) == package.deps = {}

KeysOf(packages) == {p.key : p \in packages}

WaveOf(key, packages) ==
  IF packages = {} THEN <<>> ELSE <<[key |-> key, members |-> KeysOf(packages)]>>

DefaultWaves(scope) ==
  LET all == ToSet(scope.packages)
      first == {p \in all : Independent(p)} IN
  IF scope.alias THEN <<>> ELSE WaveOf("wave_0", first) \o WaveOf("wave_1", all \ first)

-----------------------------------------------------------------------------
(* What the plan promises.                                                  *)

(* Where the packages of a wave stand among the waves; 0 if nowhere. *)
Position(plan, key) ==
  LET at == {i \in DOMAIN plan.waves : plan.waves[i].key = key} IN
  IF at = {} THEN 0 ELSE CHOOSE i \in at : \A j \in at : i <= j

(* A package is lost from the plan only if the answers put it into a wave
   that does not exist, or there are no waves and it has none. *)
LosesOnlyMisplaced(scope, waves) ==
  LET plan == Plan(scope, waves) IN
  \A p \in ToSet(scope.packages) :
    \/ \E s \in Stored(plan) : s.key = p.key
    \/ LastListing(waves, p.key) = 0 /\ p.wave # ""
    \/ waves = <<>>

(* With the default waves no package stands before one it depends on. *)
DefaultsFollowDependencies(scope) ==
  LET plan == Plan(scope, DefaultWaves(scope)) IN
  ~scope.alias =>
    \A p \in Stored(plan), q \in Stored(plan) :
      q.key \in p.deps => Position(plan, q.wave) <= Position(plan, p.wave)

(* A path that two packages of a wave list literally has at most one that may
   write it: they run at the same time in one workspace.  Patterns are not
   normalised as paths are, so one like "src/./main.py" protects nothing, and
   one like "app/[id]/page.tsx" does not match itself. *)
Classless(path) == \A i \in DOMAIN path : ToSet(path[i]) \cap Classes = {}

MayWrite(package, path) ==
  ValidPath([absolute |-> FALSE, path |-> path], package.allowed, package.forbidden)

SharedPathsExclusive(plan) ==
  \A p \in Stored(plan), q \in Stored(plan) :
    p.key # q.key /\ p.wave = q.wave =>
      \A path \in p.allowed \cap q.allowed :
        Literal(path) /\ Classless(path) /\ Normalised(path) = path =>
          ~(MayWrite(p, path) /\ MayWrite(q, path))
=============================================================================
