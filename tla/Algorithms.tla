------------------------------ MODULE Algorithms ------------------------------
(***************************************************************************)
(* The algorithms of Workspace, Planning, LLMClient, Settings and Scale:   *)
(* a state is one input, taken from the set of its kind, and each property *)
(* is about the inputs of one kind.                                        *)
(***************************************************************************)
EXTENDS Planning, Settings, Scale

CONSTANTS
  Plans,      \* the two answers of the planner
  Manifests,  \* a workspace, the manifests of two executions, a package's patterns
  Calls,      \* a question to the endpoint, and what would come of each attempt
  Payloads,   \* a payload, and the limit of its task
  Saved,      \* a configuration on disk, an environment and a form
  Projects    \* a scale, and what the first three phases count in their answers

Packages ==
  [key : STRING, role : STRING, wave : STRING,
   allowed : SUBSET Path, forbidden : SUBSET Path, deps : SUBSET STRING]

ASSUME PlansAssumption ==
  /\ Plans \subseteq [kind : {"plan"}, scope : [alias : BOOLEAN, packages : Seq(Packages)],
                      waves : Seq([key : STRING, members : SUBSET STRING])]
  /\ \A x \in Plans : Len(x.waves) <= Len(NumberedKeys)

ASSUME ManifestsAssumption ==
  \A x \in Manifests :
    /\ x.kind = "manifest"
    /\ x.tree = [files |-> [p \in DOMAIN x.tree.files |-> x.tree.files[p]],
                 dirs |-> x.tree.dirs]
    /\ IsFileTree(x.tree)
    /\ {x.files, x.again} \subseteq
         Seq([absolute : BOOLEAN, path : Path, action : STRING, content : STRING])

Configs ==
  [mock : BOOLEAN, key : STRING, base : STRING, wire : STRING, profile : STRING, path : STRING,
   headers : SUBSET STRING, supports : [Wires -> {"unset", "yes", "no"}],
   limit : Nat, retries : Nat]

(* There is an outcome for every attempt, with a code if it is a status. *)
ASSUME CallsAssumption ==
  /\ Calls \subseteq [kind : {"call"}, config : Configs, asked : Int,
                      outcomes : Seq([kind : STRING, code : Nat, words : SUBSET Words])]
  /\ \A x \in Calls :
       /\ Attempts(x.config, x.asked) <= Len(x.outcomes)
       /\ \A f \in ToSet(x.outcomes) : f.kind = "status" <=> f.code # 0

(* Lengths whose marks MarkerSize gives. *)
StringLengths == {n \in Nat : n < 1000000}

ASSUME PayloadsAssumption ==
  Payloads \subseteq [kind : {"payload"}, payload : [counted : Nat, uncounted : Nat, strings : Seq(StringLengths)],
                     limit : Nat]

ASSUME SavedAssumption ==
  Saved \subseteq [kind : {"settings"}, disk : [config : Configs, secret : STRING],
                  env : [Fields -> STRING], form : [key : STRING, base : STRING, wire : STRING]]

ASSUME ProjectsAssumption ==
  Projects \subseteq [kind : {"project"}, scale : Known, answers : [1..3 -> Nat \X Nat]]

VARIABLE case

Init == case = [kind |-> "none"]
Next ==
  /\ case.kind = "none"
  /\ \/ case' \in Plans
     \/ case' \in Manifests
     \/ case' \in Calls
     \/ case' \in Payloads
     \/ case' \in Saved
     \/ case' \in Projects
Spec == Init /\ [][Next]_case

-----------------------------------------------------------------------------
(* planning.execute loses no package of the answers unless they put it into a
   wave that does not exist or plan no wave at all, and default waves follow
   the dependencies. *)
PlanKeepsPackages ==
  case.kind = "plan" =>
    /\ LosesOnlyMisplaced(case.scope, case.waves)
    /\ DefaultsFollowDependencies(case.scope)

(* No path that two packages of one wave both list by name, written as
   normpath writes it, can be written by both: they run side by side in one
   workspace (_resolve_path_overlaps with _validate_path). *)
SharedFilesExclusive ==
  case.kind = "plan" => SharedPathsExclusive(Plan(case.scope, case.waves))

(* Whatever a manifest asks for, only files change whose path in the
   workspace, not the path as it was written, matches an allowed pattern and
   no forbidden one and contains no blocked name (apply_file_manifest). *)
ManifestConfined ==
  case.kind = "manifest" =>
    ChangesAllowed(case.tree, case.files, case.allowed, case.forbidden)

(* A job whose execution was cut short behind any entry of its manifest is
   executed again, and the model asked for another manifest.  The files the
   second execution leaves are those it would have left without the first,
   but for paths the first wrote and the second neither creates nor deletes
   (apply_file_manifest under implementation.execute), as long as no path of
   the two manifests lies below another. *)
RetryConverges ==
  case.kind = "manifest" /\ NoneBelowAnother(case.files \o case.again) =>
    RepeatConverges(case.tree, case.files, case.again, case.allowed, case.forbidden)

(* The error chat raises is retryable exactly if its last failure was, by
   itself, when that is a status, a refused connection, a read or pool timeout
   or an answer that is no JSON; of all other failures the text alone decides
   (classify_error). *)
VerdictsKept ==
  case.kind = "call" => KeepsVerdict(case.config, case.asked, case.outcomes)

(* A payload that is sent to the model fits its budget but for the marks of
   truncation, or cannot be shortened further; one that is sent as it is
   exceeds it at most by what the estimate leaves out (_call_once with
   _estimate_chars and _truncate_payload). *)
PayloadsFit ==
  case.kind = "payload" => FitsOrSpent(case.payload, case.limit)

(* The saved form is what the next start loads, and its test is about the
   endpoint it will lead to (PUT and POST of /model-settings, load_config). *)
SettingsSurvive ==
  case.kind = "settings" =>
    /\ SavedFormSurvives(case.form, case.disk, case.env)
    /\ TestIsFaithful(case.form, LoadConfig(case.disk, case.env))

(* The scale inferred from the answers of a run never replaces one the
   project names, other than medium, and takes attempts from no job but
   quality and release_notes (_persist_phase_result, scale_job_attempts). *)
ScaleOnlyGrows ==
  case.kind = "project" => InferenceOnlyAdds(case.scale, case.answers)
=============================================================================
