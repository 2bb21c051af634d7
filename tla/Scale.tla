-------------------------------- MODULE Scale --------------------------------
(***************************************************************************)
(* The scale profile of a run: the names a project may give                *)
(* (profiles.py), the scale each of the first three phases infers from its *)
(* answer (scale_inference.py), the one upgrade that follows from them     *)
(* (_persist_phase_result), and the attempts the profile gives to the jobs *)
(* that are enqueued under it.  Of a profile only its attempts are kept.   *)
(***************************************************************************)
EXTENDS Integers, Sequences

(* The names of each profile; a project with any other is refused. *)
Names ==
  [small |-> {"small", "tiny", "s"},
   medium |-> {"medium", "", "auto", "adaptive", "m"},
   large |-> {"large", "l"},
   xlarge_100k |-> {"xlarge_100k", "100k", "xlarge", "xl"},
   xxlarge_300k |-> {"xxlarge_300k", "300k", "xxlarge", "xxl"},
   enterprise_1m |-> {"enterprise_1m", "1m", "enterprise"}]

Profiles == DOMAIN Names
Known == UNION {Names[p] : p \in Profiles}
ResolveProfileName(name) == CHOOSE p \in Profiles : name \in Names[p]

(* Attempts of the jobs whose number depends on the profile; the others have
   that of DEFAULT_JOB_ATTEMPTS. *)
DefaultAttempts ==
  [architecture_design |-> 3, package_planning |-> 3, code_generation |-> 3,
   test_generation |-> 3, security_review |-> 3, integration |-> 3, code_review |-> 3,
   quality |-> 2, release_notes |-> 2, repair |-> 2]

Work == {"code_generation", "test_generation", "security_review"}
With(attempts, jobs, n) == [j \in DOMAIN attempts |-> IF j \in jobs THEN n ELSE attempts[j]]

JobAttempts ==
  LET large == With(DefaultAttempts, Work \cup {"code_review"}, 4)
      enterprise == With(DefaultAttempts, Work \cup {"code_review", "integration", "repair"}, 5) IN
  [small |-> With(DefaultAttempts, {"architecture_design", "package_planning"}, 2),
   medium |-> With(DefaultAttempts, {"quality", "release_notes"}, 3),
   large |-> large,
   xlarge_100k |-> With(With(large, {"integration"}, 4), {"repair"}, 3),
   xxlarge_300k |-> With(enterprise, {"repair"}, 4),
   enterprise_1m |-> enterprise]

-----------------------------------------------------------------------------
(* Inference.  Each of the three answers counts two kinds of things:       *)
(* requirements goals and constraints, architecture directories and module *)
(* boundaries, planning packages and waves.                                *)

Weights == <<<<2, 1>>, <<1, 2>>, <<3, 2>>>>
Score(stage, counts) ==
  Weights[stage][1] * counts[1] + Weights[stage][2] * counts[2]

ScaleFromScore(score) ==
  IF score >= 12 THEN "xlarge_100k"
  ELSE IF score >= 7 THEN "large"
  ELSE IF score >= 3 THEN "medium"
  ELSE "small"

(* The two largest profiles are unknown here and count as medium. *)
ScaleOrder == [small |-> 0, medium |-> 1, large |-> 2, xlarge_100k |-> 3]
NormalizeScale(name) == IF name \in DOMAIN ScaleOrder THEN name ELSE "medium"

ChooseInferred(current, candidate) == candidate
ChooseLarger(current, candidate) ==
  LET c == NormalizeScale(current)
      d == NormalizeScale(candidate) IN
  IF ScaleOrder[d] > ScaleOrder[c] THEN d ELSE c

(* Only a medium profile is ever replaced, so the first upgrade is the last. *)
Upgraded(name, stage, counts) ==
  IF name = "medium" THEN ChooseLarger(name, ScaleFromScore(Score(stage, counts))) ELSE name

(* The profile of a run behind the first n of its phases, and the attempts a
   job has that is enqueued then. *)
ProfileAfter(name, answers, n) ==
  LET p[i \in 0..n] ==
        IF i = 0 THEN ResolveProfileName(name) ELSE Upgraded(p[i - 1], i, answers[i]) IN
  p[n]

EnqueuedAfter(job) ==
  CASE job = "architecture_design" -> 1
    [] job = "package_planning" -> 2
    [] OTHER -> 3
AttemptsGiven(name, answers, job) == JobAttempts[ProfileAfter(name, answers, EnqueuedAfter(job))][job]

-----------------------------------------------------------------------------
(* A scale the project names is kept unless it is medium, which is also what
   an empty name means; inference takes no attempt from any job but quality
   and release_notes, to which a medium profile gives more than a larger one
   (pipeline.py:483-508, profiles.py:74-168). *)
InferenceOnlyAdds(name, answers) ==
  LET given == ResolveProfileName(name) IN
  /\ given # "medium" => ProfileAfter(name, answers, 3) = given
  /\ \A job \in DOMAIN DefaultAttempts \ {"quality", "release_notes"} :
       AttemptsGiven(name, answers, job) >= JobAttempts[given][job]
=============================================================================
