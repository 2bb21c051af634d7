# Formal models of the V8 orchestrator

This directory holds TLA+ models of the orchestrator in `src/dev_orchestrator`: the
job queue and its workers, the scheduler of LLM calls with its circuit breaker and slot
pool, the build pipeline, the phase handlers and what they keep, the two stores, and the
algorithms that plan packages, guard the workspace, call the model and load settings.
TLC checks them on small instances. TLAPS proves every safety and action property that the
passing runs check, for every value of the constants; liveness is checked only.
`PROJECT.json` lists components, runs, mutants, theorems, hazards and disagreements, and
maps every definition to the lines it models.

    tlc -workers 2 -config JobQueueSafety.cfg MCJobQueue.tla     a model-checking run
    tlapm JobQueueProofs.tla                                     the proofs of a module

## The system

A *project* has *runs*. A run is built by *jobs*: requirements, architecture,
planning, then work packages in waves, then integration, review, quality, release
notes and release candidate. Several processes work on them: the API server, whose
background worker claims a job per role, and stand-alone worker processes. They
share nothing but PostgreSQL.

    client --> api.py --create, resume, cancel, ...--> pipeline.py --enqueue_job--> jobs
                  |                                       ^   |                       |
                  +-- _background_worker --+              |   +--> runs, packages     |
    worker.py -- AsyncWorker --------------+-- execute_job+          claim, finish ---+
                                                  |
                                   phases/*.py -> scheduler.call --> ai_slots, LLM provider

| Component (source) | State | Operations | What makes it correct |
|---|---|---|---|
| Job queue (`store_pg.py`) | rows: status, attempts, worker_id, lease_until | enqueue, claim, start, finish, fail, heartbeat, requeue_expired | one owner at a time, bounded attempts, settled jobs stay settled, every job settles |
| Workers (`worker.py`, `api.py`) | the job(s) in hand, heartbeat loop, shutdown flag | poll loop, heartbeat, drain, recover-all | no job executed twice at once, drain finishes what it holds |
| AI scheduler (`scheduler.py`) | three semaphores, retry loop | call | limits kept, slots given back, every call ends |
| Circuit breaker (`resilience.py`) | health, failure streak, half-open set | allow, record success/failure, reset | status agrees with the failures, probes report |
| Slot pool (`store_pg.py`) | rows of `ai_slots` with a lease | acquire, release, expire | limits hold across processes and crashes |
| Pipeline (`pipeline.py`) | status, checkpoint, metadata of a run; packages | create, advance after a job, advance, waves | phases and packages in order, no release unearned, no run abandoned |
| Phase handlers (`phases/`) | cached answers and results in the run's metadata, package rows | one execute each | answers paid for once, nothing recorded is lost, the plan is stored |
| Planning (`phases/planning.py`) | none | answers to a plan | no package lost, packages that run side by side do not write the same files |
| Kernel, mission (`kernel.py`, `mission.py`) | none | resume plan, summaries | resume plan agrees with what resuming does |
| Stores (`store_pg.py`, `store_memory.py`) | tables, or dictionaries under a lock | jobs, waves, packages, ... | one row per resume key, packages belong to stored waves, settled jobs stay so |
| Runtime files (`runtime.py`) | workspace files | apply a manifest | writes stay inside allowed paths, a second manifest overrules the first |
| Profiles, scale, roles | none | pure functions | inference adds, never takes away |
| LLM client (`llm_client.py`) | none | chat with retries | the verdict on an error is that of its cause, a payload fits its budget |
| Configuration (`config.py`, `api.py`) | file, secrets, environment, memory | load, save, show, test | the saved form is what the next start uses |
| Contracts, observability, artifacts, UI | files, logs | input and output | no protocol of their own |

Hard behaviour: workers sweep, claim and finish the same rows in any order; a lease
lapses under a job that takes minutes; replies are lost after the commit; late
answers and probes reach the breaker out of order; counting slots and taking one are
two steps; `advance_run` is executed at once by every job that ends and by API
requests, each with its own view of checkpoint, packages and jobs; the metadata of a run
is read, changed and written back whole by several writers; and an execution that is cut
short is repeated from its start, with new ids for all it stores. `PROJECT.json`
names the hazards at their lines.

## The modules

| Module | Models | Actions |
|---|---|---|
| `JobQueue` | table `jobs`, `AsyncWorker`, the API's background worker | Enqueue, Claim, Start, ApiBegin, Return, Finish, Fail, Heartbeat, HeartbeatFails, RequeueExpired, RecoverAll, LeaseLapse, Crash, Shutdown, Stop |
| `JobLease` | abstract: a lease discipline | Offer, Take, End, TakeBack |
| `JobQueueProofs` | theorems about JobQueue, and that it implements JobLease | |
| `AIScheduler` | `call`, breaker, semaphores, `ai_slots` | Admit, AdmitOpen, AdmitHalfOpen, Reject, CountSlots, InsertSlot, SlotFails, EnterGlobal/Provider/Run, Respond, ReleaseSlot, Leave, Reset, SlotLapse, Crash |
| `AISchedulerProofs` | theorems about AIScheduler | |
| `Pipeline` | one run: job executions, `advance_run`, API requests | HandlerOk/Fails/Rejected, Plan, StorePackage, PlanStored, RecordPhase, ReadMetadata, WriteMetadata, RecordPackage, ReadCounts, WriteCounts, EnqueueRetry, Block, ReadRun, ReadPackages, ReadJobs, EnqueuePackage, WaveQueued, WaveCompleted, Reread, EnqueuePhase, Ready, Finish, Created, Request, Repair, Abort, GiveUp |
| `PipelineProofs` | theorems about Pipeline | |
| `Phases` | the handlers of one run, their cache, the packages planning stores, result, resume plan | Claim, Answered, Refused, Settle, ReadCache, WriteCache, StorePackage, PlanStored, Record, ReadResult, WriteResult, Advance, Retry, Finish, Raised, Crash, Resume |
| `PhasesProofs` | theorems about Phases | |
| `PhasesPlanProofs` | theorems about the packages Phases stores and its resume plan | |
| `Records` | enqueue_job, waves and packages in both stores; jobs of the in-memory store | EnqueueAtOnce, Look, Insert, Progress, Claim, Finish, Fail, Lapse, RecoverAll, UpsertWave, UpsertWorkPackage, PlannerFails |
| `RecordsProofs` | theorems about Records | |
| `Workspace` | path check and file manifests | operators |
| `Planning` | from the planner's two answers to the plan, on paths of Workspace | operators |
| `LLMClient` | one call: payload, endpoint, answers, retries, verdict | operators |
| `Settings` | load, save, show and test of the configuration, on LLMClient | operators |
| `Scale` | profiles, aliases, inference, attempts | operators |
| `Algorithms` | the five above: a state is one input, and each property is about the inputs of one kind | one per kind of input |
| `WorkspaceProofs` | induction and recursion, paths and patterns, manifests | |
| `AlgorithmsProofs` | theorems about Algorithms | |
| `MC*` | model values, small plans and small inputs for TLC | |

What composes what: `Phases` and `Pipeline` are two views of one run. Pipeline has the
executions side by side and takes a handler for one step; Phases has one execution at a
time and opens the handler. `JobQueue` is below both: it says when a row is executed
twice. `AIScheduler` is what an answer of Phases stands for, `LLMClient` what one attempt
of AIScheduler stands for, and `Records` is the part of the stores the others take for
granted: that a resume key has one row and that a package has a wave.

### JobQueue

A store call is one transaction and one action; `phase[w][j]` is the point of the
worker's code for a job (claimed, running, ended with a verdict). Time is the state
of a lease: none, live, lapsed. A store call replies, raises before the commit
("error") or commits and loses its reply ("lost"). `finish_job`'s second SELECT is
merged with its UPDATE: what it returns depends only on a row that its UPDATE missed.
A signal that arrives during a claim has the effect of one just after it. An
AsyncWorker executes one job; the API worker one per role, without `start_job`, and
gathers its batch before it claims again. Job statuses `cancelled` and `paused` are
never set by the code and are left out, and so is `max_jobs` of `run_forever`.

### AIScheduler

A call moves through `pc`: admitted by the breaker, slot counted and inserted, the three
semaphores, at the provider, reported, slot released, and either the next attempt or the end.
The provider is a property of the LLM configuration, so there is one breaker entry per process.
Holders of a semaphore are read off `pc`, because a permit is held exactly inside the `async
with` block. `AsyncLLMClient.chat` wraps every exception in LLMError, so an answer is ok,
retryable or fatal. The streak is counted up to the threshold, how many acquiring transactions
may be open at one time is the constant `MaxOverlap` (the number of calls leaves it to the
schedule), `circuit_open_until` is not tracked (an open circuit may reject or let a probe
through), cancellation of a task is folded into the crash of its process, and limits of 0 are
excluded (`LimitsAssumption`).

### Pipeline

A live row of `jobs` and the worker that executes it are one actor; `local[a]` holds
its point in `_advance_after_job` or `advance_run` and what it has read (checkpoint,
packages to enqueue, retry counts). A row leaves the table only
at Finish, which is why a job that is advancing the run still counts as a duplicate
for `enqueue_job`. Rows are named by their resume_key; that of a package job names the row
of the package. Planning gives every package a row with a new id (`Ids`, with the package
each is a copy of and the execution that stores it), one at a time, and does all of it again
whenever it is executed again: after a crash behind `advance_run`, after a checkpoint that
went back, or between two stores. A dependency is looked up by its key, and `pkg_by_key`
then holds whichever copy the unordered listing names last (`Listings`). The plan is the
same every time, because its two answers are cached; Phases has the answers. Waves are
positions, so two waves never share one, and copies share the wave, as in PostgreSQL. What
is abstracted: a handler other than planning is one step at its return, the
cached results it writes into the metadata included; events, continuation records,
scale inference and wave status have no effect on control. `add_event` is taken to
succeed (see Disagreements). Two executions of one row at once are the subject of JobQueue.

### Phases

One execution at a time; `exec` holds its job, its point, the run as it was read at the claim
(`seen`), and what it has asked for. Answers are asked for in stages: those of one stage at the
same time (`asyncio.gather`), the next when all have come. An answer is usable or refused; what
makes it unusable (failed call, NO_GO, critical issues) is one choice. A usable scope answer is
the plan it leads to, one of `PlanOf`. What matters of a package is whether its role is
"infrastructure", which cannot be stored, or "repair", which is never completed, and whether
its wave exists. `_cache_result` and `_persist_phase_result` are a read and a write of the
whole metadata, each of which may fail without notice. A package is a job named by its row. The
retry counter of a job type is a field of the phase's job, and a package's retry, which can
only fail, is a blocked job. The dependencies and waves of packages are in Pipeline. Completing
a package may fail without notice too, requirements that do not parse advance the run and leave
nothing to persist, and an open circuit blocks the run at once if the handler passes on the
kind of its error. `Proceed` is the body of `advance_run` for jobs and API requests: jobs,
checkpoint up to `release_ready`, status and the continuation, which the waves set and nothing
clears. The resume plan of the kernel is three operators, compared with `Following`, which is
what `advance_run` enqueues. `jobs[j].dead` remembers a dead letter that a later job of the
same kind would hide: rows of dead letters stay in the table.

### Records

`backend` is chosen at the start. In memory `enqueue_job` is one step, since it holds the
store's lock; in PostgreSQL a SELECT that finds no row and an INSERT are two, and `crowd`
counts the callers that were between them at once. A wave is found by its run and key in
PostgreSQL and by its id in memory, and every planning makes new ids. The life of an
in-memory job differs from JobQueue in three ways, which are all modelled: an attempt is
counted by `fail_job` alone, `finish_job` and `fail_job` look at neither the worker nor
the status, and recover-all ignores attempts. The only worker is the API's, which waits
for its whole batch; that is what SettledIsFinal rests on. A job's key stands for its role,
of which the worker claims one at a time. The two stores share a module, not an
abstraction: their jobs differ in what they count and when, and JobLease, which
JobQueue implements, would not be implemented by the in-memory jobs, because a swept job
can be completed by the execution that lost it.

### Workspace, Planning, LLMClient, Settings, Scale, Algorithms

Pure code as operators; a loop is a recursive function over its positions. A path is a sequence
of segments and a segment a sequence of pieces, so that `normpath`, prefix tests on text and
glob matching across slashes are what they are in the code: "src/tmp/../main.py" is a different
path before and after normalisation. `Planning.Plan` composes the five steps of `execute` in
their order. Patterns have "*" and, for all classes of letters, "[id]", as in the routes of a
web application; letter case and "?" are left out. Planning counts a package of role
infrastructure among the stored ones, though storing it raises: Phases has that. Two manifests
follow each other on one workspace, since every execution of a package asks the model again
(`implementation.py:96-119`) and nothing undoes what the first one wrote. In LLMClient an
outcome of the endpoint is a status or the kind of exception, with those words of its text that
`classify_error` looks for: of most exceptions chat leaves nothing but the text. A payload is
the lengths of its strings, what the estimate counts of the rest and what it does not;
`Prepared` is truncation behind the gate of `_call_once`. `Chat` gives the number of calls and
the error raised, and the scheduler's verdict, `OfLLMError`, is on that error and not on its
cause (`OfFailure`), since chat wraps every exception. Settings has the three places a value
may live in and the order in which they overrule each other. Scale keeps of a profile its
attempts. Algorithms has one constant per kind of input, with an assumption on its shape: the
run gives it small sets, the theorems none. `Spec` there is no behaviour of the program; it
lets TLC enumerate inputs and lets the theorems name what the run checks.

## Runs

| Run | Instance | Shows |
|---|---|---|
| queue_faults | 2 jobs, one worker of each kind, both may crash or be stopped, all five faults, 2 attempts | rows consistent; waiting jobs have budget; completed jobs were executed; overlapping executions are counted; only the owner settles; dead_letter is justified |
| queue_lease | 2 jobs, one worker of each kind, API worker may crash, slow, error; fair | settled jobs stay so; refinement of JobLease; every job settles |
| queue_punctual | 2 jobs, 2 AsyncWorkers, crash, error, lost | no job is processed twice at once |
| scheduler_slots | 4 calls in 2 processes, 3 runs, limits 2/2/1, no retries, up to 2 overlapping acquisitions, all five faults | over all processes the limits are exceeded by the overlap and the overdue calls at most |
| scheduler_breaker | 3 calls in 1 process, late answers, resets, 3 overlapping acquisitions, lapse; fair | breaker consistent; probes report; slots come back; calls end |
| pipeline_requests | 3 packages in 2 waves, one dependency, planning executed up to twice, 1 worker, 1 request at a time, one incident of any kind | types; dependencies first; phases in order; release earned |
| pipeline_parallel | 2 independent packages, planning executed once, 2 workers, one aborted execution anywhere | phases in order |
| pipeline_serial | 3 packages in 2 waves, 1 worker, up to 3 failing handlers; fair | every run is released or blocked |
| pipeline_stale (violated) | 2 independent packages, 2 workers, no failure; fair | a run is abandoned |
| phases | 5 plans, 4 package rows, 2 attempts, 2 incidents of any kind (refused answer, failed write, crash, resume); fair | types; answers are kept; nothing is forgotten; quality catches a lost result; the plan is stored, if its keys are distinct at most once per execution; the resume plan is true of unreleased runs planned once with no earlier phase blocked; every run comes to rest, and where |
| records | both stores, 2 clients, 2 keys, 2 jobs, 2 planners, 2 waves, 1 planning cut short, 2 attempts; fair | duplicates need overlap; packages have waves; settled jobs stay so; jobs in memory settle |
| algorithms | 79,863 inputs: plans of up to 3 packages, manifests of 3 entries, or of 2 and 2 more, 3 answers of an endpoint, payloads of 3 strings, configurations, answers of 3 phases | eight properties of Planning, Workspace, LLMClient, Settings and Scale |

Why the bounds suffice: a job needs two attempts to be lost, recovered and lost again, and two
workers to compete for it; two jobs of one role exercise the order of claims and a sweep over
several rows. The slots need four calls: three of different runs meet the provider limit of 2,
two of the same run in different processes the run limit of 1, which semaphores cannot hold. An
overlap of 2 is the least that exceeds a limit; more transactions side by side are left to the
theorem. Threshold 2 separates degraded from open and one retry, in the breaker's run,
exercises both ends of the retry loop. The pipeline needs a dependency within a wave, a second
wave, and two actors that advance at once; one incident anywhere in the run already repeats,
delays or drops any step. A second planning, which one crash brings about, has rows of its own
in pipeline_requests; with two workers the rows of one planning are what five minutes allow
(2.4 million states), and the theorems have any number. Phases needs two incidents: one that
loses or refuses an answer and one that cuts the repetition short, or a lost result and a
resume; its five plans are those whose storing differs (raises at the first package, behind
one, loses one, stores none) and one with a package of role repair, and four row ids let a plan
of two be stored twice (OutOfIds excepts the runs in which a third planning finds no id).
RunSettles says where a run may rest: released, blocked, with a dead letter, or with a package
that was executed and is not completed. Records needs two clients for one overlap, two planners
and a third execution for waves under three sets of ids, and a second job for the batch that
holds the worker up. Inputs of the algorithms lie at their limits: lengths on both sides of the
truncation's 200 and 500, scores around 3, 7 and 12, paths that are equal, nested, patterns or
escapes, waves that exist, do not, or list a package twice; two packages make an overlap, a
third one a neighbour that is not adjacent. `MaxIncidents` bounds failures, faults and
requests, `FreshKeys` the retries alive at a time, `MaxRetries` is max_attempts - 1. TLC does
not check deadlock: queues drain, calls end and runs are released, so every system may stop.

Each property has a mutant: an operator, defined next to the one it replaces, that is the
code with a plausible error (a WHERE clause without worker_id, an off-by-one in a budget,
dependencies taken as satisfied when they have started, a failed phase that advances as
before the fix named in the head of `pipeline.py`, a cache that leaves out the seed, a
result written over a stale copy, a wave returned under the id it was given, path checks
on the path as written). TLC finds the property violated with it.

### Fairness

Queue: a live process keeps running its loop, handlers end (their LLM calls have
timeouts), the clock advances, and a claim that stays possible succeeds in the end; no
fairness for enqueueing, recover-all or faults. Scheduler: the event loop runs each
task that can go on; chat has a timeout and slot acquisition a deadline. Pipeline:
workers execute open jobs and a request that has begun goes on. Phases: the worker claims
what waits and goes on with what it has; answers are not obliged to be usable, and
crashes are bounded only by MaxIncidents. Records: the background worker claims again when
its batch has ended, and every execution ends. Nothing obliges an operator to act, to
resume or to call recover-all.

## Proofs

`JobQueueProofs`: the inductive invariant `IInv` joins TypeOK, LeaseConsistent,
WaitingHasBudget and CompletedWasExecuted with two facts: a job whose
handler returned well counts as executed (OkWasExecuted), and a row that does not exist
yet has no attempts (FreshUnused). Type correctness is not inductive alone, since
`claim_job` increments attempts unchecked; WaitingHasBudget supplies the
missing bound. From it follow TypeCorrect, RowsConsistent, BudgetLeft, NoPhantomCompletion
and, as action properties, OnlyOwnerSettles, NoEarlyDeadLetter and, without lost replies,
SettledForGood. NeverMoreThanCounted adds a count: only a claim gives a job one more
worker, and it counts the attempt.
ExclusiveExecution assumes `Punctual` and strengthens with "whoever is in a phase owns
the row". QueueImplementsLease shows step by step that, without lost replies, each
action is a step of JobLease or a stutter.

`AISchedulerProofs`: `BreakerInv` joins types, StreakMatchesHealth and InflightHasProbe
(SchedulerTypeCorrect, HealthFollowsStreak, ProbeWillReport). `SlotInv` counts as taken
the rows that are active and those that open transactions are about to insert. Each COUNT
found room, but cannot have seen the rows of the other transactions open beside it, at most
MaxOverlap - 1; so the rows taken keep both limits but for that number, and no other step
takes a row. Calls at the provider map one to one to rows or are overdue: SlotsLimitHolds
follows under every fault. SlotsGivenBack assumes no crash and no failing store.

`RecordsProofs`: no action changes both jobs and planning, so the invariant has two halves that
are proved apart. `QInv` joins types with "a client that has looked does so in PostgreSQL" and,
per key, live rows plus callers between look and insert are at most the crowd, which is
DuplicateRowsNeedOverlap made inductive; in memory no crowd exceeds one (OneRowInMemory). For
SettledIsFinal, `RowOK` says that the background worker holds a row only while it has not
settled, at most once, and that such a row has attempts left; since a claim waits for the
batch, even a row that was swept cannot be held twice. `PInv` says that the ids a planner knows
are of stored waves of its keys and, in PostgreSQL, that a key has one wave; WavesAlwaysResolve
follows.

`PipelineProofs`: what an actor has read may be outdated when it is used; it is still
justified, because the phases passed and the packages completed only grow. `IInv` says of
each actor that whatever it holds (checkpoint, completed packages, the phase or packages
it is about to enqueue) was earned: `Justified(a)`, and the same of the run's checkpoint
and of every row. `due` is the rows there were when planning first returned: a later planning
adds rows that no phase behind the waves waits for, so what phases and release have earned is
these, and `Covered` says that they hold a copy of every package. Dependencies are satisfied
by any completed copy. Each step keeps the justification of the actor that moves, and by
monotony that of all others. PipelineTypeCorrect, PackagesWait, PhasesWait and
ReleasesEarned are its consequences, for every plan, any number of executions and any
requests.

`PhasesProofs`: a write of the metadata puts back a copy, so `IInv` says that the copy of
the execution is still what is stored (ReadOK), that the metadata keeps everything the
execution saw at its claim, and that of the kinds it has yet to cache it still is what was
seen (SeenOK with Ahead). Since stages are disjoint, caching one kind leaves the later ones
as they were. MetadataKept follows. For AnswersPaidOnce, CountOK says that a usable answer
is stored, in hand, or counted as dropped. LossNeverReleased needs that quality returns
well for a run with packages only when the results it saw pass its gates (GateOK), and
that results are never taken away.

`PhasesPlanProofs` builds on that invariant. StoredOK says that of the plan in hand every
package before the position of the execution is stored, and of the recorded plan all;
CopiesOK that no key has more rows than planning had executions, and that the packages
still to be stored have one fewer, which is what makes the bound inductive through a crash
in the middle. PlansStored is these two. ResumePlanHolds needs to know why a run at rest
has nothing left to do: behind planning that ran once, later phases start only when no
package is left (LaterAfterAll), and a run whose checkpoint was taken back behind planning
by a repeated phase has a job that leads it on again, or that phase is blocked (Led). Both
depend on where the execution stands, so the invariant follows the three phases up to
planning through all their points.

`WorkspaceProofs` and `AlgorithmsProofs` are about recursive functions over 0..n. The
library's induction theorems take an operator, so induction is done on sets: of the
positions where a fact fails there is a least one (LeastNat, from the well-foundedness of
<), hence a set that contains 0 and with i also i + 1 contains 0..n (Induction), and a
function given by its first value and its step satisfies its own equation (Recursion). With
them:

* Normalisation keeps the shape of paths, and a text matches itself as a pattern.
* Manifests: what one entry does to one place of the workspace (a file, a directory) is a
  function of what was there, and each place is decided by the last entry that reaches it.
  Confinement follows from the changes of a single entry; Convergence because, unless one
  path lies below another, what an entry does at a place, and whether it can be carried
  out, does not depend on the entries of other places, so that a beginning of the first
  manifest shows behind the second only where the second settles nothing.
* Plans: each of the five steps of planning is shown to keep keys, roles and placement, or
  to change them as it says; a package that was placed stays so, forbidden patterns come
  only from overlaps in one wave, and numbering a default wave behind those of its
  dependencies puts it behind them.
* Payloads: a payload the gate lets through is as long as it was, and the estimate and what it
  leaves out add up to its size. For one that is cut, the sum of the lengths after i cuts plus
  the excess still to be removed stays below the limit plus the marks, as long as no string has
  come down to its floor.
* Verdicts, settings and scale are finite splits: by kind, code and words of the last failure, by
  the place a value comes from, by profile.

Some properties were false as they had been stated, on inputs or bounds no run had; attempts
to prove three of them showed it. ResumePlanTrue was stated for all runs planned once: with
three attempts, a repeated architecture phase takes the checkpoint back behind planning and
can be blocked there, and the resume plan then announces packages that resuming does not
reach. PayloadsFit allowed the marks of the strings that end up shorter: a string can be cut
and, with its mark, be as long as before or longer. SharedFilesExclusive did not ask for
normalised paths: a pattern like "src/./main.py" is compared as text and forbids nothing
that is checked normalised. A fourth, that shared files are exclusive whatever their names,
fell with the first route among the inputs. They now say what holds, and why in their comments.

Assumptions are the ASSUMEs of the modules: finite sets of jobs, workers and calls,
positive limits and attempts, worker ids distinct from the empty one, names of packages
distinct from those of phases, and the shape of plans; for the algorithms the shape of each
kind of input, an outcome for every attempt of a call, as many numbered wave keys as an
answer has waves (the code formats the number; the module takes the keys from a list), and
strings of fewer than a million characters, for which the length of a mark is given.

Only model-checked: liveness (EveryJobSettles, EveryCallEnds, EveryRunSettles, RunSettles,
JobsSettle), which is beyond the prover. That the operators of the algorithms agree with
the code where no property speaks of it is a matter of reading.

## Disagreements between code and its documents

Shown by a run:

* pipeline_stale: a late `advance_run` moves the checkpoint back after the run has moved
  on; the phase job it leads to is dropped as a duplicate of one about to end, and
  the run stays `running` with no job left.

Shown by an instance of a module that is not kept as a run:

* A deployment of API processes never sweeps expired leases, in spite of "checkpoint/resume
  for crash recovery" and the goal to eliminate zombie jobs (JobQueue with two API workers
  violates EveryJobSettles).
* Graceful shutdown ends the heartbeat of the job it is draining (JobQueue with "drain").
* A lost reply of `finish_job` makes the worker call `fail_job`, which matches the
  completed row by worker_id and revives it (JobQueue with Faults = {"lost"} violates
  TerminalIsFinal).
* The request that half-opens the breaker is not counted as the probe (AIScheduler lets two
  calls through in half_open).
* Acquiring transactions that overlap exceed the slot limits by up to one less than their
  number. SlotsLimitCalls says exactly that.
* `enqueue_job` of PostgreSQL is a SELECT and an INSERT: callers that overlap insert two
  rows of one resume key. DuplicateRowsNeedOverlap says exactly that; the bound of one row
  holds in memory only.
* A crash between `advance_run` and `finish_job` repeats planning behind later phases; no
  phase returns to the packages it adds, and the run is released while they are not completed
  and the resume plan announces them (pipeline_requests with "release_ready only with every
  row completed" for ReleaseEarned). PhasesInOrder and ReleaseEarned speak of the rows of the
  first planning, ResumePlanTrue of runs planned once.
* A released run has a checkpoint for which the resume plan has no action; it announces
  "integration", left over from the waves, and continuing does nothing. ResumePlanTrue is
  about runs up to their release (Phases violates it without that).
* When completing a package fails, or is left out because its role is repair, the run may rest
  as `running` with no job and nothing to show for it; with two packages of role repair it
  never rests, each one's `advance_run` enqueueing the other (RunSettles names both).
* A path with a class, such as app/[id]/page.tsx, does not match itself: forbidding it keeps
  nobody from it who has a wider pattern (SharedFilesExclusive fails without `Classless`).
* A repeated architecture phase that is blocked behind planning leaves the checkpoint
  behind it, and the resume plan announces what resuming does not do (Phases with three
  attempts). ResumePlanTrue leaves out runs with an earlier phase blocked.

Seen while modelling; the models follow the code, and where a property would fail it says
in its comment what it leaves out:

* Breaker: `blocked` is left without a reset when a call admitted earlier answers later;
  slot timeouts block the provider although the design says they do not count. The order
  of the semaphores lets calls of one run hold global permits while they wait.
* Status: a run's status is overwritten without a look at the present one. A job that fails
  after a cancellation sets `blocked`, and `create_run` sets `running` last.
* Packages: retries of package jobs lose work_package_id and can only fail; packages of
  role repair are never marked completed, so their wave never ends. The infrastructure package
  that planning injects has a role that `PackageRole` does not know, so storing it raises, and
  planning succeeds only when that package names a wave that does not exist.
* Sharing: a file that one package lists by name and the other covers with a pattern is
  forbidden to neither; SharedFilesExclusive is about files both list by name.
* Repeated planning stores every package again, and in memory every wave too. The test that
  should prevent it reads `package_dag`, a key nothing stores.
* Plans: the default wave plan knows one of the three names under which a scope may list
  its packages, so the others get no waves and are not stored. `_resolve_path_overlaps`
  forbids again, to both packages, what `_fix_path_conflicts` has just freed, files both
  list by name included: neither can write them. The common "prefix" of two paths is every
  position at which they agree.
* Architecture asks for surface, layout and contracts with the seed of the run as it was
  read before the seed was asked for, so the first execution sends an empty one. When the
  surface call fails, the layout that came with it is lost.
* Integration and review sample the files of a patch set under a key it does not have, and
  are asked about none. An answer of an unexpected shape is stored unvalidated and makes
  every later read of the run raise.
* LLM client: a payload over its limit is sent whole if the estimate is below it, and the mark
  of a truncation is not counted. A read or write error, a write timeout and a connection lost
  within a body lose their verdict when chat wraps them, unless their text holds one of the
  words looked for, and block the provider; an unusable answer whose preview holds one is
  asked again.
* Settings: a new API key from the form reaches neither the file nor the secrets and is gone
  after a restart; the connection test ignores provider profile, path and headers.
* Scale: an upgrade from medium takes an attempt from quality and release_notes, and
  its history is a field the run's metadata does not have.
* Dead letters: the recovery policy names their requeueing and the resume plan asks for it,
  but no code does it and nothing removes them.
* `add_event` uses FOR UPDATE with MAX, which PostgreSQL rejects; the models take it to
  succeed, as it does in the in-memory store.

## Not modelled, and plan

Left out, and why:

* Contracts: their verdict on an answer is recorded and never acted upon.
* Memory, context, skills, indexer, artifacts, documents and logging: material for prompts and
  files, written and read without a protocol. Prompts and the texts of answers likewise.
* HTTP routes that only read or write one row; the browser client, which polls.
* `apply_commands`, which runs shell commands; apply and rollback of a workspace, which are
  copies of files; the mission graph and event summaries, which present rows.
* Role aliases are the identity on every role a stored package can have;
  `infer_initial_scale` and `update_config` have no caller; the synchronous client is not
  used by the scheduler.

Done, each with its proofs: job queue and its abstraction; scheduler, breaker and slots;
pipeline core; phase handlers with resume plan; both stores; the algorithms. Next:

1. An abstract `RunPlan` (a run as a partial order of phases and packages) that Pipeline
   implements, shown from the invariant of `PipelineProofs`.
2. `QueueAndPipeline`: Pipeline composed with the queue's attempts and leases, so that two
   executions of one row meet in `advance_run`.
