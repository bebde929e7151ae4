# TLA+ models of config-server

config-server creates and takes back GPU containers with their accounts, home
directories, Kerberos keytabs and ports. An API accepts requests from `admin_be`;
a controller process executes them as jobs of several steps against Redis, two
MySQL databases, the account files on the NAS, Kubernetes, the AD and the farm
nodes. This directory holds models of the parts where order, failure and
concurrency decide whether the result is right, the TLC runs that check them on
small instances, and proofs that hold for every instance.

## 1. Inventory

Paths are below `src/config-server/`.

| part | state | operations | what is hard | what makes it correct |
|---|---|---|---|---|
| **Job engine** (`main.py` `_register_job`, `application/jobs.py`, `adapters/job_control.py`, `adapters/pod_status.py`, `entrypoints/controller.py`) | the job's input in Redis, the START and end rows of `operation_log`, the lease and progress in `job_control`, the controller's `running` map and threads | register, poll, claim, run steps, record, rewind, compensate, write the end row, delete the input, release | crashes between any two stores, an old owner that wakes late, a poll result that is out of date, errors that are swallowed | one true and final verdict per registration, progress never mixed, resume goes on where it stopped, every job ends |
| **Step retry policy** (`jobs.py` `_execute_step`) | attempt counter | run, observe, retry, degrade | a lost answer: did it happen? | no effect twice, none reported that is not there |
| **Account ledger** (`provision.py` `step_create_account`, `_rollback_user`, `jobs.py` `_judge_interrupted_account`, `revoke.py` `step_delete_account`, `utils.py`) | passwd, group, shadow files, sudoers, the issued-id record, the write marker in `job_control` | issue an id, three writes under a lock each, roll back, judge, delete | a crash between the sections, two jobs of one person, several deletions of one account | no id twice, no half account after a job ended, nobody else's account touched |
| **Shared groups** (`group.py`) | group file, issued-id record, AD | create, add, remove, resolve new groups | same lock and record as the accounts | no gid twice, membership as decided |
| **NodePorts** (`provision.py`, `port.py`) | `nodeport_allocations`, Services | allocate, release, reconcile, change | reconciliation against allocations in flight | a port belongs to one Pod, no row of a live Pod is lost |
| **Account access** (`access.py`) | selector and `decided_at` of Services | block, release, create blocked or open | decisions applied out of order | the latest decision wins everywhere |
| **Kerberos cleanup** (`reconcile_krb5.py`, `revoke.py`) | keytabs on nodes, reservations table | deploy, remove, reserve, reconcile | removal against a new deployment | no live Pod without its keytab |
| **Home retention** (`home.py`) | homes on the NAS | delete expired, restore missing | check, then delete | no home of a live user is deleted |
| **Password change** (`password.py`) | hash in ledger, Secrets, Pods | change, roll back | three places, one failing | the three agree when the job ended |
| **Migration** (`migrate.py`) | two Pods of a user | select, commit image, create, clean up | interrupted in the middle | a serving Pod at every time |
| **NAS GSS flush** (`reconcile_krb5.py`, `nas_gss_flush_lock.py`) | mtime marker, Redis lock | compare, flush, retry | group file changes meanwhile | every change is flushed in the end |

How they interact: `admin_be` calls the API; the API and the controller share
only Redis and `operation_log`; the controller threads share the ledger lock (a
MySQL named lock), the port table and Kubernetes. Beside them, without being
jobs, work the cron job of `reconcile_krb5.py` (keytab reservations, GSS contexts,
idmap), the port reconciliation that allocations start, and the retry loops of
the flush.

Not modelled: request validation and read-only queries (no state), access probes
(`verify.py`, read-only), the node image helper (one helper Pod per call), image
metadata (one key), fault injection (experiment support that fires crashes the
models allow anyway), `k8s_account_manager.py` (a stand-alone script), the
harness (drives the system from outside), charts, stack scripts and schemas
(configuration; used where it decides behaviour).

## 2. Modules and plan

| modules | models | how it composes with the others |
|---|---|---|
| `JobService`, `JobEngine`, `MCJobEngine`, `JobEngineProofs`, `JobProgressProofs` | the engine, with steps as entries of tables | implements `JobService`; the other modules take from it what a job's steps see: attempts, a restart of the step after a crash, a verdict |
| `AccountLedger`, `MCAccountLedger`, `AccountLedgerProofs`, `AccountOutcomeProofs` | ids, creation in sections, marker and judgement, rollback, deletion with evidence | has the lease and the recorded progress of the engine, because a resumed creation is judged by them |
| `Containers`, `MCContainers`, `ContainersProofs`, `ContainerRecordsProofs` | Pods, ports, Services, keytabs, homes: the jobs that create, migrate, revoke, re-port and delete, and the reconciliations | one module, because ports, keytabs and homes are in the hands of the same steps |
| `AccountChanges`, `MCAccountChanges`, `AccountChangesProofs` | access decisions and passwords, on the Services, Secrets and Pods that port and migrate jobs create meanwhile | of a migration only what `Containers` leaves out: the inherited password and the blocked flag |
| `SharedGroups`, `MCSharedGroups`, `SharedGroupsProofs` | group jobs, AD, NAS, the flush with its lock and loops, the idmap | has the joining of groups of a provision job whose account exists |

There is one run per question: ten that pass, and two in which TLC refutes what a
comment of the code promises. Other claims that TLC refuted, and larger or smaller
instances of what a run shows, are in the sections on claims, with the constants
that repeat them.

What is proved and what is only model-checked is said with each module (3.8,
4.7, 5.8, 6.8, 7.6). Each proof module `EXTENDS` its component's and states type
correctness first; the invariants of the other theorems are proved relative to
that one's.

Left to do, in this order: a proof of `FlushedMeansInEffect` for jobs that write
the ledger first (7.6); the observers of `_execute_step`; migrations that are
skipped; the baseline mode of the engine.

## 3. The job engine

### 3.1 State

| variable | in the code |
|---|---|
| `input[k]` | Redis `op_job:<action>:<request_id>`: `state`, whose registration it holds, the result kept by `mark_job_done` |
| `rows` | the job-level rows of `operation_log` in id order: START and end rows. A START row is named by its registration, as its id is the `job_id`. RETRY and step rows are left out: no decision of the engine reads them |
| `lease[j]` | the row of `job_control`: `owner`, whether `lease_until` is ahead (`live`), `done_steps`. `saved_ctx` is written with `done_steps` and is not kept apart |
| `effects[r]` | the step effects that hold outside for a registration |
| `reg[r]` | where the API request of a registration is |
| `proc`, `loop`, `snap`, `task` | the controller processes: their life, the main loop, the rest of the poll's result set, and a worker thread per key (`running`) with its locals: `done`, the index `at`, `rewinds`, and `mem`, the steps executed by this process, whose results it has in memory |
| `faults` | swallowed errors spent |

All of `proc`, `loop`, `snap` and `task` is lost when a process dies; everything
else stays.

### 3.2 Actions

Each access to a store and each step effect is an action of its own, so a crash
or another thread can come between any two: `claim` is a SELECT (`ClaimRead`) and
an INSERT or a conditioned UPDATE (`ClaimInsert`, `ClaimCas`);
`mark_job_running` is a GET and a SET (`MarkRead`, `MarkRunning`);
`_record_job_result` is the row (`WriteEnd`), the kept result (`KeepResult`) or
the deletion (`FreeInput`); then `Release`. `mark_job_done`, also a GET and a
SET, is one action: only another owner could come in between.

The step loop is table-driven, as the code is: `AlwaysRerun`, `DeferTo`
(`DEFER_DONE`), `RewindTo` (`restart_from`), `Needs` (effects a step cannot
succeed without), `Reads` (steps whose result a step reads from memory, because
it is not in `SAVED_CTX_KEYS`). A step succeeds, fails (`StepFailed` without
retry, or an unexpected exception), degrades (retries used up or the outcome
unknown; its effect may hold) or rewinds. The retries inside `_execute_step` are
one action: a step is idempotent for the engine.

Compensation (`_compensate_provision`) either takes the account back, or is held
or fails midway, which the end row says in its `compensation` field: that verdict
is `HELD`, a FAIL with an account left to an administrator. `DEGRADED` stands for
the FAIL and UNKNOWN rows that take nothing back, `MISSING` for
`JOB_INPUT_MISSING`.

### 3.3 Assumptions, each a constant

* `Overlap`: the Deployment has `replicas: 1` and `Recreate`
  (`Chart/templates/controller.yaml`), so a new controller starts after the old
  one is gone. `TRUE` lets them overlap (a node that is cut off, a second
  deployment): that is what the lease is for.
* `SlowClients`: `admin_be` does not register a request again within the
  moment in which a poll result that still lists its ended job is being
  dispatched (milliseconds to seconds). 3.7 says what happens otherwise.
* `FaultKinds`, `MaxFaults`: which errors of the stores may happen, and how
  many. What one error breaks was determined kind by kind:

| error | breaks |
|---|---|
| `start_fails`, `api_crash`, `claim_fails`, `load_fails`, `record_fails`, `undo_fails`, `end_fails`, `end_lost`, `release_fails`, `stall` | nothing (run `faults`) |
| `start_lost`: START row committed, answer lost, registration undone | `SuccessMeansDone`, `FailureIsCompensated`, `NoEffectAfterVerdict`: the next registration's input runs under the first one's job |
| `lookup_fails`: `job_end_exists` answers no on an error | `ImplementsService`: an ended job is reported lost (accepted in its docstring) |
| `delete_fails`: the input of an ended job stays | the verdict properties: a stale poll result runs the job again |
| `keep_fails` together with `end_fails` | `ReleasedOnlyWhenAnswered`: the job runs again from its first step |
| `cleanup_fails`: the cleanup of a failed step leaves something | `FailureIsCompensated`, if it is the account rollback that fails |
| `cut_off`: the controller dies between a compensation and the job's end row | `SuccessMeansDone`: the next run takes the recorded account steps for done (3.7, claim 6) |

  All of them are in run `live`: whatever is wrong with the verdict, the job ends.

### 3.4 Step tables of the runs

`MCJobEngine` gives the part of `ACCOUNT_CREATE_STEPS + POD_CREATE_STEPS` in which
resume behaves differently: (1) the account steps up to the recorded
`step_create_krb5_principal`, from which a failure is compensated, (2)
`step_fetch_user_config`, rerun on every resume, (3) `step_build_pod_spec`,
deferred to (4) `step_create_pod_k8s`, whose failure restarts from 3, (5)
`step_wait_ready`, whose failure does too. `Waitless` drops 5 (run `faults`; 5
repeats 4 for everything but what it reads), `Short` drops 2 and 5, `Pod` keeps 3
and 4 only. Steps of one kind add length, not behaviour.

### 3.5 Runs

| run | bounds | checks |
|---|---|---|
| `faults` | 1 request registered up to twice, 4 steps (`Waitless`), 2 controllers in sequence, 1 rewind, one of ten errors; registrations and controllers are alike (`SYMMETRY`: no property of the run is liveness, and no definition chooses among them) | `TypeOK`, `ProgressIsOwners`, `ContextInHand`, `SuccessMeansDone`, `FailureIsCompensated`, `NoEffectAfterVerdict`, `ReleasedOnlyWhenAnswered`, `ImplementsService` |
| `live` | 1 registration, 3 steps, 2 controllers, 2 errors of all kinds | `EveryJobEnds` |
| `orphan` | 1 registration, 5 steps, no error | violates `AccountOutlivesContainer` |

Why the bounds are enough: two registrations of one key give every order of "the
old job is closing" and "the new one is registered"; two controllers give a crash
or a takeover at every point, and all that a second takeover can start from that a
first cannot is a compensation without its end row, which is the error `cut_off`
(three controllers with one registration pass with every error of `faults`); one
rewind shows a cut `done` list, and more only repeat it. A crash needs an unborn controller left
(`Replaceable`), so the number of crashes is bounded by `Procs`.

`ImplementsService` is the abstract promise to `admin_be` (`JobService`): the
status `GET /operations/<kind>/<request_id>` reports goes from accepted to one
verdict, and to accepted again only by a new registration. The refinement mapping
`statusBar` is the query of `get_job_result`, with RETRY rows read as accepted.

### 3.6 Fairness

`Fairness` demands what the deployment gives: Kubernetes starts a controller
when none is up; the API finishes a request it took, unless its worker crashes;
the main loop and each thread go on (the loop is fair as a whole: poll, dispatch
and renew follow each other); time passes for a lease nobody renews. Crashes,
SIGTERMs and errors are never owed.

### 3.7 Claims the code does not keep

One is a run of its own:

1. `orphan`: the compensation leaves the job's own Pod out when it looks for
   containers that still use the account, whether it was deleted or not. A job
   resumed after its Pod was created that fails in the rerun
   `step_fetch_user_config` removes the account under the live container.

Six more are stated in `JobEngine` and refuted by TLC with the constants given
here:

2. `ResumeCanContinue` (as run `orphan`): `ctx["v1"]` is set only by
   `step_create_pod_k8s` (`provision.py:733`), which a resumed job skips;
   `step_wait_ready` and `step_create_services` then raise `KeyError` until the
   job ends DEGRADED, although its Pod is fine. `job_control.py:9` promises that
   a resumed job goes on from the interrupted step.
3. `RefusedOnlyWhileUnfinished` (as run `faults`): after a crash between the end
   row and `delete_job_input` the input stays for ever: the journal says the job
   ended, so nobody runs it, and the request answers 409 for ever
   (`main.py:1267`: 409 while the job is not finished).
4. `OnlyOwnerRecords` (as run `faults`, `Overlap = TRUE`, no error): the fencing
   covers `record_step`, `renew` and `release`, not `_finish_job`: a controller
   that lost its lease still writes the end row, and compensates before it
   (`job_control.py:7`).
5. `RunsOwnRegistration` (as run `faults`, `SlowClients = FALSE`): a poll result
   read before a job ended, dispatched after the request was registered again,
   runs the new input under the old job number (`jobs.py:549`); the new job is
   then run once more.
6. `SuccessMeansDone` (as run `faults`, `Regs = {r1}`, three `Procs`, `FaultKinds =
   {"cut_off"}`): `_compensate_provision` (`jobs.py:509`) removes the account and
   leaves the saved `done` list as it is. The first controller recorded the account
   steps and died; the second failed in the rerun `step_fetch_user_config`,
   compensated and died before the end row; the third skips what is recorded, and
   ends a job SUCCESS whose account is gone.
7. `FailureIsCompensated` (as run `faults`, one registration, no error, `NSteps = 3`,
   `AlwaysRerun = {1}`, `DeferTo = <<0, 0, 0>>`, `RewindTo = <<0, 2, 2>>`, `Needs =
   <<{}, {}, {2}>>`, `Reads` empty, `CompensateAt = 3`, `Compensated = {2}`): when
   `step_resolve_new_groups` is put before the account steps (`jobs.py:324`), a job
   that made the account, crashed and was resumed can fail in it, before
   `step_create_krb5_principal` is recorded; nothing is taken back then, although
   `jobs.py:510` says that a job that fails after it made the account undoes it.

And one that holds, of which no run is kept: `EveryJobEnds` when the pool is
full (as run `live` with `Keys = {k1, k2}`, `Regs = {r1, r2}`,
`KeyOf <- TwoKeys`, the tables `Pod*`, `NSteps = 2` and `MaxFaults = 0`): with
fewer workers than jobs and a replaced controller no job starves.

### 3.8 Proofs

`JobEngineProofs` proves, for any number of requests, registrations, processes
and steps, with `Overlap` and every error allowed, the first two from
`ConstantsOK` alone:

* `TypeCorrect == Spec => []TypeOK`. `TypeOK` is not inductive: `Release` and
  `LoadInput` need more than shapes. `TypeInv` adds what a thread holds at each
  program point (`TaskOK`: no progress before the claim, a registration while it
  executes, a verdict while it closes, a step in range while it records, the key
  of its job) and that a kept result is a verdict (`InputOK`). The proof goes
  store by store (`WorkCtrl`, `WorkTasks`, `WorkStores`) and actor by actor.
* `Fencing == Spec => []ProgressIsOwners`. With `TypeInv`, `ProgressIsOwners` is
  inductive. Two lemmas carry it: `FenceMove` (a thread moves and touches no
  lease but its job's, which it then owns or drops; threads of other processes
  lose it, those of the same process have other keys and so other jobs) and
  `FenceKeep` (an action that leaves the leases alone keeps the progress in
  memory, or leaves the loop). It holds for controllers side by side
  (`Overlap`) as well, which no run has.

* `ContextKept == Spec => []ContextInHand`, from `TablesOK` too, which is what
  the tables of the code have to satisfy for it: what a step reads was made by an
  earlier one; if a resumed run passes that one over (`ALWAYS_RERUN`,
  `jobs.py:93`, is never passed over; `DEFER_DONE`, `jobs.py:95`, only together
  with its partner), the reader is the partner or is passed over with it; and
  `restart_from` does not lead between the two. The invariant `HandInv` says of
  every thread that it starts at the first step; that of the steps before its
  place it has in memory the result of each volatile one that it would run again;
  that only a step that is not volatile is being recorded; and that a rewind does
  not stop between a deferred step and its partner. `ReadsHeld` draws from this,
  with `TablesOK`, that the next step finds what it reads.

Its second half proves what `admin_be` relies on under the hypothesis
`Sheltered`, which spells out the line of 3.3: controllers follow each other
(`~Overlap`), `SlowClients`, and none of the errors `start_lost`, `lookup_fails`,
`delete_fails` and `keep_fails`, each of which breaks one of the three for a reason
given in the table there. All other errors may happen, any number of times.

* `NothingAfterVerdict == Spec => NoEffectAfterVerdict`,
* `ReleasedWhenAnswered == Spec => ReleasedOnlyWhenAnswered`,
* `ServiceImplemented == Spec => ImplementsService`, the refinement of
  `JobService` under `statusBar`.

Their invariant is `Protocol`. One part is about the controllers
(`OneController`: at most one lives, and a dead one holds nothing), one about the
journal, and one is kept request by request (`RequestOK`), so that an action on
one request needs no argument about the others (`WorkElsewhere`,
`RegisterElsewhere`). It relates the three stores that no transaction spans: an
open job's input is its own (`RegOK`); a result kept in the input belongs to an
open job or agrees with its last row (`InputFits`); a job still in a poll result
is open, or has lost its input, or keeps its result there, or is just being closed
by its own thread (`SnapFits`); and a thread finds at each program point what the
code takes for granted there (`TaskFits`), in particular that it executes open
jobs only, on their own input. `SlowClients` enters at one place, `SaveInput`.
The refinement needs of all this that a START row is written while the request has
no open job (`StartAccepts`), and that an end row closes an open job or repeats its
answer (`EndConcludes`).

`JobProgressProofs` adds what the verdicts say of the outside:

* `SuccessIsDone == Spec => []SuccessMeansDone`,
* `FailureCompensated == Spec => []FailureIsCompensated`.

Beside `Sheltered` they assume `Intact` (no `cleanup_fails`, no `cut_off`, which
break them, 3.3) and of the step tables `MendTables`, the second one also
`AccountFirst`; 3.7, claim 7, is a table without `AccountFirst` that breaks it.
TLC checks that the tables of the runs satisfy both (`TablesMend` in
`MCJobEngine`). The step that counts as the first one here is the whole account
part of the list; `AccountLedger` has what happens inside it, and where its
compensation fails (4.6).

The difficulty is that saved progress may be ahead of the effects: a failed step
takes back what was made from its restart point on, and if the controller dies
before the shortened `done` list is recorded, the next one skips steps whose effect
is gone. The job is right nevertheless, because it cannot get past the step that
failed. That is `Mend(a, D, E)`: if some step that D lets the loop skip has no effect
in E, then a step from a on that is not skipped needs a recorded effect that is
missing, at or before that one. `Progress` states it for the saved progress of an
open job and for every thread in the loop, with what the loop has passed
(`Passed`), with the soundness of a verdict that a thread is about to write or
that waits in the input, and of every row (`RowSound`). The lemmas about the loop
(`MendSucceeds`, `MendRecord`, `MendFails`, `MendRewinds`, `AllDone`) are about
`D` and `E` alone; then comes one lemma per action. The proof uses all three
invariants before it: that a rewind is recorded against the progress in memory
(`Fencing`), that the journal, the input and the job belong together (`Protocol`),
and the types.

All of them rest on `NoneOK` too: the model value `None` is no input, lease or
thread.

Only model-checked: liveness, which is outside what the prover does. Refuted, and
so not provable: `AccountOutlivesContainer` (3.7).

### 3.9 Left out of the engine

The baseline mode (interrupted jobs are failed, not resumed); the limit of 100
rows of a poll (the oldest come first, so it delays only); the `skipped` break of
migrations; the checkpoint inside `step_create_account` (part of AccountLedger);
the exact `lease_until` (a live flag; a renewal between a claim's read and its
write makes another owner's CAS fail, as in the code); a CAS of a process against
its own renewal, which only delays the claim.

## 4. The account ledger

### 4.1 State

| variable | in the code |
|---|---|
| `passwd`, `group`, `shadow`, `sudoers` | the four account files. A passwd line has a name, a uid and, as history, the job that wrote it; a group line name, gid and members; `shadow[n]` is the sequence of n's lines, each named by the job whose hash it holds, because the first one counts; `sudoers` the names with a file |
| `issued` | `uid` in the issued-id record |
| `home[n]` | the owner of `/home/<n>` on the NAS: a uid, 0 for root, or none |
| `pods` | provisions whose container is there |
| `evidence[n]` | what `_query_deletion_evidence` would find in `operation_log`: a deletion after the last `CREATE_ACCOUNT SUCCESS` |
| `job`, `expected`, `known` | where each job is and its verdict; `account.expected_uid` of the request; the uid `admin_be` keeps for the person |
| `lease`, `saved` | the row of `job_control`: owner, and `done_steps` with `uid`, `account_write_started` (`mk`) and `home_created` (`made`) |
| `loc[<<j, o>>]` | the worker thread of job j in controller o: its place, its attempt, its rewinds and its context |
| `lock` | the MySQL named lock of `ledger_lock` |
| `given` | history: every name and uid that a passwd line or a home had |

The lines of system accounts are the constant `SystemIds`: no operation touches
them, and they matter only where an id is chosen. A person is a name.

### 4.2 Actions

One action per file write, per log row another step decides on, and per outside
effect. A file is replaced atomically, so a section under the lock that writes
once is one action (`WriteGroup`, `WriteShadow`); a section that writes more than
once takes the lock with its first write and releases it with its last, and a
crash can come in between:

* `step_create_account` is `Lookup` (the NAS, outside the lock), `Issue` (name
  free? reclaim or allocate, the issued-id record), `Mark` (the fenced
  checkpoint), `WritePasswd`, `WriteGroup`, `WriteShadow`, `WriteSudoers`,
  `LogCreated`;
* `_rollback_user` is `UndoPasswd`, `UndoShadow`, `UndoGroup`, and the last one
  also decides what comes next: another attempt, the start over from the account
  step, the end, or (after a judgement) the step itself;
* `_judge_interrupted_account` is `Judge`, which goes on with that rollback under
  its own lock when the account lacks a part;
* `step_delete_account` is `DeletePasswd`, `DeleteShadow`, `DeleteGroup`,
  `LogDeleted`, or, when the account is gone and there is evidence,
  `DeleteShadow` and `RemoveLeftovers`; it serves a revoke and the compensation
  of a provision alike, with `CheckRevocable` before it;
* `CreateHome`, `CreatePrincipal` and `CreatePod` are as far as they decide on
  the account: a home of another owner ends the job, a missing passwd line fails
  the Pod steps;
* `Record`, `RecordRewind`: `record_step`, fenced by the lease; `Take`: claim and
  resumption from what was recorded; `End`: the verdict and what `admin_be`
  learns; `AdoptAccount`: `set_ledger_password` at the registration of a request
  whose account is still there.

Each has its failure (`FailsEarly`, `FailsLate`, `JudgeFails`, `UndoFails`,
`HomeFails`, `PrincipalFails`, `PodFails`, `RecordFails`, `DeleteFails`,
`DeleteGivesUp`) with the retry, rollback or end that `_execute_step` and
`_run_job` give it.

### 4.3 Assumptions, each a constant

* `Orderly`: `admin_be` does not have an account revoked while a provision of it
  is open, nor the other way round. It may have two provisions of one person open
  (`jobs.py:147`) and a revoke per node. Without it, with two provisions and two
  revokes, `TakesBackOwnOnly` is violated as well: a revoke removes an account
  and another request makes it anew before the first one's compensation.
* `Legacy`: uids given out before ids were recorded; persons from then may have a
  home, and two of them may share a uid (#201). `issued` covers every uid ever
  given out.
* `FaultKinds`, `MaxFaults`, `MaxCrashes`: which failures may happen and how
  many. `stall` lets a job be taken over while its owner still runs.
* `MaxAttempts`, `MaxRewinds`: `STEP_MAX_ATTEMPTS` and one less, two in the runs
  for three in production: the first repetition and the last attempt.
* `UidMax`: four ids let two persons, an id lost to a crash and one skipped as a
  system account's fit.

### 4.4 Runs

| run | bounds | checks |
|---|---|---|
| `accounts` | two persons, one request each, a uid and homes from before, a system account in the range, 1 crash, 1 error of five | `TypeOK`, `UidOfOnePerson`, `NeverReissued` |
| `requests` | two requests of one person without a home from before, 2 crashes, 2 errors of the account step | `WholeWhenRecorded`, `TakesBackOwnOnly` |
| `failures` | two requests and a revoke of one person, 2 errors of twelve, no crash | `FailureLeavesNothing`, `PasswordKept`, `TakesBackOwnOnly` |
| `judged` | two requests and a revoke of one person, two uids, 2 crashes, no error | violates `JudgedIsWritten` |
| `revoke` | a request and two revokes of a member of a team, who may have a home from before, 1 crash, 1 error of fifteen | `TeamsStay`, `RevokedMeansGone`, `UnverifiedOnlyAfterLoss`, `EveryJobEnds` |

Why the bounds are enough. Jobs meet in the files by name and by uid: two of one
person give every interleaving by name, two persons every one by uid. A job that
is resumed reads only what is recorded, so a second crash of a job finds the
situations of the first one or those of the judgement in between, and `requests`
has both. Errors of two kinds in one job (a failed section, then a failed
rollback or a second section) are in `requests` and `failures`.

`PasswordKept` is about the steps that change the password of an account whose
passwd line stays. Only the adoption of an account may; `step_create_account` may
not, because of two shadow lines of a name the first counts, and so its own hash
counts only if rollback, compensation and deletion have left none.

Two controllers, one of which stalls and goes on after the takeover, keep
`WholeWhenRecorded` as well (two requests, `FaultKinds = {"stall"}`); no run is
kept for it. What a run leaves out because it does break the property is listed in 4.6; one
thing is a limit the code names itself: `requests` starts without homes from
before, since two requests that get the same `expected_uid` back cannot be told
apart by the marker (`jobs.py:150`).

### 4.5 Fairness

`FairSpec` asks for `SF` of every job's `Take` and `Work`: the controller polls
again and its threads go on; strong, because a thread that waits for the ledger
lock is enabled only while the lock is free. `GET_LOCK` promises no order, but a
waiter that times out after 30 s ends that attempt with an error, so it does not
wait for ever in the code either. `WF` of `AdoptAccount`: the API worker finishes
the registration. Crashes, errors, registrations and `RemovePod` are never owed.

### 4.6 Claims the code does not keep

The first is a run of its own, `judged`. TLC refutes the others with the property
and the constants given in brackets; `OwnHomeFits` and `NoGroupConflict` stand at
the end of `AccountLedger`.

1. `_judge_interrupted_account` takes an account with all its parts for one that
   the job wrote to its end (`config-server/README.md:171`), and any shadow line of
   the name for the password (`jobs.py:131`). A deletion that was cut off after
   passwd, and resumed without the evidence to go on, has left a shadow line and
   the sudoers file. A request that then makes the account with the same uid, is
   cut off after the group section and resumed, is judged complete: it ends with
   SUCCESS, its own hash was never written and the old password counts.
   [run `judged`]
2. `record_step` is not retried and its error is an unexpected one. Before the
   principal is recorded nothing is compensated, on the ground that the account
   step took back its own (`jobs.py:512`); here it succeeded. The job ends FAIL
   with its account in place. [`FailureLeavesNothing`: one request, one failed
   `record_step`, that is `FaultKinds = {"record"}`, `MaxFaults = 1`]
3. A compensation is not recorded. Cut off after the deletion, it runs again when
   the job is resumed and has failed again, and removes by name the account that
   another request of the person made meanwhile (`jobs.py:519`).
   [`TakesBackOwnOnly`: `requests` with 1 crash and the error `pod`]
4. Only the checkpoint before passwd is fenced. An owner that stalled after it
   meets the new owner's group line, takes this for a failed write and rolls back
   an account that was reported as made (`provision.py:1667`).
   [`TakesBackOwnOnly`: one request, two owners, the error `stall`, no crash]
5. Without the judgement of claim 1, too, a deletion cut off after passwd leaves a
   shadow line; the next account of the name appends its own after it, and the old
   password counts (`provision.py:1688`). [`PasswordKept`: `failures` with
   `MaxCrashes = 1` and `MaxFaults = 0`; the step that TLC shows is the second
   line]
6. `CREATE_ACCOUNT SUCCESS` is logged before the later steps; their rollback
   leaves no deletion row. The evidence of the deletion before it is hidden, and
   the revoke of the next node is refused (`revoke.py:427`).
   [`UnverifiedOnlyAfterLoss`: two requests and two revokes, the error `home`, no
   crash]
7. A lost deletion row is no lookup error: the next node's revoke is refused at
   once, and not retried as `revoke.py:494` says.
   [`UnverifiedOnlyAfterLoss`: `revoke` with the error `log`, no crash]
8. A home cut off between mkdir and chown is root's. Its step rolls the account
   back, but not the home, though it notes that it may have made it
   (`provision.py:1743`, `utils.py:1298`). [`OwnHomeFits`: one request, the error
   `home`]
9. Five of the six calls of `_rollback_user` do not pass the gid, so a personal
   group with a name of its own stays and the repeated step, with a new uid,
   fails on it (`provision.py:1695`; the docstring at 1403 names the case).
   [`NoGroupConflict`: one request with `PgName <- PgGroup`, the error `shadow`]
10. `step_delete_account` removes the personal group by the gid that the account
   had. That of an earlier attempt, whose rollback failed, has another gid and
   stays after a revoke that succeeded. [`RevokedMeansGone`: `revoke` with
   `MaxFaults = 2`]
11. A job that rolled its account back and starts over keeps its marker. If
   another provision of the person made the account with the same returned uid
   meanwhile, the judgement takes that one's half-written line for its own and
   removes it (`jobs.py:139`). The docstring (`jobs.py:150`) names this only for a
   job that died with nothing but the marker left; no crash is needed.
   [`TakesBackOwnOnly`: `failures` with `Legacy = 1`, the error `home` and no
   revoke]
12. `register_provision` compares the uid of the account it adopts, and
   `set_ledger_password` then takes the name alone (`main.py:1025`,
   `main.py:1265`). If the account was rolled back in between and another request
   of the person made one with another uid, that one's password is replaced.
   [`PasswordKept`: three requests, no revoke, `Legacy = 1`, the error `home`
   once, no crash]

### 4.7 Proofs

`AccountLedgerProofs` proves, from `ConstantsOK` alone (any number of persons,
jobs, controllers, teams and errors, stalls and crashes allowed, `Orderly` or
not):

* `TypeCorrect == Spec => []TypeOK`;
* `NoUidTwice == Spec => NeverReissued`: no passwd line is ever written with a
  uid that another person's line or home had;
* `OneUidOnePerson == Spec => []UidOfOnePerson`: a uid in passwd is one person's;
* `TeamsOutlive == Spec => []TeamsStay`: nothing takes a team's group away.

`ConstantsOK` has that no team is named like a person: `revoke.py:327` takes a
group of the person's name and gid for the personal one.

`NeverReissued` rests on where a worker's uid comes from, over up to four steps
that other jobs, crashes and takeovers interleave. The inductive invariant
`UidInv` adds to `TypeOK`:

* `StoresOK`: every uid ever given is at most `issued`; every line and every home
  has a uid that was given to its person; and two persons who had the same uid
  both still have their homes from before (this is what makes the look-up of
  other homes, made before the lock, still true under it);
* `WorkersOK`: a worker between `Issue` and `WritePasswd` holds the lock, and its
  uid is at most `issued` and nobody else's (`Sole`); a worker that comes from
  the look-up with a uid to reclaim has it from its own person's home, nobody
  else's unless `shared` says so; a worker past the passwd line, or rolling it
  back, has a uid that was given to its person;
* `ContextOK`, of memory and of `job_control` alike: a recorded account step has
  a given uid, and who made a home shares no uid with anybody (`Alone`), so the
  deletion of that home takes no home from before away.

The lemmas go action by action (`...OK`) and are joined in `WorkOK` and `StepOK`;
`QuietMove` covers the actions that leave ids alone, `WorkerGrows` and
`GivenGrows` those that add to `given` and `issued`. The mutants `FreshInPasswd`
(allocate by passwd alone) and `ReclaimsShared` (give a shared uid back) break
what the proof uses.

`UidOfOnePerson` is about the state and not the step, and needs more
(`LineInv`): a line's uid is no system account's and was given to nobody else, a
name has one line, and a worker that holds the lock between `Issue` and
`WritePasswd` has a name without a line and a uid that is free of system
accounts. The lock is what keeps this true from the check to the write; a line
that goes takes nothing of it away.

`TeamsStay` needs only what the lines of the group file look like (`TeamInv`):
every action that removes lines is shown to remove those of one person's gid or
name, and `IsTeam` excludes both (a team's gid is above the range of persons, its
name nobody's); `TeamsSurvive` and `TeamsJoined` are about the two rewrites of
the file that the code has.

`AccountOutcomeProofs` proves two more, about what a job leaves of its account,
whatever crashes there are and `Orderly` or not:

* `WholeRecorded`: `[]WholeWhenRecorded`, whatever fails and stalls, from
  `OwnGroups`: nobody's personal group has another person's name (registration
  refuses such names, 4.8; without it a deletion takes the other's group). Its
  invariant `OutcomeInv` adds to `UidInv`, `LineInv` and `TeamInv`: `TidyInv`, what
  a worker has in hand (no step is done before the account is written, and the
  name has no line while its leftovers are removed under the lock); `MadeInv`,
  whose uid a job's line has (the owner's marker, or that of a worker of the same
  job whose lease moved on while it was in the section: `job_control` says who is
  stale, the lock who may still write); and `PartsInv`, when a line is known to
  have its parts (`KnownOK`: past the last section, or found whole by the
  judgement) and that nothing but the removal of the line takes a part away.
* `FailedLeavesNothing`: `[]FailureLeavesNothing`, from `Steady`: the errors
  `record`, `undo` and `stall` do not happen. Every other call may fail and every
  process may die at every step. The three are excluded because each leaves an
  account behind a FAIL by itself: a lost row of `job_control` (claim 2); a
  rollback that fails, after which the repeated step finds the name taken and ends
  the job (`USER_ALREADY_EXISTS`); and a worker taken for dead (claim 4). Its
  invariant `AnswerInv` adds to `UidInv`, `LineInv`, `TidyInv` and `MadeInv` what is
  said of each job (`Answers`): at which of its worker's steps it has no line
  (`Owes`: before passwd, when a rollback has removed the line, in a rewind, at
  the end with FAIL), in which states of the job (`JobOwes`: a provision of an
  existing account writes none), and that a running worker has the lease
  (`LocOwes`), so that nothing of another worker of the job is on its way.
Only model-checked: `TakesBackOwnOnly` (claims 3, 4 and 11), `RevokedMeansGone`,
`UnverifiedOnlyAfterLoss` and `PasswordKept` (claims 5 and 12). Each holds within
its run's bounds on crashes and errors and is refuted beyond them (4.6); and
liveness.

### 4.8 Left out of the account ledger

The loss of the lock's connection inside a section (MySQL then frees the lock
while the thread still writes); unknown results and the observers of the later
steps; the baseline mode; the refusal of colliding names at registration
(`USERNAME_CONFLICTS_GROUP`); gids of shared groups and their issued record
(group.py); sudoers files, which nothing deletes; Kerberos within the
compensation (`step_remove_krb5` after the account); homes outside the uid range;
account lines written by hand.

## 5. Containers: ports, Pods, keytabs, homes

### 5.1 State

| variable | in the code |
|---|---|
| `rows` | `nodeport_allocations`: Pod, internal port, node port, node |
| `aged` | the Pods whose newest row is older than `_NODEPORT_STALE_GRACE_SEC`: only their rows may be reconciled away |
| `svcs` | the NodePort Services: Pod, internal port, node port |
| `pods` | the Pods: absent, up or Terminating, and the node |
| `keytabs`, `pending` | (user, node) pairs with a keytab; the rows of `krb5_cleanup_pending` |
| `homes` | users whose home is on the NAS |
| `loc[j]` | the worker of job j: the call it makes next and the `ctx` it has in memory; in the end the verdict |
| `cron` | `reconcile_krb5_cleanup_pending`: the listed reservations and the claimed one |
| `unseen` | history: the creations that a removal of their user's keytab or home could not see, because they were not there when it looked. No action reads it |

A Pod is named after the job that creates it (`generate_pod_name` draws a name
per job; a resumed job keeps it).

### 5.2 Actions

One call to Kubernetes, one MySQL transaction, one command on a node each:

* creation (`POD_CREATE_STEPS`): `RestoreHome`, `ProvisionNode` or `MigrateNode`,
  `BuildStart` (the `PRE_STEP` release), the reconciliation that every allocation
  may start (`ReconcileSkip`, `ReconcileList`: the live Pods from the Services,
  then `ReconcileDelete`: the transaction), `Allocate`, `DeployKeytab`,
  `ClearPending`, `UndoBuild` when something after the rows fails, `CreatePod`,
  `PodMade`, `WaitReady`, `ServicesStart`, `CreateService`, `Serving`; after a
  failure `CleanServices`, `CleanRows`, `CleanPod`, each of which swallows its own
  failure, or, where the step has no Kubernetes client (`K8S_CLIENT_SETUP_FAILED`,
  a missing login password), `CleanBlind`, which leaves the Pod alone;
* removal: `DropServices`, `DropRows`, `DropPod`, `Gone`, `Keys`, `RemoveKeytab`,
  as a revocation, as the orphan Pod API (one attempt, no journal), and as
  `step_migrate_cleanup_old`, where a failure ends the step and not the job
  (`Trip`);
* `step_change_ports`, one step started again from its first read: `ReadPod`
  (which notes the Pod's node for the new rows), `ListServices`, `DropPort`,
  `DropPortRow`, reconciliation and `Allocate`, `Fill`, `CreateService`;
* `step_delete_expired_home`: `HomePods`, `HomeJobs`, `HomeDelete`;
* the cron job: `CronList`, `CronClaim`, `CronCheck`, `CronRemove`, `CronDone`,
  and `CronDies`;
* `PodGone` (the kubelet), `AgeOut` (time), `Crash`.

A call that fails may or may not have had its effect, wherever the code cannot
know. `Crash` resumes a job at the first step that is not recorded (`ResumeAt`;
`step_build_pod_spec` only with `step_create_pod_k8s`, `DEFER_DONE`). Three things
keep a job from going on (`CannotGoOn`), and it ends FAIL with what it has: the
orphan Pod API has no journal (`Lost`); a creation between the record of its Pod
and that of its Services has lost its client (`Stuck`; 3.7, claim 2), and the
`PRE_STEP` may have taken the Services as well; and a resumed creation first
repeats the steps of `ALWAYS_RERUN` (`Repeats`), which may fail for good, because
the account is not known any more or because the migration itself has deleted the
Secret that `step_migrate_inherit_password` reads. A migration that is cut off in
`step_migrate_cleanup_old` (`Handing`) and gets past them does that step again from
its start.

### 5.3 Assumptions, each a constant

* `Overlap = FALSE`: no two jobs about one old Pod are unfinished at one time, as
  `admin_be` has one open request per container. Everything else overlaps freely:
  a creation may come to the node while the user's keytab is being removed there,
  and be registered while the user's home is being deleted. The code looks before
  it removes and nothing joins the two; `unseen` marks the creations that fall
  between. `PodHasKeytab` and `PodHasHome` leave out only these, `KeytabAlways` and
  `HomeAlways` do not, and TLC refutes them (5.6, claims 1 and 2).
* `GraceCovers = TRUE`: the grace of 900 s exceeds the time from a Pod's rows to
  its first Service. `main.py:416-418` sets it for that, with a wait for the
  container of 500 s in between; the wait for the node's identity and slow calls
  come on top.
* `LostRecords`: a reservation may be lost (the failure to write it is swallowed;
  the cron job may die with one claimed). `TRUE` in `ports`, `FALSE` in `keytabs`,
  whose `KeytabWithdrawn` needs the record.
* `MaxTries = 1`: one repetition. `ports` has two failed calls and a crash of a
  controller or of the cron job, `keytabs` one failed call.
* At the start the rows of the old Pods are past their grace (`aged = Old`), which
  is when a reconciliation may take them, and no two of them have one node port
  (`OldApart`: the `UNIQUE KEY` of `pod_port_db.sql:34`).

### 5.4 Runs

| run | instance | checks |
|---|---|---|
| `ports` | nodes n1, n2; u has Pods a (with an extra port) and b on n1, v has c; six node ports; jobs in pairs: two creations; a port change and a creation; u's migration of a and the revocation of b, or b's orphan deletion; the revocation of c and v's creation; w's creation and the deletion of w's home; two failed calls, one crash | `TypeOK`, `PortLeadsToOwner`, `ServedAsRecorded`, `NothingLeft`, `MigrationKeepsServing`, `PodHasKeytab`, `PodHasHome` |
| `keytabs` | the revocation of c and v's creation beside a reservation for v on n2 and the cron job; one failed call | `PodHasKeytab`, `KeytabWithdrawn` |

Two jobs are enough because rows, Services and keytabs are decided by pairs: a
port by its two claimants, a keytab by the Pod that goes and the Pod that comes,
and the reconciliation that stands between them is a third actor in every pair.
Six ports leave a free one when both jobs hold theirs and an attempt was lost.

`PortLeadsToOwner` is about the disagreement of table and Services: an allocation
sees the rows under a lock and the Services before it, a reconciliation the other
way round, and a release deletes in the order that its caller chose.
`ServedAsRecorded` and `NothingLeft` say what is left when the jobs are over.
`PodHasKeytab` and `PodHasHome` are about what a removal looks at before it acts
(the Pods by a job, the rows by the cron job, the Pods and then the jobs by the
deletion of a home): what could be seen is kept. `NothingLeft` leaves out what the
code itself knows or must fear to have left, which `hurt` notes: a clean-up that
failed and was swallowed, a crash between a Pod's creation and its record, and a
job that was resumed and failed before it could go on.

### 5.5 Fairness

`FairSpec` (run `keytabs`) asks for `WF` of the cron job's steps: Kubernetes
starts it every 30 minutes (`cronjob-krb5-reconcile.yaml`). Nothing is assumed of
the jobs.

### 5.6 Claims the code does not keep

TLC refutes these; the constants are given as changes of the run's cfg. A
reservation here means a row of `krb5_cleanup_pending`.

1. `KeytabAlways` (run `keytabs` with `MaxFaults = 0`): a creation deploys its keytab before a removal lists the
   user's Pods and makes its Pod afterwards, or deploys it between the listing
   (`revoke.py:239`) or the check of the rows (`reconcile_krb5.py:56`) and the
   removal. `revoke.py:226` and `reconcile_krb5.py:27` take the look for enough.
2. `HomeAlways` (run `ports` with `Mixes <- HomeMix`, `MaxCrashes = 0` and
   `MaxFaults = 0`): `_require_home_unused` reads the Pods and then the jobs. A
   creation that ended between the two, or that was registered after both and
   found the home still there, loses its home (`home.py:4`).
3. `ServingMigrationEndsWell` (run `ports` with `Mixes <- MigrationMix` and
   `MaxFaults = 0`): a migration that is cut off in `step_migrate_cleanup_old` after
   it deleted the old Pod's Secret (`migrate.py:176`) is resumed, repeats
   `step_migrate_inherit_password` (`jobs.py:93`) and fails with
   `LOGIN_PASSWORD_MISSING`: a FAIL with the new Pod, its rows and its Services up,
   against `migrate.py:159`. One of the two Pods serves all the same
   (`MigrationKeepsServing`).
4. `PortLeadsToOwner` alone with `GraceCovers = FALSE` and `Mixes <- GraceMix`: when
   the time from the rows to the Services exceeds the grace (the wait for the
   node's identity and for the container lie between), a reconciliation deletes
   the rows of a Pod that is coming and its ports go to another.
5. `PortLeadsToOwner` with `MaxFaults = 3` and `MaxCrashes = 0`: a Service is made
   and its creation reported as failed, the clean-up's deletion of it fails and is
   swallowed, its rows go, and an allocation that cannot list the Services
   (`collect_used_nodeports` failing) gives the port to another Pod. With two
   failed calls and a crash it holds (run `ports`).
6. `PortLeadsToOwner` with `MaxCrashes = 0`, `Mixes <- TriedMix`, `TargetOf <-
   TriedTarget`, `Wanted <- TriedWanted` and `OldPorts <- TriedPorts`: a revocation
   ends FAIL after it deleted the Pod's Services; a port change of that Pod, which
   nothing refuses, reads the rows and goes on to its Services; a reconciliation
   finds no Service, takes the rows, and a creation gets the node port for which
   the port change then makes a Service.
7. `KeytabWithdrawn` with `LostRecords = TRUE`, `MaxCrashes = 1` and `MaxFaults =
   0`: a cron job that dies between the claim (`reconcile_krb5.py:38-53`) and the
   removal loses the reservation.

Known from the same exploration, each by the code named:

* A removal whose wait for the Pod timed out finds nothing at its next attempt
  and ends well without looking at the keytab: it stays on the node.
* A failed `INSERT` loses a reservation as well: it is swallowed
  (`main.py:892-910`).
* A controller that dies after the Pod is created and before the step is recorded,
  and whose successor fails before the Pod's creation is repeated, leaves that Pod
  up behind a FAIL.
* Port jobs and removals about one Pod at one time leave a row without a Service.
* A band that is full ends a creation at its first attempt (`StepFailed` 4xx),
  also when a reconciliation would free ports by the next one.

### 5.7 Left out

The images (commit, removal), the choice of the node among candidates, the
wait's substages, the Secret of a Pod (in `AccountChanges`), ports opened by
hand, the retention date and the owner's uid of a home.

### 5.8 Proofs

`ContainersProofs` proves, for any jobs, Pods, users, nodes, ports and mixes, any
number of attempts, crashes and failed calls, with `Overlap`, `LostRecords` and
`GraceCovers` either way:

* `TypeCorrect == Spec => []TypeOK`. `TypeOK` is not inductive: a row gets the
  node that the worker has in memory, and a removed keytab the node that the job
  noted. `TypeInv` adds which steps a job of each kind takes (`PCsOf`), that a
  worker which allocates, deploys or creates knows its node (`NodeKnown`), and
  that a Pod which exists has one. One lemma per action (`...OK`) gives where the
  job goes (`Moves`); all later proofs use these.
* `HomeOfPodInUse == Spec => []PodHasHome`, without any hypothesis: jobs of one
  user and deletions of the home side by side. `HomeInv` says what the deletion of
  a home knows after its first look and after its second (`HomeSeen`: no old Pod;
  no creation that needs the home, or one that is in `unseen`), what holds of a
  user without a home (`HomeGone`: the same), and when the Pod of a creation can
  be there (`PodLate`). The two looks are at different moments: what the second
  finds excludes what began after the first, and the proof shows that only two
  kinds of creation pass between them, one that ended there and one that came
  after both and found the home still there.
* `KeytabThere == Spec => []PodHasKeytab`, without any hypothesis: creations,
  removals, port changes, reconciliations and cron runs side by side. `KeyInv` says
  that rows name the node of their Pod (`RowsPlaced`, and `RowLate` for Pods that
  are still to come and for port jobs), that a job which removes a keytab has its
  own Pod going (`RemoveSafe`), that the cron job has one reservation in hand
  (`CronSafe`), and of every Pod with rows that is up, or whose creation has
  deployed the keytab (`Keyed`), that its keytab is on its node and nobody is about
  to remove it, or that it is in `unseen` (`Guarded`). What makes `Guarded`
  inductive is the order of the steps: rows before the keytab before the Pod, and
  in a removal the Pod before the rows before the look. Actions are grouped by
  what they can disturb.

  `unseen` is what these two theorems turn on, and it is small. `Keys` adds the
  creations that have deployed the user's keytab on the node and have no Pod yet,
  `HomeUnused` the user's new Pods, which are there although the first look found
  none; `DeployKeytab` and `RestoreHome` add their own creation when a removal has
  already looked, and `DeployKeytab` takes it out again when none is on its way.
  Claims 1 and 2 of 5.6 show that these cases do occur.

* `MigrationServes`: `[]MigrationKeepsServing`, from `SoleMover`: in a behaviour
  no other job migrates, revokes or deletes the Pod that a migration moves
  (`admin_be` opens one request per container, 5.3; two of the `ports` mixes have
  a migration beside a removal, of different Pods). Port changes of that Pod, any
  reconciliation, crash, failure and retry are allowed. `ServeInv` says for each
  step of the migration which of the two Pods is up with its SSH Service
  (`MoveInv`), and what a port job that adds or takes a Service of the old Pod
  leaves alone (`PortInv`); `Apart` and `Forward` are what a step of one job does
  to the others'.

`ContainerRecordsProofs` is about the rows of `nodeport_allocations` and what hangs
on them, from `~Overlap` throughout (5.3) and, but for `EndsClean`, from
`GraceCovers`:

* `RecordedIsServed`: `[]ServedAsRecorded`, from `~Overlap`, `GraceCovers` and
  `Base # {}` (every container opens SSH and Jupyter, so a container without a
  Service is one that is coming or going). Rows and Services are changed by
  different steps, in an order that depends on the job, and any reconciliation may
  come between. `TableInv` says how far apart they are: `MadeInv` for a creation
  (at each of its steps: nothing yet, the rows it drew, the rows with part of the
  Services, or both alike, unless a clean-up failed); `OldInv` for an old Pod
  that no removal has begun with (no open port is unrecorded, and no recorded one
  is closed while no port change is at work); `ChangeInv` for what a port change
  that may start again has in memory; `ListInv` for what a reconciliation that
  has listed the Services may delete; `TurnInv` for two jobs on one Pod. A step
  of a job keeps the others' part if it is `Mild`, and establishes its own by
  `Fit`. `GraceCovers` is needed for `ListInv` when rows age, `~Overlap` for
  `TurnInv` when a job is registered; claim 4 of 5.6 says what happens without
  the first.

* `EndsClean`: `[]NothingLeft`, from `~Overlap` alone: failed calls, retries,
  crashes, resumptions and other jobs are unbounded. `LeftInv` says which of Pod,
  rows and Services a creation (`MakeLeft`) and a removal (`DropLeft`) can have at
  each step, unless it is `hurt`, and that a port change finds nothing to change
  once the removal of its Pod ended well (`ChangeIdle`).

* `PortsLeadToOwners`: `[]PortLeadsToOwner` in the behaviours whose steps satisfy
  `Listed` (an allocation that succeeds has listed the Services, which claim 5
  does not) and `Untried` (no port change is asked of a Pod whose removal has
  begun, claim 6). `OwnerInv` follows a node port: the table gives it once
  (`Unshared`, from `OldApart` and the row lock), what a creation has still to open
  is in the table (`HandIn`, which no reconciliation undoes because the rows are
  young), and a port change at work opens rows of its own Pod (`FreshIn` with
  `ChangeInv`). It stands on `TableInv`: without it the rows of a Pod with
  Services could be given away.

TLC checked `TableInv`, `OwnerInv`, `HomeInv` and `KeyInv` before they were proved,
`OwnerInv` with the hypotheses of its theorem as constraints of the steps; without
one of these it finds the claim of 5.6 that is named with it.

Only model-checked: `KeytabWithdrawn`, which is liveness.

## 6. Changes to an account: access and password

### 6.1 State

| variable | in the code |
|---|---|
| `now` | `_now_ms()` of the last registration; two registrations may share it |
| `svcs` | the account's Services: Pod, port, whether the selector is blocked, the `decided_at` annotation (0: none). A patch changes one of them, so equality of the record stands for the resourceVersion |
| `ledger` | the hash in shadow, `"!"` for an account without one |
| `secret[p]` | `USER_PW_HASH` in the Secret of Pod p |
| `pods[p]` | phase, the hash that a starting container has read, the hash in the container's shadow |
| `loc[j]` | registration (`decided_at`, `access_blocked`), attempt and context of a job |

### 6.2 Actions

`AccessList` lists, gives way when a later decision for the opposite state is
seen (`Superseded`) and chooses what to patch (`StaleOnes`); `AccessPatch` patches
one Service and starts the step again on 409, 404 or a lost answer.

`PortRead`, `PortAllocate` and `PortAdd` are `step_change_ports`: it reads rows and
Services, allocates a node port when it saw no row, and creates a Service for each
row. Nothing keeps two jobs from a node port each for one internal port
(`nodeport_allocations` has no `UNIQUE` on the pair, `pod_port_db.sql:24-38`), and
each creates its Service; Kubernetes refuses only a node port that is in use, and
then the step starts again.

A migration starts with `MoveInherit`, the hash of the old Pod's Secret.
`MoveSecret` and `MovePod` are `step_create_pod_k8s`, `MoveReady` the wait,
`MoveServices`, `MoveService` and `MoveServed` `step_create_services` with its
`PRE_STEP`, `MoveCleanServices`, `MoveCleanPod` and `MoveCleaned` what is left of
the old Pod. A failed call may have had its effect; the clean-up after it takes
Services, Pod and Secret away, each part of it may fail and is then passed over
(`CleanUp`, `Leave`; `provision.py:385`), and the job starts again at the build
(`Rewind`). A container that ended, or takes too long, ends the job. `ContainerReads` and
`ContainerUp` carry the hash from the Secret into the container's shadow,
`ContainerStops` ends a container (`restartPolicy: Never`).

Services are created with the flag that their job's registration had.

`Crash` starts the step of a job again. A migration whose Pod is not recorded
builds again after it has inherited again; with the Pod recorded and the Services
not it has lost its client and ends FAIL, when the `PRE_STEP` may have taken its
Services; with the Services recorded it inherits once more (`resume`,
`ALWAYS_RERUN`), which may fail, and goes on with the clean-up.

`PasswordLedger`, `PasswordSecrets`, `PasswordHash`, `PasswordPods`,
`PasswordExec`, `PasswordDone` are `step_change_login_password`, and with `back`
the restoration of the old hash (`_restore_password`), which makes the same walk.

### 6.3 Assumptions

`Overlap = FALSE` keeps an access job from running beside a port or migrate job,
and a password job from running beside another one, beside a migration, or while
a Pod left by a failed migration is still starting. The API does not enforce it,
`admin_be` opens such requests one at a time; 6.6 says what happens otherwise.
`Blocked`, the flag a caller sends, is the last decision registered. Three attempts
as in production (`MaxTries = 2`), one crash, one failed call, one container that
ends.

### 6.4 Runs

| run | instance | checks |
|---|---|---|
| `changes` | one Pod with two ports; block, release, block; block and release with a port job or a migration between; two port jobs of one Pod; two password jobs; a password job and a migration, in any order of registration | `TypeOK`, `LaterDecisionHolds`, `OnlyLaterSupersedes`, `PasswordIsOne` |

Two Services per Pod are what a decision that holds on one and not on the other
needs; three decisions give one that is overtaken twice; registrations within one
millisecond give the tie that a block wins.

`OnlyLaterSupersedes` has a second disjunct: a port or migrate job that was
registered just before a release, in the same millisecond, and found the account
blocked, marks its Services with that time (`nodeport_service_body`), and the
release gives way to the mark (`_superseded`). So a decision may be given up that
no other decision overrides; the property says that nothing else supersedes.

### 6.5 Fairness

None: the properties are about what has ended.

### 6.6 Claims the code does not keep

1. `LaterDecisionHolds` with `Overlap = TRUE`, `Mixes <- AccessMixes`, no crash,
   failed call or end of a container: a port or migrate job registered before a
   block and run beside it creates an open Service after the block job listed the
   Services. The flag is fixed at registration (`main.py:1458-1460`), while
   `access.py:7-8` gives Services created meanwhile to their creator.
2. `PasswordIsOne` with `Overlap = TRUE` and `Mixes <- PasswordMixes`: a Pod that
   a migration makes after the password job listed the Pods, with the hash
   inherited before, keeps the old password (`utils.py:424-425` lists once).
3. An open Service carries no `decided_at`. A block that is delayed until a
   migration has recreated all Services open, after a later release, sees no
   later decision and blocks them.
4. Two password jobs side by side may roll back over one another.

### 6.7 Left out

Port jobs that drop ports (in `Containers`), the 404 of an account without
Services, the passwd and group lines of the ledger, the probes after a change, a
migration that is skipped before it changes anything, and a failure of the
`PRE_STEP` release itself (in `Containers`).

### 6.8 Proofs

`AccountChangesProofs` proves, from `ConstantsOK` (any finite set of jobs, which
the clock needs: time passes only with registrations; job names apart from the
names of old Pods), any number of attempts, crashes, failed calls and containers
that end:

* `TypeCorrect == Spec => []TypeOK`. `TypeInv` adds which steps a job of each kind
  takes, when it is registered and when it has an old hash in hand.
* `SupersededOnlyByLater == Spec => []OnlyLaterSupersedes`, jobs side by side or
  not. `OriginInv` says where the state of each Service comes from: the decision of
  a registered job of the same time, the flag of one that created it, or nobody's.
* `LaterDecision`: `[]LaterDecisionHolds`, with `~Overlap` as its hypothesis. Any
  number of access jobs may overlap. Its invariant adds to `OriginInv` that a Pod
  has one Service for a port (`UniqueInv`), what `~Overlap` means in a state
  (`ApartInv`), that a running port or migrate job has the last decision
  (`ServeInv`), and for each job that is patching, or has ended well, which
  Services it has still to reach and which are left to a later decision
  (`HoldInv`). A tie in the same millisecond is why Services are compared by rank
  and not by time.
* `OnePassword`: `[]PasswordIsOne`, with `~Overlap` as its hypothesis.
  `PasswordInv` says how far a password job, forward or back, has brought the
  ledger, the Secrets and the containers to the hash that it writes (`Stage`), and
  that what the last one left stays so through migrations and containers that end
  (`Settled`).

Without `~Overlap` both are refuted (6.6, claims 1 and 2).

## 7. Shared groups and the NAS

### 7.1 State

| variable | in the code |
|---|---|
| `groups`, `mtime`, `issued` | the group file's lines of shared groups, its mtime as a count of writes, the largest shared gid given out |
| `ad` | the groups of the AD: gid and members |
| `nas[u]` | the gids that winbind on the NAS reports for u |
| `ctx[u]` | the groups that u's GSS session froze, if u has one |
| `flushed` | `.gss_flush_state`: the mtime of the last recorded flush |
| `lock` | `nas_gss_flush:inflight`: the loop whose token it has |
| `rec[r]` | a run of `reconcile_nas_gss_cache`, the cron job's (0) or a loop's: its place and what it has read |
| `idmap`, `sending` | names registered on the nodes, names handed to threads |
| `loc[j]` | a job's worker |

### 7.2 Actions

`CreateLine`, `AdGroup`, `AdMember`, `AdMembersDone` are `step_group_create`;
`MemberStart`, `AdMember`, `LedgerMember`, `Trigger` the add and the remove;
`JoinResolve`, `JoinLine`, `AdGroup`, `AdMember`, `Trigger` what a provision of an
existing account does. That is four steps of the engine, each tried again by itself:
`next` is the step to go on with, the ones before it are recorded. So a failure in
the AD repeats `AdGroup` and `AdMember` and not the ledger's line, and a job that is
cut off repeats only `JoinResolve` (`ALWAYS_RERUN`) before it goes on there.

`Begin`, `ReadWanted`, `ReadKnown`, `AskNas`, `Flush`, `WriteState` are `reconcile_nas_gss_cache` in the order of its reads (the mtime
first), `GiveUp`, `Release`, `Expire` the loop and its lock, `SendIdmap` and
`CronIdmap` the registration of the names. `Learn`, `Connect` and `Lapse` are the
NAS: it learns what the AD has, a session freezes what it has learned, and a
context ends with the ticket it was made with (24 hours, `reconcile_krb5.py:185`).

### 7.3 Assumptions

* `Overlap = FALSE`: two jobs about one group do not run at one time.
* `Unknown`: accounts that the AD does not know are in no shared group.
* The NAS reports the AD as it is or as it was when it last learned; it does not
  go through states that the AD was in between. Two writes of the file have
  different mtimes.
* `Traced`, the premise of `FlushedMeansInEffect` and `EventuallyInEffect`: no job
  has failed, and a removal and a job that writes the ledger before the AD
  (`LedgerFirst`: a creation of a group, a provision that joins one) do not meet.
  7.5 says what happens without it.
* `MaxTries = 1`, one crash of any process, one failed call, which may be a lock
  that expires under its loop.

### 7.4 Run

`groups`: group g with member u, a new name h, an account the AD does not know,
gids 1 and 2, two loops; jobs: remove u from g and add u again; create h with u,
or empty, and add u; an account that joins h, one that joins g by its gid, one that
brings a gid for a name that the ledger lost. One user is enough because a job is
about one, or about all members alike, and the proofs (7.6) are for any number. It
checks `TypeOK`, `FlushedMeansInEffect`,
`DoneMeansBoth`, `LockIsOwners` and `EventuallyInEffect`. Two loops and the cron
job are every pair of runs of the reconciliation; two gids make the range end.

Fairness: the engine finishes what is registered (`WF` of a job's steps), the cron
job runs every 30 minutes, the NAS learns in the end. Nothing is assumed of the
loops, which may give up at once.

### 7.5 Claims the code does not keep

* An add and a remove of one user and one group side by side leave the AD and the
  ledger opposite; from then on the NAS never agrees with the ledger and no flush
  happens for anybody. [`EventuallyInEffect` has the premise `Agree`]
* `FlushedMeansInEffect` without `Traced`, `MCMixes == {{"remove", "back"}}`, one
  failed attempt and `MaxTries = 0`: a remove that failed for good after its AD
  command, followed by an add, leaves the ledger as it was. Its mtime does not move
  (`_set_group_membership` writes only a change, `group.py:259`), the cron job sees
  nothing to do (`reconcile_krb5.py:192`), and a session that was opened between
  the two keeps groups that the ledger does not have until its ticket ends.
* `FlushedMeansInEffect` without `Traced`, `MCMixes == {{"remove", "joinG"}}`, no
  failure and no crash: u is removed, and a provision job brings u back into the
  ledger (`provision.py:1813`) before the NAS has learned of the removal. What the
  NAS reports is old and agrees with what the ledger says again, so the flush is
  recorded; then the NAS learns the removal, a session freezes it, and the AD gets
  u (`provision.py:1868`) without another write of the ledger: u's session stays
  without the group until its ticket ends.
* A create that is resumed after another job added a member answers
  `GROUP_NAME_EXISTS`, although the group is its own.
* An account that the AD does not know and that is in a shared group blocks every
  flush (`CaughtUp`).

### 7.6 Proofs

`SharedGroupsProofs` proves, for any number of jobs, groups, users, loops, crashes
and failed calls, the first two from `ConstantsOK` alone, jobs side by side or not:

* `TypeCorrect == Spec => []TypeOK`. `TypeOK` is not inductive: `WriteState`
  records the mtime that its run read some steps before, and `Learn` hands the gids
  of the AD to the NAS. `TypeInv` adds that a run's mtime is not ahead of the file,
  that a group without a gid has no members, and that a job about to write a line or
  a group has a gid of the range. It is a conjunction of one part for each variable
  or two; `Keep` says of each part that an action which leaves its variables alone
  keeps it, so the lemma of an action proves only the parts it disturbs.
* `OwnersKeepLock == Spec => []LockIsOwners`. Relative to `TypeInv` the invariant is
  inductive: `Trigger` starts a loop only on a free lock, when every living loop is
  already late; `Release` frees only its own; `Expire` marks the loop it takes the
  lock from; a run keeps its mark until it is off; and 0, the free lock, is no loop.
  That a belated loop cannot free its successor's lock is what the compare-and-delete
  with a token buys (`release_flush_lock`).

* `FlushInEffect`: `[]FlushedMeansInEffect`, with the hypotheses `Changes` (the
  jobs are adds and removes, which write the AD before the ledger) and `~Overlap`.
  `EffectInv` has four layers. `JobsInv`: of the jobs about one group one at most
  runs. `SideInv`: while no job has failed, AD and ledger of a group differ only by
  what its running job has still to write. `GidsInv`: AD and ledger have the same
  gids, and the NAS knows no other. `RunsInv` and `DoneInv`: a run whose mtime is
  still the file's has read the file as it is; once its comparison has succeeded
  the NAS is, whenever AD and ledger agree, as they are (`NasOK`); once it has
  flushed, so are the contexts (`CtxOK`); and so for the recorded flush. The point
  is that a job which has changed the AD moves the ledger's mtime before it ends,
  so that a comparison which succeeded too early is never taken for the last one;
  the two cases of 7.5 break just that.
* `DoneInBoth`: `[]DoneMeansBoth`, for jobs of every kind, side by side or not, with
  the hypothesis `GidsFit`: no two groups have one gid at the start, and a provision
  job that brings a gid brings the one of the group's line. `BothInv` says that a
  gid is of one line for ever and not ahead of the record of issued ones
  (`LinesInv`), that a group of the AD has the line's gid or none, and none only by
  a job that writes the ledger first (`AdGidsInv`), on which gids a job relies at
  each place (`PlacesInv`), and for a job that is alone about its group what it has
  brought in or out of the AD and the ledger so far (`WholeInv`). `JobKeeps` reduces
  a step of a job to its own place. `GidsFit` leaves out the request that brings a
  gid for a name which the ledger lost: while that number is not recorded as issued
  the next new group can get it, and the two would share a line. The run has that
  request alone (`revive`).

Only model-checked: `FlushedMeansInEffect` for creations and joins, and
`EventuallyInEffect`, which is liveness.
