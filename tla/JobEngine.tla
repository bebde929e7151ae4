----------------------------- MODULE JobEngine -----------------------------
(***************************************************************************)
(* The job engine of config-server: the API registers a job (its input in  *)
(* Redis, its START row in operation_log), controller processes poll for   *)
(* START rows without an end row, own a job through a row of job_control   *)
(* (the lease), run its steps recording progress after each, write the end *)
(* row, delete the input and release the lease.                            *)
(*                                                                         *)
(* Durable state: input (Redis), rows (operation_log), lease (job_control) *)
(* and effects (what the steps did to the outside).  Volatile state, gone  *)
(* with the process: proc, loop, snap (the poll's result set) and task.    *)
(*                                                                         *)
(* Every store or step effect is one action; a process may crash between   *)
(* any two.  Errors the code swallows are separate actions that spend from *)
(* the budget MaxFaults and are enabled by FaultKinds.                     *)
(***************************************************************************)
EXTENDS Naturals, Sequences, FiniteSets

CONSTANTS
  Keys,          \* (action, request_id): what Redis and the journal key on
  Regs,          \* registrations; r also names the job_id its START row gets
  KeyOf,         \* the key each registration is for
  Procs,         \* controller process incarnations (job_control.OWNER)
  Workers,       \* CONTROLLER_WORKERS
  NSteps,        \* length of the job's step list
  AlwaysRerun,   \* ALWAYS_RERUN: steps run on every resume, never recorded
  DeferTo,       \* DEFER_DONE: DeferTo[s] is s's partner, 0 for none
  RewindTo,      \* restart_from of s's failure, 0 for none
  Needs,         \* effects without which a step cannot succeed
  Reads,         \* steps whose result, kept in memory only, a step reads
  CompensateAt,  \* the recorded step from which a failure is compensated
  Compensated,   \* the effects the compensation takes back
  Containers,    \* the effects that are a live container of the user
  MaxRewinds,    \* STEP_MAX_ATTEMPTS - 1
  Overlap,       \* TRUE: a replaced controller may still be running
  SlowClients,   \* TRUE: no request is registered again while a poll result
                 \* that still lists its ended job is being dispatched
  FaultKinds,    \* the swallowed errors that may happen
  MaxFaults,     \* and how many of them
  None           \* no row, no task, no key

AllFaults == {"start_fails", "start_lost", "api_crash", "claim_fails",
              "load_fails", "lookup_fails", "record_fails", "undo_fails",
              "end_fails", "end_lost", "keep_fails", "delete_fails",
              "release_fails", "cleanup_fails", "stall", "cut_off"}
Steps    == 1..NSteps

\* HELD: a FAIL whose row says that the account was not taken back
Verdicts == {"SUCCESS", "FAIL", "HELD", "DEGRADED", "MISSING"}
Phases   == {"START"} \cup Verdicts
TaskPCs  == {"claim", "insert", "cas", "load", "lookup", "mark", "markset",
             "run", "record", "rewound", "compensate", "end", "keep",
             "free", "release"}

ASSUME ConstantsOK ==
  /\ Keys # {} /\ Regs # {} /\ Procs # {}
  /\ KeyOf \in [Regs -> Keys]
  /\ Workers \in Nat \ {0} /\ NSteps \in Nat \ {0}
  /\ AlwaysRerun \subseteq Steps
  /\ DeferTo \in [Steps -> 0..NSteps]
  /\ RewindTo \in [Steps -> 0..NSteps]
  /\ \A s \in Steps : RewindTo[s] <= s
  /\ Needs \in [Steps -> SUBSET Steps]
  /\ Reads \in [Steps -> SUBSET Steps]
  /\ CompensateAt \in Steps
  /\ Compensated \subseteq Steps /\ Containers \subseteq Steps
  /\ MaxRewinds \in Nat
  /\ Overlap \in BOOLEAN /\ SlowClients \in BOOLEAN
  /\ FaultKinds \subseteq AllFaults /\ MaxFaults \in Nat
  /\ None \notin Regs \cup Procs \cup Verdicts

\* What a step reads was made by an earlier one; if that one is passed over
\* when its partner is recorded, the reader is the partner or shares it; and
\* no restart falls between a deferred step and its partner (DEFER_DONE has
\* one pair of neighbours, and RESTART_FROM leads to its first).
ASSUME TablesOK ==
  \A s \in Steps :
    /\ \A d \in Reads[s] :
         d \in AlwaysRerun \/ DeferTo[d] # 0 =>
           /\ d < s
           /\ \/ d \in AlwaysRerun
              \/ /\ s \notin AlwaysRerun
                 /\ \/ DeferTo[d] = s /\ DeferTo[s] = 0
                    \/ DeferTo[d] = DeferTo[s]
    /\ \A d \in Steps : DeferTo[d] # 0 /\ d < RewindTo[s] => DeferTo[d] < RewindTo[s]

VARIABLES
  input,    \* Redis op_job:<action>:<request_id>
  rows,     \* operation_log: the job-level rows, in id order
  lease,    \* job_control, by job_id
  effects,  \* the step effects that hold for each registration
  reg,      \* the API request of each registration
  proc,     \* the life of each controller process
  loop,     \* where its main loop is
  snap,     \* jobs of its last poll it has not dispatched yet
  task,     \* its worker threads, by key (the `running' dict)
  faults    \* errors spent so far

stores == <<input, rows, lease, effects>>
ctrl   == <<proc, loop, snap>>
vars   == <<input, rows, lease, effects, reg, proc, loop, snap, task, faults>>

Input == [state: {"queued", "running", "done"}, reg: Regs \cup {None},
          result: Verdicts \cup {None}]
Row   == [phase: Phases, job: Regs, reg: Regs \cup {None}]
Lease == [owner: Procs, live: BOOLEAN, done: SUBSET Steps]
Task  == [pc: TaskPCs, job: Regs, seen: Regs \cup Procs \cup {None},
          reg: Regs \cup {None}, done: SUBSET Steps, mem: SUBSET Steps,
          at: 1..(NSteps + 1), rewinds: 0..MaxRewinds,
          out: Verdicts \cup {None}]

ASSUME NoneOK == None \notin Input /\ None \notin Lease /\ None \notin Task

TypeOK ==
  /\ input \in [Keys -> Input \cup {None}]
  /\ rows \in Seq(Row)
  /\ lease \in [Regs -> Lease \cup {None}]
  /\ effects \in [Regs -> SUBSET Steps]
  /\ reg \in [Regs -> {"new", "saved", "undo", "accepted", "refused", "error"}]
  /\ proc \in [Procs -> {"unborn", "up", "draining", "dead"}]
  /\ loop \in [Procs -> {"poll", "dispatch"}]
  /\ snap \in [Procs -> SUBSET Regs]
  /\ task \in [Procs -> [Keys -> Task \cup {None}]]
  /\ faults \in 0..MaxFaults

Init ==
  /\ input = [k \in Keys |-> None]
  /\ rows = << >>
  /\ lease = [j \in Regs |-> None]
  /\ effects = [r \in Regs |-> {}]
  /\ reg = [r \in Regs |-> "new"]
  /\ proc = [p \in Procs |-> "unborn"]
  /\ loop = [p \in Procs |-> "poll"]
  /\ snap = [p \in Procs |-> {}]
  /\ task = [p \in Procs |-> [k \in Keys |-> None]]
  /\ faults = 0

Fault(f) == /\ f \in FaultKinds
            /\ faults < MaxFaults
            /\ faults' = faults + 1
NoFault  == faults' = faults

-----------------------------------------------------------------------------
(* The journal *)

StartOf(j) == {i \in DOMAIN rows : rows[i].phase = "START" /\ rows[i].job = j}

\* NOT EXISTS a later end row of the same request and action
Unfinished(j) ==
  \E i \in StartOf(j) : \A e \in DOMAIN rows :
    e > i /\ KeyOf[rows[e].job] = KeyOf[j] => rows[e].phase = "START"

\* job_end_exists(action, request_id, job_id)
Ended(j) == StartOf(j) # {} /\ ~Unfinished(j)

Log(phase, j, r) == rows' = Append(rows, [phase |-> phase, job |-> j, reg |-> r])

-----------------------------------------------------------------------------
(* The API: POST /operations/<kind> *)

\* Some controller is about to run an ended job of key k once more.
StalePick(k) ==
  \E p \in Procs :
    \/ \E j \in snap[p] : KeyOf[j] = k
    \/ /\ task[p][k] # None /\ Ended(task[p][k].job)
       /\ task[p][k].pc \in {"claim", "insert", "cas", "load"}

\* save_job_input (SET NX): 409 when the key is taken
SaveInput(r) ==
  /\ reg[r] = "new"
  /\ SlowClients => ~StalePick(KeyOf[r])
  /\ IF input[KeyOf[r]] = None
     THEN /\ input' = [input EXCEPT ![KeyOf[r]] =
                         [state |-> "queued", reg |-> r, result |-> None]]
          /\ reg' = [reg EXCEPT ![r] = "saved"]
     ELSE /\ reg' = [reg EXCEPT ![r] = "refused"]
          /\ UNCHANGED input
  /\ NoFault
  /\ UNCHANGED <<rows, lease, effects, ctrl, task>>

\* log_operation(START): it makes the job visible and gives it its number.
WriteStart(r) ==
  /\ reg[r] = "saved"
  /\ \/ /\ NoFault
        /\ Log("START", r, r)
        /\ reg' = [reg EXCEPT ![r] = "accepted"]
     \/ /\ Fault("start_lost")      \* committed, but the answer was lost
        /\ Log("START", r, r)
        /\ reg' = [reg EXCEPT ![r] = "undo"]
     \/ /\ Fault("start_fails")
        /\ reg' = [reg EXCEPT ![r] = "undo"]
        /\ UNCHANGED rows
  /\ UNCHANGED <<input, lease, effects, ctrl, task>>

\* 503: the input is taken back (the delete itself is not guarded).
UndoInput(r) ==
  /\ reg[r] = "undo"
  /\ reg' = [reg EXCEPT ![r] = "error"]
  /\ \/ NoFault /\ input' = [input EXCEPT ![KeyOf[r]] = None]
     \/ Fault("undo_fails") /\ UNCHANGED input
  /\ UNCHANGED <<rows, lease, effects, ctrl, task>>

\* The API worker dies between saving the input and writing the START row.
ApiCrash(r) ==
  /\ reg[r] \in {"saved", "undo"}
  /\ Fault("api_crash")
  /\ reg' = [reg EXCEPT ![r] = "error"]
  /\ UNCHANGED <<stores, ctrl, task>>

Register(r) == SaveInput(r) \/ WriteStart(r) \/ UndoInput(r) \/ ApiCrash(r)

-----------------------------------------------------------------------------
(* The life of a controller process (Deployment replicas 1, Recreate) *)

Alive(p) == proc[p] \in {"up", "draining"}

Start(p) ==
  /\ proc[p] = "unborn"
  /\ Overlap \/ \A q \in Procs : ~Alive(q)
  /\ proc' = [proc EXCEPT ![p] = "up"]
  /\ NoFault
  /\ UNCHANGED <<stores, reg, loop, snap, task>>

\* A process that goes away is replaced: bounded by the unborn ones left.
Replaceable == \E q \in Procs : proc[q] = "unborn"

\* A failed job has been compensated, and neither its end row nor its input
\* says so yet.
Unsaid(p) ==
  \E k \in Keys : /\ task[p][k] # None /\ task[p][k].pc \in {"end", "keep"}
                  /\ task[p][k].out \in {"FAIL", "HELD"}
                  /\ CompensateAt \in task[p][k].done

Crash(p) ==
  /\ Alive(p) /\ Replaceable
  /\ proc' = [proc EXCEPT ![p] = "dead"]
  /\ loop' = [loop EXCEPT ![p] = "poll"]
  /\ snap' = [snap EXCEPT ![p] = {}]
  /\ task' = [task EXCEPT ![p] = [k \in Keys |-> None]]
  /\ IF Unsaid(p) THEN Fault("cut_off") ELSE NoFault
  /\ UNCHANGED <<stores, reg>>

\* SIGTERM: no new poll, the running jobs are waited for.
Drain(p) ==
  /\ proc[p] = "up" /\ Replaceable
  /\ proc' = [proc EXCEPT ![p] = "draining"]
  /\ NoFault
  /\ UNCHANGED <<stores, reg, loop, snap, task>>

Exit(p) ==
  /\ proc[p] = "draining" /\ loop[p] = "poll"
  /\ \A k \in Keys : task[p][k] = None
  /\ proc' = [proc EXCEPT ![p] = "dead"]
  /\ NoFault
  /\ UNCHANGED <<stores, reg, loop, snap, task>>

-----------------------------------------------------------------------------
(* The controller's main loop: poll, dispatch the result in id order, renew *)

Poll(p) ==
  /\ proc[p] = "up" /\ loop[p] = "poll"
  /\ snap' = [snap EXCEPT ![p] = {j \in Regs : Unfinished(j)}]
  /\ loop' = [loop EXCEPT ![p] = "dispatch"]
  /\ NoFault
  /\ UNCHANGED <<stores, reg, proc, task>>

Running(p) == {k \in Keys : task[p][k] # None}

NewTask(j) == [pc |-> "claim", job |-> j, seen |-> None, reg |-> None,
               done |-> {}, mem |-> {}, at |-> 1, rewinds |-> 0, out |-> None]

\* A key that is already running here, or a full pool, is passed over.
Dispatch(p) ==
  /\ loop[p] = "dispatch" /\ snap[p] # {}
  /\ \E j \in snap[p] :
       /\ \A i \in snap[p] : \E a \in StartOf(j), b \in StartOf(i) : a <= b
       /\ snap' = [snap EXCEPT ![p] = @ \ {j}]
       /\ task' = IF KeyOf[j] \in Running(p) \/ Cardinality(Running(p)) >= Workers
                  THEN task
                  ELSE [task EXCEPT ![p][KeyOf[j]] = NewTask(j)]
  /\ NoFault
  /\ UNCHANGED <<stores, reg, proc, loop>>

\* renew(held): only rows still owned by p, whatever their lease_until.
Renew(p) ==
  /\ loop[p] = "dispatch" /\ snap[p] = {}
  /\ lease' = [j \in Regs |->
                 IF /\ lease[j] # None /\ lease[j].owner = p
                    /\ \E k \in Running(p) : task[p][k].job = j
                 THEN [lease[j] EXCEPT !.live = TRUE]
                 ELSE lease[j]]
  /\ loop' = [loop EXCEPT ![p] = "poll"]
  /\ NoFault
  /\ UNCHANGED <<input, rows, effects, reg, proc, snap, task>>

\* lease_until passes. An owner whose loop still renews must have stalled, or
\* have lost the log DB, for the whole TTL; a dead or draining one never renews.
Expire(j) ==
  /\ lease[j] # None /\ lease[j].live
  /\ lease' = [lease EXCEPT ![j].live = FALSE]
  /\ IF proc[lease[j].owner] = "up" THEN Fault("stall") ELSE NoFault
  /\ UNCHANGED <<input, rows, effects, reg, ctrl, task>>

-----------------------------------------------------------------------------
(* Worker threads: run_job *)

At(p, k, pc)  == task[p][k] # None /\ task[p][k].pc = pc
Become(p, k, t) == task' = [task EXCEPT ![p][k] = t]
Goto(p, k, pc) == Become(p, k, [task[p][k] EXCEPT !.pc = pc])
Return(p, k)  == Become(p, k, None)
Owns(p, j)    == lease[j] # None /\ lease[j].owner = p

\* Faulty: a lease of another process is never taken over.
NoTakeover(p, k) ==
  /\ At(p, k, "claim")
  /\ LET t == task[p][k]
         l == lease[t.job]
     IN \/ l = None /\ Goto(p, k, "insert")
        \/ l # None /\ l.owner # p /\ Return(p, k)
        \/ /\ l # None /\ l.owner = p
           /\ Become(p, k, [t EXCEPT !.pc = "cas", !.seen = l.owner])
  /\ NoFault
  /\ UNCHANGED <<stores, reg, ctrl>>

\* claim: the SELECT
ClaimRead(p, k) ==
  /\ At(p, k, "claim")
  /\ LET t == task[p][k]
         l == lease[t.job]
     IN \/ l = None /\ Goto(p, k, "insert") /\ NoFault
        \/ l # None /\ l.owner # p /\ l.live /\ Return(p, k) /\ NoFault
        \/ /\ l # None /\ (l.owner = p \/ ~l.live)
           /\ Become(p, k, [t EXCEPT !.pc = "cas", !.seen = l.owner])
           /\ NoFault
        \/ Fault("claim_fails") /\ Return(p, k)
  /\ UNCHANGED <<stores, reg, ctrl>>

\* claim: the INSERT of a job without a row (a duplicate key raises)
ClaimInsert(p, k) ==
  /\ At(p, k, "insert")
  /\ LET j == task[p][k].job
     IN IF lease[j] = None
        THEN /\ lease' = [lease EXCEPT ![j] =
                            [owner |-> p, live |-> TRUE, done |-> {}]]
             /\ Goto(p, k, "load")
        ELSE Return(p, k) /\ UNCHANGED lease
  /\ NoFault
  /\ UNCHANGED <<input, rows, effects, reg, ctrl>>

\* claim: the UPDATE conditioned on the owner and lease_until that were read.
\* A renewal in between moves lease_until, so another's row must still be dead.
CasMatches(p, j, seen) ==
  lease[j] # None /\ lease[j].owner = seen /\ (seen = p \/ ~lease[j].live)

\* Faulty: the saved progress is not handed to the new owner.
ForgetfulCas(p, k) ==
  /\ At(p, k, "cas")
  /\ LET t == task[p][k]
         j == t.job
     IN IF CasMatches(p, j, t.seen)
        THEN /\ lease' = [lease EXCEPT ![j].owner = p, ![j].live = TRUE]
             /\ Become(p, k, [t EXCEPT !.pc = "load", !.seen = None])
        ELSE Return(p, k) /\ UNCHANGED lease
  /\ NoFault
  /\ UNCHANGED <<input, rows, effects, reg, ctrl>>

ClaimCas(p, k) ==
  /\ At(p, k, "cas")
  /\ LET t == task[p][k]
         j == t.job
     IN IF CasMatches(p, j, t.seen)
        THEN /\ lease' = [lease EXCEPT ![j].owner = p, ![j].live = TRUE]
             /\ Become(p, k, [t EXCEPT !.pc = "load", !.seen = None,
                                       !.done = lease[j].done])
        ELSE Return(p, k) /\ UNCHANGED lease
  /\ NoFault
  /\ UNCHANGED <<input, rows, effects, reg, ctrl>>

\* load_job_input and its three ways on. An error of the store, or a stored
\* record without a job, escapes run_job and leaves the lease in place.
LoadInput(p, k) ==
  /\ At(p, k, "load")
  /\ LET t == task[p][k]
         i == input[k]
     IN \/ i = None /\ Goto(p, k, "lookup") /\ NoFault
        \/ /\ i # None /\ i.state = "done"
           /\ Become(p, k, [t EXCEPT !.pc = "end", !.reg = i.reg,
                                     !.out = i.result])
           /\ NoFault
        \/ /\ i # None /\ i.state # "done" /\ i.reg # None
           /\ Become(p, k, [t EXCEPT !.pc = "mark", !.reg = i.reg])
           /\ NoFault
        \/ /\ i # None /\ i.state # "done" /\ i.reg = None
           /\ Return(p, k) /\ NoFault
        \/ Fault("load_fails") /\ Return(p, k)
  /\ UNCHANGED <<stores, reg, ctrl>>

\* Faulty: every job without input is reported lost.
AlwaysMissing(p, k) ==
  /\ At(p, k, "lookup")
  /\ Become(p, k, [task[p][k] EXCEPT !.pc = "end", !.out = "MISSING"])
  /\ NoFault
  /\ UNCHANGED <<stores, reg, ctrl>>

\* No input: an ended job picked up again is dropped, otherwise it is lost.
\* job_end_exists answers no when the lookup itself fails.
LookupEnd(p, k) ==
  /\ At(p, k, "lookup")
  /\ LET t    == task[p][k]
         miss == Become(p, k, [t EXCEPT !.pc = "end", !.out = "MISSING"])
     IN \/ NoFault /\ Ended(t.job) /\ Goto(p, k, "release")
        \/ NoFault /\ ~Ended(t.job) /\ miss
        \/ Fault("lookup_fails") /\ miss
  /\ UNCHANGED <<stores, reg, ctrl>>

\* mark_job_running: GET, then SET of what was read
MarkRead(p, k) ==
  /\ At(p, k, "mark")
  /\ LET t == task[p][k]
     IN IF input[k] = None
        THEN Goto(p, k, "run")
        ELSE Become(p, k, [t EXCEPT !.pc = "markset", !.seen = input[k].reg])
  /\ NoFault
  /\ UNCHANGED <<stores, reg, ctrl>>

MarkRunning(p, k) ==
  /\ At(p, k, "markset")
  /\ LET t == task[p][k]
     IN /\ input' = [input EXCEPT ![k] = [state |-> "running", reg |-> t.seen,
                                          result |-> None]]
        /\ Become(p, k, [t EXCEPT !.pc = "run", !.seen = None])
  /\ NoFault
  /\ UNCHANGED <<rows, lease, effects, reg, ctrl>>

-----------------------------------------------------------------------------
(* The step loop *)

Volatile(s) == s \in AlwaysRerun \/ DeferTo[s] # 0

\* Faulty: ALWAYS_RERUN steps run only on a fresh start.
SkipsRerun(s, done) ==
  IF DeferTo[s] # 0 THEN DeferTo[s] \in done
  ELSE s \in done \/ (s \in AlwaysRerun /\ done # {})

\* The steps the loop passes over: recorded, or their partner is.
Skipped(s, done) ==
  /\ s \notin AlwaysRerun
  /\ IF DeferTo[s] # 0 THEN DeferTo[s] \in done ELSE s \in done

Upcoming(t) == {s \in Steps : s >= t.at /\ ~Skipped(s, t.done)}
IsNext(t, s) == s \in Upcoming(t) /\ \A u \in Upcoming(t) : s <= u

\* A step that reads what the process does not have raises KeyError.
CanRun(t, s) == IsNext(t, s) /\ Reads[s] \subseteq t.mem

\* The step's effect holds; a volatile step is not recorded.
StepSucceeds(p, k) ==
  /\ At(p, k, "run")
  /\ LET t == task[p][k]
     IN \E s \in Steps :
          /\ CanRun(t, s)
          /\ Needs[s] \subseteq effects[t.reg]
          /\ effects' = [effects EXCEPT ![t.reg] = @ \cup {s}]
          /\ Become(p, k,
               IF Volatile(s)
               THEN [t EXCEPT !.at = s + 1, !.mem = @ \cup {s}]
               ELSE [t EXCEPT !.pc = "record", !.at = s, !.mem = @ \cup {s}])
  /\ NoFault
  /\ UNCHANGED <<input, rows, lease, reg, ctrl>>

\* A failing step that restarts from an earlier one first takes back what was
\* made from there on; whatever that cleanup cannot remove stays.
CleansUp(r, s) ==
  LET made == IF RewindTo[s] = 0 THEN {} ELSE RewindTo[s]..s
  IN \/ NoFault /\ effects' = [effects EXCEPT ![r] = @ \ made]
     \/ /\ Fault("cleanup_fails")
        /\ \E gone \in SUBSET made : effects' = [effects EXCEPT ![r] = @ \ gone]

\* Faulty: the failure is reported without the compensation.
FailsUncompensated(p, k) ==
  /\ At(p, k, "run")
  /\ LET t == task[p][k]
     IN \E s \in Steps :
          /\ CanRun(t, s)
          /\ CleansUp(t.reg, s)
          /\ Become(p, k, [t EXCEPT !.pc = "end", !.out = "FAIL"])
  /\ UNCHANGED <<input, rows, lease, reg, ctrl>>

\* A StepFailed that is not retried, or an unexpected exception
StepFails(p, k) ==
  /\ At(p, k, "run")
  /\ LET t == task[p][k]
     IN \E s \in Steps :
          /\ CanRun(t, s)
          /\ CleansUp(t.reg, s)
          /\ Become(p, k, [t EXCEPT !.pc = "compensate", !.out = "FAIL"])
  /\ UNCHANGED <<input, rows, lease, reg, ctrl>>

\* Retries used up, or the result cannot be told: nothing is taken back.
StepDegrades(p, k) ==
  /\ At(p, k, "run")
  /\ LET t == task[p][k]
     IN \E s \in Steps :
          /\ IsNext(t, s)
          /\ \/ UNCHANGED effects
             \/ /\ CanRun(t, s) /\ Needs[s] \subseteq effects[t.reg]
                /\ effects' = [effects EXCEPT ![t.reg] = @ \cup {s}]
          /\ Become(p, k, [t EXCEPT !.pc = "end", !.out = "DEGRADED"])
  /\ NoFault
  /\ UNCHANGED <<input, rows, lease, reg, ctrl>>

\* Faulty: the number of rewinds is not limited.
RewindsForever(p, k) ==
  /\ At(p, k, "run")
  /\ LET t == task[p][k]
     IN \E s \in Steps :
          /\ CanRun(t, s) /\ RewindTo[s] # 0
          /\ CleansUp(t.reg, s)
          /\ Become(p, k, [t EXCEPT !.pc = "rewound", !.at = RewindTo[s],
                                    !.rewinds = @ + 1])
  /\ UNCHANGED <<input, rows, lease, reg, ctrl>>

\* _StepRewind: the failed step cleaned up, and the loop restarts earlier.
StepRewinds(p, k) ==
  /\ At(p, k, "run")
  /\ LET t == task[p][k]
     IN \E s \in Steps :
          /\ CanRun(t, s) /\ RewindTo[s] # 0
          /\ CleansUp(t.reg, s)
          /\ Become(p, k,
               IF t.rewinds < MaxRewinds
               THEN [t EXCEPT !.pc = "rewound", !.at = RewindTo[s],
                              !.rewinds = @ + 1]
               ELSE [t EXCEPT !.pc = "end", !.out = "DEGRADED"])
  /\ UNCHANGED <<input, rows, lease, reg, ctrl>>

\* The `done' list about to be recorded: extended, or cut back by a rewind
NewDone(t) == IF t.pc = "record" THEN t.done \cup {t.at}
                                 ELSE {s \in t.done : s < t.at}
Recorded(t) == [t EXCEPT !.pc = "run", !.done = NewDone(t),
                         !.at = IF t.pc = "record" THEN @ + 1 ELSE @]

\* record_step: refused with LeaseLost unless p owns the row; any other error
\* of the log DB is treated like an unexpected failure of the job.
RecordStep(p, k) ==
  /\ At(p, k, "record") \/ At(p, k, "rewound")
  /\ LET t == task[p][k]
         j == t.job
     IN \/ /\ Owns(p, j) /\ NoFault
           /\ lease' = [lease EXCEPT ![j].done = NewDone(t)]
           /\ Become(p, k, Recorded(t))
        \/ ~Owns(p, j) /\ NoFault /\ Return(p, k) /\ UNCHANGED lease
        \/ /\ Fault("record_fails")
           /\ Become(p, k, [t EXCEPT !.pc = "compensate", !.out = "FAIL",
                                     !.done = NewDone(t)])
           /\ UNCHANGED lease
  /\ UNCHANGED <<input, rows, effects, reg, ctrl>>

StepsDone(p, k) ==
  /\ At(p, k, "run")
  /\ Upcoming(task[p][k]) = {}
  /\ Become(p, k, [task[p][k] EXCEPT !.pc = "end", !.out = "SUCCESS"])
  /\ NoFault
  /\ UNCHANGED <<stores, reg, ctrl>>

\* _compensate_provision: if this job completed the account, it is taken back;
\* or that is held (node unknown, another container of the user) or fails
\* midway, and the end row says so.
Compensate(p, k) ==
  /\ At(p, k, "compensate")
  /\ LET t == task[p][k]
         made == CompensateAt \in t.done
     IN \/ ~made /\ UNCHANGED effects /\ Goto(p, k, "end")
        \/ /\ made
           /\ effects' = [effects EXCEPT ![t.reg] = @ \ Compensated]
           /\ Goto(p, k, "end")
        \/ /\ made
           /\ \E gone \in SUBSET Compensated :
                effects' = [effects EXCEPT ![t.reg] = @ \ gone]
           /\ Become(p, k, [t EXCEPT !.pc = "end", !.out = "HELD"])
  /\ NoFault
  /\ UNCHANGED <<input, rows, lease, reg, ctrl>>

-----------------------------------------------------------------------------
(* _finish_job, _record_job_result, _release_lease *)

\* Faulty: the lease goes although neither the row nor the input holds a result.
ForgetsResult(p, k) ==
  /\ At(p, k, "end")
  /\ LET t == task[p][k]
     IN \/ NoFault /\ Log(t.out, t.job, t.reg) /\ Goto(p, k, "free")
        \/ Fault("end_fails") /\ UNCHANGED rows /\ Goto(p, k, "release")
  /\ UNCHANGED <<input, lease, effects, reg, ctrl>>

\* The end row; only once it is written may the input go.
WriteEnd(p, k) ==
  /\ At(p, k, "end")
  /\ LET t == task[p][k]
     IN \/ NoFault /\ Log(t.out, t.job, t.reg) /\ Goto(p, k, "free")
        \/ Fault("end_lost") /\ Log(t.out, t.job, t.reg) /\ Goto(p, k, "keep")
        \/ Fault("end_fails") /\ UNCHANGED rows /\ Goto(p, k, "keep")
  /\ UNCHANGED <<input, lease, effects, reg, ctrl>>

\* Faulty: the phase of the result is not kept.
KeepsSuccess(p, k) ==
  /\ At(p, k, "keep")
  /\ input' = [input EXCEPT ![k] =
       [state |-> "done", result |-> "SUCCESS",
        reg |-> IF input[k] = None THEN None ELSE input[k].reg]]
  /\ Goto(p, k, "release")
  /\ NoFault
  /\ UNCHANGED <<rows, lease, effects, reg, ctrl>>

\* mark_job_done: the result waits in the input for the next round.
KeepResult(p, k) ==
  /\ At(p, k, "keep")
  /\ LET t == task[p][k]
     IN \/ /\ NoFault
           /\ input' = [input EXCEPT ![k] =
                [state |-> "done", result |-> t.out,
                 reg |-> IF input[k] = None THEN None ELSE input[k].reg]]
        \/ Fault("keep_fails") /\ UNCHANGED input
  /\ Goto(p, k, "release")
  /\ UNCHANGED <<rows, lease, effects, reg, ctrl>>

\* Faulty: the input of an ended job is left behind.
LeavesInput(p, k) ==
  /\ At(p, k, "free")
  /\ Goto(p, k, "release")
  /\ NoFault
  /\ UNCHANGED <<stores, reg, ctrl>>

FreeInput(p, k) ==
  /\ At(p, k, "free")
  /\ \/ NoFault /\ input' = [input EXCEPT ![k] = None]
     \/ Fault("delete_fails") /\ UNCHANGED input
  /\ Goto(p, k, "release")
  /\ UNCHANGED <<rows, lease, effects, reg, ctrl>>

Release(p, k) ==
  /\ At(p, k, "release")
  /\ LET j == task[p][k].job
     IN \/ /\ NoFault
           /\ lease' = IF Owns(p, j) THEN [lease EXCEPT ![j] = None] ELSE lease
        \/ Fault("release_fails") /\ UNCHANGED lease
  /\ Return(p, k)
  /\ UNCHANGED <<input, rows, effects, reg, ctrl>>

-----------------------------------------------------------------------------
Work(p, k) ==
  \/ ClaimRead(p, k) \/ ClaimInsert(p, k) \/ ClaimCas(p, k)
  \/ LoadInput(p, k) \/ LookupEnd(p, k)
  \/ MarkRead(p, k) \/ MarkRunning(p, k)
  \/ StepSucceeds(p, k) \/ StepFails(p, k) \/ StepDegrades(p, k)
  \/ StepRewinds(p, k) \/ RecordStep(p, k) \/ StepsDone(p, k)
  \/ Compensate(p, k)
  \/ WriteEnd(p, k) \/ KeepResult(p, k) \/ FreeInput(p, k) \/ Release(p, k)

Loop(p) == Poll(p) \/ Dispatch(p) \/ Renew(p)

Next ==
  \/ \E r \in Regs : Register(r)
  \/ \E p \in Procs : \/ Start(p) \/ Crash(p) \/ Drain(p) \/ Exit(p) \/ Loop(p)
                      \/ \E k \in Keys : Work(p, k)
  \/ \E j \in Regs : Expire(j)

Spec == Init /\ [][Next]_vars

\* Kubernetes restarts the controller, its loop and its threads keep running,
\* the API finishes the requests it took, and time passes for a lease nobody
\* renews. Crashes, SIGTERMs and faults are never owed.
Fairness ==
  /\ WF_vars(\E p \in Procs : Start(p))
  /\ \A r \in Regs : WF_vars(WriteStart(r) \/ UndoInput(r))
  /\ \A p \in Procs : WF_vars(Loop(p)) /\ WF_vars(Exit(p))
  /\ \A p \in Procs, k \in Keys : WF_vars(Work(p, k))
  /\ \A j \in Regs : WF_vars(Expire(j))

FairSpec == Spec /\ Fairness

-----------------------------------------------------------------------------
(* What the verdicts rely on in the step tables *)

\* A step is deferred to its neighbour (DEFER_DONE has one pair). A step that
\* takes back what was made from a point on (restart_from) needs, of whatever
\* recorded step it takes back, one that comes no later and is taken back too:
\* so a run that was cut off between the cleanup and the record of the rewind
\* fails at that step again when it is resumed, and does not go past it.
MendTables ==
  /\ \A d \in Steps : DeferTo[d] # 0 => DeferTo[d] = d + 1
  /\ \A s \in Steps : RewindTo[s] # 0 =>
       \A n \in RewindTo[s]..(s - 1) : ~Volatile(n) =>
         \E m \in Needs[s] : ~Volatile(m) /\ RewindTo[s] <= m /\ m <= n

\* The account is what the first step makes, and takes back when it fails; from
\* its record on a failure of the job is compensated.
AccountFirst ==
  /\ CompensateAt = 1 /\ Compensated = {1}
  /\ ~Volatile(1) /\ RewindTo[1] = 1

-----------------------------------------------------------------------------
(* Properties *)

\* Fencing: while the process that owns a lease is between steps, the progress
\* saved in job_control is the progress it has in memory. A late old owner, or
\* a lost race for the lease, never puts other progress under it.
ProgressIsOwners ==
  \A p \in Procs, k \in Keys :
    LET t == task[p][k]
    IN /\ t # None
       /\ t.pc \in {"load", "lookup", "mark", "markset", "run", "record", "rewound"}
       /\ Owns(p, t.job)
       => lease[t.job].done = t.done

\* The steps left out of the saved progress are exactly those that must be: a
\* resumed or rewound run never reaches a step without having rerun the
\* volatile steps whose result (the user info, the Pod spec) it reads.
ContextInHand ==
  \A p \in Procs, k \in Keys : At(p, k, "run") =>
    \A s \in Steps : IsNext(task[p][k], s) =>
      \A d \in Reads[s] : Volatile(d) => d \in task[p][k].mem

\* A restarted controller goes on from the step that was interrupted: every
\* step it reaches finds all it reads.
ResumeCanContinue ==
  \A p \in Procs, k \in Keys : At(p, k, "run") =>
    \A s \in Steps : IsNext(task[p][k], s) => CanRun(task[p][k], s)

\* A registration is reported successful only when the effect of every step of
\* it holds, through crashes, resumes, rewinds and compensations.
SuccessMeansDone ==
  \A i \in DOMAIN rows :
    rows[i].phase = "SUCCESS" => effects[rows[i].reg] = Steps

\* A registration whose end row says FAIL, with no word of an account left to
\* an administrator, leaves no account behind.
FailureIsCompensated ==
  \A i \in DOMAIN rows :
    rows[i].phase = "FAIL" => Compensated \cap effects[rows[i].reg] = {}

\* The account of a user is not taken back while a container of his is there.
AccountOutlivesContainer ==
  \A r \in Regs : Containers \cap effects[r] # {} => Compensated \subseteq effects[r]

\* Nothing more is done for a registration once its verdict is written: a job
\* that ended is never run again, whatever list it was picked from.
NoEffectAfterVerdict ==
  [][\A r \in Regs : Ended(r) => effects'[r] = effects[r]]_vars

\* A job's lease and saved progress are dropped only when the job is answered:
\* its end row is there, or its result waits in the input for the next round.
ReleasedOnlyWhenAnswered ==
  [][\A j \in Regs : lease[j] # None /\ lease'[j] = None =>
       \/ Ended(j)
       \/ input[KeyOf[j]] # None /\ input[KeyOf[j]].state = "done"]_vars

\* What GET /operations reports: the last row of the request
LastRow(k) ==
  LET mine == {i \in DOMAIN rows : KeyOf[rows[i].job] = k}
  IN IF mine = {} THEN "none"
     ELSE LET i == CHOOSE i \in mine : \A e \in mine : e <= i
          IN IF rows[i].phase = "START" THEN "accepted" ELSE rows[i].phase

statusBar == [k \in Keys |-> LastRow(k)]

Service == INSTANCE JobService WITH status <- statusBar

\* One verdict per accepted registration, never replaced (JobService).
ImplementsService == Service!Spec

\* Every job with a START row is eventually ended by an end row.
EveryJobEnds == \A k \in Keys : LastRow(k) = "accepted" ~> LastRow(k) # "accepted"

-----------------------------------------------------------------------------
(* Claims of the documentation that the code does not keep; no run checks  *)
(* them, the README says how each one fails                                *)

\* Only the owner of the lease records anything for the job, its end row
\* included (job_control: a record by a process that is not the owner is
\* refused, a late old owner cannot overwrite the new one's work).
OnlyOwnerRecords ==
  [][\A p \in Procs, k \in Keys :
       At(p, k, "end") /\ rows' # rows /\ task'[p][k] # task[p][k]
         => Owns(p, task[p][k].job)]_vars

\* A run under a job number executes what was registered under that number,
\* so the records that carry the number are that job's.
RunsOwnRegistration ==
  \A p \in Procs, k \in Keys :
    task[p][k] # None /\ task[p][k].reg # None => task[p][k].reg = task[p][k].job

\* A registration is refused (409) only while a job of the same request is not
\* finished: it has no end row yet, is being ended, or is being registered.
RefusedOnlyWhileUnfinished ==
  [][\A r \in Regs : reg[r] = "new" /\ reg'[r] = "refused" =>
       \/ \E j \in Regs : KeyOf[j] = KeyOf[r] /\ (Unfinished(j) \/ reg[j] \in {"saved", "undo"})
       \/ \E p \in Procs : task[p][KeyOf[r]] # None]_vars
=============================================================================
