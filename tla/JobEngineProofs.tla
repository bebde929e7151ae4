-------------------------- MODULE JobEngineProofs --------------------------
(***************************************************************************)
(* For any number of requests, registrations, controller processes and     *)
(* steps: with every swallowed error and with overlapping controllers,     *)
(* type correctness of the engine, the fencing of its progress             *)
(* (ProgressIsOwners) and the context that a step finds (ContextInHand);   *)
(* then, sheltered from some of these, what admin_be may rely on: one      *)
(* verdict per registration (the refinement of JobService), nothing done   *)
(* after it, and no lease dropped before it.                               *)
(***************************************************************************)
EXTENDS JobEngine, TLAPS

Executing == {"mark", "markset", "run", "record", "rewound", "compensate"}
Closing   == {"compensate", "end", "keep"}
Claiming  == {"claim", "insert", "cas"}

\* What a worker thread holds at each point of run_job
TaskOK(k, t) ==
  /\ t \in Task
  /\ KeyOf[t.job] = k
  /\ t.pc \in Claiming => t.done = {}
  /\ t.pc = "cas" => t.seen \in Procs
  /\ t.pc = "markset" => t.seen \in Regs \cup {None}
  /\ t.pc \in Executing => t.reg \in Regs
  /\ t.pc = "record" => t.at \in Steps
  /\ t.pc \in Closing => t.out \in Verdicts

TasksOK ==
  /\ task \in [Procs -> [Keys -> Task \cup {None}]]
  /\ \A p \in Procs, k \in Keys : task[p][k] # None => TaskOK(k, task[p][k])

\* A result kept in the input is a verdict.
InputOK ==
  /\ input \in [Keys -> Input \cup {None}]
  /\ \A k \in Keys : input[k] # None /\ input[k].state = "done" =>
       input[k].result \in Verdicts

StoresOK ==
  /\ InputOK
  /\ rows \in Seq(Row)
  /\ lease \in [Regs -> Lease \cup {None}]
  /\ effects \in [Regs -> SUBSET Steps]

CtrlOK ==
  /\ reg \in [Regs -> {"new", "saved", "undo", "accepted", "refused", "error"}]
  /\ proc \in [Procs -> {"unborn", "up", "draining", "dead"}]
  /\ loop \in [Procs -> {"poll", "dispatch"}]
  /\ snap \in [Procs -> SUBSET Regs]
  /\ faults \in 0..MaxFaults

TypeInv == StoresOK /\ CtrlOK /\ TasksOK

-----------------------------------------------------------------------------
(* Moving one worker thread *)

LEMMA TaskMoves ==
  ASSUME TasksOK, NEW p \in Procs, NEW k \in Keys, NEW t,
         t = None \/ TaskOK(k, t), Become(p, k, t)
  PROVE  TasksOK'
<1>1. t \in Task \cup {None}
  BY DEF TaskOK
<1>2. task' \in [Procs -> [Keys -> Task \cup {None}]]
  BY <1>1 DEF TasksOK, Become
<1>3. ASSUME NEW q \in Procs, NEW l \in Keys, task'[q][l] # None
      PROVE  TaskOK(l, task'[q][l])
  <2>1. CASE q = p /\ l = k
    BY <2>1, <1>3 DEF TasksOK, Become
  <2>2. CASE ~(q = p /\ l = k)
    <3>1. task'[q][l] = task[q][l]
      BY <2>2 DEF TasksOK, Become
    <3>2. QED
      BY <3>1, <1>3 DEF TasksOK
  <2>3. QED
    BY <2>1, <2>2
<1>4. QED
  BY <1>2, <1>3 DEF TasksOK, TaskOK

LEMMA Current ==
  ASSUME TasksOK, NEW p \in Procs, NEW k \in Keys, task[p][k] # None
  PROVE  task[p][k] \in Task /\ TaskOK(k, task[p][k])
BY DEF TasksOK, TaskOK

LEMMA NewTaskOK ==
  ASSUME ConstantsOK, NEW j \in Regs
  PROVE  TaskOK(KeyOf[j], NewTask(j))
BY DEF TaskOK, NewTask, Task, TaskPCs, Claiming, Executing, Closing,
       ConstantsOK, Steps

-----------------------------------------------------------------------------
(* Type correctness: a worker's step, one store after the other *)

LEMMA WorkCtrl ==
  ASSUME TypeInv, NEW p \in Procs, NEW k \in Keys, Work(p, k)
  PROVE  CtrlOK'
<1>1. UNCHANGED <<reg, ctrl>>
  BY DEF Work, ClaimRead, ClaimInsert, ClaimCas, LoadInput, LookupEnd, MarkRead,
         MarkRunning, StepSucceeds, StepFails, StepDegrades, StepRewinds,
         RecordStep, StepsDone, Compensate, WriteEnd, KeepResult, FreeInput,
         Release, CleansUp
<1>2. NoFault \/ \E f \in AllFaults : Fault(f)
  BY DEF Work, ClaimRead, ClaimInsert, ClaimCas, LoadInput, LookupEnd, MarkRead,
         MarkRunning, StepSucceeds, StepFails, StepDegrades, StepRewinds,
         RecordStep, StepsDone, Compensate, WriteEnd, KeepResult, FreeInput,
         Release, CleansUp, AllFaults
<1>3. faults' \in 0..MaxFaults
  BY <1>2, ConstantsOK DEF NoFault, Fault, CtrlOK, TypeInv
<1>4. QED
  BY <1>1, <1>3 DEF CtrlOK, ctrl, TypeInv

LEMMA WorkTasks ==
  ASSUME TypeInv, NEW p \in Procs, NEW k \in Keys, Work(p, k)
  PROVE  TasksOK'
<1> DEFINE t == task[p][k]
<1> SUFFICES \E u : (u = None \/ TaskOK(k, u)) /\ Become(p, k, u)
  BY TaskMoves DEF TypeInv
<1>1. t \in Task /\ TaskOK(k, t)
  BY Current DEF TypeInv, Work, ClaimRead, ClaimInsert, ClaimCas, LoadInput,
     LookupEnd, MarkRead, MarkRunning, StepSucceeds, StepFails, StepDegrades,
     StepRewinds, RecordStep, StepsDone, Compensate, WriteEnd, KeepResult,
     FreeInput, Release, At
<1>2. InputOK /\ input[k] \in Input \cup {None}
      /\ lease[t.job] \in Lease \cup {None}
  BY <1>1 DEF TypeInv, StoresOK, InputOK, TaskOK, Task
<1>3. ASSUME NEW pc \in TaskPCs \ (Executing \cup Closing \cup {"cas", "record"}),
             pc \in Claiming => t.done = {}
      PROVE  TaskOK(k, [t EXCEPT !.pc = pc])
  BY <1>1, <1>3 DEF TaskOK, Task, Executing, Closing
<1>e. ASSUME NEW v \in Verdicts
      PROVE  TaskOK(k, [t EXCEPT !.pc = "end", !.out = v])
  <2>1. "end" \in TaskPCs \ (Claiming \cup Executing \cup {"cas", "markset", "record"})
    BY DEF TaskPCs, Claiming, Executing
  <2>2. QED
    BY <1>1, <2>1 DEF TaskOK, Task
<1>4. CASE ClaimRead(p, k)
  <2>1. CASE Goto(p, k, "insert")
    BY <1>1, <1>3, <2>1, <1>4
       DEF Goto, ClaimRead, At, TaskOK, Claiming, TaskPCs, Executing, Closing
  <2>2. CASE Become(p, k, [t EXCEPT !.pc = "cas", !.seen = lease[t.job].owner])
             /\ lease[t.job] # None
    <3>1. lease[t.job].owner \in Procs
      BY <1>2, <2>2 DEF Lease
    <3>2. TaskOK(k, [t EXCEPT !.pc = "cas", !.seen = lease[t.job].owner])
      BY <1>1, <1>4, <3>1
         DEF TaskOK, Task, TaskPCs, Claiming, Executing, Closing, ClaimRead, At
    <3>3. QED
      BY <2>2, <3>2
  <2>3. QED
    BY <1>4, <2>1, <2>2 DEF ClaimRead, Return
<1>5. CASE ClaimInsert(p, k)
  BY <1>1, <1>3, <1>5
     DEF ClaimInsert, Goto, Return, TaskPCs, Claiming, Executing, Closing
<1>6. CASE ClaimCas(p, k)
  <2>1. lease[t.job] # None => TaskOK(k, [t EXCEPT !.pc = "load", !.seen = None,
                                                  !.done = lease[t.job].done])
    BY <1>1, <1>2 DEF TaskOK, Task, TaskPCs, Lease, Claiming, Executing, Closing
  <2>2. QED
    BY <1>6, <2>1 DEF ClaimCas, CasMatches, Return
<1>7. CASE LoadInput(p, k)
  <2>1. input[k] # None /\ input[k].state = "done"
        => TaskOK(k, [t EXCEPT !.pc = "end", !.reg = input[k].reg,
                               !.out = input[k].result])
    <3>1. SUFFICES ASSUME input[k] # None, input[k].state = "done"
                   PROVE  TaskOK(k, [t EXCEPT !.pc = "end", !.reg = input[k].reg,
                               !.out = input[k].result])
      OBVIOUS
    <3>2. input[k].reg \in Regs \cup {None} /\ input[k].result \in Verdicts
      BY <1>2, <3>1 DEF InputOK, Input
    <3>3. QED
      BY <1>1, <3>2 DEF TaskOK, Task, TaskPCs, Claiming, Executing, Closing
  <2>2. input[k] # None /\ input[k].reg # None
        => TaskOK(k, [t EXCEPT !.pc = "mark", !.reg = input[k].reg])
    BY <1>1, <1>2 DEF TaskOK, Task, TaskPCs, Input, Claiming, Executing, Closing
  <2>3. TaskOK(k, [t EXCEPT !.pc = "lookup"])
    BY <1>1, <1>3 DEF TaskPCs, Claiming, Executing, Closing
  <2>4. QED
    BY <1>7, <2>1, <2>2, <2>3 DEF LoadInput, Goto, Return
<1>8. CASE LookupEnd(p, k)
  <2>1. TaskOK(k, [t EXCEPT !.pc = "release"])
    BY <1>1, <1>3 DEF TaskPCs, Claiming, Executing, Closing
  <2>2. TaskOK(k, [t EXCEPT !.pc = "end", !.out = "MISSING"])
    BY <1>e DEF Verdicts
  <2>3. QED
    BY <1>8, <2>1, <2>2 DEF LookupEnd, Goto
<1>9. CASE MarkRead(p, k)
  <2>1. TaskOK(k, [t EXCEPT !.pc = "run"])
    BY <1>1, <1>9 DEF MarkRead, At, TaskOK, Task, TaskPCs, Claiming, Executing, Closing
  <2>2. input[k] # None
        => TaskOK(k, [t EXCEPT !.pc = "markset", !.seen = input[k].reg])
    BY <1>1, <1>2, <1>9
       DEF MarkRead, At, TaskOK, Task, TaskPCs, Input, Claiming, Executing, Closing
  <2>3. QED
    BY <1>9, <2>1, <2>2 DEF MarkRead, Goto
<1>10. CASE MarkRunning(p, k)
  <2>1. TaskOK(k, [t EXCEPT !.pc = "run", !.seen = None])
    BY <1>1, <1>10 DEF MarkRunning, At, TaskOK, Task, TaskPCs, Claiming, Executing, Closing
  <2>2. QED
    BY <1>10, <2>1 DEF MarkRunning
<1>11. CASE StepSucceeds(p, k)
  <2>1. PICK s \in Steps : Become(p, k, IF Volatile(s)
               THEN [t EXCEPT !.at = s + 1, !.mem = @ \cup {s}]
               ELSE [t EXCEPT !.pc = "record", !.at = s, !.mem = @ \cup {s}])
    BY <1>11 DEF StepSucceeds
  <2>2. s \in 1..(NSteps + 1) /\ s + 1 \in 1..(NSteps + 1)
    BY ConstantsOK DEF Steps
  <2>3. TaskOK(k, [t EXCEPT !.at = s + 1, !.mem = @ \cup {s}])
    BY <1>1, <1>11, <2>2
       DEF StepSucceeds, At, TaskOK, Task, TaskPCs, Claiming, Executing, Closing
  <2>4. TaskOK(k, [t EXCEPT !.pc = "record", !.at = s, !.mem = @ \cup {s}])
    BY <1>1, <1>11, <2>2
       DEF StepSucceeds, At, TaskOK, Task, TaskPCs, Claiming, Executing, Closing
  <2>5. QED
    BY <2>1, <2>3, <2>4
<1>12. CASE StepFails(p, k)
  <2>1. TaskOK(k, [t EXCEPT !.pc = "compensate", !.out = "FAIL"])
    BY <1>1, <1>12 DEF StepFails, At, TaskOK, Task, TaskPCs, Verdicts, Claiming,
                       Executing, Closing
  <2>2. QED
    BY <1>12, <2>1 DEF StepFails
<1>13. CASE StepDegrades(p, k)
  <2>1. TaskOK(k, [t EXCEPT !.pc = "end", !.out = "DEGRADED"])
    BY <1>e DEF Verdicts
  <2>2. QED
    BY <1>13, <2>1 DEF StepDegrades
<1>14. CASE StepRewinds(p, k)
  <2>1. PICK s \in Steps :
          /\ RewindTo[s] # 0
          /\ Become(p, k,
               IF t.rewinds < MaxRewinds
               THEN [t EXCEPT !.pc = "rewound", !.at = RewindTo[s],
                              !.rewinds = @ + 1]
               ELSE [t EXCEPT !.pc = "end", !.out = "DEGRADED"])
    BY <1>14 DEF StepRewinds
  <2>2. TaskOK(k, [t EXCEPT !.pc = "end", !.out = "DEGRADED"])
    BY ZenonT(60), <1>1 DEF TaskOK, Task, TaskPCs, Verdicts, Claiming, Executing, Closing
  <2>3. ASSUME t.rewinds < MaxRewinds
        PROVE  TaskOK(k, [t EXCEPT !.pc = "rewound", !.at = RewindTo[s],
                                   !.rewinds = @ + 1])
    <3>1. RewindTo[s] \in 1..(NSteps + 1)
      BY <2>1, ConstantsOK DEF Steps
    <3>2. t.rewinds \in 0..MaxRewinds
      BY <1>1 DEF Task
    <3>3. t.rewinds + 1 \in 0..MaxRewinds
      BY <2>3, <3>2, ConstantsOK
    <3>4. QED
      BY <1>1, <1>14, <3>1, <3>3
         DEF StepRewinds, At, TaskOK, Task, TaskPCs, Claiming, Executing, Closing
  <2>4. QED
    BY <2>1, <2>2, <2>3
<1>15. CASE RecordStep(p, k)
  <2>1. t.pc \in {"record", "rewound"} /\ NewDone(t) \in SUBSET Steps
    BY <1>1, <1>15 DEF RecordStep, At, NewDone, TaskOK, Task
  <2>2. TaskOK(k, Recorded(t))
    <3>1. (IF t.pc = "record" THEN t.at + 1 ELSE t.at) \in 1..(NSteps + 1)
      BY SMTT(30), <1>1, ConstantsOK DEF TaskOK, Task, Steps
    <3>2. QED
      BY <1>1, <2>1, <3>1
         DEF Recorded, TaskOK, Task, TaskPCs, Claiming, Executing, Closing
  <2>3. TaskOK(k, [t EXCEPT !.pc = "compensate", !.out = "FAIL", !.done = NewDone(t)])
    BY <1>1, <2>1 DEF TaskOK, Task, TaskPCs, Verdicts, Claiming, Executing, Closing
  <2>4. QED
    BY <1>15, <2>2, <2>3 DEF RecordStep, Return
<1>16. CASE StepsDone(p, k)
  <2>1. TaskOK(k, [t EXCEPT !.pc = "end", !.out = "SUCCESS"])
    BY <1>e DEF Verdicts
  <2>2. QED
    BY <1>16, <2>1 DEF StepsDone
<1>17. CASE Compensate(p, k)
  <2>1. TaskOK(k, [t EXCEPT !.pc = "end"])
    BY <1>1, <1>17
       DEF Compensate, At, TaskOK, Task, TaskPCs, Claiming, Executing, Closing
  <2>2. TaskOK(k, [t EXCEPT !.pc = "end", !.out = "HELD"])
    BY <1>e DEF Verdicts
  <2>3. QED
    BY <1>17, <2>1, <2>2 DEF Compensate, Goto
<1>18. CASE WriteEnd(p, k)
  <2>1. TaskOK(k, [t EXCEPT !.pc = "free"])
    BY <1>1, <1>3 DEF TaskPCs, Claiming, Executing, Closing
  <2>2. TaskOK(k, [t EXCEPT !.pc = "keep"])
    BY <1>1, <1>18
       DEF WriteEnd, At, TaskOK, Task, TaskPCs, Claiming, Executing, Closing
  <2>3. QED
    BY <1>18, <2>1, <2>2 DEF WriteEnd, Goto
<1>19. CASE KeepResult(p, k) \/ FreeInput(p, k)
  <2>1. TaskOK(k, [t EXCEPT !.pc = "release"])
    BY <1>1, <1>3 DEF TaskPCs, Claiming, Executing, Closing
  <2>2. QED
    BY <1>19, <2>1 DEF KeepResult, FreeInput, Goto
<1>20. CASE Release(p, k)
  BY <1>20 DEF Release, Return
<1>21. QED
  BY <1>4, <1>5, <1>6, <1>7, <1>8, <1>9, <1>10, <1>11, <1>12, <1>13, <1>14,
     <1>15, <1>16, <1>17, <1>18, <1>19, <1>20 DEF Work

\* Each action writes at most one of the stores.
LEMMA WorkStores ==
  ASSUME TypeInv, NEW p \in Procs, NEW k \in Keys, Work(p, k)
  PROVE  StoresOK'
<1> DEFINE t == task[p][k]
<1>1. t \in Task /\ TaskOK(k, t)
  BY Current DEF TypeInv, Work, ClaimRead, ClaimInsert, ClaimCas, LoadInput,
     LookupEnd, MarkRead, MarkRunning, StepSucceeds, StepFails, StepDegrades,
     StepRewinds, RecordStep, StepsDone, Compensate, WriteEnd, KeepResult,
     FreeInput, Release, At
<1>2. ASSUME UNCHANGED stores
      PROVE  StoresOK'
  BY <1>2 DEF TypeInv, StoresOK, InputOK, stores
<1>3. ASSUME UNCHANGED <<input, rows, lease>>, effects' \in [Regs -> SUBSET Steps]
      PROVE  StoresOK'
  BY <1>3 DEF TypeInv, StoresOK, InputOK
<1>4. ASSUME UNCHANGED <<input, rows, effects>>,
             lease' \in [Regs -> Lease \cup {None}]
      PROVE  StoresOK'
  BY <1>4 DEF TypeInv, StoresOK, InputOK
<1>5. ASSUME UNCHANGED <<rows, lease, effects>>, InputOK'
      PROVE  StoresOK'
  BY <1>5 DEF TypeInv, StoresOK
<1>6. CASE ClaimRead(p, k) \/ LoadInput(p, k) \/ LookupEnd(p, k)
           \/ MarkRead(p, k) \/ StepsDone(p, k)
  BY <1>2, <1>6 DEF ClaimRead, LoadInput, LookupEnd, MarkRead, StepsDone
<1>7. CASE ClaimInsert(p, k)
  <2>1. [owner |-> p, live |-> TRUE, done |-> {}] \in Lease
    BY DEF Lease
  <2>2. QED
    BY <1>1, <1>4, <1>7, <2>1 DEF ClaimInsert, TypeInv, StoresOK, Task
<1>8. CASE ClaimCas(p, k)
  <2>1. lease[t.job] # None => [lease[t.job] EXCEPT !.owner = p, !.live = TRUE] \in Lease
    BY <1>1 DEF Lease, TypeInv, StoresOK, Task
  <2>2. lease' \in [Regs -> Lease \cup {None}]
    BY <1>1, <1>8, <2>1 DEF ClaimCas, CasMatches, TypeInv, StoresOK, Task, Lease
  <2>3. QED
    BY <1>4, <1>8, <2>2 DEF ClaimCas
<1>9. CASE MarkRunning(p, k)
  <2>1. [state |-> "running", reg |-> t.seen, result |-> None] \in Input
    BY <1>1, <1>9 DEF MarkRunning, At, TaskOK, Input
  <2>2. InputOK'
    BY <1>9, <2>1 DEF MarkRunning, TypeInv, StoresOK, InputOK
  <2>3. QED
    BY <1>5, <1>9, <2>2 DEF MarkRunning
<1>10. CASE StepSucceeds(p, k)
  <2>1. PICK s \in Steps : effects' = [effects EXCEPT ![t.reg] = @ \cup {s}]
    BY <1>10 DEF StepSucceeds
  <2>2. t.reg \in Regs
    BY <1>1, <1>10 DEF StepSucceeds, At, TaskOK, Executing
  <2>3. QED
    BY <1>3, <1>10, <2>1, <2>2 DEF StepSucceeds, TypeInv, StoresOK
<1>11. CASE StepDegrades(p, k)
  <2>1. PICK s \in Steps : effects' = effects
                           \/ effects' = [effects EXCEPT ![t.reg] = @ \cup {s}]
    BY <1>11 DEF StepDegrades
  <2>2. t.reg \in Regs
    BY <1>1, <1>11 DEF StepDegrades, At, TaskOK, Executing
  <2>3. QED
    BY <1>3, <1>11, <2>1, <2>2 DEF StepDegrades, TypeInv, StoresOK
<1>12. CASE StepFails(p, k) \/ StepRewinds(p, k)
  <2>1. \E gone : effects' = [effects EXCEPT ![t.reg] = @ \ gone]
    <3>1. PICK s \in Steps : CleansUp(t.reg, s)
      BY <1>12 DEF StepFails, StepRewinds
    <3>2. QED
      BY <3>1 DEF CleansUp
  <2>2. t.reg \in Regs
    BY <1>1, <1>12 DEF StepFails, StepRewinds, At, TaskOK, Executing
  <2>3. QED
    BY <1>3, <1>12, <2>1, <2>2 DEF StepFails, StepRewinds, TypeInv, StoresOK
<1>13. CASE RecordStep(p, k)
  <2>1. NewDone(t) \in SUBSET Steps
    BY <1>1, <1>13 DEF RecordStep, At, NewDone, TaskOK, Task
  <2>2. lease[t.job] # None => [lease[t.job] EXCEPT !.done = NewDone(t)] \in Lease
    BY <1>1, <2>1 DEF Lease, TypeInv, StoresOK, Task
  <2>3. lease' \in [Regs -> Lease \cup {None}]
    BY <1>1, <1>13, <2>2 DEF RecordStep, Owns, TypeInv, StoresOK, Task
  <2>4. QED
    BY <1>4, <1>13, <2>3 DEF RecordStep
<1>14. CASE Compensate(p, k)
  <2>1. t.reg \in Regs
    BY <1>1, <1>14 DEF Compensate, At, TaskOK, Executing
  <2>2. effects' = effects \/ \E gone : effects' = [effects EXCEPT ![t.reg] = @ \ gone]
    BY <1>14 DEF Compensate
  <2>3. QED
    BY <1>3, <1>14, <2>1, <2>2 DEF Compensate, TypeInv, StoresOK
<1>15. CASE WriteEnd(p, k)
  <2>1. [phase |-> t.out, job |-> t.job, reg |-> t.reg] \in Row
    BY <1>1, <1>15 DEF WriteEnd, At, TaskOK, Task, Row, Phases, Closing
  <2>2. \/ rows' = rows
        \/ rows' = Append(rows, [phase |-> t.out, job |-> t.job, reg |-> t.reg])
    BY <1>15 DEF WriteEnd, Log
  <2>3. rows \in Seq(Row) /\ Append(rows, [phase |-> t.out, job |-> t.job, reg |-> t.reg]) \in Seq(Row)
    BY <2>1 DEF TypeInv, StoresOK
  <2>4. QED
    BY <1>15, <2>2, <2>3 DEF WriteEnd, TypeInv, StoresOK, InputOK
<1>16. CASE KeepResult(p, k)
  <2>1. t.out \in Verdicts
    BY <1>1, <1>16 DEF KeepResult, At, TaskOK, Closing
  <2>2. [state |-> "done", result |-> t.out,
         reg |-> IF input[k] = None THEN None ELSE input[k].reg] \in Input
    BY <2>1 DEF Input, TypeInv, StoresOK, InputOK
  <2>3. InputOK'
    BY <1>16, <2>1, <2>2 DEF KeepResult, TypeInv, StoresOK, InputOK
  <2>4. QED
    BY <1>5, <1>16, <2>3 DEF KeepResult
<1>17. CASE FreeInput(p, k)
  <2>1. InputOK'
    BY <1>17 DEF FreeInput, TypeInv, StoresOK, InputOK
  <2>2. QED
    BY <1>5, <1>17, <2>1 DEF FreeInput
<1>18. CASE Release(p, k)
  BY <1>1, <1>4, <1>18 DEF Release, TypeInv, StoresOK
<1>19. QED
  BY <1>6, <1>7, <1>8, <1>9, <1>10, <1>11, <1>12, <1>13, <1>14, <1>15, <1>16,
     <1>17, <1>18 DEF Work

-----------------------------------------------------------------------------
(* Type correctness: the other actors *)

LEMMA RegisterType ==
  ASSUME TypeInv, NEW r \in Regs, Register(r)
  PROVE  TypeInv'
<1>1. KeyOf[r] \in Keys
  BY ConstantsOK
<1>2. UNCHANGED <<lease, effects, ctrl, task>>
  BY DEF Register, SaveInput, WriteStart, UndoInput, ApiCrash, stores
<1>3. InputOK'
  <2>1. [state |-> "queued", reg |-> r, result |-> None] \in Input
    BY DEF Input
  <2>2. QED
    BY <1>1, <2>1 DEF Register, SaveInput, WriteStart, UndoInput, ApiCrash,
                      stores, TypeInv, StoresOK, InputOK
<1>4. rows' \in Seq(Row)
  <2>1. [phase |-> "START", job |-> r, reg |-> r] \in Row
    BY DEF Row, Phases
  <2>2. \/ rows' = rows
        \/ rows' = Append(rows, [phase |-> "START", job |-> r, reg |-> r])
    BY DEF Register, SaveInput, WriteStart, UndoInput, ApiCrash, stores, Log
  <2>3. QED
    BY <2>1, <2>2 DEF TypeInv, StoresOK
<1>5. reg' \in [Regs -> {"new", "saved", "undo", "accepted", "refused", "error"}]
  BY DEF Register, SaveInput, WriteStart, UndoInput, ApiCrash, TypeInv, CtrlOK
<1>6. faults' \in 0..MaxFaults
  BY ConstantsOK DEF Register, SaveInput, WriteStart, UndoInput, ApiCrash,
                     NoFault, Fault, TypeInv, CtrlOK
<1>7. QED
  BY <1>2, <1>3, <1>4, <1>5, <1>6
     DEF TypeInv, StoresOK, CtrlOK, TasksOK, TaskOK, ctrl

LEMMA ProcessType ==
  ASSUME TypeInv, NEW p \in Procs, Start(p) \/ Crash(p) \/ Drain(p) \/ Exit(p)
  PROVE  TypeInv'
<1>1. StoresOK' /\ UNCHANGED reg
  BY DEF TypeInv, StoresOK, InputOK, Start, Crash, Drain, Exit, stores
<1>2. CtrlOK'
  <2>1. faults' \in 0..MaxFaults
    BY ConstantsOK DEF TypeInv, CtrlOK, Start, Crash, Drain, Exit, NoFault, Fault
  <2>2. QED
    BY <2>1 DEF TypeInv, CtrlOK, Start, Crash, Drain, Exit
<1>3. TasksOK'
  <2>1. CASE Crash(p)
    <3>1. task' = [task EXCEPT ![p] = [k \in Keys |-> None]]
      BY <2>1 DEF Crash
    <3>2. task' \in [Procs -> [Keys -> Task \cup {None}]]
      BY <3>1 DEF TypeInv, TasksOK
    <3>3. \A q \in Procs, k \in Keys : task'[q][k] \in {None, task[q][k]}
      BY <3>1 DEF TypeInv, TasksOK
    <3>4. QED
      BY <3>2, <3>3 DEF TypeInv, TasksOK, TaskOK
  <2>2. CASE Start(p) \/ Drain(p) \/ Exit(p)
    BY <2>2 DEF TypeInv, TasksOK, TaskOK, Start, Drain, Exit
  <2>3. QED
    BY <2>1, <2>2
<1>4. QED
  BY <1>1, <1>2, <1>3 DEF TypeInv

LEMMA LoopType ==
  ASSUME TypeInv, NEW p \in Procs, Loop(p)
  PROVE  TypeInv'
<1>1. CASE Poll(p)
  BY <1>1 DEF Poll, TypeInv, StoresOK, InputOK, CtrlOK, TasksOK, TaskOK,
              stores, NoFault
<1>2. CASE Dispatch(p)
  <2>1. PICK j \in snap[p] :
          /\ snap' = [snap EXCEPT ![p] = @ \ {j}]
          /\ task' = task \/ Become(p, KeyOf[j], NewTask(j))
    BY <1>2 DEF Dispatch, Become
  <2>2. j \in Regs /\ KeyOf[j] \in Keys
    BY ConstantsOK DEF TypeInv, CtrlOK
  <2>3. TasksOK'
    <3>1. CASE task' = task
      BY <3>1 DEF TypeInv, TasksOK, TaskOK
    <3>2. CASE Become(p, KeyOf[j], NewTask(j))
      BY <2>2, <3>2, TaskMoves, NewTaskOK, ConstantsOK DEF TypeInv
    <3>3. QED
      BY <2>1, <3>1, <3>2
  <2>4. StoresOK' /\ CtrlOK'
    BY <1>2, <2>1
       DEF Dispatch, TypeInv, StoresOK, InputOK, CtrlOK, stores, NoFault
  <2>5. QED
    BY <2>3, <2>4 DEF TypeInv
<1>3. CASE Renew(p)
  <2>1. \A l \in Lease : [l EXCEPT !.live = TRUE] \in Lease
    BY DEF Lease
  <2>2. lease' \in [Regs -> Lease \cup {None}]
    BY <1>3, <2>1 DEF Renew, TypeInv, StoresOK
  <2>3. QED
    BY <1>3, <2>2 DEF Renew, TypeInv, StoresOK, InputOK, CtrlOK, TasksOK,
                      TaskOK, NoFault
<1>4. QED
  BY <1>1, <1>2, <1>3 DEF Loop

LEMMA ExpireType ==
  ASSUME TypeInv, NEW j \in Regs, Expire(j)
  PROVE  TypeInv'
<1>1. lease[j] \in Lease /\ [lease[j] EXCEPT !.live = FALSE] \in Lease
  BY DEF Expire, TypeInv, StoresOK, Lease
<1>2. lease' \in [Regs -> Lease \cup {None}]
  BY <1>1 DEF Expire, TypeInv, StoresOK
<1>3. faults' \in 0..MaxFaults
  BY ConstantsOK DEF Expire, Fault, NoFault, TypeInv, CtrlOK
<1>4. QED
  BY <1>2, <1>3 DEF Expire, TypeInv, StoresOK, InputOK, CtrlOK, TasksOK,
                    TaskOK, ctrl

-----------------------------------------------------------------------------
LEMMA InitType == Init => TypeInv
<1> SUFFICES ASSUME Init PROVE TypeInv
  OBVIOUS
<1>1. StoresOK
  BY DEF Init, StoresOK, InputOK
<1>2. CtrlOK
  BY ConstantsOK DEF Init, CtrlOK
<1>3. TasksOK
  BY DEF Init, TasksOK
<1>4. QED
  BY <1>1, <1>2, <1>3 DEF TypeInv

LEMMA NextType == TypeInv /\ [Next]_vars => TypeInv'
<1> SUFFICES ASSUME TypeInv, [Next]_vars PROVE TypeInv'
  OBVIOUS
<1>1. CASE UNCHANGED vars
  BY <1>1 DEF vars, TypeInv, StoresOK, InputOK, CtrlOK, TasksOK, TaskOK
<1>2. CASE \E p \in Procs, k \in Keys : Work(p, k)
  BY <1>2, WorkCtrl, WorkTasks, WorkStores DEF TypeInv
<1>3. QED
  BY <1>1, <1>2, RegisterType, ProcessType, LoopType, ExpireType DEF Next

LEMMA TypeInvariant == Spec => []TypeInv
BY InitType, NextType, PTL DEF Spec

\* Whatever is lost, crashes or overlaps, every store, thread and list of the
\* engine keeps its shape: each record the code reads has the fields it uses.
THEOREM TypeCorrect == Spec => []TypeOK
<1>1. TypeInv => TypeOK
  BY DEF TypeInv, TypeOK, StoresOK, InputOK, CtrlOK, TasksOK
<1>2. QED
  BY <1>1, TypeInvariant, PTL

-----------------------------------------------------------------------------
(* Fencing *)

Holding == {"load", "lookup", "mark", "markset", "run", "record", "rewound"}

LEMMA FenceDef ==
  ProgressIsOwners <=>
    \A p \in Procs, k \in Keys :
      task[p][k] # None /\ task[p][k].pc \in Holding /\ Owns(p, task[p][k].job)
        => lease[task[p][k].job].done = task[p][k].done
BY DEF ProgressIsOwners, Holding

LEMMA FenceNow ==
  ASSUME ProgressIsOwners, NEW p \in Procs, NEW k \in Keys, task[p][k] # None,
         task[p][k].pc \in Holding, Owns(p, task[p][k].job)
  PROVE  lease[task[p][k].job].done = task[p][k].done
BY FenceDef

LEMMA FenceThen ==
  ASSUME ASSUME NEW p \in Procs, NEW k \in Keys, task'[p][k] # None,
                task'[p][k].pc \in Holding, lease'[task'[p][k].job] # None,
                lease'[task'[p][k].job].owner = p
         PROVE  lease'[task'[p][k].job].done = task'[p][k].done
  PROVE  ProgressIsOwners'
BY DEF ProgressIsOwners, Holding, Owns

\* Of all threads, only (p, k) moves.
Moves(p, k) ==
  \A q \in Procs, l \in Keys : q # p \/ l # k => task'[q][l] = task[q][l]

LEMMA Moved ==
  ASSUME TypeInv, NEW p \in Procs, NEW k \in Keys, NEW u, Become(p, k, u)
  PROVE  Moves(p, k) /\ task'[p][k] = u
BY DEF TypeInv, TasksOK, Become, Moves

\* A thread moves and touches no lease but its job's, which it then owns or
\* drops: the threads of other processes lose it, those of this one have
\* other keys, hence other jobs.
LEMMA FenceMove ==
  ASSUME TypeInv, ProgressIsOwners,
         NEW p \in Procs, NEW k \in Keys, task[p][k] # None, Moves(p, k),
         \A j \in Regs : \/ lease'[j] = lease[j]
                         \/ j = task[p][k].job /\ lease'[j] = None
                         \/ j = task[p][k].job /\ lease'[j].owner = p,
         \/ task'[p][k] = None
         \/ task'[p][k].pc \notin Holding
         \/ /\ task'[p][k].job = task[p][k].job
            /\ lease'[task'[p][k].job] # None /\ lease'[task'[p][k].job].owner = p
               => lease'[task'[p][k].job].done = task'[p][k].done
  PROVE  ProgressIsOwners'
<1>1. ASSUME NEW q \in Procs, NEW l \in Keys, task'[q][l] # None,
             task'[q][l].pc \in Holding, lease'[task'[q][l].job] # None,
             lease'[task'[q][l].job].owner = q
      PROVE  lease'[task'[q][l].job].done = task'[q][l].done
  <2>1. CASE q = p /\ l = k
    BY <1>1, <2>1
  <2>2. CASE ~(q = p /\ l = k)
    <3>1. task'[q][l] = task[q][l]
      BY <2>2 DEF Moves
    <3>2. task[q][l].job \in Regs /\ KeyOf[task[q][l].job] = l
          /\ KeyOf[task[p][k].job] = k
      BY <1>1, <3>1, Current DEF TypeInv, TaskOK, Task
    <3>3. lease'[task[q][l].job] = lease[task[q][l].job]
      BY <1>1, <2>2, <3>1, <3>2
    <3>4. Owns(q, task[q][l].job)
      BY <1>1, <3>1, <3>3 DEF Owns
    <3>5. lease[task[q][l].job].done = task[q][l].done
      BY <1>1, <3>1, <3>4, FenceNow
    <3>6. QED
      BY <3>1, <3>3, <3>5
  <2>3. QED
    BY <2>1, <2>2
<1>2. QED
  BY <1>1, FenceThen

\* The actions that leave the leases alone keep the progress in memory too,
\* or leave the loop in which it is used.
LEMMA FenceKeep ==
  ASSUME TypeInv, ProgressIsOwners,
         NEW p \in Procs, NEW k \in Keys, task[p][k] # None, Moves(p, k),
         lease' = lease,
         \/ task'[p][k] = None
         \/ task'[p][k].pc \notin Holding
         \/ /\ task[p][k].pc \in Holding
            /\ task'[p][k].job = task[p][k].job
            /\ task'[p][k].done = task[p][k].done
  PROVE  ProgressIsOwners'
BY FenceMove, FenceNow DEF Owns

LEMMA FenceWork ==
  ASSUME TypeInv, ProgressIsOwners,
         NEW p \in Procs, NEW k \in Keys, Work(p, k)
  PROVE  ProgressIsOwners'
<1> DEFINE t == task[p][k]
           u == task'[p][k]
<1>1. t # None /\ t \in Task /\ TaskOK(k, t)
  BY Current DEF TypeInv, Work, ClaimRead, ClaimInsert, ClaimCas, LoadInput,
     LookupEnd, MarkRead, MarkRunning, StepSucceeds, StepFails, StepDegrades,
     StepRewinds, RecordStep, StepsDone, Compensate, WriteEnd, KeepResult,
     FreeInput, Release, At
<1>2. t.job \in Regs /\ lease[t.job] \in Lease \cup {None}
  BY <1>1 DEF TypeInv, StoresOK, Task
<1>3. CASE ClaimRead(p, k)
  <2>1. /\ Moves(p, k)
        /\ \/ u = None
           \/ u = [t EXCEPT !.pc = "insert"]
           \/ u = [t EXCEPT !.pc = "cas", !.seen = lease[t.job].owner]
    BY <1>3, Moved DEF ClaimRead, Goto, Return
  <2>2. u = None \/ u.pc \notin Holding
    BY <1>1, <2>1 DEF Task, Holding
  <2>3. QED
    BY <1>1, <1>3, <2>1, <2>2, FenceKeep DEF ClaimRead, stores
<1>4. CASE ClaimInsert(p, k)
  <2>1. CASE lease[t.job] # None
    <3>1. Moves(p, k) /\ u = None /\ lease' = lease
      BY <1>4, <2>1, Moved DEF ClaimInsert, Return
    <3>2. QED
      BY <1>1, <3>1, FenceKeep
  <2>2. CASE lease[t.job] = None
    <3>1. lease' = [lease EXCEPT ![t.job] =
                      [owner |-> p, live |-> TRUE, done |-> {}]]
      BY <1>4, <2>2 DEF ClaimInsert
    <3>2. Moves(p, k) /\ u = [t EXCEPT !.pc = "load"]
      BY <1>4, <2>2, Moved DEF ClaimInsert, Goto
    <3>3. t.done = {}
      BY <1>1, <1>4 DEF ClaimInsert, At, TaskOK, Claiming
    <3>4. lease'[t.job].owner = p /\ lease'[t.job].done = {}
      BY <1>2, <3>1 DEF TypeInv, StoresOK
    <3>5. \A j \in Regs : j # t.job => lease'[j] = lease[j]
      BY <3>1 DEF TypeInv, StoresOK
    <3>6. u.job = t.job /\ u.done = {}
      BY <1>1, <3>2, <3>3 DEF Task
    <3>7. QED
      BY ZenonT(60), <1>1, <3>2, <3>4, <3>5, <3>6, FenceMove
  <2>3. QED
    BY <2>1, <2>2
<1>5. CASE ClaimCas(p, k)
  <2>1. CASE ~CasMatches(p, t.job, t.seen)
    <3>1. Moves(p, k) /\ u = None /\ lease' = lease
      BY <1>5, <2>1, Moved DEF ClaimCas, Return
    <3>2. QED
      BY <1>1, <3>1, FenceKeep
  <2>2. CASE CasMatches(p, t.job, t.seen)
    <3>1. lease' = [lease EXCEPT ![t.job].owner = p, ![t.job].live = TRUE]
      BY <1>5, <2>2 DEF ClaimCas
    <3>2. /\ Moves(p, k)
          /\ u = [t EXCEPT !.pc = "load", !.seen = None, !.done = lease[t.job].done]
      <4>1. Become(p, k, [t EXCEPT !.pc = "load", !.seen = None, !.done = lease[t.job].done])
        BY <1>5, <2>2 DEF ClaimCas
      <4>2. QED
        BY <4>1, Moved
    <3>3. lease[t.job] \in Lease
      BY <1>2, <2>2 DEF CasMatches
    <3>4. lease'[t.job].owner = p /\ lease'[t.job].done = lease[t.job].done
      BY <1>2, <3>1, <3>3 DEF TypeInv, StoresOK, Lease
    <3>5. \A j \in Regs : j # t.job => lease'[j] = lease[j]
      BY <3>1 DEF TypeInv, StoresOK
    <3>6. u.job = t.job /\ u.done = lease[t.job].done
      BY <1>1, <3>2 DEF Task
    <3>7. QED
      BY ZenonT(60), <1>1, <3>2, <3>4, <3>5, <3>6, FenceMove
  <2>3. QED
    BY <2>1, <2>2
<1>6. CASE \/ LoadInput(p, k) \/ LookupEnd(p, k) \/ MarkRead(p, k)
           \/ MarkRunning(p, k) \/ StepsDone(p, k)
  <2>1. t.pc \in Holding /\ lease' = lease
    BY <1>6 DEF LoadInput, LookupEnd, MarkRead, MarkRunning, StepsDone, At,
                Holding, stores
  <2>2. Moves(p, k)
    BY <1>6, Moved DEF LoadInput, LookupEnd, MarkRead, MarkRunning, StepsDone,
                       Goto, Return
  <2>3. u = None \/ (u.job = t.job /\ u.done = t.done)
    <3>1. CASE LoadInput(p, k)
      <4>1. \/ u = None
            \/ u = [t EXCEPT !.pc = "lookup"]
            \/ u = [t EXCEPT !.pc = "end", !.reg = input[k].reg,
                             !.out = input[k].result]
            \/ u = [t EXCEPT !.pc = "mark", !.reg = input[k].reg]
        BY <3>1, Moved DEF LoadInput, Goto, Return
      <4>2. QED
        BY <1>1, <4>1 DEF Task
    <3>2. CASE LookupEnd(p, k) \/ StepsDone(p, k)
      <4>1. \/ u = [t EXCEPT !.pc = "release"]
            \/ u = [t EXCEPT !.pc = "end", !.out = "MISSING"]
            \/ u = [t EXCEPT !.pc = "end", !.out = "SUCCESS"]
        BY <3>2, Moved DEF LookupEnd, StepsDone, Goto
      <4>2. QED
        BY <1>1, <4>1 DEF Task
    <3>3. CASE MarkRead(p, k) \/ MarkRunning(p, k)
      <4>1. \/ u = [t EXCEPT !.pc = "run"]
            \/ u = [t EXCEPT !.pc = "markset", !.seen = input[k].reg]
            \/ u = [t EXCEPT !.pc = "run", !.seen = None]
        BY <3>3, Moved DEF MarkRead, MarkRunning, Goto
      <4>2. QED
        BY <1>1, <4>1 DEF Task
    <3>4. QED
      BY <1>6, <3>1, <3>2, <3>3
  <2>4. QED
    BY <1>1, <2>1, <2>2, <2>3, FenceKeep
<1>7. CASE \/ StepSucceeds(p, k) \/ StepFails(p, k) \/ StepDegrades(p, k)
           \/ StepRewinds(p, k)
  <2>1. t.pc \in Holding /\ lease' = lease
    BY <1>7 DEF StepSucceeds, StepFails, StepDegrades, StepRewinds, At, Holding
  <2>2. Moves(p, k)
    BY <1>7, Moved DEF StepSucceeds, StepFails, StepDegrades, StepRewinds
  <2>3. u.job = t.job /\ u.done = t.done
    <3>1. CASE StepSucceeds(p, k)
      <4>1. PICK s \in Steps : Become(p, k, IF Volatile(s)
               THEN [t EXCEPT !.at = s + 1, !.mem = @ \cup {s}]
               ELSE [t EXCEPT !.pc = "record", !.at = s, !.mem = @ \cup {s}])
        BY <3>1 DEF StepSucceeds
      <4>2. \/ u = [t EXCEPT !.at = s + 1, !.mem = @ \cup {s}]
            \/ u = [t EXCEPT !.pc = "record", !.at = s, !.mem = @ \cup {s}]
        BY <4>1, Moved
      <4>3. QED
        BY <1>1, <4>2 DEF Task
    <3>2. CASE StepFails(p, k) \/ StepDegrades(p, k)
      <4>1. \/ u = [t EXCEPT !.pc = "compensate", !.out = "FAIL"]
            \/ u = [t EXCEPT !.pc = "end", !.out = "DEGRADED"]
        BY <3>2, Moved DEF StepFails, StepDegrades
      <4>2. QED
        BY <1>1, <4>1 DEF Task
    <3>3. CASE StepRewinds(p, k)
      <4>1. PICK s \in Steps : Become(p, k,
               IF t.rewinds < MaxRewinds
               THEN [t EXCEPT !.pc = "rewound", !.at = RewindTo[s],
                              !.rewinds = @ + 1]
               ELSE [t EXCEPT !.pc = "end", !.out = "DEGRADED"])
        BY <3>3 DEF StepRewinds
      <4>2. \/ u = [t EXCEPT !.pc = "rewound", !.at = RewindTo[s],
                             !.rewinds = @ + 1]
            \/ u = [t EXCEPT !.pc = "end", !.out = "DEGRADED"]
        BY <4>1, Moved
      <4>3. QED
        BY <1>1, <4>2 DEF Task
    <3>4. QED
      BY <1>7, <3>1, <3>2, <3>3
  <2>4. QED
    BY <1>1, <2>1, <2>2, <2>3, FenceKeep
<1>8. CASE RecordStep(p, k)
  <2>1. CASE /\ Owns(p, t.job)
             /\ lease' = [lease EXCEPT ![t.job].done = NewDone(t)]
             /\ Become(p, k, Recorded(t))
    <3>1. lease[t.job] \in Lease
      BY <1>2, <2>1 DEF Owns
    <3>2. lease'[t.job].owner = p /\ lease'[t.job].done = NewDone(t)
      BY <1>2, <2>1, <3>1 DEF Owns, TypeInv, StoresOK, Lease
    <3>3. \A j \in Regs : j # t.job => lease'[j] = lease[j]
      BY <2>1 DEF TypeInv, StoresOK
    <3>4. Moves(p, k) /\ u = Recorded(t)
      BY <2>1, Moved
    <3>5. u.job = t.job /\ u.done = NewDone(t)
      BY <1>1, <3>4 DEF Task, Recorded
    <3>6. QED
      BY <1>1, <3>2, <3>3, <3>4, <3>5, FenceMove
  <2>2. CASE Return(p, k) /\ lease' = lease
    <3>1. Moves(p, k) /\ u = None
      BY <2>2, Moved DEF Return
    <3>2. QED
      BY <1>1, <2>2, <3>1, FenceKeep
  <2>3. CASE /\ lease' = lease
             /\ Become(p, k, [t EXCEPT !.pc = "compensate", !.out = "FAIL",
                                       !.done = NewDone(t)])
    <3>1. /\ Moves(p, k)
          /\ u = [t EXCEPT !.pc = "compensate", !.out = "FAIL", !.done = NewDone(t)]
      BY <2>3, Moved
    <3>2. u.pc = "compensate"
      BY <1>1, <3>1 DEF Task
    <3>3. QED
      BY <1>1, <2>3, <3>1, <3>2, FenceKeep DEF Holding
  <2>4. QED
    BY <1>8, <2>1, <2>2, <2>3 DEF RecordStep
<1>9. CASE \/ Compensate(p, k) \/ WriteEnd(p, k) \/ KeepResult(p, k)
           \/ FreeInput(p, k)
  <2>1. /\ Moves(p, k)
        /\ \/ u = [t EXCEPT !.pc = "end"]
           \/ u = [t EXCEPT !.pc = "end", !.out = "HELD"]
           \/ u = [t EXCEPT !.pc = "free"]
           \/ u = [t EXCEPT !.pc = "keep"]
           \/ u = [t EXCEPT !.pc = "release"]
    <3>1. \/ \E pc \in {"end", "free", "keep", "release"} : Goto(p, k, pc)
          \/ Become(p, k, [t EXCEPT !.pc = "end", !.out = "HELD"])
      BY <1>9 DEF Compensate, WriteEnd, KeepResult, FreeInput
    <3>2. QED
      BY <3>1, Moved DEF Goto
  <2>2. u.pc \in {"end", "free", "keep", "release"}
    BY <1>1, <2>1 DEF Task
  <2>3. lease' = lease
    BY <1>9 DEF Compensate, WriteEnd, KeepResult, FreeInput
  <2>4. QED
    BY <1>1, <2>1, <2>2, <2>3, FenceKeep DEF Holding
<1>10. CASE Release(p, k)
  <2>1. \A j \in Regs : lease'[j] = lease[j] \/ (j = t.job /\ lease'[j] = None)
    BY <1>2, <1>10 DEF Release, TypeInv, StoresOK
  <2>2. Moves(p, k) /\ u = None
    BY <1>10, Moved DEF Release, Return
  <2>3. QED
    BY <1>1, <2>1, <2>2, FenceMove
<1>11. QED
  BY <1>3, <1>4, <1>5, <1>6, <1>7, <1>8, <1>9, <1>10 DEF Work

\* Renewals and the passing of time leave owner and progress as they are.
LEMMA FenceLive ==
  ASSUME TypeInv, ProgressIsOwners, task' = task,
         \A j \in Regs : \/ lease'[j] = lease[j]
                         \/ /\ lease[j] # None
                            /\ lease'[j] \in {[lease[j] EXCEPT !.live = TRUE],
                                              [lease[j] EXCEPT !.live = FALSE]}
  PROVE  ProgressIsOwners'
<1> SUFFICES ASSUME NEW q \in Procs, NEW l \in Keys, task[q][l] # None,
                    task[q][l].pc \in Holding, lease'[task[q][l].job] # None,
                    lease'[task[q][l].job].owner = q
             PROVE  lease'[task[q][l].job].done = task[q][l].done
  BY FenceThen
<1> DEFINE j == task[q][l].job
<1>1. j \in Regs /\ lease[j] \in Lease \cup {None}
  BY Current DEF TypeInv, StoresOK, Task
<1>2. lease[j] # None /\ lease'[j].owner = lease[j].owner
      /\ lease'[j].done = lease[j].done
  BY <1>1 DEF Lease
<1>3. Owns(q, j)
  BY <1>2 DEF Owns
<1>4. QED
  BY <1>2, <1>3, FenceNow

LEMMA FenceNext ==
  TypeInv /\ ProgressIsOwners /\ [Next]_vars => ProgressIsOwners'
<1> SUFFICES ASSUME TypeInv, ProgressIsOwners, [Next]_vars
             PROVE  ProgressIsOwners'
  OBVIOUS
<1>1. CASE UNCHANGED <<lease, task>>
  BY <1>1, FenceLive DEF TypeInv
<1>2. CASE \E r \in Regs : Register(r)
  BY <1>1, <1>2 DEF Register, SaveInput, WriteStart, UndoInput, ApiCrash, stores
<1>3. ASSUME NEW p \in Procs, Start(p) \/ Drain(p) \/ Exit(p) \/ Poll(p)
      PROVE  ProgressIsOwners'
  BY <1>1, <1>3 DEF Start, Drain, Exit, Poll, stores
<1>4. ASSUME NEW p \in Procs, Crash(p)
      PROVE  ProgressIsOwners'
  <2>1. lease' = lease /\ task' = [task EXCEPT ![p] = [k \in Keys |-> None]]
    BY <1>4 DEF Crash, stores
  <2>2. \A q \in Procs, k \in Keys : task'[q][k] \in {None, task[q][k]}
    BY <2>1 DEF TypeInv, TasksOK
  <2>3. QED
    BY <2>1, <2>2 DEF ProgressIsOwners, Owns
<1>5. ASSUME NEW p \in Procs, Dispatch(p)
      PROVE  ProgressIsOwners'
  <2>1. PICK j \in snap[p] : task' = task \/ Become(p, KeyOf[j], NewTask(j))
    BY <1>5 DEF Dispatch, Become
  <2>2. j \in Regs /\ KeyOf[j] \in Keys /\ lease' = lease
    BY <1>5, ConstantsOK DEF Dispatch, TypeInv, CtrlOK, stores
  <2>3. \A q \in Procs, l \in Keys :
          task'[q][l] = task[q][l] \/ task'[q][l] = NewTask(j)
    BY <2>1, <2>2 DEF Become, TypeInv, TasksOK
  <2>4. NewTask(j).pc \notin Holding
    BY DEF NewTask, Holding
  <2>5. QED
    BY <2>2, <2>3, <2>4 DEF ProgressIsOwners, Owns, Holding
<1>6. ASSUME NEW p \in Procs, Renew(p)
      PROVE  ProgressIsOwners'
  <2>1. \A j \in Regs : \/ lease'[j] = lease[j]
                        \/ lease[j] # None
                           /\ lease'[j] = [lease[j] EXCEPT !.live = TRUE]
    BY <1>6 DEF Renew
  <2>2. QED
    BY <1>6, <2>1, FenceLive DEF Renew
<1>7. ASSUME NEW j \in Regs, Expire(j)
      PROVE  ProgressIsOwners'
  <2>1. \A i \in Regs : \/ lease'[i] = lease[i]
                        \/ lease[i] # None
                           /\ lease'[i] = [lease[i] EXCEPT !.live = FALSE]
    BY <1>7 DEF Expire, TypeInv, StoresOK
  <2>2. QED
    BY <1>7, <2>1, FenceLive DEF Expire
<1>8. QED
  BY <1>1, <1>2, <1>3, <1>4, <1>5, <1>6, <1>7, FenceWork DEF Next, Loop, vars

\* The progress saved under a lease is always the progress its owner works
\* from, however many controllers overlap and however late one of them wakes:
\* claim's compare-and-set and record_step's owner check are enough.
THEOREM Fencing == Spec => []ProgressIsOwners
<1>1. Init => ProgressIsOwners
  BY DEF Init, ProgressIsOwners
<1>2. QED
  BY <1>1, FenceNext, TypeInvariant, PTL DEF Spec

-----------------------------------------------------------------------------
(* What a resumed or rewound run has in memory (ContextInHand) *)

Starting == {"claim", "insert", "cas", "load", "lookup", "mark", "markset"}

\* Of the steps before its place, the loop has the result of every volatile
\* one that it would run again.
Held(t) == \A d \in Steps :
             d < t.at /\ Volatile(d) /\ ~Skipped(d, t.done) => d \in t.mem

\* A thread starts at the first step; only what is recorded is recorded; and
\* cutting `done' back to a restart never splits a step from its partner.
HandOK(t) ==
  /\ t.pc \in Starting => t.at = 1
  /\ t.pc \in {"run", "record", "rewound"} => Held(t)
  /\ t.pc = "record" => ~Volatile(t.at)
  /\ t.pc = "rewound" =>
       \A d \in Steps : DeferTo[d] # 0 /\ d < t.at => DeferTo[d] < t.at

HandInv == \A p \in Procs, k \in Keys : task[p][k] # None => HandOK(task[p][k])

\* A step that is next reads nothing that a record or a restart took away.
LEMMA ReadsHeld ==
  ASSUME NEW t \in Task, Held(t), NEW s \in Steps, IsNext(t, s),
         NEW d \in Reads[s], Volatile(d)
  PROVE  d \in t.mem
<1>1. d \in Steps
  BY ConstantsOK
<1>2. /\ d < s
      /\ \/ d \in AlwaysRerun
         \/ /\ s \notin AlwaysRerun
            /\ \/ DeferTo[d] = s /\ DeferTo[s] = 0
               \/ DeferTo[d] = DeferTo[s]
  BY TablesOK DEF Volatile
<1>3. ~Skipped(s, t.done)
  BY DEF IsNext, Upcoming
<1>4. ~Skipped(d, t.done)
  <2>1. CASE d \in AlwaysRerun
    BY <2>1 DEF Skipped
  <2>2. CASE d \notin AlwaysRerun
    <3>1. DeferTo[d] # 0
      BY <2>2 DEF Volatile
    <3>2. s # 0
      BY DEF Steps
    <3>3. DeferTo[d] \notin t.done
      BY <1>2, <1>3, <2>2, <3>1, <3>2 DEF Skipped
    <3>4. QED
      BY <3>1, <3>3 DEF Skipped
  <2>3. QED
    BY <2>1, <2>2
<1>5. d < t.at
  <2>1. d \in Nat /\ s \in Nat /\ t.at \in Nat
    BY <1>1, ConstantsOK DEF Steps, Task
  <2>2. ~(d >= t.at)
    BY <1>1, <1>2, <1>4, <2>1 DEF IsNext, Upcoming
  <2>3. QED
    BY <2>1, <2>2
<1>6. QED
  BY <1>1, <1>4, <1>5 DEF Held

\* Up to the step that is next, every volatile step is held or passed over.
LEMMA HeldUpTo ==
  ASSUME NEW t \in Task, Held(t), NEW s \in Steps, IsNext(t, s),
         NEW d \in Steps, d < s, Volatile(d), ~Skipped(d, t.done)
  PROVE  d \in t.mem
<1>1. d \in Nat /\ s \in Nat /\ t.at \in Nat
  BY ConstantsOK DEF Steps, Task
<1>2. ~(d >= t.at)
  BY <1>1 DEF IsNext, Upcoming
<1>3. QED
  BY <1>1, <1>2 DEF Held

LEMMA HandWork ==
  ASSUME TypeInv, HandInv, NEW p \in Procs, NEW k \in Keys, Work(p, k)
  PROVE  Moves(p, k) /\ (task'[p][k] = None \/ HandOK(task'[p][k]))
<1> DEFINE t == task[p][k]
           u == task'[p][k]
<1>1. t # None /\ t \in Task /\ TaskOK(k, t) /\ HandOK(t)
  BY Current DEF HandInv, TypeInv, Work, ClaimRead, ClaimInsert, ClaimCas, LoadInput,
     LookupEnd, MarkRead, MarkRunning, StepSucceeds, StepFails, StepDegrades,
     StepRewinds, RecordStep, StepsDone, Compensate, WriteEnd, KeepResult,
     FreeInput, Release, At
\* Before the loop the thread's place stays the first step.
<1>2. ASSUME t.pc \in Starting, Moves(p, k), u # None,
             u \in Task, u.at = t.at, u.pc \in Starting \cup {"run", "end", "release"}
      PROVE  HandOK(u)
  <2>1. u.at = 1
    BY <1>1, <1>2 DEF HandOK
  <2>2. Held(u)
    BY <2>1 DEF Held, Steps
  <2>3. QED
    BY <1>2, <2>1, <2>2 DEF HandOK, Starting
\* Once the thread leaves the loop nothing is claimed.
<1>3. ASSUME u.pc \in {"compensate", "end", "keep", "free", "release"}
      PROVE  HandOK(u)
  BY <1>3 DEF HandOK, Starting
<1>4. CASE \/ ClaimRead(p, k) \/ ClaimInsert(p, k) \/ ClaimCas(p, k)
           \/ LoadInput(p, k) \/ LookupEnd(p, k)
           \/ MarkRead(p, k) \/ MarkRunning(p, k)
  <2>1. t.pc \in Starting
    BY <1>4 DEF ClaimRead, ClaimInsert, ClaimCas, LoadInput, LookupEnd, MarkRead,
                MarkRunning, At, Starting
  <2>2. /\ Moves(p, k)
        /\ \/ u = None
           \/ u = [t EXCEPT !.pc = "insert"]
           \/ u = [t EXCEPT !.pc = "cas", !.seen = lease[t.job].owner]
           \/ u = [t EXCEPT !.pc = "load"]
           \/ u = [t EXCEPT !.pc = "load", !.seen = None, !.done = lease[t.job].done]
           \/ u = [t EXCEPT !.pc = "lookup"]
           \/ u = [t EXCEPT !.pc = "end", !.reg = input[k].reg, !.out = input[k].result]
           \/ u = [t EXCEPT !.pc = "mark", !.reg = input[k].reg]
           \/ u = [t EXCEPT !.pc = "release"]
           \/ u = [t EXCEPT !.pc = "end", !.out = "MISSING"]
           \/ u = [t EXCEPT !.pc = "run"]
           \/ u = [t EXCEPT !.pc = "markset", !.seen = input[k].reg]
           \/ u = [t EXCEPT !.pc = "run", !.seen = None]
    <3>1. CASE ClaimRead(p, k)
      <4>1. \/ Goto(p, k, "insert") \/ Return(p, k)
            \/ Become(p, k, [t EXCEPT !.pc = "cas", !.seen = lease[t.job].owner])
        BY <3>1 DEF ClaimRead
      <4>2. QED
        BY <4>1, Moved DEF Goto, Return
    <3>2. CASE ClaimInsert(p, k) \/ ClaimCas(p, k)
      <4>1. \/ Goto(p, k, "load") \/ Return(p, k)
            \/ Become(p, k, [t EXCEPT !.pc = "load", !.seen = None,
                                      !.done = lease[t.job].done])
        BY <3>2 DEF ClaimInsert, ClaimCas
      <4>2. QED
        BY <4>1, Moved DEF Goto, Return
    <3>3. CASE LoadInput(p, k) \/ LookupEnd(p, k)
      BY <3>3, Moved DEF LoadInput, LookupEnd, Goto, Return
    <3>4. CASE MarkRead(p, k) \/ MarkRunning(p, k)
      BY <3>4, Moved DEF MarkRead, MarkRunning, Goto
    <3>5. QED
      BY <1>4, <3>1, <3>2, <3>3, <3>4
  <2>3. TasksOK'
    BY WorkTasks
  <2>4. u = None \/ u \in Task
    BY <2>3 DEF TasksOK, TaskOK
  <2>5. u # None => u.at = t.at /\ u.pc \in Starting \cup {"run", "end", "release"}
    BY <1>1, <2>2 DEF Task, Starting
  <2>6. QED
    BY <1>2, <2>1, <2>2, <2>4, <2>5
<1>5. CASE StepSucceeds(p, k)
  <2>1. PICK s \in Steps :
          /\ CanRun(t, s)
          /\ Become(p, k, IF Volatile(s)
               THEN [t EXCEPT !.at = s + 1, !.mem = @ \cup {s}]
               ELSE [t EXCEPT !.pc = "record", !.at = s, !.mem = @ \cup {s}])
    BY <1>5 DEF StepSucceeds
  <2>2. t.pc = "run" /\ Held(t) /\ IsNext(t, s)
    BY <1>1, <1>5, <2>1 DEF StepSucceeds, At, HandOK, CanRun
  <2>3. CASE Volatile(s)
    <3>1. Moves(p, k) /\ u = [t EXCEPT !.at = s + 1, !.mem = @ \cup {s}]
      BY <2>1, <2>3, Moved
    <3>2. u.pc = "run" /\ u.at = s + 1 /\ u.mem = t.mem \cup {s} /\ u.done = t.done
      BY <1>1, <2>2, <3>1 DEF Task
    <3>3. ASSUME NEW d \in Steps, d < s + 1, Volatile(d), ~Skipped(d, t.done)
          PROVE  d \in t.mem \cup {s}
      <4>1. d = s \/ d < s
        BY <3>3, ConstantsOK DEF Steps
      <4>2. QED
        BY <1>1, <2>2, <3>3, <4>1, HeldUpTo
    <3>4. Held(u)
      BY <3>2, <3>3 DEF Held
    <3>5. QED
      BY <3>1, <3>2, <3>4 DEF HandOK, Starting
  <2>4. CASE ~Volatile(s)
    <3>1. Moves(p, k) /\ u = [t EXCEPT !.pc = "record", !.at = s, !.mem = @ \cup {s}]
      BY <2>1, <2>4, Moved
    <3>2. u.pc = "record" /\ u.at = s /\ u.mem = t.mem \cup {s} /\ u.done = t.done
      BY <1>1, <3>1 DEF Task
    <3>3. Held(u)
      BY <1>1, <2>2, <3>2, HeldUpTo DEF Held
    <3>4. QED
      BY <2>4, <3>1, <3>2, <3>3 DEF HandOK, Starting
  <2>5. QED
    BY <2>3, <2>4
<1>6. CASE StepFails(p, k) \/ StepDegrades(p, k) \/ StepsDone(p, k)
  <2>1. /\ Moves(p, k)
        /\ \/ u = [t EXCEPT !.pc = "compensate", !.out = "FAIL"]
           \/ u = [t EXCEPT !.pc = "end", !.out = "DEGRADED"]
           \/ u = [t EXCEPT !.pc = "end", !.out = "SUCCESS"]
    BY <1>6, Moved DEF StepFails, StepDegrades, StepsDone
  <2>2. u.pc \in {"compensate", "end"}
    BY <1>1, <2>1 DEF Task
  <2>3. QED
    BY <1>3, <2>1, <2>2
<1>7. CASE StepRewinds(p, k)
  <2>1. PICK s \in Steps :
          /\ CanRun(t, s) /\ RewindTo[s] # 0
          /\ Become(p, k,
               IF t.rewinds < MaxRewinds
               THEN [t EXCEPT !.pc = "rewound", !.at = RewindTo[s],
                              !.rewinds = @ + 1]
               ELSE [t EXCEPT !.pc = "end", !.out = "DEGRADED"])
    BY <1>7 DEF StepRewinds
  <2>2. Held(t) /\ IsNext(t, s)
    BY <1>1, <1>7, <2>1 DEF StepRewinds, At, HandOK, CanRun
  <2>3. CASE t.rewinds < MaxRewinds
    <3>1. /\ Moves(p, k)
          /\ u = [t EXCEPT !.pc = "rewound", !.at = RewindTo[s], !.rewinds = @ + 1]
      BY <2>1, <2>3, Moved
    <3>2. u.pc = "rewound" /\ u.at = RewindTo[s] /\ u.mem = t.mem /\ u.done = t.done
      BY <1>1, <3>1 DEF Task
    <3>3. ASSUME NEW d \in Steps, d < RewindTo[s], Volatile(d), ~Skipped(d, t.done)
          PROVE  d \in t.mem
      <4>1. d < s
        BY <3>3, ConstantsOK DEF Steps
      <4>2. QED
        BY <1>1, <2>2, <3>3, <4>1, HeldUpTo
    <3>4. Held(u)
      BY <3>2, <3>3 DEF Held
    <3>5. \A d \in Steps : DeferTo[d] # 0 /\ d < u.at => DeferTo[d] < u.at
      BY <3>2, TablesOK
    <3>6. QED
      BY <3>1, <3>2, <3>4, <3>5 DEF HandOK, Starting
  <2>4. CASE ~(t.rewinds < MaxRewinds)
    <3>1. Moves(p, k) /\ u = [t EXCEPT !.pc = "end", !.out = "DEGRADED"]
      BY <2>1, <2>4, Moved
    <3>2. u.pc = "end"
      BY <1>1, <3>1 DEF Task
    <3>3. QED
      BY <1>3, <3>1, <3>2
  <2>5. QED
    BY <2>3, <2>4
<1>8. CASE RecordStep(p, k)
  <2>1. t.pc \in {"record", "rewound"} /\ Held(t)
    BY <1>1, <1>8 DEF RecordStep, At, HandOK
  <2>2. CASE Become(p, k, Recorded(t))
    <3>1. Moves(p, k) /\ u = Recorded(t)
      BY <2>2, Moved
    <3>2. CASE t.pc = "record"
      <4>1. /\ u.pc = "run" /\ u.at = t.at + 1 /\ u.mem = t.mem
            /\ u.done = t.done \cup {t.at}
        BY <1>1, <3>1, <3>2 DEF Recorded, NewDone, Task
      <4>2. ASSUME NEW d \in Steps, d < t.at + 1, Volatile(d),
                   ~Skipped(d, t.done \cup {t.at})
            PROVE  d \in t.mem
        <5>1. ~Volatile(t.at)
          BY <1>1, <3>2 DEF HandOK
        <5>2. d < t.at
          BY <1>1, <4>2, <5>1 DEF Task, Steps
        <5>3. ~Skipped(d, t.done)
          BY <4>2 DEF Skipped
        <5>4. QED
          BY <2>1, <4>2, <5>2, <5>3 DEF Held
      <4>3. Held(u)
        BY <4>1, <4>2 DEF Held
      <4>4. QED
        BY <3>1, <4>1, <4>3 DEF HandOK, Starting
    <3>3. CASE t.pc = "rewound"
      <4>1. /\ u.pc = "run" /\ u.at = t.at /\ u.mem = t.mem
            /\ u.done = {s \in t.done : s < t.at}
        BY <1>1, <3>1, <3>3 DEF Recorded, NewDone, Task
      <4>2. ASSUME NEW d \in Steps, d < t.at, Volatile(d),
                   ~Skipped(d, {s \in t.done : s < t.at})
            PROVE  d \in t.mem
        <5>1. DeferTo[d] # 0 => DeferTo[d] < t.at
          BY <1>1, <3>3, <4>2 DEF HandOK
        <5>2. ~Skipped(d, t.done)
          BY <4>2, <5>1 DEF Skipped, Volatile
        <5>3. QED
          BY <2>1, <4>2, <5>2 DEF Held
      <4>3. Held(u)
        BY <4>1, <4>2 DEF Held
      <4>4. QED
        BY <3>1, <4>1, <4>3 DEF HandOK, Starting
    <3>4. QED
      BY <2>1, <3>2, <3>3
  <2>3. CASE Return(p, k)
    BY <2>3, Moved DEF Return
  <2>4. CASE Become(p, k, [t EXCEPT !.pc = "compensate", !.out = "FAIL",
                                    !.done = NewDone(t)])
    <3>1. /\ Moves(p, k)
          /\ u = [t EXCEPT !.pc = "compensate", !.out = "FAIL", !.done = NewDone(t)]
      BY <2>4, Moved
    <3>2. u.pc = "compensate"
      BY <1>1, <3>1 DEF Task
    <3>3. QED
      BY <1>3, <3>1, <3>2
  <2>5. QED
    BY <1>8, <2>2, <2>3, <2>4 DEF RecordStep
<1>9. CASE \/ Compensate(p, k) \/ WriteEnd(p, k) \/ KeepResult(p, k)
           \/ FreeInput(p, k) \/ Release(p, k)
  <2>1. /\ Moves(p, k)
        /\ \/ u = None
           \/ u = [t EXCEPT !.pc = "end"]
           \/ u = [t EXCEPT !.pc = "end", !.out = "HELD"]
           \/ u = [t EXCEPT !.pc = "free"]
           \/ u = [t EXCEPT !.pc = "keep"]
           \/ u = [t EXCEPT !.pc = "release"]
    <3>1. \/ \E pc \in {"end", "free", "keep", "release"} : Goto(p, k, pc)
          \/ Become(p, k, [t EXCEPT !.pc = "end", !.out = "HELD"])
          \/ Return(p, k)
      BY <1>9 DEF Compensate, WriteEnd, KeepResult, FreeInput, Release
    <3>2. QED
      BY <3>1, Moved DEF Goto, Return
  <2>2. u = None \/ u.pc \in {"end", "free", "keep", "release"}
    BY <1>1, <2>1 DEF Task
  <2>3. QED
    BY <1>3, <2>1, <2>2
<1>10. QED
  BY <1>4, <1>5, <1>6, <1>7, <1>8, <1>9 DEF Work

LEMMA HandNext ==
  TypeInv /\ HandInv /\ [Next]_vars => HandInv'
<1> SUFFICES ASSUME TypeInv, HandInv, [Next]_vars
             PROVE  HandInv'
  OBVIOUS
<1>1. CASE UNCHANGED task
  BY <1>1 DEF HandInv
<1>2. CASE \/ \E r \in Regs : Register(r)
           \/ \E p \in Procs : Start(p) \/ Drain(p) \/ Exit(p) \/ Poll(p) \/ Renew(p)
           \/ \E j \in Regs : Expire(j)
  BY <1>1, <1>2 DEF Register, SaveInput, WriteStart, UndoInput, ApiCrash, Start,
                    Drain, Exit, Poll, Renew, Expire
<1>3. ASSUME NEW p \in Procs, Crash(p)
      PROVE  HandInv'
  <2>1. \A q \in Procs, k \in Keys : task'[q][k] \in {None, task[q][k]}
    BY <1>3 DEF Crash, TypeInv, TasksOK
  <2>2. QED
    BY <2>1 DEF HandInv
<1>4. ASSUME NEW p \in Procs, Dispatch(p)
      PROVE  HandInv'
  <2>1. PICK j \in snap[p] : task' = task \/ Become(p, KeyOf[j], NewTask(j))
    BY <1>4 DEF Dispatch, Become
  <2>2. \A q \in Procs, l \in Keys :
          task'[q][l] = task[q][l] \/ task'[q][l] = NewTask(j)
    BY <2>1 DEF Become, TypeInv, TasksOK
  <2>3. HandOK(NewTask(j))
    BY DEF HandOK, NewTask
  <2>4. QED
    BY <2>2, <2>3 DEF HandInv
<1>5. ASSUME NEW p \in Procs, NEW k \in Keys, Work(p, k)
      PROVE  HandInv'
  BY <1>5, HandWork DEF HandInv, Moves
<1>6. QED
  BY <1>1, <1>2, <1>3, <1>4, <1>5 DEF Next, Loop, vars

\* However often a run is interrupted, resumed by another process or rewound, a
\* step it reaches finds in memory what it reads of the steps whose completion
\* is not recorded (ALWAYS_RERUN, DEFER_DONE): the tables of jobs.py need no
\* more than TablesOK for that.
THEOREM ContextKept == Spec => []ContextInHand
<1>1. Init => HandInv
  BY DEF Init, HandInv
<1>2. TypeInv /\ HandInv => ContextInHand
  <2>1. SUFFICES ASSUME TypeInv, HandInv,
                        NEW p \in Procs, NEW k \in Keys, At(p, k, "run"),
                        NEW s \in Steps, IsNext(task[p][k], s),
                        NEW d \in Reads[s], Volatile(d)
                 PROVE  d \in task[p][k].mem
    BY DEF ContextInHand
  <2>2. task[p][k] \in Task /\ Held(task[p][k])
    BY <2>1, Current DEF HandInv, HandOK, At, TypeInv
  <2>3. QED
    BY <2>1, <2>2, ReadsHeld
<1>3. QED
  BY <1>1, <1>2, HandNext, TypeInvariant, PTL DEF Spec

-----------------------------------------------------------------------------
(* Verdicts: the hypothesis *)

\* One controller at a time (Recreate), clients that wait for a poll result to
\* be used up, and none of the errors by which a job without an answer passes
\* for one that has it, or the reverse (README 3.3).
Sheltered ==
  /\ ~Overlap /\ SlowClients
  /\ "start_lost" \notin FaultKinds /\ "lookup_fails" \notin FaultKinds
  /\ "delete_fails" \notin FaultKinds /\ "keep_fails" \notin FaultKinds

-----------------------------------------------------------------------------
(* The invariant *)

\* At most one controller lives, and one that does not holds nothing.
OneController ==
  /\ \A p, q \in Procs : Alive(p) /\ Alive(q) => p = q
  /\ \A p \in Procs : loop[p] = "poll" => snap[p] = {}
  /\ \A p \in Procs : ~Alive(p) =>
       loop[p] = "poll" /\ \A k \in Keys : task[p][k] = None

Mine(k)    == {i \in DOMAIN rows : KeyOf[rows[i].job] = k}
Last(k, i) == i \in Mine(k) /\ \A e \in Mine(k) : e <= i

\* The journal of a request, unless it is empty, has a last row.
JournalOK == \A k \in Keys : Mine(k) = {} \/ \E i \in Mine(k) : Last(k, i)

Picked == {"claim", "insert", "cas", "load"}

\* The input of k is registration j's; it keeps a result.
HeldBy(k, j) == input[k] # None /\ input[k].reg = j
KeptDone(k)  == input[k] # None /\ input[k].state = "done"

\* What a worker thread finds of its job in the stores: until it has loaded the
\* input, the job is open or gone; while it executes, the job is open and the
\* input its own; when it closes the job, an answer already there is its own.
TaskFits(k, t) ==
  /\ reg[t.job] = "accepted"
  /\ t.pc \in Picked =>
       /\ input[k] = None \/ HeldBy(k, t.job)
       /\ Unfinished(t.job) \/ input[k] = None \/ KeptDone(k)
  /\ t.pc \in Executing =>
       Unfinished(t.job) /\ HeldBy(k, t.job) /\ ~KeptDone(k) /\ t.reg = t.job
  /\ t.pc = "markset" => t.seen = t.job
  /\ t.pc = "lookup" => ~Unfinished(t.job)
  /\ t.pc = "end" =>
       /\ HeldBy(k, t.job) /\ t.reg = t.job
       /\ \/ Unfinished(t.job) /\ ~KeptDone(k)
          \/ KeptDone(k) /\ input[k].result = t.out
  /\ t.pc = "keep" => HeldBy(k, t.job) /\ (Unfinished(t.job) \/ LastRow(k) = t.out)
  /\ t.pc = "free" => HeldBy(k, t.job) /\ ~Unfinished(t.job)
  /\ t.pc = "release" => ~Unfinished(t.job) \/ (HeldBy(k, t.job) /\ KeptDone(k))

\* A registration in the making, or with an open job, holds the input.
RegOK(k, r) ==
  /\ reg[r] = "accepted" <=> StartOf(r) # {}
  /\ reg[r] \in {"saved", "undo"} => HeldBy(k, r)
  /\ Unfinished(r) => HeldBy(k, r)

InputFits(k) ==
  /\ input[k] # None =>
       /\ input[k].reg \in Regs /\ KeyOf[input[k].reg] = k
       /\ reg[input[k].reg] # "accepted" => input[k].state = "queued"
  /\ KeptDone(k) => Unfinished(input[k].reg) \/ LastRow(k) = input[k].result

\* A job of the last poll that is not dispatched yet is open, or just closed
\* without an input to run it from.
SnapFits(k, p, j) ==
  /\ reg[j] = "accepted"
  /\ input[k] = None \/ HeldBy(k, j)
  /\ \/ Unfinished(j) \/ input[k] = None \/ KeptDone(k)
     \/ task[p][k] # None /\ task[p][k].pc \in {"keep", "free"}

\* All that concerns one request; an action on another leaves it alone.
RequestOK(k) ==
  /\ \A r \in Regs : KeyOf[r] = k => RegOK(k, r)
  /\ InputFits(k)
  /\ \A p \in Procs : \A j \in snap[p] : KeyOf[j] = k => SnapFits(k, p, j)
  /\ \A p \in Procs : task[p][k] # None => TaskFits(k, task[p][k])

Protocol == OneController /\ JournalOK /\ \A k \in Keys : RequestOK(k)

-----------------------------------------------------------------------------
(* The journal, a row longer *)

LEMMA Appended ==
  ASSUME rows \in Seq(Row), NEW ph, NEW j, NEW r, Log(ph, j, r)
  PROVE  /\ Len(rows) \in Nat
         /\ DOMAIN rows = 1..Len(rows) /\ DOMAIN rows' = 1..(Len(rows) + 1)
         /\ \A i \in DOMAIN rows : rows'[i] = rows[i]
         /\ rows'[Len(rows) + 1] = [phase |-> ph, job |-> j, reg |-> r]
BY DEF Log

\* What the last row of a request says
LEMMA LastSays ==
  ASSUME rows \in Seq(Row), NEW k, NEW i, Last(k, i)
  PROVE  LastRow(k) = IF rows[i].phase = "START" THEN "accepted" ELSE rows[i].phase
<1> DEFINE mine == {e \in DOMAIN rows : KeyOf[rows[e].job] = k}
           top == CHOOSE m \in mine : \A e \in mine : e <= m
<1>1. i \in mine /\ \A e \in mine : e <= i
  BY DEF Last, Mine
<1>2. top \in mine /\ \A e \in mine : e <= top
  BY <1>1
<1>3. top = i
  BY <1>1, <1>2
<1>4. QED
  BY <1>1, <1>3 DEF LastRow

LEMMA LastNone ==
  ASSUME NEW k, Mine(k) = {}
  PROVE  LastRow(k) = "none"
BY DEF LastRow, Mine

\* A request is accepted just when a job of it has no end row.
LEMMA OpenMeans ==
  ASSUME TypeInv, JournalOK, NEW k \in Keys
  PROVE  LastRow(k) = "accepted" <=> \E j \in Regs : KeyOf[j] = k /\ Unfinished(j)
<1>1. rows \in Seq(Row) /\ \A i \in DOMAIN rows : rows[i] \in Row
  BY DEF TypeInv, StoresOK
<1>2. CASE Mine(k) = {}
  BY <1>2, LastNone DEF Unfinished, StartOf, Mine
<1>3. ASSUME NEW i \in Mine(k), Last(k, i)
      PROVE  LastRow(k) = "accepted" <=> \E j \in Regs : KeyOf[j] = k /\ Unfinished(j)
  <2>1. i \in DOMAIN rows /\ rows[i] \in Row /\ KeyOf[rows[i].job] = k
    BY <1>1, <1>3 DEF Mine
  <2>2. LastRow(k) = IF rows[i].phase = "START" THEN "accepted" ELSE rows[i].phase
    BY <1>1, <1>3, LastSays
  <2>3. CASE rows[i].phase = "START"
    <3>1. i \in StartOf(rows[i].job)
      BY <2>1, <2>3 DEF StartOf
    <3>2. ASSUME NEW e \in DOMAIN rows, e > i, KeyOf[rows[e].job] = k
          PROVE  FALSE
      <4>1. e <= i
        BY <1>3, <3>2 DEF Last, Mine
      <4>2. i \in Nat /\ e \in Nat
        BY <1>1, <2>1
      <4>3. QED
        BY <3>2, <4>1, <4>2
    <3>3. Unfinished(rows[i].job)
      BY <2>1, <3>1, <3>2 DEF Unfinished
    <3>4. QED
      BY <2>1, <2>2, <2>3, <3>3 DEF Row
  <2>4. CASE rows[i].phase # "START"
    <3>1. LastRow(k) # "accepted"
      BY <2>1, <2>2, <2>4 DEF Row, Phases, Verdicts
    <3>2. ASSUME NEW j \in Regs, KeyOf[j] = k, Unfinished(j)
          PROVE  FALSE
      <4>1. PICK s \in StartOf(j) : \A e \in DOMAIN rows :
                e > s /\ KeyOf[rows[e].job] = k => rows[e].phase = "START"
        BY <3>2 DEF Unfinished
      <4>2. s \in DOMAIN rows /\ rows[s].phase = "START" /\ s \in Mine(k)
        BY <3>2, <4>1 DEF StartOf, Mine
      <4>3. s <= i /\ s # i
        BY <1>3, <2>4, <4>2 DEF Last
      <4>4. s \in Nat /\ i \in Nat
        BY <1>1, <2>1, <4>2
      <4>5. QED
        BY <2>1, <2>4, <4>1, <4>3, <4>4
    <3>3. QED
      BY <3>1, <3>2
  <2>5. QED
    BY <2>3, <2>4
<1>4. QED
  BY <1>2, <1>3 DEF JournalOK

\* Which rows are a request's, once a row is added
LEMMA MineGrows ==
  ASSUME rows \in Seq(Row), NEW ph, NEW j, NEW r, Log(ph, j, r), NEW k
  PROVE  Mine(k)' = IF KeyOf[j] = k THEN Mine(k) \cup {Len(rows) + 1} ELSE Mine(k)
<1>1. /\ Len(rows) \in Nat
      /\ DOMAIN rows = 1..Len(rows) /\ DOMAIN rows' = 1..(Len(rows) + 1)
      /\ \A i \in DOMAIN rows : rows'[i] = rows[i]
      /\ rows'[Len(rows) + 1] = [phase |-> ph, job |-> j, reg |-> r]
  BY Appended
<1>2. QED
  BY <1>1 DEF Mine

\* (i is in Mine(k)' and above the rest of it)
LastThen(k, i) == i \in Mine(k)' /\ \A e \in Mine(k)' : e <= i

LEMMA LastMoves ==
  ASSUME rows \in Seq(Row), NEW ph, NEW j, NEW r, Log(ph, j, r), NEW k
  PROVE  /\ KeyOf[j] = k => LastThen(k, Len(rows) + 1)
         /\ KeyOf[j] # k => Mine(k)' = Mine(k)
<1>1. /\ Len(rows) \in Nat
      /\ DOMAIN rows = 1..Len(rows) /\ DOMAIN rows' = 1..(Len(rows) + 1)
      /\ \A i \in DOMAIN rows : rows'[i] = rows[i]
      /\ rows'[Len(rows) + 1] = [phase |-> ph, job |-> j, reg |-> r]
  BY Appended
<1>2. Mine(k)' = IF KeyOf[j] = k THEN Mine(k) \cup {Len(rows) + 1} ELSE Mine(k)
  BY MineGrows
<1>3. Mine(k) \subseteq 1..Len(rows)
  BY <1>1 DEF Mine
<1>4. QED
  BY <1>1, <1>2, <1>3 DEF LastThen

LEMMA JournalThen ==
  ASSUME \A k \in Keys : Mine(k)' = {} \/ \E i \in Mine(k)' : LastThen(k, i)
  PROVE  JournalOK'
BY DEF JournalOK, Last, LastThen

LEMMA JournalGrows ==
  ASSUME rows \in Seq(Row), JournalOK, NEW ph, NEW j, NEW r, Log(ph, j, r)
  PROVE  JournalOK'
<1>1. ASSUME NEW k \in Keys
      PROVE  Mine(k)' = {} \/ \E i \in Mine(k)' : LastThen(k, i)
  BY <1>1, LastMoves DEF JournalOK, Last, LastThen
<1>2. QED
  BY <1>1, JournalThen

LEMMA LastSaysThen ==
  ASSUME NEW n \in Nat, DOMAIN rows' = 1..n, NEW k, NEW i, LastThen(k, i)
  PROVE  LastRow(k)' = IF rows'[i].phase = "START" THEN "accepted" ELSE rows'[i].phase
<1> DEFINE mine == {e \in DOMAIN rows' : KeyOf[rows'[e].job] = k}
           top == CHOOSE m \in mine : \A e \in mine : e <= m
<1>1. i \in mine /\ \A e \in mine : e <= i
  BY DEF LastThen, Mine
<1>2. top \in mine /\ \A e \in mine : e <= top
  BY <1>1
<1>3. top = i
  BY <1>1, <1>2
<1>4. QED
  BY <1>1, <1>3 DEF LastRow

LEMMA LastNoneThen ==
  ASSUME NEW k, Mine(k)' = {}
  PROVE  LastRow(k)' = "none"
BY DEF LastRow, Mine

\* What the last row says once a row is added
LEMMA LastAfter ==
  ASSUME rows \in Seq(Row), JournalOK, NEW ph, NEW j, NEW r, Log(ph, j, r),
         NEW k \in Keys
  PROVE  LastRow(k)' = IF KeyOf[j] # k THEN LastRow(k)
                       ELSE IF ph = "START" THEN "accepted" ELSE ph
<1>1. /\ Len(rows) \in Nat
      /\ DOMAIN rows = 1..Len(rows) /\ DOMAIN rows' = 1..(Len(rows) + 1)
      /\ \A i \in DOMAIN rows : rows'[i] = rows[i]
      /\ rows'[Len(rows) + 1] = [phase |-> ph, job |-> j, reg |-> r]
  BY Appended
<1>2. Len(rows) + 1 \in Nat
  BY <1>1
<1>3. CASE KeyOf[j] = k
  <2>1. LastThen(k, Len(rows) + 1)
    BY <1>3, LastMoves
  <2>2. LastRow(k)' = IF rows'[Len(rows) + 1].phase = "START" THEN "accepted"
                      ELSE rows'[Len(rows) + 1].phase
    BY <1>1, <1>2, <2>1, LastSaysThen
  <2>3. QED
    BY <1>1, <1>3, <2>2
<1>4. CASE KeyOf[j] # k /\ Mine(k) = {}
  BY <1>4, MineGrows, LastNone, LastNoneThen
<1>5. ASSUME KeyOf[j] # k, NEW i \in Mine(k), Last(k, i)
      PROVE  LastRow(k)' = LastRow(k)
  <2>1. LastThen(k, i)
    BY <1>5, LastMoves DEF Last, LastThen
  <2>2. rows'[i] = rows[i]
    BY <1>1, <1>5 DEF Mine
  <2>3. LastRow(k) = IF rows[i].phase = "START" THEN "accepted" ELSE rows[i].phase
    BY <1>5, LastSays
  <2>4. LastRow(k)' = IF rows'[i].phase = "START" THEN "accepted" ELSE rows'[i].phase
    BY <1>1, <1>2, <2>1, LastSaysThen
  <2>5. QED
    BY <2>2, <2>3, <2>4
<1>6. QED
  BY <1>3, <1>4, <1>5 DEF JournalOK

\* A START row opens its job and no other; an end row closes those of its
\* request; neither touches another request.
LEMMA StartsAfter ==
  ASSUME rows \in Seq(Row), NEW ph, NEW j, NEW r, Log(ph, j, r), NEW q
  PROVE  StartOf(q)' = IF ph = "START" /\ q = j THEN StartOf(q) \cup {Len(rows) + 1}
                       ELSE StartOf(q)
<1>1. /\ Len(rows) \in Nat
      /\ DOMAIN rows = 1..Len(rows) /\ DOMAIN rows' = 1..(Len(rows) + 1)
      /\ \A i \in DOMAIN rows : rows'[i] = rows[i]
      /\ rows'[Len(rows) + 1] = [phase |-> ph, job |-> j, reg |-> r]
  BY Appended
<1>2. QED
  BY <1>1 DEF StartOf

LEMMA OpensStart ==
  ASSUME rows \in Seq(Row), NEW j \in Regs, NEW r, Log("START", j, r)
  PROVE  /\ StartOf(j)' # {} /\ Unfinished(j)'
         /\ \A q \in Regs : q # j =>
              StartOf(q)' = StartOf(q) /\ (Unfinished(q)' <=> Unfinished(q))
<1>1. /\ Len(rows) \in Nat
      /\ DOMAIN rows = 1..Len(rows) /\ DOMAIN rows' = 1..(Len(rows) + 1)
      /\ \A i \in DOMAIN rows : rows'[i] = rows[i]
      /\ rows'[Len(rows) + 1] = [phase |-> "START", job |-> j, reg |-> r]
  BY Appended
<1>2. StartOf(j)' = StartOf(j) \cup {Len(rows) + 1}
  BY StartsAfter
<1>3. Unfinished(j)'
  <2>1. \A e \in DOMAIN rows' : ~(e > Len(rows) + 1)
    BY <1>1
  <2>2. \A e \in DOMAIN rows' :
          e > Len(rows) + 1 /\ KeyOf[rows'[e].job] = KeyOf[j] => rows'[e].phase = "START"
    BY <2>1
  <2>3. Len(rows) + 1 \in StartOf(j)'
    BY <1>2
  <2>4. QED
    BY <2>2, <2>3 DEF Unfinished
<1>4. ASSUME NEW q \in Regs, q # j
      PROVE  StartOf(q)' = StartOf(q) /\ (Unfinished(q)' <=> Unfinished(q))
  <2>1. StartOf(q)' = StartOf(q)
    BY <1>4, StartsAfter
  <2>2. StartOf(q) \subseteq 1..Len(rows)
    BY <1>1 DEF StartOf
  <2>3. QED
    BY <1>1, <2>1, <2>2 DEF Unfinished
<1>5. QED
  BY <1>2, <1>3, <1>4

LEMMA ClosesEnd ==
  ASSUME rows \in Seq(Row), NEW ph, ph # "START", NEW j \in Regs, NEW r, Log(ph, j, r),
         NEW q \in Regs
  PROVE  /\ StartOf(q)' = StartOf(q)
         /\ Unfinished(q)' <=> Unfinished(q) /\ KeyOf[q] # KeyOf[j]
<1>1. /\ Len(rows) \in Nat
      /\ DOMAIN rows = 1..Len(rows) /\ DOMAIN rows' = 1..(Len(rows) + 1)
      /\ \A i \in DOMAIN rows : rows'[i] = rows[i]
      /\ rows'[Len(rows) + 1] = [phase |-> ph, job |-> j, reg |-> r]
  BY Appended
<1>2. StartOf(q)' = StartOf(q)
  BY StartsAfter
<1>3. StartOf(q) \subseteq 1..Len(rows)
  BY <1>1 DEF StartOf
<1>4. CASE KeyOf[q] = KeyOf[j]
  <2>1. \A i \in StartOf(q) : Len(rows) + 1 > i
    BY <1>1, <1>3
  <2>2. Len(rows) + 1 \in DOMAIN rows'
    BY <1>1
  <2>3. QED
    BY <1>1, <1>2, <1>4, <2>1, <2>2 DEF Unfinished
<1>5. CASE KeyOf[q] # KeyOf[j]
  BY <1>1, <1>2, <1>3, <1>5 DEF Unfinished
<1>6. QED
  BY <1>2, <1>4, <1>5

-----------------------------------------------------------------------------
(* What leaves a request as it is *)

LEMMA JournalSame ==
  ASSUME UNCHANGED rows
  PROVE  /\ JournalOK => JournalOK'
         /\ \A k : LastRow(k)' = LastRow(k)
         /\ \A q : StartOf(q)' = StartOf(q) /\ (Unfinished(q)' <=> Unfinished(q))
<1>1. \A q : StartOf(q)' = StartOf(q)
  BY DEF StartOf
<1>2. QED
  BY <1>1 DEF JournalOK, Last, Mine, LastRow, Unfinished

\* The registrations of k are where they were.
RegsStay(k) ==
  \A r \in Regs : KeyOf[r] = k =>
    /\ reg'[r] = reg[r]
    /\ (StartOf(r)' = {}) <=> (StartOf(r) = {})
    /\ Unfinished(r)' <=> Unfinished(r)

LEMMA RegsSame ==
  ASSUME UNCHANGED <<rows, reg>>, NEW k
  PROVE  RegsStay(k)
BY JournalSame DEF RegsStay

LEMMA TaskFitsSame ==
  ASSUME NEW k \in Keys, NEW t \in Task, KeyOf[t.job] = k, TaskFits(k, t),
         input'[k] = input[k], LastRow(k)' = LastRow(k), RegsStay(k)
  PROVE  TaskFits(k, t)'
<1>1. t.job \in Regs
  BY DEF Task
<1>2. /\ reg'[t.job] = reg[t.job] /\ (Unfinished(t.job)' <=> Unfinished(t.job))
      /\ HeldBy(k, t.job)' <=> HeldBy(k, t.job)
      /\ KeptDone(k)' <=> KeptDone(k)
  BY <1>1 DEF RegsStay, HeldBy, KeptDone
<1>3. QED
  BY <1>2 DEF TaskFits

LEMMA RequestSame ==
  ASSUME TypeInv, NEW k \in Keys, RequestOK(k),
         input'[k] = input[k], LastRow(k)' = LastRow(k), RegsStay(k),
         \A p \in Procs : \A j \in snap'[p] : KeyOf[j] = k => j \in snap[p],
         \A p \in Procs : task'[p][k] = task[p][k]
  PROVE  RequestOK(k)'
<1>1. /\ \A r \in Regs : HeldBy(k, r)' <=> HeldBy(k, r)
      /\ KeptDone(k)' <=> KeptDone(k)
  BY DEF HeldBy, KeptDone
<1>2. ASSUME NEW r \in Regs, KeyOf[r] = k
      PROVE  RegOK(k, r)'
  BY <1>1, <1>2 DEF RequestOK, RegOK, RegsStay
<1>3. InputFits(k)'
  BY <1>1 DEF RequestOK, InputFits, RegsStay, KeptDone
<1>4. ASSUME NEW p \in Procs, NEW j \in snap'[p], KeyOf[j] = k
      PROVE  SnapFits(k, p, j)'
  <2>1. j \in Regs /\ SnapFits(k, p, j)
    BY <1>4 DEF RequestOK, TypeInv, CtrlOK
  <2>2. QED
    BY <1>1, <1>4, <2>1 DEF SnapFits, RegsStay
<1>5. ASSUME NEW p \in Procs, task'[p][k] # None
      PROVE  TaskFits(k, task[p][k])'
  <2>1. task[p][k] \in Task /\ KeyOf[task[p][k].job] = k /\ TaskFits(k, task[p][k])
    BY <1>5, Current DEF RequestOK, TypeInv, TaskOK
  <2>2. QED
    BY <1>5, <2>1, TaskFitsSame
<1>6. QED
  BY <1>2, <1>3, <1>4, <1>5 DEF RequestOK

-----------------------------------------------------------------------------
(* A worker's step *)

\* The controller whose worker moves is the one alive: nobody else holds
\* anything of the request.
LEMMA OthersIdle ==
  ASSUME OneController, NEW p \in Procs, NEW k \in Keys, task[p][k] # None,
         NEW q \in Procs, q # p
  PROVE  snap[q] = {} /\ task[q][k] = None
BY DEF OneController

\* What is left to show of the request at hand
LEMMA WorkRequest ==
  ASSUME TypeInv, OneController, NEW p \in Procs, NEW k \in Keys,
         task[p][k] # None, Moves(p, k), snap' = snap,
         \A r \in Regs : KeyOf[r] = k => RegOK(k, r)',
         InputFits(k)',
         \A j \in snap[p] : KeyOf[j] = k => SnapFits(k, p, j)',
         task'[p][k] # None => TaskFits(k, task[p][k])'
  PROVE  RequestOK(k)'
<1>1. ASSUME NEW q \in Procs, NEW j \in snap'[q], KeyOf[j] = k
      PROVE  SnapFits(k, q, j)'
  BY <1>1, OthersIdle
<1>2. ASSUME NEW q \in Procs, task'[q][k] # None
      PROVE  TaskFits(k, task[q][k])'
  BY <1>2, OthersIdle DEF Moves
<1>3. QED
  BY <1>1, <1>2 DEF RequestOK

LEMMA WorkQuiet ==
  ASSUME TypeInv, OneController, NEW p \in Procs, NEW k \in Keys, RequestOK(k),
         task[p][k] # None, task[p][k].pc \notin {"keep", "free"},
         NEW u, Become(p, k, u), UNCHANGED <<input, rows, reg, snap>>,
         u # None => TaskOK(k, u) /\ TaskFits(k, u)
  PROVE  RequestOK(k)'
<1>1. Moves(p, k) /\ task'[p][k] = u
  BY Moved
<1>2. /\ \A r \in Regs : HeldBy(k, r)' <=> HeldBy(k, r)
      /\ KeptDone(k)' <=> KeptDone(k)
      /\ LastRow(k)' = LastRow(k)
      /\ RegsStay(k)
  BY JournalSame, RegsSame DEF HeldBy, KeptDone
<1>3. ASSUME NEW r \in Regs, KeyOf[r] = k
      PROVE  RegOK(k, r)'
  BY <1>2, <1>3 DEF RequestOK, RegOK, RegsStay
<1>4. InputFits(k)'
  BY <1>2 DEF RequestOK, InputFits, RegsStay, KeptDone
<1>5. ASSUME NEW j \in snap[p], KeyOf[j] = k
      PROVE  SnapFits(k, p, j)'
  <2>1. j \in Regs /\ SnapFits(k, p, j)
    BY <1>5 DEF RequestOK, TypeInv, CtrlOK
  <2>2. QED
    BY <1>2, <1>5, <2>1 DEF SnapFits, RegsStay
<1>6. u # None => TaskFits(k, u)'
  BY <1>2, TaskFitsSame DEF TaskOK
<1>7. QED
  BY <1>1, <1>3, <1>4, <1>5, <1>6, WorkRequest

\* The claim of the lease and the load of the input: the job is open with its
\* input there, or it is gone, or its result waits in the input.
LEMMA FitsPicking ==
  ASSUME Sheltered, TypeInv, NEW p \in Procs, NEW k \in Keys, RequestOK(k),
         \/ ClaimRead(p, k) \/ ClaimInsert(p, k) \/ ClaimCas(p, k)
         \/ LoadInput(p, k) \/ LookupEnd(p, k)
  PROVE  \E u : Become(p, k, u) /\ (u # None => TaskFits(k, u))
<1> DEFINE t == task[p][k]
<1>1. /\ t # None /\ t \in Task /\ KeyOf[t.job] = k /\ TaskFits(k, t)
      /\ t.pc \in Picked \cup {"lookup"}
  BY Current DEF ClaimRead, ClaimInsert, ClaimCas, LoadInput, LookupEnd, At,
                 Picked, RequestOK, TypeInv, TaskOK
<1>2. t.job \in Regs /\ RegOK(k, t.job) /\ InputFits(k)
  BY <1>1 DEF Task, RequestOK
<1>3. ASSUME NEW u, u \in Task, t.pc \in Picked, u.pc \in Picked, u.job = t.job
      PROVE  TaskFits(k, u)
  BY <1>1, <1>3 DEF TaskFits, Picked, Executing
<1>4. CASE ClaimRead(p, k)
  <2>1. t.pc = "claim"
    BY <1>4 DEF ClaimRead, At
  <2>2. TaskFits(k, [t EXCEPT !.pc = "insert"])
        /\ TaskFits(k, [t EXCEPT !.pc = "cas", !.seen = lease[t.job].owner])
    BY <1>1, <2>1 DEF TaskFits, Picked, Executing, Task
  <2>3. QED
    BY <1>4, <2>2 DEF ClaimRead, Goto, Return
<1>5. CASE ClaimInsert(p, k)
  <2>1. TaskFits(k, [t EXCEPT !.pc = "load"])
    BY <1>1, <1>5 DEF ClaimInsert, At, TaskFits, Picked, Executing, Task
  <2>2. QED
    BY <1>5, <2>1 DEF ClaimInsert, Goto, Return
<1>6. CASE ClaimCas(p, k)
  <2>1. TaskFits(k, [t EXCEPT !.pc = "load", !.seen = None, !.done = lease[t.job].done])
    BY <1>1, <1>6 DEF ClaimCas, At, TaskFits, Picked, Executing, Task
  <2>2. QED
    BY <1>6, <2>1 DEF ClaimCas, Goto, Return
<1>7. CASE LoadInput(p, k)
  <2>1. t.pc = "load"
    BY <1>7 DEF LoadInput, At
  <2>2. input[k] = None => TaskFits(k, [t EXCEPT !.pc = "lookup"])
    BY <1>1, <1>2, <2>1 DEF TaskFits, Picked, Executing, Task, RegOK, HeldBy
  <2>3. input[k] # None /\ input[k].state = "done"
        => TaskFits(k, [t EXCEPT !.pc = "end", !.reg = input[k].reg,
                                 !.out = input[k].result])
    BY <1>1, <2>1 DEF TaskFits, Picked, Executing, Task, HeldBy, KeptDone
  <2>4. input[k] # None /\ input[k].state # "done"
        => TaskFits(k, [t EXCEPT !.pc = "mark", !.reg = input[k].reg])
    BY <1>1, <2>1 DEF TaskFits, Picked, Executing, Task, HeldBy, KeptDone
  <2>5. QED
    BY <1>7, <2>2, <2>3, <2>4 DEF LoadInput, Goto, Return
<1>8. CASE LookupEnd(p, k)
  <2>1. t.pc = "lookup"
    BY <1>8 DEF LookupEnd, At
  <2>2. Ended(t.job)
    BY <1>1, <1>2, <2>1 DEF TaskFits, RegOK, Ended
  <2>3. TaskFits(k, [t EXCEPT !.pc = "release"])
    BY <1>1, <2>1 DEF TaskFits, Picked, Executing, Task
  <2>4. QED
    BY <1>8, <2>2, <2>3 DEF LookupEnd, Goto, Fault, Sheltered
<1>9. QED
  BY <1>4, <1>5, <1>6, <1>7, <1>8

\* The execution: the input was this registration's when it was loaded and
\* nobody takes it before the job has its end row.
LEMMA FitsExecuting ==
  ASSUME TypeInv, NEW p \in Procs, NEW k \in Keys, RequestOK(k),
         \/ MarkRead(p, k) \/ StepSucceeds(p, k) \/ StepFails(p, k)
         \/ StepDegrades(p, k) \/ StepRewinds(p, k) \/ RecordStep(p, k)
         \/ StepsDone(p, k) \/ Compensate(p, k)
  PROVE  \E u : Become(p, k, u) /\ (u # None => TaskFits(k, u))
<1> DEFINE t == task[p][k]
<1>1. /\ t # None /\ t \in Task /\ TaskFits(k, t)
      /\ t.pc \in Executing
  BY Current DEF MarkRead, StepSucceeds, StepFails, StepDegrades, StepRewinds,
                 RecordStep, StepsDone, Compensate, At, Executing, RequestOK,
                 TypeInv, TaskOK
<1> DEFINE Keeps(u) == /\ u.job = t.job /\ u.reg = t.reg
                       /\ u.pc \in (Executing \ {"markset"}) \cup {"end"}
<1>2. ASSUME NEW u \in Task, Keeps(u)
      PROVE  TaskFits(k, u)
  BY <1>1, <1>2 DEF TaskFits, Picked, Executing
<1>3. t.job \in Regs /\ t.reg \in Regs
  BY <1>1 DEF Task, TaskFits
<1>4. TasksOK'
  BY WorkTasks DEF Work
<1>5. CASE MarkRead(p, k)
  <2>1. HeldBy(k, t.job)
    BY <1>1 DEF TaskFits
  <2>2. TaskFits(k, [t EXCEPT !.pc = "markset", !.seen = input[k].reg])
    BY <1>1, <2>1 DEF TaskFits, Picked, Executing, Task, HeldBy
  <2>3. QED
    BY <1>5, <2>1, <2>2 DEF MarkRead, HeldBy
<1>6. CASE ~MarkRead(p, k)
  <2>1. ASSUME NEW u, Become(p, k, u), u # None, Keeps(u)
        PROVE  TaskFits(k, u)
    <3>1. u \in Task
      BY <1>4, <2>1, Moved DEF TasksOK
    <3>2. QED
      BY <1>2, <2>1, <3>1
  <2>2. \E u : Become(p, k, u) /\ (u = None \/ Keeps(u))
    <3>1. CASE StepSucceeds(p, k)
      <4>1. PICK s \in Steps : Become(p, k, IF Volatile(s)
               THEN [t EXCEPT !.at = s + 1, !.mem = @ \cup {s}]
               ELSE [t EXCEPT !.pc = "record", !.at = s, !.mem = @ \cup {s}])
        BY <3>1 DEF StepSucceeds
      <4>2. t.pc = "run"
        BY <3>1 DEF StepSucceeds, At
      <4>3. Keeps([t EXCEPT !.at = s + 1, !.mem = @ \cup {s}])
            /\ Keeps([t EXCEPT !.pc = "record", !.at = s, !.mem = @ \cup {s}])
        BY <1>1, <4>2 DEF Task, Executing
      <4>4. QED
        BY <4>1, <4>3
    <3>2. CASE StepFails(p, k)
      <4>1. Keeps([t EXCEPT !.pc = "compensate", !.out = "FAIL"])
        BY <1>1 DEF Task, Executing
      <4>2. QED
        BY <3>2, <4>1 DEF StepFails
    <3>3. CASE StepDegrades(p, k)
      <4>1. Keeps([t EXCEPT !.pc = "end", !.out = "DEGRADED"])
        BY <1>1 DEF Task, Executing
      <4>2. QED
        BY <3>3, <4>1 DEF StepDegrades
    <3>4. CASE StepRewinds(p, k)
      <4>1. PICK s \in Steps : Become(p, k,
               IF t.rewinds < MaxRewinds
               THEN [t EXCEPT !.pc = "rewound", !.at = RewindTo[s],
                              !.rewinds = @ + 1]
               ELSE [t EXCEPT !.pc = "end", !.out = "DEGRADED"])
        BY <3>4 DEF StepRewinds
      <4>2. Keeps([t EXCEPT !.pc = "rewound", !.at = RewindTo[s], !.rewinds = @ + 1])
            /\ Keeps([t EXCEPT !.pc = "end", !.out = "DEGRADED"])
        BY <1>1 DEF Task, Executing
      <4>3. QED
        BY <4>1, <4>2
    <3>5. CASE RecordStep(p, k)
      <4>1. Keeps(Recorded(t))
            /\ Keeps([t EXCEPT !.pc = "compensate", !.out = "FAIL", !.done = NewDone(t)])
        BY <1>1 DEF Recorded, Task, Executing
      <4>2. QED
        BY <3>5, <4>1 DEF RecordStep, Return
    <3>6. CASE StepsDone(p, k)
      <4>1. Keeps([t EXCEPT !.pc = "end", !.out = "SUCCESS"])
        BY <1>1 DEF Task, Executing
      <4>2. QED
        BY <3>6, <4>1 DEF StepsDone
    <3>7. CASE Compensate(p, k)
      <4>1. Keeps([t EXCEPT !.pc = "end"])
            /\ Keeps([t EXCEPT !.pc = "end", !.out = "HELD"])
        BY <1>1 DEF Task, Executing
      <4>2. QED
        BY <3>7, <4>1 DEF Compensate, Goto
    <3>8. QED
      BY <1>6, <3>1, <3>2, <3>3, <3>4, <3>5, <3>6, <3>7
  <2>3. QED
    BY <2>1, <2>2
<1>7. QED
  BY <1>5, <1>6

\* mark_job_running writes back the registration it read.
LEMMA MarkRequest ==
  ASSUME TypeInv, OneController, NEW p \in Procs, NEW k \in Keys, RequestOK(k),
         MarkRunning(p, k)
  PROVE  RequestOK(k)'
<1> DEFINE t == task[p][k]
           u == [t EXCEPT !.pc = "run", !.seen = None]
<1>1. /\ t # None /\ t \in Task /\ KeyOf[t.job] = k /\ TaskFits(k, t)
      /\ t.pc = "markset" /\ t.job \in Regs
  BY Current DEF MarkRunning, At, RequestOK, TypeInv, TaskOK, Task
<1>2. /\ Moves(p, k) /\ task'[p][k] = u /\ snap' = snap
      /\ UNCHANGED <<rows, reg>>
  BY <1>1, Moved DEF MarkRunning, ctrl
<1>3. RegsStay(k) /\ LastRow(k)' = LastRow(k)
  BY <1>2, JournalSame, RegsSame
<1>4. /\ Unfinished(t.job) /\ HeldBy(k, t.job) /\ ~KeptDone(k) /\ t.reg = t.job
      /\ reg[t.job] = "accepted" /\ t.seen = t.job
  BY <1>1 DEF TaskFits, Executing
<1>5. input'[k] = [state |-> "running", reg |-> t.job, result |-> None]
  BY <1>4 DEF MarkRunning, TypeInv, StoresOK, InputOK
<1>6. /\ \A r \in Regs : HeldBy(k, r)' <=> HeldBy(k, r)
      /\ ~KeptDone(k)' /\ input[k] # None /\ input'[k] # None
  <2>1. input'[k] \in Input
    BY <1>1, <1>5 DEF Input
  <2>2. input'[k] # None
    BY <2>1, NoneOK
  <2>3. QED
    BY <1>4, <1>5, <2>2 DEF HeldBy, KeptDone
<1>7. ASSUME NEW r \in Regs, KeyOf[r] = k
      PROVE  RegOK(k, r)'
  BY <1>3, <1>6, <1>7 DEF RequestOK, RegOK, RegsStay
<1>8. InputFits(k)'
  BY <1>1, <1>2, <1>4, <1>5, <1>6 DEF InputFits
<1>9. ASSUME NEW j \in snap[p], KeyOf[j] = k
      PROVE  SnapFits(k, p, j)'
  <2>1. j \in Regs /\ SnapFits(k, p, j)
    BY <1>9 DEF RequestOK, TypeInv, CtrlOK
  <2>2. j = t.job
    BY <1>4, <1>6, <2>1 DEF SnapFits, HeldBy
  <2>3. QED
    BY <1>1, <1>3, <1>4, <1>6, <2>1, <2>2 DEF SnapFits, RegsStay
<1>10. TaskFits(k, task[p][k])'
  <2>1. u.job = t.job /\ u.reg = t.reg /\ u.pc = "run"
    BY <1>1 DEF Task
  <2>2. PICK j \in Regs : j = t.job
    BY <1>1
  <2>3. Unfinished(j)' /\ HeldBy(k, j)' /\ reg'[j] = "accepted"
    BY <1>1, <1>2, <1>3, <1>4, <1>6, <2>2 DEF RegsStay
  <2>4. QED
    BY <1>2, <1>4, <1>6, <2>1, <2>2, <2>3 DEF TaskFits, Picked, Executing
<1>11. QED
  BY <1>1, <1>2, <1>7, <1>8, <1>9, <1>10, WorkRequest

\* mark_job_done: the result kept is the one the journal has, if it has one.
LEMMA KeepRequest ==
  ASSUME Sheltered, TypeInv, OneController, NEW p \in Procs, NEW k \in Keys,
         RequestOK(k), KeepResult(p, k)
  PROVE  RequestOK(k)'
<1> DEFINE t == task[p][k]
           u == [t EXCEPT !.pc = "release"]
<1>1. /\ t # None /\ t \in Task /\ KeyOf[t.job] = k /\ TaskFits(k, t)
      /\ t.pc = "keep" /\ t.job \in Regs
  BY Current DEF KeepResult, At, RequestOK, TypeInv, TaskOK, Task
<1>2. /\ Moves(p, k) /\ task'[p][k] = u /\ snap' = snap
      /\ UNCHANGED <<rows, reg>>
  BY <1>1, Moved DEF KeepResult, Goto, ctrl
<1>3. RegsStay(k) /\ LastRow(k)' = LastRow(k)
  BY <1>2, JournalSame, RegsSame
<1>4. /\ HeldBy(k, t.job) /\ reg[t.job] = "accepted"
      /\ Unfinished(t.job) \/ LastRow(k) = t.out
  BY <1>1 DEF TaskFits
<1>5. input'[k] = [state |-> "done", result |-> t.out, reg |-> t.job]
  BY <1>4 DEF KeepResult, Fault, Sheltered, HeldBy, TypeInv, StoresOK, InputOK
<1>6. /\ \A r \in Regs : HeldBy(k, r)' <=> HeldBy(k, r)
      /\ KeptDone(k)' /\ input[k] # None /\ input'[k] # None
  <2>1. input'[k] \in Input
    BY <1>1, <1>5 DEF Input, Task
  <2>2. input'[k] # None
    BY <2>1, NoneOK
  <2>3. QED
    BY <1>4, <1>5, <2>2 DEF HeldBy, KeptDone
<1>7. ASSUME NEW r \in Regs, KeyOf[r] = k
      PROVE  RegOK(k, r)'
  BY <1>3, <1>6, <1>7 DEF RequestOK, RegOK, RegsStay
<1>8. InputFits(k)'
  BY <1>1, <1>2, <1>3, <1>4, <1>5, <1>6 DEF InputFits, RegsStay
<1>9. ASSUME NEW j \in snap[p], KeyOf[j] = k
      PROVE  SnapFits(k, p, j)'
  <2>1. j \in Regs /\ SnapFits(k, p, j)
    BY <1>9 DEF RequestOK, TypeInv, CtrlOK
  <2>2. QED
    BY <1>3, <1>6, <1>9, <2>1 DEF SnapFits, RegsStay
<1>10. TaskFits(k, task[p][k])'
  <2>1. u.job = t.job /\ u.pc = "release"
    BY <1>1 DEF Task
  <2>2. PICK j \in Regs : j = t.job
    BY <1>1
  <2>3. HeldBy(k, j)' /\ reg'[j] = "accepted"
    BY <1>1, <1>2, <1>4, <1>6, <2>2
  <2>4. QED
    BY <1>2, <1>6, <2>1, <2>2, <2>3 DEF TaskFits, Picked, Executing
<1>11. QED
  BY <1>1, <1>2, <1>7, <1>8, <1>9, <1>10, WorkRequest

\* delete_job_input, after the end row
LEMMA FreeRequest ==
  ASSUME Sheltered, TypeInv, OneController, NEW p \in Procs, NEW k \in Keys,
         RequestOK(k), FreeInput(p, k)
  PROVE  RequestOK(k)'
<1> DEFINE t == task[p][k]
           u == [t EXCEPT !.pc = "release"]
<1>1. /\ t # None /\ t \in Task /\ KeyOf[t.job] = k /\ TaskFits(k, t)
      /\ t.pc = "free" /\ t.job \in Regs
  BY Current DEF FreeInput, At, RequestOK, TypeInv, TaskOK, Task
<1>2. /\ Moves(p, k) /\ task'[p][k] = u /\ snap' = snap
      /\ UNCHANGED <<rows, reg>>
  BY <1>1, Moved DEF FreeInput, Goto, ctrl
<1>3. RegsStay(k)
  BY <1>2, RegsSame
<1>4. HeldBy(k, t.job) /\ reg[t.job] = "accepted" /\ ~Unfinished(t.job)
  BY <1>1 DEF TaskFits
<1>5. input'[k] = None
  BY <1>4 DEF FreeInput, Fault, Sheltered, TypeInv, StoresOK, InputOK
<1>6. ASSUME NEW r \in Regs, KeyOf[r] = k
      PROVE  RegOK(k, r)'
  <2>1. RegOK(k, r) /\ reg[r] \notin {"saved", "undo"} /\ ~Unfinished(r)
    BY <1>4, <1>6 DEF RequestOK, RegOK, HeldBy
  <2>2. QED
    BY <1>3, <1>6, <2>1 DEF RegOK, RegsStay
<1>7. InputFits(k)'
  BY <1>5 DEF InputFits, KeptDone
<1>8. ASSUME NEW j \in snap[p], KeyOf[j] = k
      PROVE  SnapFits(k, p, j)'
  <2>1. j \in Regs /\ SnapFits(k, p, j)
    BY <1>8 DEF RequestOK, TypeInv, CtrlOK
  <2>2. QED
    BY <1>3, <1>5, <1>8, <2>1 DEF SnapFits, RegsStay
<1>9. TaskFits(k, task[p][k])'
  <2>1. u.job = t.job /\ u.pc = "release"
    BY <1>1 DEF Task
  <2>2. PICK j \in Regs : j = t.job
    BY <1>1
  <2>3. ~Unfinished(j)' /\ reg'[j] = "accepted"
    BY <1>1, <1>2, <1>3, <1>4, <2>2 DEF RegsStay
  <2>4. QED
    BY <1>2, <2>1, <2>2, <2>3 DEF TaskFits, Picked, Executing
<1>10. QED
  BY <1>1, <1>2, <1>6, <1>7, <1>8, <1>9, WorkRequest

\* The end row closes the job; it repeats the result that was kept, if one was.
LEMMA EndRequest ==
  ASSUME TypeInv, OneController, JournalOK, NEW p \in Procs, NEW k \in Keys,
         RequestOK(k), WriteEnd(p, k), rows' # rows
  PROVE  RequestOK(k)'
<1> DEFINE t == task[p][k]
<1>1. /\ t # None /\ t \in Task /\ KeyOf[t.job] = k /\ TaskFits(k, t)
      /\ t.pc = "end" /\ t.out \in Verdicts
  BY Current DEF WriteEnd, At, RequestOK, TypeInv, TaskOK, Closing
<1>2. PICK j \in Regs : j = t.job
  BY <1>1 DEF Task
<1>3. PICK v \in Verdicts : v = t.out
  BY <1>1
<1>4. Log(v, j, t.reg) /\ v # "START" /\ rows \in Seq(Row)
  BY <1>2, <1>3 DEF WriteEnd, Verdicts, TypeInv, StoresOK
<1>5. \E pc \in {"free", "keep"} : Goto(p, k, pc)
  BY DEF WriteEnd
<1>6. PICK pc \in {"free", "keep"} : Become(p, k, [t EXCEPT !.pc = pc])
  BY <1>5 DEF Goto
<1>7. /\ Moves(p, k) /\ task'[p][k] = [t EXCEPT !.pc = pc]
      /\ UNCHANGED <<input, reg, snap>>
  BY <1>1, <1>6, Moved DEF WriteEnd, ctrl
<1>8. /\ task'[p][k] # None /\ task'[p][k].pc = pc /\ task'[p][k].job = j
      /\ task'[p][k].out = v
  <2>1. task'[p][k] \in Task
    BY <1>1, <1>7 DEF Task, TaskPCs
  <2>2. QED
    BY <1>1, <1>2, <1>3, <1>7, <2>1, NoneOK DEF Task
<1>9. LastRow(k)' = v
  BY <1>1, <1>2, <1>4, LastAfter
<1>10. ASSUME NEW q \in Regs, KeyOf[q] = k
       PROVE  StartOf(q)' = StartOf(q) /\ ~Unfinished(q)'
  <2>1. /\ StartOf(q)' = StartOf(q)
        /\ Unfinished(q)' <=> Unfinished(q) /\ KeyOf[q] # KeyOf[j]
    BY <1>4, ClosesEnd
  <2>2. QED
    BY <1>1, <1>2, <1>10, <2>1
<1>11. /\ HeldBy(k, j) /\ reg[j] = "accepted"
       /\ KeptDone(k) => input[k].result = v
  BY <1>1, <1>2, <1>3 DEF TaskFits
<1>12. /\ \A r \in Regs : HeldBy(k, r)' <=> HeldBy(k, r)
       /\ KeptDone(k)' <=> KeptDone(k)
  BY <1>7 DEF HeldBy, KeptDone
<1>13. ASSUME NEW r \in Regs, KeyOf[r] = k
       PROVE  RegOK(k, r)'
  BY <1>7, <1>10, <1>12, <1>13 DEF RequestOK, RegOK
<1>14. InputFits(k)'
  BY <1>7, <1>9, <1>11, <1>12 DEF RequestOK, InputFits
<1>15. ASSUME NEW i \in snap[p], KeyOf[i] = k
       PROVE  SnapFits(k, p, i)'
  <2>1. i \in Regs /\ SnapFits(k, p, i)
    BY <1>15 DEF RequestOK, TypeInv, CtrlOK
  <2>2. QED
    BY <1>7, <1>8, <1>12, <2>1 DEF SnapFits
<1>16. TaskFits(k, task[p][k])'
  <2>1. ~Unfinished(j)' /\ HeldBy(k, j)' /\ reg'[j] = "accepted"
    BY <1>1, <1>2, <1>7, <1>10, <1>11, <1>12
  <2>2. QED
    BY <1>8, <1>9, <2>1 DEF TaskFits, Picked, Executing
<1>17. QED
  BY <1>1, <1>7, <1>13, <1>14, <1>15, <1>16, WorkRequest

LEMMA NoEndRequest ==
  ASSUME TypeInv, OneController, NEW p \in Procs, NEW k \in Keys,
         RequestOK(k), WriteEnd(p, k), rows' = rows
  PROVE  RequestOK(k)'
<1> DEFINE t == task[p][k]
           u == [t EXCEPT !.pc = "keep"]
<1>1. /\ t # None /\ t \in Task /\ TaskFits(k, t) /\ InputFits(k) /\ t.pc = "end"
  BY Current DEF WriteEnd, At, RequestOK, TypeInv
<1>2. UNCHANGED <<input, rows, reg, snap>>
  BY DEF WriteEnd, ctrl
<1>3. Become(p, k, u)
  <2>1. ASSUME NEW v, NEW j, NEW r, Log(v, j, r)
        PROVE  FALSE
    <3>1. Len(rows) \in Nat /\ DOMAIN rows = 1..Len(rows)
          /\ DOMAIN rows' = 1..(Len(rows) + 1)
      BY <2>1, Appended DEF TypeInv, StoresOK
    <3>2. QED
      BY <3>1
  <2>2. QED
    BY <2>1 DEF WriteEnd, Goto
<1>4. TaskFits(k, u)
  <2>1. u.job = t.job /\ u.out = t.out /\ u.pc = "keep"
    BY <1>1 DEF Task
  <2>2. HeldBy(k, t.job) /\ (Unfinished(t.job) \/ LastRow(k) = t.out)
    BY <1>1 DEF TaskFits, InputFits, HeldBy
  <2>3. QED
    BY <1>1, <2>1, <2>2 DEF TaskFits, Picked, Executing
<1>5. TaskOK(k, u)
  <2>1. TasksOK'
    BY WorkTasks DEF Work
  <2>2. task'[p][k] = u /\ u \in Task
    BY <1>1, <1>3, Moved DEF Task, TaskPCs
  <2>3. task'[p][k] # None
    BY <2>2, NoneOK
  <2>4. TaskOK(k, task[p][k])'
    BY <2>1, <2>3 DEF TasksOK
  <2>5. QED
    BY <2>2, <2>4 DEF TaskOK
<1>6. QED
  BY <1>1, <1>2, <1>3, <1>4, <1>5, WorkQuiet

\* The request of the worker that moves
LEMMA WorkOwn ==
  ASSUME Sheltered, TypeInv, OneController, JournalOK,
         NEW p \in Procs, NEW k \in Keys, RequestOK(k), Work(p, k)
  PROVE  RequestOK(k)'
<1>1. CASE \/ ClaimRead(p, k) \/ ClaimInsert(p, k) \/ ClaimCas(p, k)
           \/ LoadInput(p, k) \/ LookupEnd(p, k)
           \/ MarkRead(p, k) \/ StepSucceeds(p, k) \/ StepFails(p, k)
           \/ StepDegrades(p, k) \/ StepRewinds(p, k) \/ RecordStep(p, k)
           \/ StepsDone(p, k) \/ Compensate(p, k)
  <2>1. PICK u : Become(p, k, u) /\ (u # None => TaskFits(k, u))
    BY <1>1, FitsPicking, FitsExecuting
  <2>2. task[p][k] # None /\ task[p][k].pc \notin {"keep", "free"}
    BY <1>1 DEF ClaimRead, ClaimInsert, ClaimCas, LoadInput, LookupEnd, MarkRead,
         StepSucceeds, StepFails, StepDegrades, StepRewinds, RecordStep, StepsDone,
         Compensate, At
  <2>3. UNCHANGED <<input, rows, reg, snap>>
    BY <1>1 DEF ClaimRead, ClaimInsert, ClaimCas, LoadInput, LookupEnd, MarkRead,
         StepSucceeds, StepFails, StepDegrades, StepRewinds, RecordStep, StepsDone,
         Compensate, stores, ctrl
  <2>4. u # None => TaskOK(k, u)
    BY WorkTasks, <2>1, Moved DEF TasksOK, TaskOK
  <2>5. QED
    BY <2>1, <2>2, <2>3, <2>4, WorkQuiet
<1>2. CASE Release(p, k)
  <2>1. Become(p, k, None) /\ UNCHANGED <<input, rows, reg, snap>>
        /\ task[p][k] # None /\ task[p][k].pc = "release"
    BY <1>2 DEF Release, Return, At, ctrl
  <2>2. QED
    BY <2>1, WorkQuiet
<1>3. QED
  BY <1>1, <1>2, MarkRequest, KeepRequest, FreeRequest, EndRequest, NoEndRequest
     DEF Work

\* The other requests
LEMMA WorkRows ==
  ASSUME NEW p \in Procs, NEW k \in Keys, Work(p, k)
  PROVE  \/ UNCHANGED rows
         \/ /\ At(p, k, "end")
            /\ Log(task[p][k].out, task[p][k].job, task[p][k].reg)
BY DEF Work, ClaimRead, ClaimInsert, ClaimCas, LoadInput, LookupEnd,
     MarkRead, MarkRunning, StepSucceeds, StepFails, StepDegrades, StepRewinds,
     RecordStep, StepsDone, Compensate, WriteEnd, KeepResult, FreeInput, Release,
     stores

LEMMA WorkElsewhere ==
  ASSUME TypeInv, JournalOK, NEW p \in Procs, NEW k \in Keys, Work(p, k),
         NEW l \in Keys, l # k
  PROVE  /\ RegsStay(l) /\ LastRow(l)' = LastRow(l) /\ input'[l] = input[l]
         /\ UNCHANGED snap /\ \A q \in Procs : task'[q][l] = task[q][l]
<1> DEFINE t == task[p][k]
<1>1. /\ t # None /\ t \in Task /\ KeyOf[t.job] = k
      /\ t.pc = "end" => t.out \in Verdicts
  BY Current DEF Work, ClaimRead, ClaimInsert, ClaimCas, LoadInput, LookupEnd,
     MarkRead, MarkRunning, StepSucceeds, StepFails, StepDegrades, StepRewinds,
     RecordStep, StepsDone, Compensate, WriteEnd, KeepResult, FreeInput, Release,
     At, TypeInv, TaskOK, Closing
<1>2. \E u : Become(p, k, u)
  BY DEF Work, ClaimRead, ClaimInsert, ClaimCas, LoadInput, LookupEnd,
     MarkRead, MarkRunning, StepSucceeds, StepFails, StepDegrades, StepRewinds,
     RecordStep, StepsDone, Compensate, WriteEnd, KeepResult, FreeInput, Release,
     Goto, Return
<1>3. \A q \in Procs : task'[q][l] = task[q][l]
  BY <1>2, Moved DEF Moves
<1>4. UNCHANGED <<reg, snap>>
  BY DEF Work, ClaimRead, ClaimInsert, ClaimCas, LoadInput, LookupEnd,
     MarkRead, MarkRunning, StepSucceeds, StepFails, StepDegrades, StepRewinds,
     RecordStep, StepsDone, Compensate, WriteEnd, KeepResult, FreeInput, Release,
     ctrl
<1>5. input'[l] = input[l]
  <2>1. input \in [Keys -> Input \cup {None}]
    BY DEF TypeInv, StoresOK, InputOK
  <2>2. input' = input \/ \E i : input' = [input EXCEPT ![k] = i]
    BY DEF Work, ClaimRead, ClaimInsert, ClaimCas, LoadInput, LookupEnd,
     MarkRead, MarkRunning, StepSucceeds, StepFails, StepDegrades, StepRewinds,
     RecordStep, StepsDone, Compensate, WriteEnd, KeepResult, FreeInput, Release,
     stores
  <2>3. QED
    BY <2>1, <2>2
<1>6. rows' = rows \/ (t.pc = "end" /\ Log(t.out, t.job, t.reg))
  BY WorkRows DEF At
<1>7. RegsStay(l) /\ LastRow(l)' = LastRow(l)
  <2>1. CASE rows' = rows
    BY <1>4, <2>1, JournalSame, RegsSame
  <2>2. CASE t.pc = "end" /\ Log(t.out, t.job, t.reg)
    <3>1. PICK v \in Verdicts, j \in Regs : v = t.out /\ j = t.job
      BY <1>1, <2>2 DEF Task
    <3>2. v # "START" /\ rows \in Seq(Row) /\ Log(v, j, t.reg) /\ KeyOf[j] # l
      BY <1>1, <2>2, <3>1 DEF Verdicts, TypeInv, StoresOK
    <3>3. LastRow(l)' = LastRow(l)
      BY <3>2, LastAfter
    <3>4. ASSUME NEW q \in Regs
          PROVE  /\ StartOf(q)' = StartOf(q)
                 /\ Unfinished(q)' <=> Unfinished(q) /\ KeyOf[q] # KeyOf[j]
      BY <3>2, ClosesEnd
    <3>5. QED
      BY <1>4, <3>2, <3>3, <3>4 DEF RegsStay
  <2>3. QED
    BY <1>6, <2>1, <2>2
<1>8. QED
  BY <1>3, <1>4, <1>5, <1>7

LEMMA WorkOther ==
  ASSUME TypeInv, JournalOK, NEW p \in Procs, NEW k \in Keys, Work(p, k),
         NEW l \in Keys, l # k, RequestOK(l)
  PROVE  RequestOK(l)'
BY WorkElsewhere, RequestSame

LEMMA WorkProtocol ==
  ASSUME Sheltered, TypeInv, Protocol, NEW p \in Procs, NEW k \in Keys, Work(p, k)
  PROVE  Protocol'
<1>1. task[p][k] # None
  BY DEF Work, ClaimRead, ClaimInsert, ClaimCas, LoadInput, LookupEnd,
     MarkRead, MarkRunning, StepSucceeds, StepFails, StepDegrades, StepRewinds,
     RecordStep, StepsDone, Compensate, WriteEnd, KeepResult, FreeInput, Release, At
<1>2. \E u : Become(p, k, u)
  BY DEF Work, ClaimRead, ClaimInsert, ClaimCas, LoadInput, LookupEnd,
     MarkRead, MarkRunning, StepSucceeds, StepFails, StepDegrades, StepRewinds,
     RecordStep, StepsDone, Compensate, WriteEnd, KeepResult, FreeInput, Release,
     Goto, Return
<1>3. UNCHANGED <<proc, loop, snap>>
  BY DEF Work, ClaimRead, ClaimInsert, ClaimCas, LoadInput, LookupEnd,
     MarkRead, MarkRunning, StepSucceeds, StepFails, StepDegrades, StepRewinds,
     RecordStep, StepsDone, Compensate, WriteEnd, KeepResult, FreeInput, Release,
     ctrl
<1>4. OneController'
  <2>1. Alive(p) /\ \A q \in Procs : Alive(q)' <=> Alive(q)
    BY <1>1, <1>3 DEF Protocol, OneController, Alive
  <2>2. \A q \in Procs, l \in Keys : q # p => task'[q][l] = task[q][l]
    BY <1>2, Moved DEF Moves
  <2>3. QED
    BY <1>3, <2>1, <2>2 DEF Protocol, OneController
<1>5. JournalOK'
  <2>1. rows' = rows \/ \E ph, j, r : Log(ph, j, r)
    BY DEF Work, ClaimRead, ClaimInsert, ClaimCas, LoadInput, LookupEnd,
       MarkRead, MarkRunning, StepSucceeds, StepFails, StepDegrades, StepRewinds,
       RecordStep, StepsDone, Compensate, WriteEnd, KeepResult, FreeInput, Release,
       stores
  <2>2. rows \in Seq(Row) /\ JournalOK
    BY DEF TypeInv, StoresOK, Protocol
  <2>3. QED
    BY <2>1, <2>2, JournalSame, JournalGrows
<1>6. ASSUME NEW l \in Keys
      PROVE  RequestOK(l)'
  <2>1. RequestOK(l) /\ JournalOK /\ OneController
    BY DEF Protocol
  <2>2. CASE l = k
    BY <2>1, <2>2, WorkOwn
  <2>3. CASE l # k
    BY <2>1, <2>3, WorkOther
  <2>4. QED
    BY <2>2, <2>3
<1>7. QED
  BY <1>4, <1>5, <1>6 DEF Protocol

-----------------------------------------------------------------------------
(* The API *)

\* While a registration is being made, the request has no open job, and nobody
\* executes or closes one.
LEMMA Registering ==
  ASSUME TypeInv, NEW k \in Keys, RequestOK(k), NEW r \in Regs, KeyOf[r] = k,
         reg[r] \in {"saved", "undo"}
  PROVE  /\ HeldBy(k, r) /\ StartOf(r) = {} /\ input[k].state = "queued"
         /\ \A q \in Regs : KeyOf[q] = k /\ q # r =>
              ~Unfinished(q) /\ reg[q] \notin {"saved", "undo"}
         /\ ~Unfinished(r)
         /\ \A p \in Procs : \A j \in snap[p] : KeyOf[j] # k
         /\ \A p \in Procs : task[p][k] # None =>
              /\ task[p][k].job # r /\ ~Unfinished(task[p][k].job)
              /\ task[p][k].pc \in {"lookup", "release"}
<1>1. HeldBy(k, r) /\ StartOf(r) = {} /\ input[k].state = "queued" /\ ~KeptDone(k)
  BY DEF RequestOK, RegOK, InputFits, HeldBy, KeptDone
<1>2. ~Unfinished(r)
  BY <1>1 DEF Unfinished
<1>3. ASSUME NEW q \in Regs, KeyOf[q] = k, q # r
      PROVE  ~Unfinished(q) /\ reg[q] \notin {"saved", "undo"}
  BY <1>1, <1>3 DEF RequestOK, RegOK, HeldBy
<1>4. ASSUME NEW p \in Procs, NEW j \in snap[p], KeyOf[j] = k
      PROVE  FALSE
  BY <1>1, <1>4 DEF RequestOK, SnapFits, HeldBy
<1>5. ASSUME NEW p \in Procs, task[p][k] # None
      PROVE  /\ task[p][k].job # r /\ ~Unfinished(task[p][k].job)
             /\ task[p][k].pc \in {"lookup", "release"}
  <2> DEFINE t == task[p][k]
  <2>1. t \in Task /\ KeyOf[t.job] = k /\ TaskFits(k, t)
    BY <1>5, Current DEF RequestOK, TypeInv, TaskOK
  <2>2. t.job \in Regs /\ t.pc \in TaskPCs /\ t.job # r
    BY <2>1 DEF Task, TaskFits
  <2>3. ~HeldBy(k, t.job) /\ ~Unfinished(t.job)
    BY <1>1, <1>3, <2>1, <2>2 DEF HeldBy
  <2>4. QED
    BY <1>1, <2>1, <2>2, <2>3 DEF TaskFits, TaskPCs, Picked, Executing, HeldBy
<1>6. QED
  BY <1>1, <1>2, <1>3, <1>4, <1>5

\* A request that is registered has no worker that would run an old job of it.
LEMMA SaveRequest ==
  ASSUME Sheltered, TypeInv, NEW r \in Regs, SaveInput(r), RequestOK(KeyOf[r])
  PROVE  RequestOK(KeyOf[r])'
<1> DEFINE k == KeyOf[r]
<1>1. k \in Keys /\ UNCHANGED <<rows, snap, task>> /\ ~StalePick(k) /\ reg[r] = "new"
  BY ConstantsOK DEF SaveInput, Sheltered, ctrl
<1>2. /\ LastRow(k)' = LastRow(k)
      /\ \A q : StartOf(q)' = StartOf(q) /\ (Unfinished(q)' <=> Unfinished(q))
  BY <1>1, JournalSame
<1>3. \A q \in Regs : q # r => reg'[q] = reg[q]
  BY DEF SaveInput, TypeInv, CtrlOK
<1>4. StartOf(r) = {} /\ ~Unfinished(r)
  BY <1>1 DEF RequestOK, RegOK, Unfinished
<1>5. \A p \in Procs : \A j \in snap[p] : KeyOf[j] # k
  BY <1>1 DEF StalePick
<1>6. \A p \in Procs : task[p][k] # None =>
        /\ task[p][k] \in Task /\ KeyOf[task[p][k].job] = k /\ TaskFits(k, task[p][k])
        /\ task[p][k].job \in Regs /\ task[p][k].job # r
  <2>1. SUFFICES ASSUME NEW p \in Procs, task[p][k] # None
                 PROVE  /\ task[p][k] \in Task /\ KeyOf[task[p][k].job] = k
                        /\ TaskFits(k, task[p][k])
                        /\ task[p][k].job \in Regs /\ task[p][k].job # r
    OBVIOUS
  <2>2. task[p][k] \in Task /\ KeyOf[task[p][k].job] = k
    BY <1>1, <2>1, Current DEF TypeInv, TaskOK
  <2>3. TaskFits(k, task[p][k])
    BY <2>1 DEF RequestOK
  <2>4. reg[task[p][k].job] = "accepted"
    BY <2>3 DEF TaskFits
  <2>5. task[p][k].job \in Regs
    BY <2>2 DEF Task
  <2>6. QED
    BY <1>1, <2>2, <2>3, <2>4, <2>5
<1>7. CASE input[k] # None
  <2>1. input' = input /\ reg'[r] = "refused"
    BY <1>7 DEF SaveInput, TypeInv, CtrlOK
  <2>2. /\ \A q \in Regs : HeldBy(k, q)' <=> HeldBy(k, q)
        /\ KeptDone(k)' <=> KeptDone(k)
    BY <2>1 DEF HeldBy, KeptDone
  <2>3. ASSUME NEW q \in Regs, KeyOf[q] = k
        PROVE  RegOK(k, q)'
    BY <1>1, <1>2, <1>3, <1>4, <2>1, <2>2, <2>3 DEF RequestOK, RegOK
  <2>4. InputFits(k)'
    BY <1>1, <1>2, <1>3, <2>1, <2>2 DEF RequestOK, InputFits
  <2>5. ASSUME NEW p \in Procs, task'[p][k] # None
        PROVE  TaskFits(k, task[p][k])'
    <3>1. task'[p][k] = task[p][k] /\ reg'[task[p][k].job] = reg[task[p][k].job]
      BY <1>1, <1>3, <1>6, <2>5
    <3>2. PICK j \in Regs : j = task[p][k].job
      BY <1>1, <1>6, <2>5
    <3>3. (Unfinished(j)' <=> Unfinished(j)) /\ (HeldBy(k, j)' <=> HeldBy(k, j))
      BY <1>2, <2>2
    <3>4. TaskFits(k, task[p][k])
      BY <1>1, <1>6, <2>5
    <3>5. QED
      BY <1>2, <2>1, <2>2, <3>1, <3>2, <3>3, <3>4 DEF TaskFits
  <2>6. QED
    BY <1>1, <1>5, <2>3, <2>4, <2>5 DEF RequestOK
<1>8. CASE input[k] = None
  <2>1. input'[k] = [state |-> "queued", reg |-> r, result |-> None]
        /\ reg'[r] = "saved"
    BY <1>1, <1>8 DEF SaveInput, TypeInv, CtrlOK, StoresOK, InputOK
  <2>2. input'[k] # None
    <3>1. input'[k] \in Input
      BY <2>1 DEF Input
    <3>2. QED
      BY <3>1, NoneOK
  <2>3. HeldBy(k, r)' /\ ~KeptDone(k)'
    BY <2>1, <2>2 DEF HeldBy, KeptDone
  <2>4. \A q \in Regs : KeyOf[q] = k => ~Unfinished(q) /\ reg[q] \notin {"saved", "undo"}
    BY <1>8 DEF RequestOK, RegOK, HeldBy
  <2>5. ASSUME NEW q \in Regs, KeyOf[q] = k
        PROVE  RegOK(k, q)'
    <3>1. RegOK(k, q)
      BY <2>5 DEF RequestOK
    <3>2. QED
      BY <1>2, <1>3, <1>4, <2>1, <2>3, <2>4, <2>5, <3>1 DEF RegOK
  <2>6. InputFits(k)'
    BY <2>1, <2>3 DEF InputFits
  <2>7. ASSUME NEW p \in Procs, task'[p][k] # None
        PROVE  TaskFits(k, task[p][k])'
    <3> DEFINE t == task[p][k]
    <3>1. task'[p][k] = t /\ reg'[t.job] = reg[t.job] /\ TaskFits(k, t) /\ t \in Task
          /\ t # None
      BY <1>1, <1>3, <1>6, <2>7
    <3>2. PICK j \in Regs : j = t.job /\ KeyOf[j] = k
      BY <1>1, <1>6, <2>7
    <3>3. ~Unfinished(j) /\ ~Unfinished(j)'
      BY <1>2, <2>4, <3>2
    <3>4. Ended(j)
      BY <1>1, <3>1, <3>2, <3>3 DEF RequestOK, RegOK, TaskFits, Ended
    <3>5. t.pc \notin {"claim", "insert", "cas", "load"}
      BY <1>1, <3>1, <3>2, <3>4 DEF StalePick
    <3>6. t.pc \in {"lookup", "release"}
      BY <1>8, <3>1, <3>5 DEF TaskFits, Executing, HeldBy, Task, TaskPCs
    <3>7. QED
      BY <3>1, <3>2, <3>3, <3>6 DEF TaskFits, Picked, Executing
  <2>8. QED
    BY <1>1, <1>5, <2>5, <2>6, <2>7 DEF RequestOK
<1>9. QED
  BY <1>7, <1>8

\* The START row makes the job; the input is there already.
LEMMA StartRequest ==
  ASSUME Sheltered, TypeInv, JournalOK, NEW r \in Regs, WriteStart(r),
         RequestOK(KeyOf[r])
  PROVE  RequestOK(KeyOf[r])'
<1> DEFINE k == KeyOf[r]
<1>1. /\ k \in Keys /\ UNCHANGED <<input, snap, task>> /\ reg[r] = "saved"
      /\ rows \in Seq(Row)
  BY ConstantsOK DEF WriteStart, ctrl, TypeInv, StoresOK
<1>2. /\ HeldBy(k, r) /\ StartOf(r) = {} /\ input[k].state = "queued"
      /\ ~Unfinished(r)
  BY <1>1, Registering
<1>3. \A q \in Regs : KeyOf[q] = k /\ q # r =>
        ~Unfinished(q) /\ reg[q] \notin {"saved", "undo"}
  BY <1>1, Registering
<1>4. \A p \in Procs : \A j \in snap[p] : KeyOf[j] # k
  BY <1>1, Registering
<1>5. \A p \in Procs : task[p][k] # None =>
        /\ task[p][k].job # r /\ ~Unfinished(task[p][k].job)
        /\ task[p][k].pc \in {"lookup", "release"}
  BY <1>1, Registering
<1>6. \A q \in Regs : q # r => reg'[q] = reg[q]
  BY DEF WriteStart, TypeInv, CtrlOK
<1>7. /\ \A q \in Regs : HeldBy(k, q)' <=> HeldBy(k, q)
      /\ ~KeptDone(k)'
  BY <1>1, <1>2 DEF HeldBy, KeptDone
<1>8. /\ \/ reg'[r] = "accepted" /\ StartOf(r)' # {}
         \/ reg'[r] = "undo" /\ StartOf(r)' = {} /\ ~Unfinished(r)'
      /\ \A q \in Regs : q # r =>
           StartOf(q)' = StartOf(q) /\ (Unfinished(q)' <=> Unfinished(q))
  <2>1. CASE Log("START", r, r) /\ reg' = [reg EXCEPT ![r] = "accepted"]
    <3>1. reg'[r] = "accepted"
      BY <2>1 DEF TypeInv, CtrlOK
    <3>2. QED
      BY <1>1, <2>1, <3>1, OpensStart
  <2>2. CASE UNCHANGED rows /\ reg' = [reg EXCEPT ![r] = "undo"]
    <3>1. reg'[r] = "undo"
      BY <2>2 DEF TypeInv, CtrlOK
    <3>2. \A q : StartOf(q)' = StartOf(q) /\ (Unfinished(q)' <=> Unfinished(q))
      BY <2>2, JournalSame
    <3>3. QED
      BY <1>2, <3>1, <3>2
  <2>3. QED
    BY <2>1, <2>2 DEF WriteStart, Fault, Sheltered
<1>9. ASSUME NEW q \in Regs, KeyOf[q] = k
      PROVE  RegOK(k, q)'
  <2>1. RegOK(k, q)
    BY <1>9 DEF RequestOK
  <2>2. CASE q = r
    BY <1>2, <1>7, <1>8, <2>2 DEF RegOK
  <2>3. CASE q # r
    BY <1>6, <1>7, <1>8, <2>1, <2>3 DEF RegOK
  <2>4. QED
    BY <2>2, <2>3
<1>10. InputFits(k)'
  BY <1>1, <1>2, <1>7 DEF RequestOK, InputFits, HeldBy
<1>11. ASSUME NEW p \in Procs, task'[p][k] # None
       PROVE  TaskFits(k, task[p][k])'
  <2> DEFINE t == task[p][k]
  <2>1. t # None /\ t \in Task /\ TaskFits(k, t)
    BY <1>1, <1>11, Current DEF RequestOK, TypeInv
  <2>2. PICK j \in Regs : j = t.job
    BY <2>1 DEF Task
  <2>3. j # r /\ ~Unfinished(j)' /\ reg'[j] = reg[j]
    BY <1>5, <1>6, <1>8, <2>1, <2>2
  <2>4. t.pc \in {"lookup", "release"}
    BY <1>5, <2>1
  <2>5. QED
    BY <1>1, <2>1, <2>2, <2>3, <2>4 DEF TaskFits, Picked, Executing
<1>12. QED
  BY <1>1, <1>4, <1>9, <1>10, <1>11 DEF RequestOK

\* A registration that comes to nothing: the input is taken back, or stays.
LEMMA UndoRequest ==
  ASSUME Sheltered, TypeInv, NEW r \in Regs, UndoInput(r) \/ ApiCrash(r),
         RequestOK(KeyOf[r])
  PROVE  RequestOK(KeyOf[r])'
<1> DEFINE k == KeyOf[r]
<1>1. /\ k \in Keys /\ UNCHANGED <<rows, snap, task>> /\ reg[r] \in {"saved", "undo"}
  BY ConstantsOK DEF UndoInput, ApiCrash, ctrl, stores
<1>2. /\ HeldBy(k, r) /\ StartOf(r) = {} /\ input[k].state = "queued"
      /\ ~Unfinished(r)
  BY <1>1, Registering
<1>3. \A q \in Regs : KeyOf[q] = k /\ q # r =>
        ~Unfinished(q) /\ reg[q] \notin {"saved", "undo"}
  BY <1>1, Registering
<1>4. \A p \in Procs : \A j \in snap[p] : KeyOf[j] # k
  BY <1>1, Registering
<1>5. \A p \in Procs : task[p][k] # None =>
        /\ task[p][k].job # r /\ ~Unfinished(task[p][k].job)
        /\ task[p][k].pc \in {"lookup", "release"}
  BY <1>1, Registering
<1>6. /\ \A q \in Regs : q # r => reg'[q] = reg[q]
      /\ reg'[r] = "error"
  BY DEF UndoInput, ApiCrash, TypeInv, CtrlOK
<1>7. \A q : StartOf(q)' = StartOf(q) /\ (Unfinished(q)' <=> Unfinished(q))
  BY <1>1, JournalSame
<1>8. input'[k] \in {None, input[k]}
  BY <1>1 DEF UndoInput, ApiCrash, stores, TypeInv, StoresOK, InputOK
<1>9. ASSUME NEW q \in Regs, KeyOf[q] = k
      PROVE  RegOK(k, q)'
  <2>1. RegOK(k, q) /\ ~Unfinished(q)'
    BY <1>2, <1>3, <1>7, <1>9 DEF RequestOK
  <2>2. reg'[q] \notin {"saved", "undo"}
    BY <1>3, <1>6, <1>9
  <2>3. (reg'[q] = "accepted") <=> (reg[q] = "accepted")
    BY <1>1, <1>6
  <2>4. QED
    BY <1>7, <2>1, <2>2, <2>3 DEF RegOK
<1>10. InputFits(k)'
  <2>1. CASE input'[k] = None
    BY <2>1 DEF InputFits, KeptDone
  <2>2. CASE input'[k] = input[k]
    BY <1>1, <1>2, <1>6, <2>2 DEF InputFits, KeptDone, HeldBy
  <2>3. QED
    BY <1>8, <2>1, <2>2
<1>11. ASSUME NEW p \in Procs, task'[p][k] # None
       PROVE  TaskFits(k, task[p][k])'
  <2> DEFINE t == task[p][k]
  <2>1. t # None /\ t \in Task /\ TaskFits(k, t)
    BY <1>1, <1>11, Current DEF RequestOK, TypeInv
  <2>2. PICK j \in Regs : j = t.job
    BY <2>1 DEF Task
  <2>3. j # r /\ ~Unfinished(j)' /\ reg'[j] = reg[j]
    BY <1>5, <1>6, <1>7, <2>1, <2>2
  <2>4. t.pc \in {"lookup", "release"}
    BY <1>5, <2>1
  <2>5. QED
    BY <1>1, <2>1, <2>2, <2>3, <2>4 DEF TaskFits, Picked, Executing
<1>12. QED
  BY <1>1, <1>4, <1>9, <1>10, <1>11 DEF RequestOK

LEMMA RegisterElsewhere ==
  ASSUME TypeInv, JournalOK, NEW r \in Regs, Register(r), NEW l \in Keys, l # KeyOf[r]
  PROVE  RegsStay(l) /\ LastRow(l)' = LastRow(l) /\ input'[l] = input[l]
<1>1. rows' = rows \/ Log("START", r, r)
  BY DEF Register, SaveInput, WriteStart, UndoInput, ApiCrash, stores
<1>2. rows \in Seq(Row)
  BY DEF TypeInv, StoresOK
<1>3. input'[l] = input[l]
  BY DEF Register, SaveInput, WriteStart, UndoInput, ApiCrash, stores,
         TypeInv, StoresOK, InputOK
<1>4. \A q \in Regs : q # r => reg'[q] = reg[q]
  BY DEF Register, SaveInput, WriteStart, UndoInput, ApiCrash, TypeInv, CtrlOK
<1>5. LastRow(l)' = LastRow(l)
      /\ \A q \in Regs : q # r =>
           StartOf(q)' = StartOf(q) /\ (Unfinished(q)' <=> Unfinished(q))
  BY <1>1, <1>2, JournalSame, LastAfter, OpensStart
<1>6. RegsStay(l)
  BY <1>4, <1>5 DEF RegsStay
<1>7. QED
  BY <1>3, <1>5, <1>6

LEMMA RegisterProtocol ==
  ASSUME Sheltered, TypeInv, Protocol, NEW r \in Regs, Register(r)
  PROVE  Protocol'
<1>1. UNCHANGED <<proc, loop, snap, task>>
  BY DEF Register, SaveInput, WriteStart, UndoInput, ApiCrash, ctrl
<1>2. OneController'
  BY <1>1 DEF Protocol, OneController, Alive
<1>3. rows' = rows \/ Log("START", r, r)
  BY DEF Register, SaveInput, WriteStart, UndoInput, ApiCrash, stores
<1>4. rows \in Seq(Row) /\ JournalOK
  BY DEF TypeInv, StoresOK, Protocol
<1>5. JournalOK'
  BY <1>3, <1>4, JournalSame, JournalGrows
<1>6. ASSUME NEW l \in Keys
      PROVE  RequestOK(l)'
  <2>1. RequestOK(l)
    BY DEF Protocol
  <2>2. CASE l = KeyOf[r]
    BY <1>4, <2>1, <2>2, SaveRequest, StartRequest, UndoRequest DEF Register
  <2>3. CASE l # KeyOf[r]
    BY <1>1, <1>4, <2>1, <2>3, RegisterElsewhere, RequestSame
  <2>4. QED
    BY <2>2, <2>3
<1>7. QED
  BY <1>2, <1>5, <1>6 DEF Protocol

-----------------------------------------------------------------------------
(* The controllers *)

\* What every action of a controller leaves alone
LEMMA StoresSame ==
  ASSUME TypeInv, Protocol, UNCHANGED <<input, rows, reg>>
  PROVE  /\ JournalOK'
         /\ \A k \in Keys : RequestOK(k) /\ LastRow(k)' = LastRow(k) /\ RegsStay(k)
                            /\ input'[k] = input[k]
BY JournalSame, RegsSame DEF Protocol

LEMMA LifeProtocol ==
  ASSUME Sheltered, TypeInv, Protocol, NEW p \in Procs, Start(p) \/ Drain(p) \/ Exit(p)
  PROVE  Protocol'
<1>1. UNCHANGED <<input, rows, reg, loop, snap, task>>
  BY DEF Start, Drain, Exit, stores
<1>2. OneController'
  BY <1>1 DEF Start, Drain, Exit, Sheltered, Protocol, OneController, Alive,
              TypeInv, CtrlOK
<1>3. ASSUME NEW k \in Keys
      PROVE  RequestOK(k)'
  BY <1>1, StoresSame, RequestSame
<1>4. QED
  BY <1>1, <1>2, <1>3, StoresSame DEF Protocol

\* A controller that dies takes all that was picked with it.
LEMMA CrashProtocol ==
  ASSUME TypeInv, Protocol, NEW p \in Procs, Crash(p)
  PROVE  Protocol'
<1>1. UNCHANGED <<input, rows, reg>> /\ Alive(p)
  BY DEF Crash, stores
<1>2. \A q \in Procs : /\ snap'[q] = {} /\ loop'[q] = "poll"
                       /\ \A k \in Keys : task'[q][k] = None
  <2>1. \A q \in Procs : q # p => /\ snap[q] = {} /\ loop[q] = "poll"
                                  /\ \A k \in Keys : task[q][k] = None
    BY <1>1 DEF Protocol, OneController
  <2>2. /\ loop' = [loop EXCEPT ![p] = "poll"] /\ snap' = [snap EXCEPT ![p] = {}]
        /\ task' = [task EXCEPT ![p] = [k \in Keys |-> None]]
    BY DEF Crash
  <2>3. QED
    BY <2>1, <2>2 DEF TypeInv, CtrlOK, TasksOK
<1>3. OneController'
  BY <1>2 DEF Crash, Protocol, OneController, Alive, TypeInv, CtrlOK
<1>4. ASSUME NEW k \in Keys
      PROVE  RequestOK(k)'
  <2>1. RequestOK(k) /\ LastRow(k)' = LastRow(k) /\ RegsStay(k) /\ input'[k] = input[k]
    BY <1>1, StoresSame
  <2>2. /\ \A r \in Regs : HeldBy(k, r)' <=> HeldBy(k, r)
        /\ KeptDone(k)' <=> KeptDone(k)
    BY <2>1 DEF HeldBy, KeptDone
  <2>3. ASSUME NEW r \in Regs, KeyOf[r] = k
        PROVE  RegOK(k, r)'
    BY <2>1, <2>2, <2>3 DEF RequestOK, RegOK, RegsStay
  <2>4. InputFits(k)'
    BY <2>1, <2>2 DEF RequestOK, InputFits, RegsStay, KeptDone
  <2>5. QED
    BY <1>2, <2>3, <2>4 DEF RequestOK
<1>5. QED
  BY <1>1, <1>3, <1>4, StoresSame DEF Protocol

\* The poll lists the open jobs.
LEMMA PollProtocol ==
  ASSUME TypeInv, Protocol, NEW p \in Procs, Poll(p)
  PROVE  Protocol'
<1>1. UNCHANGED <<input, rows, reg, proc, task>> /\ Alive(p)
  BY DEF Poll, stores, Alive
<1>2. /\ snap'[p] = {j \in Regs : Unfinished(j)} /\ loop'[p] = "dispatch"
      /\ \A q \in Procs : q # p => snap'[q] = snap[q] /\ loop'[q] = loop[q]
  BY DEF Poll, TypeInv, CtrlOK
<1>3. OneController'
  BY <1>1, <1>2 DEF Protocol, OneController, Alive
<1>4. ASSUME NEW k \in Keys
      PROVE  RequestOK(k)'
  <2>1. RequestOK(k) /\ LastRow(k)' = LastRow(k) /\ RegsStay(k) /\ input'[k] = input[k]
    BY <1>1, StoresSame
  <2>2. /\ \A r \in Regs : HeldBy(k, r)' <=> HeldBy(k, r)
        /\ KeptDone(k)' <=> KeptDone(k)
    BY <2>1 DEF HeldBy, KeptDone
  <2>3. ASSUME NEW r \in Regs, KeyOf[r] = k
        PROVE  RegOK(k, r)'
    BY <2>1, <2>2, <2>3 DEF RequestOK, RegOK, RegsStay
  <2>4. InputFits(k)'
    BY <2>1, <2>2 DEF RequestOK, InputFits, RegsStay, KeptDone
  <2>5. ASSUME NEW q \in Procs, NEW j \in snap'[q], KeyOf[j] = k
        PROVE  SnapFits(k, q, j)'
    <3>1. CASE q = p
      <4>1. j \in Regs /\ Unfinished(j) /\ RegOK(k, j)
        BY <1>2, <2>1, <2>5, <3>1 DEF RequestOK
      <4>2. StartOf(j) # {}
        BY <4>1 DEF Unfinished
      <4>3. QED
        BY <1>1, <2>1, <2>2, <2>5, <4>1, <4>2 DEF SnapFits, RegOK, RegsStay
    <3>2. CASE q # p
      <4>1. j \in snap[q] /\ j \in Regs /\ SnapFits(k, q, j)
        BY <1>2, <2>1, <2>5, <3>2 DEF RequestOK, TypeInv, CtrlOK
      <4>2. QED
        BY <1>1, <2>1, <2>2, <2>5, <4>1 DEF SnapFits, RegsStay
    <3>3. QED
      BY <3>1, <3>2
  <2>6. ASSUME NEW q \in Procs, task'[q][k] # None
        PROVE  TaskFits(k, task[q][k])'
    <3>1. /\ task[q][k] \in Task /\ KeyOf[task[q][k].job] = k
          /\ TaskFits(k, task[q][k]) /\ task'[q][k] = task[q][k]
      BY <1>1, <2>1, <2>6, Current DEF RequestOK, TypeInv, TaskOK
    <3>2. QED
      BY <2>1, <3>1, TaskFitsSame
  <2>7. QED
    BY <2>3, <2>4, <2>5, <2>6 DEF RequestOK
<1>5. QED
  BY <1>1, <1>3, <1>4, StoresSame DEF Protocol

\* A listed job whose key no worker has is open, or gone with its input, or its
\* result is there.
LEMMA DispatchProtocol ==
  ASSUME TypeInv, Protocol, NEW p \in Procs, Dispatch(p)
  PROVE  Protocol'
<1>1. UNCHANGED <<input, rows, reg, proc, loop>> /\ Alive(p)
  BY DEF Dispatch, stores, Protocol, OneController
<1>2. PICK j \in snap[p] :
        /\ snap' = [snap EXCEPT ![p] = @ \ {j}]
        /\ \/ task' = task
           \/ task[p][KeyOf[j]] = None /\ Become(p, KeyOf[j], NewTask(j))
  <2>1. PICK j \in snap[p] :
          /\ snap' = [snap EXCEPT ![p] = @ \ {j}]
          /\ \/ task' = task
             \/ KeyOf[j] \notin Running(p) /\ Become(p, KeyOf[j], NewTask(j))
    BY DEF Dispatch, Become
  <2>2. KeyOf[j] \in Keys
    BY ConstantsOK DEF TypeInv, CtrlOK
  <2>3. QED
    BY <2>1, <2>2 DEF Running
<1>3. j \in Regs /\ KeyOf[j] \in Keys
  BY ConstantsOK DEF TypeInv, CtrlOK
<1>4. /\ snap'[p] = snap[p] \ {j}
      /\ \A q \in Procs : snap'[q] \subseteq snap[q]
  BY <1>2 DEF TypeInv, CtrlOK
<1>5. \A q \in Procs, l \in Keys : q # p \/ l # KeyOf[j] => task'[q][l] = task[q][l]
  BY <1>2, <1>3, Moved DEF Moves
<1>6. OneController'
  BY <1>1, <1>4, <1>5 DEF Protocol, OneController, Alive
<1>7. ASSUME NEW k \in Keys
      PROVE  RequestOK(k)'
  <2>1. RequestOK(k) /\ LastRow(k)' = LastRow(k) /\ RegsStay(k) /\ input'[k] = input[k]
    BY <1>1, StoresSame
  <2>2. CASE k # KeyOf[j] \/ task' = task
    BY <1>4, <1>5, <2>1, <2>2, RequestSame
  <2>3. CASE k = KeyOf[j] /\ task[p][k] = None /\ Become(p, k, NewTask(j))
    <3>1. /\ \A r \in Regs : HeldBy(k, r)' <=> HeldBy(k, r)
          /\ KeptDone(k)' <=> KeptDone(k)
      BY <2>1 DEF HeldBy, KeptDone
    <3>2. ASSUME NEW r \in Regs, KeyOf[r] = k
          PROVE  RegOK(k, r)'
      BY <2>1, <3>1, <3>2 DEF RequestOK, RegOK, RegsStay
    <3>3. InputFits(k)'
      BY <2>1, <3>1 DEF RequestOK, InputFits, RegsStay, KeptDone
    <3>4. task'[p][k] = NewTask(j)
      BY <2>3, Moved
    <3>5. ASSUME NEW q \in Procs, q # p
          PROVE  task'[q][k] = None /\ snap'[q] = {}
      BY <1>1, <1>4, <1>5, <3>5 DEF Protocol, OneController
    <3>6. ASSUME NEW q \in Procs, NEW i \in snap'[q], KeyOf[i] = k
          PROVE  SnapFits(k, q, i)'
      <4>1. q = p /\ i \in snap[p] /\ i \in Regs /\ SnapFits(k, p, i)
        BY <1>4, <2>1, <3>5, <3>6 DEF RequestOK, TypeInv, CtrlOK
      <4>2. QED
        BY <1>1, <2>1, <2>3, <3>1, <3>6, <4>1 DEF SnapFits, RegsStay
    <3>7. TaskFits(k, task[p][k])'
      <4>1. SnapFits(k, p, j) /\ task[p][k] = None
        BY <2>1, <2>3 DEF RequestOK
      <4>2. NewTask(j).pc = "claim" /\ NewTask(j).job = j
        BY DEF NewTask
      <4>3. (Unfinished(j)' <=> Unfinished(j)) /\ (HeldBy(k, j)' <=> HeldBy(k, j))
        BY <1>3, <2>1, <2>3, <3>1 DEF RegsStay
      <4>4. QED
        BY <1>1, <2>1, <3>1, <3>4, <4>1, <4>2, <4>3 DEF TaskFits, SnapFits, Executing
    <3>8. QED
      BY <3>2, <3>3, <3>5, <3>6, <3>7 DEF RequestOK
  <2>4. QED
    BY <1>2, <2>2, <2>3
<1>8. QED
  BY <1>1, <1>6, <1>7, StoresSame DEF Protocol

LEMMA ElseProtocol ==
  ASSUME TypeInv, Protocol,
         \/ \E p \in Procs : Renew(p)
         \/ \E j \in Regs : Expire(j)
         \/ UNCHANGED vars
  PROVE  Protocol'
<1>1. UNCHANGED <<input, rows, reg, proc, snap, task>>
  BY DEF Renew, Expire, vars, ctrl
<1>2. OneController'
  <2>1. CASE UNCHANGED loop
    BY <1>1, <2>1 DEF Protocol, OneController, Alive
  <2>2. ASSUME NEW p \in Procs, Renew(p)
        PROVE  OneController'
    BY <1>1, <2>2 DEF Renew, Protocol, OneController, Alive, TypeInv, CtrlOK
  <2>3. QED
    BY <2>1, <2>2 DEF Expire, vars, ctrl
<1>3. ASSUME NEW k \in Keys
      PROVE  RequestOK(k)'
  BY <1>1, StoresSame, RequestSame
<1>4. QED
  BY <1>1, <1>2, <1>3, StoresSame DEF Protocol

LEMMA InitProtocol == Init => Protocol
<1> SUFFICES ASSUME Init
             PROVE  Protocol
  OBVIOUS
<1>1. \A r \in Regs : StartOf(r) = {} /\ ~Unfinished(r)
  BY DEF Init, StartOf, Unfinished
<1>2. OneController
  BY DEF Init, OneController, Alive
<1>3. JournalOK
  BY DEF Init, JournalOK, Mine
<1>4. ASSUME NEW k \in Keys
      PROVE  RequestOK(k)
  BY <1>1 DEF Init, RequestOK, RegOK, InputFits, HeldBy, KeptDone
<1>5. QED
  BY <1>2, <1>3, <1>4 DEF Protocol

LEMMA NextProtocol ==
  ASSUME Sheltered
  PROVE  TypeInv /\ Protocol /\ [Next]_vars => Protocol'
BY RegisterProtocol, LifeProtocol, CrashProtocol, PollProtocol, DispatchProtocol,
   WorkProtocol, ElseProtocol DEF Next, Loop

LEMMA ProtocolKept ==
  ASSUME Sheltered
  PROVE  Spec => []Protocol
BY InitProtocol, NextProtocol, TypeInvariant, PTL DEF Spec

-----------------------------------------------------------------------------
(* What follows for the verdicts *)

LEMMA WorkEffects ==
  ASSUME TypeInv, Protocol, NEW p \in Procs, NEW k \in Keys, Work(p, k),
         NEW r \in Regs, Ended(r)
  PROVE  effects'[r] = effects[r]
<1> DEFINE t == task[p][k]
<1>1. CASE effects' = effects
  BY <1>1
<1>2. CASE \/ StepSucceeds(p, k) \/ StepFails(p, k) \/ StepDegrades(p, k)
           \/ StepRewinds(p, k) \/ Compensate(p, k)
  <2>1. t # None /\ t.pc \in {"run", "compensate"}
    BY <1>2 DEF StepSucceeds, StepFails, StepDegrades, StepRewinds, Compensate, At
  <2>2. TaskFits(k, t)
    BY <2>1 DEF Protocol, RequestOK
  <2>3. Unfinished(t.job) /\ t.reg = t.job
    BY <2>1, <2>2 DEF TaskFits, Executing
  <2>4. t.reg # r
    BY <2>3 DEF Ended
  <2>5. effects' = effects \/ \E e : effects' = [effects EXCEPT ![t.reg] = e]
    BY <1>2 DEF StepSucceeds, StepFails, StepDegrades, StepRewinds, Compensate,
                CleansUp
  <2>6. QED
    BY <2>4, <2>5 DEF TypeInv, StoresOK
<1>3. QED
  BY <1>1, <1>2 DEF Work, ClaimRead, ClaimInsert, ClaimCas, LoadInput, LookupEnd,
     MarkRead, MarkRunning, RecordStep, StepsDone, WriteEnd, KeepResult, FreeInput,
     Release, stores

\* However the controllers crash, stall and resume, and whatever list a job was
\* picked from: once its end row is written no step of it runs any more, and
\* nothing is compensated (run_job after _finish_job, the poll, the lease).
THEOREM NothingAfterVerdict ==
  ASSUME Sheltered
  PROVE  Spec => NoEffectAfterVerdict
<1>1. TypeInv /\ Protocol /\ [Next]_vars
      => [\A r \in Regs : Ended(r) => effects'[r] = effects[r]]_vars
  <2>1. SUFFICES ASSUME TypeInv, Protocol, [Next]_vars, NEW r \in Regs, Ended(r)
                 PROVE  effects'[r] = effects[r]
    OBVIOUS
  <2>2. CASE \E p \in Procs, k \in Keys : Work(p, k)
    BY <2>1, <2>2, WorkEffects
  <2>3. CASE ~\E p \in Procs, k \in Keys : Work(p, k)
    BY <2>1, <2>3 DEF Next, Register, SaveInput, WriteStart, UndoInput, ApiCrash,
       Start, Crash, Drain, Exit, Loop, Poll, Dispatch, Renew, Expire, stores, vars
  <2>4. QED
    BY <2>2, <2>3
<1>2. QED
  BY <1>1, ProtocolKept, TypeInvariant, PTL DEF Spec, NoEffectAfterVerdict

\* A lease, and the progress saved in it, is dropped by _release_lease alone, and
\* only when the end row is there or the result waits in the input.
THEOREM ReleasedWhenAnswered ==
  ASSUME Sheltered
  PROVE  Spec => ReleasedOnlyWhenAnswered
<1> DEFINE Kept == \A j \in Regs : lease[j] # None /\ lease'[j] = None =>
                     \/ Ended(j)
                     \/ input[KeyOf[j]] # None /\ input[KeyOf[j]].state = "done"
<1>1. TypeInv /\ Protocol /\ [Next]_vars => [Kept]_vars
  <2>1. SUFFICES ASSUME TypeInv, Protocol, [Next]_vars, NEW j \in Regs,
                        lease[j] # None, lease'[j] = None
                 PROVE  \/ Ended(j)
                        \/ input[KeyOf[j]] # None /\ input[KeyOf[j]].state = "done"
    OBVIOUS
  <2>2. lease[j] \in Lease
    BY <2>1 DEF TypeInv, StoresOK
  <2>3. ASSUME NEW i \in Regs, NEW b \in BOOLEAN
        PROVE  [lease[j] EXCEPT !.live = b] # None
    <3>1. [lease[j] EXCEPT !.live = b] \in Lease
      BY <2>2 DEF Lease
    <3>2. QED
      BY <3>1, NoneOK
  <2>4. ~\E i \in Regs : Expire(i)
    BY <2>1, <2>2, <2>3 DEF Expire, TypeInv, StoresOK
  <2>5. ~\E p \in Procs : Renew(p)
    BY <2>1, <2>2, <2>3 DEF Renew
  <2>6. PICK p \in Procs, k \in Keys : Work(p, k)
    BY <2>1, <2>4, <2>5 DEF Next, Register, SaveInput, WriteStart, UndoInput,
       ApiCrash, Start, Crash, Drain, Exit, Loop, Poll, Dispatch, stores, vars
  <2>7. CASE Release(p, k) /\ lease' # lease
    <3> DEFINE t == task[p][k]
    <3>1. t # None /\ t.pc = "release" /\ t.job = j
      BY <2>1, <2>7 DEF Release, At, TypeInv, StoresOK
    <3>2. TaskFits(k, t) /\ KeyOf[j] = k /\ RegOK(k, j)
      BY <3>1, Current, <2>1 DEF Protocol, RequestOK, TypeInv, TaskOK
    <3>3. QED
      BY <3>1, <3>2 DEF TaskFits, RegOK, Ended, KeptDone
  <2>8. CASE ClaimInsert(p, k)
    BY <2>1, <2>8 DEF ClaimInsert, TypeInv, StoresOK
  <2>9. CASE ClaimCas(p, k)
    <3>1. [lease[j] EXCEPT !.owner = p, !.live = TRUE] \in Lease
      BY <2>2 DEF Lease
    <3>2. PICK i \in Regs :
            \/ lease' = lease
            \/ lease' = [lease EXCEPT ![i].owner = p, ![i].live = TRUE]
      <4>1. task[p][k] \in Task
        BY <2>1, <2>9, Current DEF ClaimCas, At, TypeInv
      <4>2. QED
        BY <2>9, <4>1 DEF ClaimCas, Task
    <3>3. CASE i # j \/ lease' = lease
      BY <2>1, <3>2, <3>3 DEF TypeInv, StoresOK
    <3>4. CASE lease' = [lease EXCEPT ![j].owner = p, ![j].live = TRUE]
      <4>1. lease'[j] = [lease[j] EXCEPT !.owner = p, !.live = TRUE]
        BY <2>1, <2>2, <3>4 DEF TypeInv, StoresOK, Lease
      <4>2. QED
        BY <2>1, <3>1, <4>1, NoneOK
    <3>5. QED
      BY <3>2, <3>3, <3>4
  <2>10. CASE RecordStep(p, k)
    <3> DEFINE t == task[p][k]
    <3>1. t \in Task /\ t.pc \in {"record", "rewound"} /\ TaskOK(k, t)
      BY <2>1, <2>10, Current DEF RecordStep, At, TypeInv
    <3>2. NewDone(t) \in SUBSET Steps
      BY <3>1 DEF NewDone, TaskOK, Task
    <3>3. [lease[j] EXCEPT !.done = NewDone(t)] \in Lease
      BY <2>2, <3>2 DEF Lease
    <3>4. PICK i \in Regs :
            lease' = lease \/ lease' = [lease EXCEPT ![i].done = NewDone(t)]
      BY <2>10, <3>1 DEF RecordStep, Task
    <3>5. lease'[j] = lease[j] \/ lease'[j] = [lease[j] EXCEPT !.done = NewDone(t)]
      BY <2>1, <3>4 DEF TypeInv, StoresOK
    <3>6. QED
      BY <2>1, <3>3, <3>5, NoneOK
  <2>11. CASE UNCHANGED lease
    BY <2>1, <2>11
  <2>12. QED
    BY <2>6, <2>7, <2>8, <2>9, <2>10, <2>11
       DEF Work, ClaimRead, LoadInput, LookupEnd, MarkRead, MarkRunning,
           StepSucceeds, StepFails, StepDegrades, StepRewinds, StepsDone,
           Compensate, WriteEnd, KeepResult, FreeInput, stores
<1>2. QED
  BY <1>1, ProtocolKept, TypeInvariant, PTL DEF Spec, ReleasedOnlyWhenAnswered

-----------------------------------------------------------------------------
(* The refinement of JobService: what GET /operations reports *)

LEMMA StatusMoves ==
  ASSUME TypeInv, JournalOK, NEW ph, NEW j \in Regs, NEW r, Log(ph, j, r)
  PROVE  statusBar' = [statusBar EXCEPT ![KeyOf[j]] =
                         IF ph = "START" THEN "accepted" ELSE ph]
<1>1. rows \in Seq(Row) /\ KeyOf[j] \in Keys
  BY ConstantsOK DEF TypeInv, StoresOK
<1>2. ASSUME NEW k \in Keys
      PROVE  LastRow(k)' = IF KeyOf[j] # k THEN LastRow(k)
                           ELSE IF ph = "START" THEN "accepted" ELSE ph
  BY <1>1, LastAfter
<1>3. QED
  BY <1>1, <1>2 DEF statusBar

\* A START row accepts a request that is not accepted already.
LEMMA StartAccepts ==
  ASSUME Sheltered, TypeInv, Protocol, NEW r \in Regs, Log("START", r, r),
         reg[r] = "saved"
  PROVE  Service!Accept(KeyOf[r])
<1>1. KeyOf[r] \in Keys /\ RequestOK(KeyOf[r]) /\ JournalOK
  BY ConstantsOK DEF Protocol
<1>2. \A q \in Regs : KeyOf[q] = KeyOf[r] => ~Unfinished(q)
  BY <1>1, Registering
<1>3. LastRow(KeyOf[r]) # "accepted"
  BY <1>1, <1>2, OpenMeans
<1>4. statusBar' = [statusBar EXCEPT ![KeyOf[r]] = "accepted"]
  BY <1>1, StatusMoves
<1>5. QED
  BY <1>1, <1>3, <1>4 DEF Service!Accept, statusBar

\* An end row answers the open request, or repeats the answer it has.
LEMMA EndConcludes ==
  ASSUME TypeInv, Protocol, NEW p \in Procs, NEW k \in Keys, At(p, k, "end"),
         Log(task[p][k].out, task[p][k].job, task[p][k].reg)
  PROVE  Service!Conclude(k) \/ UNCHANGED statusBar
<1> DEFINE t == task[p][k]
<1>1. /\ t \in Task /\ KeyOf[t.job] = k /\ t.out \in Verdicts /\ TaskFits(k, t)
      /\ InputFits(k) /\ JournalOK
  BY Current DEF At, TypeInv, TaskOK, Closing, Protocol, RequestOK
<1>2. PICK v \in Verdicts, j \in Regs : v = t.out /\ j = t.job
  BY <1>1 DEF Task
<1>3. statusBar' = [statusBar EXCEPT ![k] = v]
  BY <1>1, <1>2, StatusMoves DEF Verdicts
<1>4. CASE Unfinished(t.job)
  <2>1. statusBar[k] = "accepted"
    BY <1>1, <1>2, <1>4, OpenMeans DEF statusBar
  <2>2. QED
    BY <1>2, <1>3, <2>1 DEF Service!Conclude
<1>5. CASE ~Unfinished(t.job)
  <2>1. LastRow(k) = v
    BY <1>1, <1>2, <1>5 DEF At, TaskFits, InputFits, HeldBy
  <2>2. QED
    BY <1>3, <2>1 DEF statusBar
<1>6. QED
  BY <1>4, <1>5

LEMMA StatusNext ==
  ASSUME Sheltered, TypeInv, Protocol, [Next]_vars
  PROVE  [Service!Next]_statusBar
<1>1. CASE UNCHANGED rows
  BY <1>1, JournalSame DEF statusBar
<1>2. ASSUME NEW r \in Regs, WriteStart(r), rows' # rows
      PROVE  Service!Next
  <2>1. Log("START", r, r) /\ reg[r] = "saved"
    BY <1>2 DEF WriteStart
  <2>2. KeyOf[r] \in Keys
    BY ConstantsOK
  <2>3. QED
    BY <2>1, <2>2, StartAccepts DEF Service!Next
<1>3. ASSUME NEW p \in Procs, NEW k \in Keys, Work(p, k), rows' # rows
      PROVE  [Service!Next]_statusBar
  BY <1>3, WorkRows, EndConcludes DEF Service!Next
<1>4. QED
  BY <1>1, <1>2, <1>3
     DEF Next, Register, SaveInput, UndoInput, ApiCrash, Start, Crash, Drain, Exit,
         Loop, Poll, Dispatch, Renew, Expire, stores, vars

\* What GET /operations reports of a request goes from accepted to one verdict,
\* and changes again only when the request is registered again: the engine, with
\* its crashes, retries and resumed jobs, implements JobService.
THEOREM ServiceImplemented ==
  ASSUME Sheltered
  PROVE  Spec => ImplementsService
<1>1. Init => Service!Init
  <2>1. SUFFICES ASSUME Init, NEW k \in Keys
                 PROVE  LastRow(k) = "none"
    BY DEF Service!Init, statusBar
  <2>2. Mine(k) = {}
    BY <2>1 DEF Init, Mine
  <2>3. QED
    BY <2>2, LastNone
<1>2. TypeInv /\ Protocol /\ [Next]_vars => [Service!Next]_statusBar
  BY StatusNext
<1>3. QED
  BY <1>1, <1>2, ProtocolKept, TypeInvariant, PTL
     DEF Spec, ImplementsService, Service!Spec
=============================================================================
