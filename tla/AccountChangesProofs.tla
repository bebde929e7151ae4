------------------------ MODULE AccountChangesProofs ------------------------
(***************************************************************************)
(* For any number of access, port, migrate and password jobs of one        *)
(* account, with every failed call, crash and ended container: type        *)
(* correctness, and what the jobs promise about the account's Services     *)
(* and passwords.                                                          *)
(***************************************************************************)
EXTENDS AccountChanges, FiniteSetTheorems, TLAPS

AccessPCs   == {"list", "patch"}
PortPCs     == {"read", "allocate", "add"}
MovePCs     == {"inherit", "secret", "pod", "wait", "services", "service",
                "resume", "cleanServices", "cleanPod"}
PasswordPCs == {"ledger", "secrets", "hash", "pods", "exec"}

\* What a job is and holds at each point
JobOK(j, l) ==
  /\ l \in Local
  /\ l.pc # "new" => j \in mix /\ l.at \in 1..now
  /\ l.pc = "new" => l.at = 0 /\ ~l.blocked
  /\ l.pc \in AccessPCs => KindOf[j] \in Access
  /\ l.pc \in PortPCs => KindOf[j] = "port"
  /\ l.pc \in MovePCs => KindOf[j] = "migrate"
  /\ l.pc \in PasswordPCs => KindOf[j] = "password"
  /\ l.pc \in PasswordPCs \ {"ledger"} => l.hash \in Hashes
  /\ l.back => l.pc \in PasswordPCs /\ l.hash \in Hashes \ {j}

Pod == [st: {"none", "pending", "up", "down"},
        env: Hashes \cup {"none"}, shadow: Hashes \cup {"none"}]

Registered == {j \in Jobs : loc[j].pc # "new"}

\* Time passes only with a registration.
ClockOK == /\ mix \in Mixes
           /\ now \in 0..Cardinality(Jobs) /\ now <= Cardinality(Registered)
JobsOK  == /\ loc \in [Jobs -> Local]
           /\ \A j \in Jobs : JobOK(j, loc[j])
DataOK  == /\ svcs \subseteq Svc
           /\ ledger \in Hashes
           /\ secret \in [PodNames -> Hashes \cup {"none"}]
           /\ pods \in [PodNames -> Pod]
CountsOK == counts \in [crashes: 0..MaxCrashes, faults: 0..MaxFaults,
                        stops: 0..MaxStops]

TypeInv == ClockOK /\ JobsOK /\ DataOK /\ CountsOK

JobStep(j) == ReadFails(j) \/ Crash(j) \/ AccessJob(j) \/ PortJob(j)
              \/ MoveJob(j) \/ PasswordJob(j)

\* A job moves on to u, its registration as it is.
Onto(j, u) == JobOK(j, u) /\ u.pc # "new"
              /\ u.at = loc[j].at /\ u.blocked = loc[j].blocked

-----------------------------------------------------------------------------
(* The operators *)

LEMMA BlankType == Blank \in Local /\ NoPod \in Pod
<1>1. Cardinality(Jobs) \in Nat
  BY FS_CardinalityType, ConstantsOK
<1>2. "new" \in PCs
  BY DEF PCs
<1>3. 0 \in 0..Cardinality(Jobs) /\ 0 \in 0..MaxTries
  BY <1>1, ConstantsOK
<1>4. Blank \in Local
  BY <1>2, <1>3 DEF Blank, Local
<1>5. QED
  BY <1>4 DEF NoPod, Pod

LEMMA FreshType ==
  ASSUME TypeInv, NEW j \in Jobs, NEW pc \in PCs, NEW n \in 0..MaxTries
  PROVE  /\ Fresh(j, pc, n) \in Local
         /\ Fresh(j, pc, n).pc = pc /\ Fresh(j, pc, n).at = loc[j].at
         /\ Fresh(j, pc, n).blocked = loc[j].blocked
         /\ Fresh(j, pc, n).tries = n
         /\ ~Fresh(j, pc, n).back /\ Fresh(j, pc, n).hash = "none"
         /\ Fresh(j, pc, n).stale = {}
         /\ Fresh(j, pc, n).ports = IF KindOf[j] = "port" THEN loc[j].ports ELSE {}
         /\ Fresh(j, pc, n).todo = {} /\ ~Fresh(j, pc, n).bad
<1>1. loc[j] \in Local
  BY DEF TypeInv, JobsOK
<1>2. Blank \in Local
  BY BlankType
<1>3. /\ ~Blank.back /\ Blank.hash = "none" /\ Blank.stale = {}
      /\ Blank.ports = {} /\ Blank.todo = {} /\ ~Blank.bad
  BY DEF Blank
<1>4. Fresh(j, pc, n) \in Local
  BY <1>1, <1>2 DEF Fresh, Local
<1>5. QED
  BY <1>2, <1>3, <1>4 DEF Fresh, Local

\* Where Fresh leads, and with what.
LEMMA FreshOK ==
  ASSUME TypeInv, NEW j \in Jobs, loc[j].pc # "new",
         NEW pc \in PCs \ {"new"}, NEW n \in 0..MaxTries,
         pc \in Final \/ pc = loc[j].pc \/ pc = First(KindOf[j])
         \/ (pc \in AccessPCs /\ KindOf[j] \in Access)
         \/ (pc \in PortPCs /\ KindOf[j] = "port")
         \/ (pc \in MovePCs /\ KindOf[j] = "migrate")
         \/ (pc = "ledger" /\ KindOf[j] = "password"),
         pc \in PasswordPCs => pc = "ledger"
  PROVE  Onto(j, Fresh(j, pc, n))
<1>1. JobOK(j, loc[j])
  BY DEF TypeInv, JobsOK
<1>2. KindOf[j] \in Access \cup Serving \cup {"password"}
  BY ConstantsOK
<1>3. \/ KindOf[j] \in Access /\ First(KindOf[j]) = "list"
      \/ KindOf[j] = "port" /\ First(KindOf[j]) = "read"
      \/ KindOf[j] = "migrate" /\ First(KindOf[j]) = "inherit"
      \/ KindOf[j] = "password" /\ First(KindOf[j]) = "ledger"
  BY <1>2 DEF First, Access, Serving
<1>4. pc \in Final \/ (pc \in AccessPCs /\ KindOf[j] \in Access)
      \/ (pc \in PortPCs /\ KindOf[j] = "port")
      \/ (pc \in MovePCs /\ KindOf[j] = "migrate")
      \/ (pc = "ledger" /\ KindOf[j] = "password")
  BY <1>1, <1>3 DEF JobOK, AccessPCs, PortPCs, MovePCs, PasswordPCs, PCs
<1>5. /\ Fresh(j, pc, n) \in Local /\ Fresh(j, pc, n).pc = pc
      /\ Fresh(j, pc, n).at = loc[j].at /\ ~Fresh(j, pc, n).back
      /\ Fresh(j, pc, n).blocked = loc[j].blocked
  BY FreshType
<1>6. pc \notin PasswordPCs \ {"ledger"}
  OBVIOUS
<1>7. j \in mix /\ loc[j].at \in 1..now
  BY <1>1 DEF JobOK
<1>8. /\ pc \in AccessPCs => KindOf[j] \in Access
      /\ pc \in PortPCs => KindOf[j] = "port"
      /\ pc \in MovePCs => KindOf[j] = "migrate"
      /\ pc \in PasswordPCs => KindOf[j] = "password"
  BY <1>4 DEF AccessPCs, PortPCs, MovePCs, PasswordPCs, Final
<1>9. QED
  BY <1>5, <1>6, <1>7, <1>8 DEF JobOK, Onto

\* Another attempt, or the end of the job.
LEMMA AgainOK ==
  ASSUME TypeInv, NEW j \in Jobs, loc[j].pc # "new",
         NEW pc \in PCs \ {"new"}, Again(j, pc),
         \/ pc = loc[j].pc
         \/ pc = "list" /\ KindOf[j] \in Access
         \/ pc = "read" /\ KindOf[j] = "port"
         \/ pc = "ledger" /\ KindOf[j] = "password",
         pc \in PasswordPCs => pc = "ledger"
  PROVE  \E n \in 0..MaxTries, p \in {pc, "fail"} :
           Set(j, Fresh(j, p, n)) /\ Onto(j, Fresh(j, p, n))
<1>1. loc[j].tries \in 0..MaxTries /\ "fail" \in PCs \ {"new"} /\ 0 \in 0..MaxTries
  BY ConstantsOK DEF TypeInv, JobsOK, Local, PCs, Final
<1>2. CASE loc[j].tries < MaxTries
  <2>1. loc[j].tries + 1 \in 0..MaxTries
    BY <1>1, <1>2, ConstantsOK
  <2>2. Onto(j, Fresh(j, pc, loc[j].tries + 1))
    BY <2>1, FreshOK DEF AccessPCs, PortPCs, PasswordPCs
  <2>3. QED
    BY <1>2, <2>1, <2>2 DEF Again, Retry
<1>3. CASE ~(loc[j].tries < MaxTries)
  <2>1. Onto(j, Fresh(j, "fail", 0))
    BY <1>1, FreshOK DEF Final, PasswordPCs
  <2>2. QED
    BY <1>1, <1>3, <2>1 DEF Again, Retry, End
<1>4. QED
  BY <1>2, <1>3

LEMMA EndOK ==
  ASSUME TypeInv, NEW j \in Jobs, loc[j].pc # "new", NEW v \in Final
  PROVE  Onto(j, Fresh(j, v, 0))
BY FreshOK, ConstantsOK DEF Final, PasswordPCs, PCs

\* A migration starts again with what it inherited.
LEMMA RewindOK ==
  ASSUME TypeInv, NEW j \in Jobs, loc[j].pc # "new", KindOf[j] = "migrate", Rewind(j)
  PROVE  \E u : Set(j, u) /\ Onto(j, u)
             /\ (u.pc = "fail" \/ (u.pc = "secret" /\ u.hash = loc[j].hash))
<1>1. CASE loc[j].tries < MaxTries
  <2> DEFINE f == Fresh(j, "secret", loc[j].tries + 1)
             u == [f EXCEPT !.hash = loc[j].hash]
  <2>1. loc[j].tries + 1 \in 0..MaxTries /\ loc[j].hash \in Hashes \cup {"none"}
    BY <1>1, ConstantsOK DEF TypeInv, JobsOK, Local
  <2>2. "secret" \in PCs \ {"new"} /\ "secret" \in MovePCs /\ "secret" \notin PasswordPCs
    BY DEF PCs, MovePCs, PasswordPCs
  <2>3. Onto(j, f)
    BY <2>1, <2>2, FreshOK
  <2>4. f.pc = "secret" /\ ~f.back
    BY <2>1, <2>2, FreshType
  <2> HIDE DEF f
  <2>5. /\ u \in Local /\ u.pc = "secret" /\ u.hash = loc[j].hash /\ u.at = f.at
        /\ u.blocked = f.blocked /\ u.back = f.back
    BY <2>1, <2>3, <2>4 DEF Onto, JobOK, Local
  <2>6. Onto(j, u)
    BY <2>2, <2>3, <2>4, <2>5 DEF Onto, JobOK
  <2>7. Set(j, u)
    BY <1>1 DEF Rewind, Retry, f
  <2>8. QED
    BY <2>5, <2>6, <2>7
<1>2. CASE ~(loc[j].tries < MaxTries)
  <2>1. "fail" \in Final
    BY DEF Final
  <2>2. Onto(j, Fresh(j, "fail", 0)) /\ Set(j, Fresh(j, "fail", 0))
    BY <1>2, <2>1, EndOK DEF Rewind, Retry, End
  <2>3. Fresh(j, "fail", 0).pc = "fail"
    BY <2>1, FreshType, ConstantsOK DEF PCs
  <2>4. QED
    BY <2>2, <2>3
<1>3. QED
  BY <1>1, <1>2

\* A failed password step restores the old hash, or is tried again.
LEMMA BrokeOK ==
  ASSUME TypeInv, NEW j \in Jobs, loc[j].pc \in PasswordPCs \ {"ledger"}, Broke(j)
  PROVE  \E u : Set(j, u) /\ Onto(j, u) /\ u.pc \in {"ledger", "fail"}
<1>1. JobOK(j, loc[j]) /\ loc[j].pc # "new" /\ KindOf[j] = "password"
  BY DEF TypeInv, JobsOK, JobOK, PasswordPCs
<1>2. "ledger" \in PCs \ {"new"} /\ "ledger" \in PasswordPCs /\ "fail" \in PCs
      /\ "ledger" \notin AccessPCs \cup PortPCs \cup MovePCs
  BY DEF PCs, Final, PasswordPCs, AccessPCs, PortPCs, MovePCs
<1>3. CASE loc[j].back \/ loc[j].hash = j
  <2>1. Again(j, "ledger")
    BY <1>3 DEF Broke
  <2>2. PICK n \in 0..MaxTries, p \in {"ledger", "fail"} :
          Set(j, Fresh(j, p, n)) /\ Onto(j, Fresh(j, p, n))
    BY <1>1, <1>2, <2>1, AgainOK
  <2>3. Fresh(j, p, n).pc = p
    BY <1>2, FreshType
  <2>4. QED
    BY <2>2, <2>3
<1>4. CASE ~(loc[j].back \/ loc[j].hash = j)
  <2> DEFINE u == [loc[j] EXCEPT !.pc = "ledger", !.back = TRUE,
                                 !.todo = {}, !.bad = FALSE]
  <2>1. /\ u \in Local /\ u.pc = "ledger" /\ u.hash = loc[j].hash
        /\ u.at = loc[j].at /\ u.blocked = loc[j].blocked
    BY <1>1, <1>2 DEF JobOK, Local
  <2>2. loc[j].hash \in Hashes \ {j} /\ j \in mix /\ loc[j].at \in 1..now
    BY <1>1, <1>4 DEF JobOK
  <2>3. Onto(j, u)
    BY <1>1, <1>2, <2>1, <2>2 DEF Onto, JobOK
  <2>4. QED
    BY <1>4, <2>1, <2>3 DEF Broke
<1>5. QED
  BY <1>3, <1>4

\* Onto the next point of the same step.
LEMMA OnwardOK ==
  ASSUME TypeInv, NEW j \in Jobs, NEW C \in {AccessPCs, PortPCs, MovePCs},
         loc[j].pc \in C, NEW u \in Local, u.pc \in C,
         u.at = loc[j].at, u.blocked = loc[j].blocked, u.back = loc[j].back
  PROVE  Onto(j, u)
<1>1. JobOK(j, loc[j])
  BY DEF TypeInv, JobsOK
<1>2. loc[j].pc # "new" /\ u.pc # "new" /\ ~loc[j].back
      /\ u.pc \notin PasswordPCs
  BY <1>1 DEF JobOK, AccessPCs, PortPCs, MovePCs, PasswordPCs
<1>3. /\ u.pc \in AccessPCs => loc[j].pc \in AccessPCs
      /\ u.pc \in PortPCs => loc[j].pc \in PortPCs
      /\ u.pc \in MovePCs => loc[j].pc \in MovePCs
  BY DEF AccessPCs, PortPCs, MovePCs
<1>4. QED
  BY <1>1, <1>2, <1>3 DEF Onto, JobOK

\* And within the password step.
LEMMA PasswordOnOK ==
  ASSUME TypeInv, NEW j \in Jobs, loc[j].pc \in PasswordPCs,
         NEW u \in Local, u.pc \in PasswordPCs, u.hash \in Hashes,
         loc[j].back => u.hash = loc[j].hash,
         u.at = loc[j].at, u.blocked = loc[j].blocked, u.back = loc[j].back
  PROVE  Onto(j, u)
<1>1. JobOK(j, loc[j])
  BY DEF TypeInv, JobsOK
<1>2. loc[j].pc # "new" /\ u.pc # "new"
      /\ u.pc \notin AccessPCs \cup PortPCs \cup MovePCs
  BY DEF AccessPCs, PortPCs, MovePCs, PasswordPCs
<1>3. QED
  BY <1>1, <1>2 DEF Onto, JobOK

\* What a step of a job makes of its own state.
Moves(j) == \E u : Set(j, u) /\ Onto(j, u)

LEMMA EndMoves ==
  ASSUME TypeInv, NEW j \in Jobs, loc[j].pc # "new", NEW v \in Final, End(j, v)
  PROVE  Moves(j)
BY EndOK DEF Moves, End

LEMMA AgainMoves ==
  ASSUME TypeInv, NEW j \in Jobs, NEW pc, Again(j, pc),
         \/ pc = loc[j].pc /\ pc \in {"list", "read", "inherit", "resume", "ledger"}
         \/ pc = "list" /\ loc[j].pc \in AccessPCs
         \/ pc = "read" /\ loc[j].pc \in PortPCs
  PROVE  Moves(j)
<1>1. JobOK(j, loc[j])
  BY DEF TypeInv, JobsOK
<1>2. pc \in PCs \ {"new"} /\ loc[j].pc # "new" /\ (pc \in PasswordPCs => pc = "ledger")
  BY DEF PCs, AccessPCs, PortPCs, PasswordPCs
<1>3. \/ pc = loc[j].pc
      \/ pc = "list" /\ KindOf[j] \in Access
      \/ pc = "read" /\ KindOf[j] = "port"
  BY <1>1 DEF JobOK
<1>4. QED
  BY <1>2, <1>3, AgainOK DEF Moves

\* A port job goes on with the allocations that it reads.
LEMMA RowsMoves ==
  ASSUME TypeInv, NEW j \in Jobs, loc[j].pc \in PortPCs,
         Set(j, [loc[j] EXCEPT !.pc = "add", !.todo = Rows(TargetOf[j])])
  PROVE  Moves(j)
<1> DEFINE u == [loc[j] EXCEPT !.pc = "add", !.todo = Rows(TargetOf[j])]
<1>1. loc[j] \in Local /\ "add" \in PCs /\ Rows(TargetOf[j]) \subseteq PodNames
  BY DEF TypeInv, JobsOK, PCs, Rows, PodNames
<1>2. u \in Local /\ u.pc = "add" /\ u.at = loc[j].at /\ u.blocked = loc[j].blocked
      /\ u.back = loc[j].back
  BY <1>1 DEF Local
<1> HIDE DEF u
<1>3. Onto(j, u)
  BY <1>2, OnwardOK DEF PortPCs
<1>4. QED
  BY <1>3 DEF Moves, u

LEMMA AccessMoves ==
  ASSUME TypeInv, NEW j \in Jobs, AccessJob(j) \/ PortJob(j)
  PROVE  Moves(j)
<1> DEFINE l == loc[j]
<1>1. l \in Local /\ JobOK(j, l)
  BY DEF TypeInv, JobsOK
<1>2. {"superseded", "ok", "fail"} \subseteq Final
  BY DEF Final
<1>3. {"patch", "add", "allocate"} \subseteq PCs
  BY DEF PCs
<1>4. CASE AccessList(j)
  <2>1. l.pc = "list"
    BY <1>4 DEF AccessList, At
  <2>2. ASSUME Set(j, [l EXCEPT !.pc = "patch", !.stale = StaleOnes(j)])
        PROVE  Moves(j)
    <3> DEFINE u == [l EXCEPT !.pc = "patch", !.stale = StaleOnes(j)]
    <3>1. StaleOnes(j) \in SUBSET Svc
      BY DEF StaleOnes, TypeInv, DataOK
    <3>2. u \in Local /\ u.pc = "patch" /\ u.at = l.at /\ u.blocked = l.blocked
          /\ u.back = l.back
      BY <1>1, <1>3, <3>1 DEF Local
    <3> HIDE DEF u
    <3>3. Onto(j, u)
      BY <2>1, <3>2, OnwardOK DEF AccessPCs
    <3>4. QED
      BY <2>2, <3>3 DEF Moves, u
  <2>3. QED
    BY <1>2, <1>4, <2>1, <2>2, EndMoves DEF AccessList
<1>5. CASE AccessPatch(j)
  <2>1. l.pc = "patch"
    BY <1>5 DEF AccessPatch, At
  <2>2. ASSUME NEW s, Set(j, [l EXCEPT !.stale = @ \ {s}])
        PROVE  Moves(j)
    <3> DEFINE u == [l EXCEPT !.stale = @ \ {s}]
    <3>1. u \in Local /\ u.pc = "patch" /\ u.at = l.at /\ u.blocked = l.blocked
          /\ u.back = l.back
      BY <1>1, <2>1 DEF Local
    <3> HIDE DEF u
    <3>2. Onto(j, u)
      BY <2>1, <3>1, OnwardOK DEF AccessPCs
    <3>3. QED
      BY <2>2, <3>2 DEF Moves, u
  <2>3. Again(j, "list") => Moves(j)
    BY <2>1, AgainMoves DEF AccessPCs
  <2>4. End(j, "ok") => Moves(j)
    BY <1>2, <2>1, EndMoves
  <2>5. QED
    BY <1>5, <2>2, <2>3, <2>4 DEF AccessPatch
<1>6. CASE PortRead(j)
  <2>1. l.pc = "read"
    BY <1>6 DEF PortRead, At
  <2>2. Set(j, [l EXCEPT !.pc = "allocate"]) => Moves(j)
    <3> DEFINE u == [l EXCEPT !.pc = "allocate"]
    <3>1. u \in Local /\ u.pc = "allocate" /\ u.at = l.at /\ u.blocked = l.blocked
          /\ u.back = l.back
      BY <1>1, <1>3 DEF Local
    <3> HIDE DEF u
    <3>2. Onto(j, u)
      BY <2>1, <3>1, OnwardOK DEF PortPCs
    <3>3. QED
      BY <3>2 DEF Moves, u
  <2>3. Set(j, [l EXCEPT !.pc = "add", !.todo = Rows(TargetOf[j])]) => Moves(j)
    BY <1>6, <2>1, RowsMoves DEF PortPCs, PortRead
  <2>4. QED
    BY <1>2, <1>6, <2>1, <2>2, <2>3, EndMoves DEF PortRead
<1>7. CASE PortAllocate(j)
  <2>1. l.pc = "allocate"
    BY <1>7 DEF PortAllocate, At
  <2>2. Set(j, [l EXCEPT !.ports = {Extra}]) => Moves(j)
    <3> DEFINE u == [l EXCEPT !.ports = {Extra}]
    <3>1. u \in Local /\ u.pc = "allocate" /\ u.at = l.at /\ u.blocked = l.blocked
          /\ u.back = l.back
      BY <1>1, <2>1 DEF Local, Ports
    <3> HIDE DEF u
    <3>2. Onto(j, u)
      BY <2>1, <3>1, OnwardOK DEF PortPCs
    <3>3. QED
      BY <3>2 DEF Moves, u
  <2>3. Set(j, [l EXCEPT !.pc = "add", !.todo = Rows(TargetOf[j])]) => Moves(j)
    BY <1>7, <2>1, RowsMoves DEF PortPCs, PortAllocate
  <2>4. Again(j, "read") => Moves(j)
    BY <2>1, AgainMoves DEF PortPCs
  <2>5. QED
    BY <1>7, <2>2, <2>3, <2>4 DEF PortAllocate
<1>8. CASE PortAdd(j)
  <2>1. l.pc = "add"
    BY <1>8 DEF PortAdd, At
  <2>2. ASSUME NEW k, Set(j, [l EXCEPT !.todo = @ \ {k}])
        PROVE  Moves(j)
    <3> DEFINE u == [l EXCEPT !.todo = @ \ {k}]
    <3>1. u \in Local /\ u.pc = "add" /\ u.at = l.at /\ u.blocked = l.blocked
          /\ u.back = l.back
      BY <1>1, <2>1 DEF Local
    <3> HIDE DEF u
    <3>2. Onto(j, u)
      BY <2>1, <3>1, OnwardOK DEF PortPCs
    <3>3. QED
      BY <2>2, <3>2 DEF Moves, u
  <2>3. Again(j, "read") => Moves(j)
    BY <2>1, AgainMoves DEF PortPCs
  <2>4. End(j, "ok") => Moves(j)
    BY <1>2, <2>1, EndMoves
  <2>5. QED
    BY <1>8, <2>2, <2>3, <2>4 DEF PortAdd
<1>9. QED
  BY <1>4, <1>5, <1>6, <1>7, <1>8 DEF AccessJob, PortJob

LEMMA MoveMoves ==
  ASSUME TypeInv, NEW j \in Jobs, MoveJob(j)
  PROVE  Moves(j)
<1> DEFINE l == loc[j]
<1>1. l \in Local /\ JobOK(j, l)
  BY DEF TypeInv, JobsOK
<1>2. l.pc \in MovePCs
  BY DEF MoveJob, MoveInherit, MoveSecret, MovePod, MoveReady, MoveServices,
         MoveService, MoveServed, MoveCleanServices, MoveCleanPod, MoveCleaned, At, MovePCs
<1>3. l.pc # "new" /\ KindOf[j] = "migrate"
  BY <1>1, <1>2 DEF JobOK, MovePCs
<1>4. End(j, "ok") \/ End(j, "fail") \/ Rewind(j) => Moves(j)
  BY <1>3, EndMoves, RewindOK DEF Final, Moves
<1>5. ASSUME NEW u \in Local, Set(j, u), u.pc \in MovePCs,
             u.at = l.at, u.blocked = l.blocked, u.back = l.back
      PROVE  Moves(j)
  BY <1>2, <1>5, OnwardOK DEF Moves
<1>6. ASSUME NEW pc \in MovePCs, Set(j, [l EXCEPT !.pc = pc])
      PROVE  Moves(j)
  <2> DEFINE u == [l EXCEPT !.pc = pc]
  <2>1. u \in Local /\ u.pc = pc /\ u.at = l.at /\ u.blocked = l.blocked /\ u.back = l.back
    BY <1>1 DEF Local, MovePCs, PCs
  <2> HIDE DEF u
  <2>2. QED
    BY <1>5, <1>6, <2>1 DEF u
<1>7. CASE MoveInherit(j)
  <2> DEFINE u == [l EXCEPT !.hash = secret[TargetOf[j]],
                     !.pc = IF @ = "inherit" THEN "secret" ELSE "cleanServices"]
  <2>1. TargetOf[j] \in PodNames
    BY <1>3, ConstantsOK DEF Serving, PodNames
  <2>2. secret[TargetOf[j]] \in Hashes \cup {"none"}
    BY <2>1 DEF TypeInv, DataOK
  <2>3. {"secret", "cleanServices"} \subseteq PCs
        /\ {"secret", "cleanServices"} \subseteq MovePCs
    BY DEF PCs, MovePCs
  <2>4. u \in Local /\ u.pc \in {"secret", "cleanServices"} /\ u.at = l.at
        /\ u.blocked = l.blocked /\ u.back = l.back
    BY <1>1, <2>2, <2>3 DEF Local
  <2>5. End(j, "fail") \/ Set(j, u)
    BY <1>7 DEF MoveInherit
  <2> HIDE DEF u
  <2>6. QED
    BY <1>4, <1>5, <2>3, <2>4, <2>5
<1>8. CASE MoveSecret(j) \/ MovePod(j) \/ MoveReady(j) \/ MoveServed(j)
           \/ MoveCleanServices(j)
  <2>1. \/ End(j, "ok") \/ End(j, "fail") \/ Rewind(j)
        \/ \E pc \in {"pod", "wait", "services", "cleanServices", "cleanPod"} :
             Set(j, [l EXCEPT !.pc = pc])
    BY <1>8 DEF MoveSecret, MovePod, MoveReady, MoveServed, MoveCleanServices
  <2>2. QED
    BY <1>4, <1>6, <2>1 DEF MovePCs
<1>9. CASE MoveServices(j)
  <2> DEFINE u == [l EXCEPT !.pc = "service", !.ports = Base]
  <2>1. u \in Local /\ u.pc = "service" /\ u.at = l.at /\ u.blocked = l.blocked
        /\ u.back = l.back
    BY <1>1 DEF Local, PCs, Ports
  <2>2. Set(j, u)
    BY <1>9 DEF MoveServices
  <2> HIDE DEF u
  <2>3. QED
    BY <1>5, <2>1, <2>2 DEF MovePCs
<1>10. CASE MoveService(j)
  <2>1. ASSUME NEW i, Set(j, [l EXCEPT !.ports = @ \ {i}])
        PROVE  Moves(j)
    <3> DEFINE u == [l EXCEPT !.ports = @ \ {i}]
    <3>1. u \in Local /\ u.pc = l.pc /\ u.at = l.at
          /\ u.blocked = l.blocked /\ u.back = l.back
      BY <1>1 DEF Local
    <3> HIDE DEF u
    <3>2. QED
      BY <1>2, <1>5, <2>1, <3>1 DEF u
  <2>2. QED
    BY <1>4, <1>10, <2>1 DEF MoveService
<1>11. CASE MoveCleanPod(j) \/ MoveCleaned(j)
  <2>1. End(j, "ok") \/ Set(j, l)
    BY <1>1, <1>11 DEF MoveCleanPod, MoveCleaned, Set, TypeInv, JobsOK
  <2>2. QED
    BY <1>1, <1>2, <1>4, <1>5, <2>1
<1>12. QED
  BY <1>7, <1>8, <1>9, <1>10, <1>11 DEF MoveJob

LEMMA PasswordMoves ==
  ASSUME TypeInv, NEW j \in Jobs, PasswordJob(j)
  PROVE  Moves(j)
<1> DEFINE l == loc[j]
<1>1. l \in Local /\ JobOK(j, l)
  BY DEF TypeInv, JobsOK
<1>2. l.pc \in PasswordPCs
  BY DEF PasswordJob, PasswordLedger, PasswordSecrets, PasswordHash, PasswordPods,
         PasswordExec, PasswordDone, At, PasswordPCs
<1>3. l.pc # "new"
  BY <1>2 DEF PasswordPCs
<1>4. l.pc # "ledger" => l.hash \in Hashes
  BY <1>1, <1>2 DEF JobOK
<1>5. l.pc # "ledger" /\ Broke(j) => Moves(j)
  BY <1>2, BrokeOK DEF Moves
<1>6. ASSUME NEW u \in Local, Set(j, u), u.pc \in PasswordPCs, u.hash \in Hashes,
             l.back => u.hash = l.hash,
             u.at = l.at, u.blocked = l.blocked, u.back = l.back
      PROVE  Moves(j)
  BY <1>2, <1>6, PasswordOnOK DEF Moves
<1>7. CASE PasswordLedger(j)
  <2>1. l.pc = "ledger"
    BY <1>7 DEF PasswordLedger, At
  <2>2. Again(j, "ledger") => Moves(j)
    BY <2>1, AgainMoves
  <2>3. ASSUME ~l.back, Set(j, [l EXCEPT !.pc = "secrets", !.hash = ledger])
        PROVE  Moves(j)
    <3> DEFINE u == [l EXCEPT !.pc = "secrets", !.hash = ledger]
    <3>1. u \in Local /\ u.pc = "secrets" /\ u.hash = ledger /\ u.at = l.at
          /\ u.blocked = l.blocked /\ u.back = l.back /\ ledger \in Hashes
      BY <1>1 DEF Local, PCs, TypeInv, DataOK
    <3> HIDE DEF u
    <3>2. QED
      BY <1>6, <2>3, <3>1 DEF u, PasswordPCs
  <2>4. ASSUME l.back, Set(j, [l EXCEPT !.pc = "secrets"])
        PROVE  Moves(j)
    <3> DEFINE u == [l EXCEPT !.pc = "secrets"]
    <3>1. u \in Local /\ u.pc = "secrets" /\ u.hash = l.hash /\ u.at = l.at
          /\ u.blocked = l.blocked /\ u.back = l.back /\ l.hash \in Hashes
      BY <1>1, <2>4 DEF Local, PCs, JobOK
    <3> HIDE DEF u
    <3>2. QED
      BY <1>6, <2>4, <3>1 DEF u, PasswordPCs
  <2>5. QED
    BY <1>7, <2>2, <2>3, <2>4 DEF PasswordLedger
<1>8. ASSUME l.pc # "ledger", NEW u \in Local, Set(j, u),
             u.pc \in {"hash", "pods", "exec"}, u.hash = l.hash,
             u.at = l.at, u.blocked = l.blocked, u.back = l.back
      PROVE  Moves(j)
  BY <1>4, <1>6, <1>8 DEF PasswordPCs
<1>9. CASE PasswordSecrets(j) \/ PasswordPods(j)
  <2>1. l.pc # "ledger"
    BY <1>9 DEF PasswordSecrets, PasswordPods, At
  <2>2. ASSUME NEW pc \in {"hash", "exec"}, NEW todo \in SUBSET PodNames,
               Set(j, [l EXCEPT !.pc = pc, !.todo = todo])
        PROVE  Moves(j)
    <3> DEFINE u == [l EXCEPT !.pc = pc, !.todo = todo]
    <3>1. u \in Local /\ u.pc = pc /\ u.hash = l.hash /\ u.at = l.at
          /\ u.blocked = l.blocked /\ u.back = l.back
      BY <1>1 DEF Local, PCs
    <3> HIDE DEF u
    <3>2. QED
      BY <1>8, <2>1, <2>2, <3>1 DEF u
  <2>3. QED
    BY <1>5, <1>9, <2>1, <2>2 DEF PasswordSecrets, PasswordPods
<1>10. CASE PasswordHash(j)
  <2>1. l.pc = "hash"
    BY <1>10 DEF PasswordHash, At
  <2>2. ASSUME Set(j, [l EXCEPT !.pc = "pods"])
        PROVE  Moves(j)
    <3> DEFINE u == [l EXCEPT !.pc = "pods"]
    <3>1. u \in Local /\ u.pc = "pods" /\ u.hash = l.hash /\ u.at = l.at
          /\ u.blocked = l.blocked /\ u.back = l.back
      BY <1>1 DEF Local, PCs
    <3> HIDE DEF u
    <3>2. QED
      BY <1>8, <2>1, <2>2, <3>1 DEF u
  <2>3. ASSUME NEW p, Set(j, [l EXCEPT !.todo = @ \ {p}])
        PROVE  Moves(j)
    <3> DEFINE u == [l EXCEPT !.todo = @ \ {p}]
    <3>1. u \in Local /\ u.pc = "hash" /\ u.hash = l.hash /\ u.at = l.at
          /\ u.blocked = l.blocked /\ u.back = l.back
      BY <1>1, <2>1 DEF Local
    <3> HIDE DEF u
    <3>2. QED
      BY <1>8, <2>1, <2>3, <3>1 DEF u
  <2>4. QED
    BY <1>5, <1>10, <2>1, <2>2, <2>3 DEF PasswordHash
<1>11. CASE PasswordExec(j)
  <2>1. l.pc = "exec"
    BY <1>11 DEF PasswordExec, At
  <2>2. ASSUME NEW p, NEW bad \in BOOLEAN,
               Set(j, [l EXCEPT !.todo = @ \ {p}, !.bad = bad])
        PROVE  Moves(j)
    <3> DEFINE u == [l EXCEPT !.todo = @ \ {p}, !.bad = bad]
    <3>1. u \in Local /\ u.pc = "exec" /\ u.hash = l.hash /\ u.at = l.at
          /\ u.blocked = l.blocked /\ u.back = l.back
      BY <1>1, <2>1 DEF Local
    <3> HIDE DEF u
    <3>2. QED
      BY <1>8, <2>1, <2>2, <3>1 DEF u
  <2>3. PICK p \in l.todo :
          \/ Set(j, [l EXCEPT !.todo = @ \ {p}, !.bad = @ \/ Unreached(j, p)])
          \/ Set(j, [l EXCEPT !.todo = @ \ {p}, !.bad = TRUE])
    BY <1>11 DEF PasswordExec
  <2>4. (l.bad \/ Unreached(j, p)) \in BOOLEAN
    OBVIOUS
  <2>5. QED
    BY <2>2, <2>3, <2>4
<1>12. CASE PasswordDone(j)
  <2>1. l.pc = "exec"
    BY <1>12 DEF PasswordDone, At
  <2>2. QED
    BY <1>3, <1>5, <1>12, <2>1, EndMoves DEF PasswordDone, Final
<1>13. QED
  BY <1>7, <1>9, <1>10, <1>11, <1>12 DEF PasswordJob

LEMMA StepMoves ==
  ASSUME TypeInv, NEW j \in Jobs, JobStep(j)
  PROVE  Moves(j) /\ loc[j].pc # "new" /\ mix' = mix /\ now' = now
<1>1. JobOK(j, loc[j]) /\ loc[j].pc \in PCs
  BY DEF TypeInv, JobsOK, Local
<1>2. mix' = mix /\ now' = now
  BY DEF JobStep, ReadFails, Crash, AccessJob, AccessList, AccessPatch, PortJob,
         PortRead, PortAllocate, PortAdd, MoveJob, MoveInherit, MoveSecret, MovePod, MoveReady,
         MoveServices, MoveService, MoveServed, MoveCleanServices, MoveCleanPod, MoveCleaned, PasswordJob,
         PasswordLedger, PasswordSecrets, PasswordHash, PasswordPods,
         PasswordExec, PasswordDone
<1>3. loc[j].pc # "new"
  BY DEF JobStep, ReadFails, Crash, Running, AccessJob, AccessList, AccessPatch,
         PortJob, PortRead, PortAllocate, PortAdd, MoveJob, MoveInherit, MoveSecret, MovePod,
         MoveReady, MoveServices, MoveService, MoveServed, MoveCleanServices, MoveCleanPod, MoveCleaned,
         PasswordJob, PasswordLedger, PasswordSecrets, PasswordHash,
         PasswordPods, PasswordExec, PasswordDone, At
<1>4. CASE ReadFails(j)
  BY <1>4, AgainMoves DEF ReadFails
<1>5. CASE Crash(j)
  <2>1. CASE End(j, "fail")
    BY <1>2, <1>3, <2>1, EndMoves DEF Final
  <2>2. CASE Set(j, Fresh(j, First(KindOf[j]), 0))
    <3>1. KindOf[j] \in Access \cup Serving \cup {"password"} /\ 0 \in 0..MaxTries
      BY ConstantsOK
    <3>2. First(KindOf[j]) \in {"list", "read", "inherit", "ledger"}
      BY <3>1 DEF First, Access, Serving
    <3>3. First(KindOf[j]) \in PCs \ {"new"}
          /\ (First(KindOf[j]) \in PasswordPCs => First(KindOf[j]) = "ledger")
      BY <3>2 DEF PCs, PasswordPCs
    <3>4. Onto(j, Fresh(j, First(KindOf[j]), 0))
      BY <1>3, <3>1, <3>3, FreshOK
    <3>5. QED
      BY <1>2, <1>3, <2>2, <3>4 DEF Moves
  <2>3. CASE KindOf[j] = "migrate" /\ Set(j, Fresh(j, "resume", 0))
    <3>1. "resume" \in PCs \ {"new"} /\ "resume" \in MovePCs /\ 0 \in 0..MaxTries
          /\ "resume" \notin PasswordPCs
      BY ConstantsOK DEF PCs, MovePCs, PasswordPCs
    <3>2. Onto(j, Fresh(j, "resume", 0))
      BY <1>3, <2>3, <3>1, FreshOK
    <3>3. QED
      BY <1>2, <1>3, <2>3, <3>2 DEF Moves
  <2>4. QED
    BY <1>5, <2>1, <2>2, <2>3 DEF Crash
<1>6. QED
  BY <1>2, <1>3, <1>4, <1>5, AccessMoves, MoveMoves, PasswordMoves DEF JobStep

-----------------------------------------------------------------------------
(* Type correctness *)

LEMMA MovedJobs ==
  ASSUME TypeInv, NEW j \in Jobs, Moves(j), loc[j].pc # "new",
         mix' = mix, now' = now
  PROVE  JobsOK' /\ ClockOK'
<1>1. PICK u : Set(j, u) /\ Onto(j, u)
  BY DEF Moves
<1>2. u \in Local
  BY <1>1 DEF Onto, JobOK
<1>3. loc' \in [Jobs -> Local] /\ loc'[j] = u
      /\ \A i \in Jobs \ {j} : loc'[i] = loc[i]
  BY <1>1, <1>2 DEF Set, TypeInv, JobsOK
<1>4. \A i \in Jobs : JobOK(i, loc'[i])
  BY <1>1, <1>3 DEF TypeInv, JobsOK, Onto
<1>5. JobsOK'
  BY <1>3, <1>4 DEF JobsOK, JobOK
<1>6. Registered' = Registered
  BY <1>1, <1>3 DEF Registered, Onto
<1>7. QED
  BY <1>5, <1>6 DEF TypeInv, ClockOK

LEMMA SvcTypes ==
  ASSUME TypeInv, NEW j \in Jobs
  PROVE  /\ \A s \in Svc : Patched(j, s) \in Svc
         /\ \A p, k \in PodNames, i \in Ports : Created(j, p, i, k) \in Svc
<1>1. loc[j].at \in 0..Cardinality(Jobs) /\ loc[j].blocked \in BOOLEAN
      /\ 0 \in 0..Cardinality(Jobs)
  <2>1. loc[j] \in Local
    BY DEF TypeInv, JobsOK
  <2>2. Cardinality(Jobs) \in Nat
    BY FS_CardinalityType, ConstantsOK
  <2>3. QED
    BY <2>1, <2>2 DEF Local
<1>2. ASSUME NEW s \in Svc PROVE Patched(j, s) \in Svc
  BY <1>1 DEF Patched, Svc
<1>3. ASSUME NEW p \in PodNames, NEW k \in PodNames, NEW i \in Ports
      PROVE  Created(j, p, i, k) \in Svc
  BY <1>1 DEF Created, Svc
<1>4. QED
  BY <1>2, <1>3

\* What a step of a migration makes of its own Pod and its Secret.
PodMade(j) ==
  /\ \E h \in {secret[j], loc[j].hash, "none"} : secret' = [secret EXCEPT ![j] = h]
  /\ \E q \in {pods[j], NoPod, [NoPod EXCEPT !.st = "pending"]} :
       pods' = [pods EXCEPT ![j] = q]

LEMMA LeavePod ==
  ASSUME TypeInv, NEW j \in Jobs, NEW S, NEW P, NEW H, Leave(j, S, P, H),
         P \subseteq {pods[j], NoPod, [NoPod EXCEPT !.st = "pending"]},
         H \subseteq {secret[j], loc[j].hash, "none"}
  PROVE  PodMade(j)
BY DEF Leave, PodMade

LEMMA MakePod ==
  ASSUME TypeInv, NEW j \in Jobs,
         MoveSecret(j) \/ MovePod(j) \/ MoveReady(j) \/ MoveService(j)
  PROVE  PodMade(j)
<1>1. j \in PodNames /\ DOMAIN pods = PodNames /\ DOMAIN secret = PodNames
  BY DEF PodNames, TypeInv, DataOK
<1>2. /\ UNCHANGED pods => pods' = [pods EXCEPT ![j] = pods[j]]
      /\ UNCHANGED secret => secret' = [secret EXCEPT ![j] = secret[j]]
  BY <1>1 DEF TypeInv, DataOK
<1>3. CleanUp(j) => PodMade(j)
  BY DEF CleanUp, PodMade
<1>4. CASE MoveSecret(j)
  <2>1. CASE Leave(j, {svcs}, {pods[j]}, {secret[j], loc[j].hash})
    BY <2>1, LeavePod
  <2>2. QED
    BY <1>2, <1>4, <2>1 DEF MoveSecret, PodMade
<1>5. CASE MovePod(j)
  <2> DEFINE made == IF pods[j].st = "none" THEN [NoPod EXCEPT !.st = "pending"]
                                            ELSE pods[j]
  <2>1. made \in {pods[j], NoPod, [NoPod EXCEPT !.st = "pending"]}
    OBVIOUS
  <2>2. \/ pods' = [pods EXCEPT ![j] = made] /\ UNCHANGED secret
        \/ CleanUp(j)
        \/ Leave(j, {svcs}, {pods[j], made}, {secret[j]})
    BY <1>5 DEF MovePod
  <2> HIDE DEF made
  <2>3. CASE Leave(j, {svcs}, {pods[j], made}, {secret[j]})
    BY <2>1, <2>3, LeavePod
  <2>4. QED
    BY <1>2, <1>3, <2>1, <2>2, <2>3 DEF PodMade
<1>6. CASE MoveReady(j)
  <2>1. CASE Leave(j, {svcs}, {pods[j]}, {secret[j]})
    BY <2>1, LeavePod
  <2>2. QED
    BY <1>2, <1>3, <1>6, <2>1 DEF MoveReady, PodMade
<1>7. CASE MoveService(j)
  <2>1. ASSUME NEW S, Leave(j, S, {pods[j]}, {secret[j]})
        PROVE  PodMade(j)
    BY <2>1, LeavePod
  <2>2. QED
    BY <1>2, <1>7, <2>1 DEF MoveService, PodMade
<1>8. QED
  BY <1>4, <1>5, <1>6, <1>7

LEMMA MakeSvcs ==
  ASSUME TypeInv, NEW j \in Jobs,
         MoveSecret(j) \/ MovePod(j) \/ MoveReady(j) \/ MoveService(j)
  PROVE  /\ svcs' \subseteq Svc
         /\ MoveService(j) => \E i \in loc[j].ports :
              \/ svcs' = svcs \cup {Created(j, j, i, j)}
              \/ \E gone \in SUBSET {s \in svcs \cup {Created(j, j, i, j)} : s.pod = j} :
                   svcs' = (svcs \cup {Created(j, j, i, j)}) \ gone
         /\ ~MoveService(j) => UNCHANGED svcs
<1>1. svcs \subseteq Svc
  BY DEF TypeInv, DataOK
<1>2. CASE MoveService(j)
  <2>1. loc[j].ports \subseteq Ports /\ j \in PodNames
    BY DEF TypeInv, JobsOK, Local, PodNames
  <2>2. \E i \in loc[j].ports :
          \/ svcs' = svcs \cup {Created(j, j, i, j)}
          \/ \E gone \in SUBSET {s \in svcs \cup {Created(j, j, i, j)} : s.pod = j} :
               svcs' = (svcs \cup {Created(j, j, i, j)}) \ gone
    BY <1>2 DEF MoveService, Leave
  <2>3. \A i \in loc[j].ports : Created(j, j, i, j) \in Svc
    BY <2>1, SvcTypes
  <2>4. svcs' \subseteq Svc
    BY <1>1, <2>2, <2>3
  <2>5. QED
    BY <1>2, <2>2, <2>4
<1>3. CASE ~MoveService(j)
  <2>1. UNCHANGED svcs
    BY <1>3 DEF MoveSecret, MovePod, MoveReady, Leave
  <2>2. QED
    BY <1>1, <1>3, <2>1
<1>4. QED
  BY <1>2, <1>3

LEMMA JobData ==
  ASSUME TypeInv, NEW j \in Jobs, JobStep(j)
  PROVE  DataOK'
<1>1. JobOK(j, loc[j]) /\ loc[j] \in Local
  BY DEF TypeInv, JobsOK
<1>2. /\ svcs \subseteq Svc /\ ledger \in Hashes
      /\ secret \in [PodNames -> Hashes \cup {"none"}] /\ pods \in [PodNames -> Pod]
  BY DEF TypeInv, DataOK
<1>3. j \in PodNames /\ j \in Hashes
  BY DEF PodNames, Hashes
<1>4. CASE UNCHANGED <<svcs, ledger, secret, pods>>
  BY <1>2, <1>4 DEF DataOK
<1>5. CASE \/ ReadFails(j) \/ AccessList(j) \/ PortRead(j) \/ PortAllocate(j)
           \/ MoveInherit(j) \/ MoveServed(j) \/ MoveCleaned(j)
           \/ PasswordSecrets(j) \/ PasswordPods(j) \/ PasswordDone(j)
  BY <1>4, <1>5 DEF ReadFails, AccessList, PortRead, PortAllocate, MoveInherit,
                    MoveServed, MoveCleaned, PasswordSecrets, PasswordPods,
                    PasswordDone
<1>6. CASE AccessPatch(j)
  BY <1>2, <1>6, SvcTypes DEF AccessPatch, DataOK
<1>7. CASE PortAdd(j)
  <2>1. TargetOf[j] \in PodNames /\ Extra \in Ports
    BY <1>1, <1>7, ConstantsOK DEF PortAdd, At, JobOK, PortPCs, Serving, PodNames, Ports
  <2>2. loc[j].todo \subseteq PodNames
    BY <1>1 DEF Local
  <2>3. \A k \in loc[j].todo : Created(j, TargetOf[j], Extra, k) \in Svc
    BY <2>1, <2>2, SvcTypes
  <2>4. UNCHANGED svcs
        \/ \E k \in loc[j].todo : svcs' = svcs \cup {Created(j, TargetOf[j], Extra, k)}
    BY <1>7 DEF PortAdd
  <2>5. QED
    BY <1>2, <1>7, <2>3, <2>4 DEF PortAdd, DataOK
<1>8. CASE MoveSecret(j) \/ MovePod(j) \/ MoveReady(j) \/ MoveService(j)
  <2>1. svcs' \subseteq Svc /\ UNCHANGED ledger
    BY <1>2, <1>8, MakeSvcs DEF MoveSecret, MovePod, MoveReady, MoveService
  <2>2. /\ \E h \in {secret[j], loc[j].hash, "none"} : secret' = [secret EXCEPT ![j] = h]
        /\ \E q \in {pods[j], NoPod, [NoPod EXCEPT !.st = "pending"]} :
             pods' = [pods EXCEPT ![j] = q]
    BY <1>2, <1>3, <1>8, MakePod DEF PodMade
  <2>3. loc[j].hash \in Hashes \cup {"none"}
    BY <1>1 DEF Local
  <2>4. NoPod \in Pod /\ [NoPod EXCEPT !.st = "pending"] \in Pod
    BY BlankType DEF Pod
  <2>5. QED
    BY <1>2, <1>3, <2>1, <2>2, <2>3, <2>4 DEF DataOK
<1>9. CASE MoveServices(j) \/ MoveCleanServices(j)
  BY <1>2, <1>9 DEF MoveServices, MoveCleanServices, DataOK
<1>10. CASE Crash(j)
  BY <1>2, <1>10 DEF Crash, DataOK
<1>11. CASE MoveCleanPod(j)
  BY <1>2, <1>11, BlankType DEF MoveCleanPod, DataOK
<1>12. Writing(j) \in Hashes
       \/ ~(At(j, "ledger") \/ At(j, "hash") \/ At(j, "exec"))
  BY <1>1, <1>3 DEF Writing, JobOK
<1>13. CASE PasswordLedger(j) \/ PasswordHash(j)
  BY <1>2, <1>12, <1>13 DEF PasswordLedger, PasswordHash, DataOK
<1>14. CASE PasswordExec(j)
  <2>1. PICK p \in loc[j].todo :
          pods' = pods \/ pods' = [pods EXCEPT ![p].shadow = Writing(j)]
    BY <1>14 DEF PasswordExec
  <2>2. p \in PodNames /\ Writing(j) \in Hashes
    BY <1>1, <1>12, <1>14 DEF Local, PasswordExec
  <2>3. [pods[p] EXCEPT !.shadow = Writing(j)] \in Pod
    BY <1>2, <2>2 DEF Pod
  <2>4. pods' \in [PodNames -> Pod]
    BY <1>2, <2>1, <2>3
  <2>5. QED
    BY <1>2, <1>14, <2>4 DEF PasswordExec, DataOK
<1>15. QED
  BY <1>5, <1>6, <1>7, <1>8, <1>9, <1>10, <1>11, <1>13, <1>14
     DEF JobStep, AccessJob, PortJob, MoveJob, PasswordJob

LEMMA JobCounts ==
  ASSUME TypeInv, NEW j \in Jobs, JobStep(j)
  PROVE  CountsOK'
<1>1. ~Crash(j) => Well \/ Failing
  BY DEF JobStep, ReadFails, AccessJob, AccessList, AccessPatch, PortJob,
         PortRead, PortAllocate, PortAdd, MoveJob, MoveInherit, MoveSecret, MovePod, MoveReady,
         MoveServices, MoveService, MoveServed, MoveCleanServices, MoveCleanPod, MoveCleaned, PasswordJob,
         PasswordLedger, PasswordSecrets, PasswordHash, PasswordPods,
         PasswordExec, PasswordDone
<1>2. Crash(j) => /\ counts.crashes < MaxCrashes
                  /\ counts' = [counts EXCEPT !.crashes = @ + 1]
  BY DEF Crash
<1>3. QED
  BY <1>1, <1>2, ConstantsOK DEF TypeInv, CountsOK, Well, Failing

LEMMA RegisterOK ==
  ASSUME TypeInv, NEW j \in Jobs, Register(j)
  PROVE  TypeInv'
<1>1. PICK t \in {now, now + 1} \ {0} :
        /\ now' = t
        /\ Set(j, [Blank EXCEPT !.pc = First(KindOf[j]), !.at = t,
                               !.blocked = KindOf[j] \in Serving /\ Blocked])
  BY DEF Register
<1> DEFINE u == [Blank EXCEPT !.pc = First(KindOf[j]), !.at = t,
                              !.blocked = KindOf[j] \in Serving /\ Blocked]
<1>2. /\ IsFiniteSet(Jobs) /\ Cardinality(Jobs) \in Nat /\ now \in Nat
      /\ j \in mix /\ mix' = mix /\ loc[j].pc = "new"
      /\ UNCHANGED <<svcs, ledger, secret, pods, counts>>
  BY FS_CardinalityType, ConstantsOK DEF Register, At, Well, TypeInv, ClockOK
<1>3. IsFiniteSet(Registered) /\ IsFiniteSet(Registered \cup {j})
      /\ Cardinality(Registered \cup {j}) <= Cardinality(Jobs)
      /\ Cardinality(Registered \cup {j}) = Cardinality(Registered) + 1
      /\ Cardinality(Registered) \in Nat
  <2>1. Registered \subseteq Jobs /\ Registered \cup {j} \subseteq Jobs /\ j \notin Registered
    BY <1>2 DEF Registered
  <2>2. IsFiniteSet(Registered) /\ IsFiniteSet(Registered \cup {j})
        /\ Cardinality(Registered \cup {j}) <= Cardinality(Jobs)
    BY <1>2, <2>1, FS_Subset
  <2>3. QED
    BY <2>1, <2>2, FS_AddElement, FS_CardinalityType
<1>4. t \in 1..Cardinality(Jobs) /\ t <= Cardinality(Registered \cup {j}) /\ now <= t
  BY <1>1, <1>2, <1>3 DEF TypeInv, ClockOK
<1>5. KindOf[j] \in Access \cup Serving \cup {"password"}
  BY ConstantsOK
<1>6. \/ KindOf[j] \in Access /\ First(KindOf[j]) = "list"
      \/ KindOf[j] = "port" /\ First(KindOf[j]) = "read"
      \/ KindOf[j] = "migrate" /\ First(KindOf[j]) = "inherit"
      \/ KindOf[j] = "password" /\ First(KindOf[j]) = "ledger"
  BY <1>5 DEF First, Access, Serving
<1>7. First(KindOf[j]) \in PCs \ {"new"}
  BY <1>6 DEF PCs
<1>8. (KindOf[j] \in Serving /\ Blocked) \in BOOLEAN
  OBVIOUS
<1>9. /\ u \in Local /\ u.pc = First(KindOf[j]) /\ u.at = t /\ u.back = Blank.back
      /\ ~Blank.back
  <2>1. Blank \in Local /\ t \in 0..Cardinality(Jobs)
    BY <1>4, BlankType
  <2>2. ~Blank.back
    BY DEF Blank
  <2>3. QED
    BY <1>7, <1>8, <2>1, <2>2 DEF Local
<1> HIDE DEF u
<1>10. loc' \in [Jobs -> Local] /\ loc'[j] = u /\ \A i \in Jobs \ {j} : loc'[i] = loc[i]
  BY <1>1, <1>9 DEF Set, u, TypeInv, JobsOK
<1>11. JobOK(j, loc[j])'
  <2>1. u.at \in 1..now'
    BY <1>1, <1>4, <1>9
  <2>2. /\ u.pc \in AccessPCs => KindOf[j] \in Access
        /\ u.pc \in PortPCs => KindOf[j] = "port"
        /\ u.pc \in MovePCs => KindOf[j] = "migrate"
        /\ u.pc \in PasswordPCs => KindOf[j] = "password"
        /\ u.pc # "new" /\ u.pc \notin PasswordPCs \ {"ledger"}
    BY <1>6, <1>9 DEF AccessPCs, PortPCs, MovePCs, PasswordPCs
  <2>3. ~u.back /\ j \in mix' /\ u \in Local
    BY <1>2, <1>9
  <2>4. QED
    BY <1>10, <2>1, <2>2, <2>3 DEF JobOK
<1>12. ASSUME NEW i \in Jobs \ {j} PROVE JobOK(i, loc[i])'
  <2>1. JobOK(i, loc[i]) /\ loc'[i] = loc[i]
    BY <1>10 DEF TypeInv, JobsOK
  <2>2. loc[i].at \in 1..now => loc[i].at \in 1..now'
    BY <1>1, <1>2, <1>4
  <2>3. QED
    BY <1>2, <2>1, <2>2 DEF JobOK
<1>13. JobsOK'
  BY <1>10, <1>11, <1>12 DEF JobsOK
<1>14. Registered' = Registered \cup {j}
  BY <1>7, <1>9, <1>10 DEF Registered
<1>15. ClockOK'
  BY <1>1, <1>2, <1>4, <1>14 DEF TypeInv, ClockOK
<1>16. QED
  BY <1>2, <1>13, <1>15 DEF TypeInv, DataOK, CountsOK

LEMMA KubeletOK ==
  ASSUME TypeInv, NEW p \in PodNames, Kubelet(p)
  PROVE  TypeInv'
<1>1. UNCHANGED <<mix, now, svcs, ledger, secret, loc>>
  BY DEF Kubelet, ContainerStops, ContainerReads, ContainerUp
<1>2. CountsOK'
  BY ConstantsOK DEF Kubelet, ContainerStops, ContainerReads, ContainerUp, Well,
                     TypeInv, CountsOK
<1>3. pods[p] \in Pod /\ secret[p] \in Hashes \cup {"none"} /\ NoPod \in Pod
  BY BlankType DEF TypeInv, DataOK
<1>4. \E q \in Pod : pods' = [pods EXCEPT ![p] = q]
  <2>1. [NoPod EXCEPT !.st = "down"] \in Pod /\ [pods[p] EXCEPT !.env = secret[p]] \in Pod
        /\ [st |-> "up", env |-> "none", shadow |-> pods[p].env] \in Pod
    BY <1>3 DEF Pod
  <2>2. pods' = [pods EXCEPT ![p].env = secret[p]]
        => pods' = [pods EXCEPT ![p] = [pods[p] EXCEPT !.env = secret[p]]]
    OBVIOUS
  <2>3. QED
    BY <2>1, <2>2 DEF Kubelet, ContainerStops, ContainerReads, ContainerUp
<1>5. DataOK'
  BY <1>1, <1>4 DEF TypeInv, DataOK
<1>6. QED
  BY <1>1, <1>2, <1>5 DEF TypeInv, ClockOK, Registered, JobsOK, JobOK

LEMMA InitOK == Init => TypeInv
<1> SUFFICES ASSUME Init PROVE TypeInv
  OBVIOUS
<1>1. Cardinality(Jobs) \in Nat
  BY FS_CardinalityType, ConstantsOK
<1>2. Blank \in Local /\ Blank.pc = "new" /\ Blank.at = 0 /\ ~Blank.blocked /\ ~Blank.back
  BY BlankType DEF Blank
<1>3. JobsOK
  BY <1>2 DEF Init, JobsOK, JobOK, AccessPCs, PortPCs, MovePCs, PasswordPCs
<1>4. Registered = {}
  BY <1>2 DEF Init, Registered
<1>5. ClockOK
  BY <1>1, <1>4, FS_EmptySet DEF Init, ClockOK
<1>6. DataOK
  <2>1. svcs \subseteq Svc
    <3>1. Old \subseteq PodNames /\ Base \subseteq Ports /\ 0 \in 0..Cardinality(Jobs)
      BY <1>1 DEF PodNames, Ports
    <3>2. ASSUME NEW p \in Old, NEW i \in Base
          PROVE  [pod |-> p, port |-> i, by |-> p, blocked |-> FALSE, at |-> 0] \in Svc
      BY <3>1 DEF Svc
    <3>3. QED
      BY <3>2 DEF Init
  <2>2. ledger \in Hashes /\ secret \in [PodNames -> Hashes \cup {"none"}]
    BY DEF Init, Hashes
  <2>3. [st |-> "up", env |-> "none", shadow |-> "set"] \in Pod /\ NoPod \in Pod
    BY BlankType DEF Pod, Hashes
  <2>4. pods \in [PodNames -> Pod]
    BY <2>3 DEF Init
  <2>5. QED
    BY <2>1, <2>2, <2>4 DEF DataOK
<1>7. CountsOK
  BY ConstantsOK DEF Init, CountsOK
<1>8. QED
  BY <1>3, <1>5, <1>6, <1>7 DEF TypeInv

LEMMA NextOK == TypeInv /\ [Next]_vars => TypeInv'
<1> SUFFICES ASSUME TypeInv, [Next]_vars PROVE TypeInv'
  OBVIOUS
<1>1. CASE UNCHANGED vars
  BY <1>1 DEF vars, TypeInv, ClockOK, Registered, JobsOK, JobOK, DataOK, CountsOK
<1>2. ASSUME NEW j \in Jobs, JobStep(j) PROVE TypeInv'
  BY <1>2, StepMoves, MovedJobs, JobData, JobCounts DEF TypeInv
<1>3. QED
  BY <1>1, <1>2, RegisterOK, KubeletOK DEF Next, JobStep

LEMMA TypeInvariant == Spec => []TypeInv
BY InitOK, NextOK, PTL DEF Spec

\* Every value that the jobs, the ledger, the Secrets, the Pods and the Services
\* can take has its type, the clock included.
THEOREM TypeCorrect == Spec => []TypeOK
<1>1. TypeInv => TypeOK
  BY DEF TypeInv, ClockOK, JobsOK, DataOK, CountsOK, TypeOK, Pod
<1>2. QED
  BY <1>1, TypeInvariant, PTL

-----------------------------------------------------------------------------
(* Decisions: the time and the state they carry, as one number.  A block    *)
(* outranks a release of the same millisecond.                              *)

Rank(b, t) == 2 * t + (IF b THEN 1 ELSE 0)
RankOf(j)  == Rank(KindOf[j] = "block", loc[j].at)
SvcRank(s) == Rank(s.blocked, s.at)

Decided(j)    == KindOf[j] \in Access /\ loc[j].pc # "new"
Overridden(j) == \E k \in Jobs : Later(k, j)
Agrees(s, j)  == s.blocked <=> KindOf[j] = "block"

\* No step changes what a job was registered with.
LEMMA Stable ==
  ASSUME TypeInv, [Next]_vars, NEW k \in Jobs, loc[k].pc # "new"
  PROVE  loc'[k].pc # "new" /\ loc'[k].at = loc[k].at
         /\ loc'[k].blocked = loc[k].blocked /\ mix' = mix
<1>1. CASE UNCHANGED vars
  BY <1>1 DEF vars
<1>2. ASSUME NEW j \in Jobs, JobStep(j)
      PROVE  loc'[k].pc # "new" /\ loc'[k].at = loc[k].at
             /\ loc'[k].blocked = loc[k].blocked /\ mix' = mix
  <2>1. mix' = mix /\ \E u : Set(j, u) /\ Onto(j, u)
    BY <1>2, StepMoves DEF Moves
  <2>2. QED
    BY <2>1 DEF Set, Onto, TypeInv, JobsOK
<1>3. ASSUME NEW j \in Jobs, Register(j)
      PROVE  loc'[k].pc # "new" /\ loc'[k].at = loc[k].at
             /\ loc'[k].blocked = loc[k].blocked /\ mix' = mix
  <2>1. j # k /\ mix' = mix /\ \E u : Set(j, u)
    BY <1>3 DEF Register, At
  <2>2. QED
    BY <2>1 DEF Set, TypeInv, JobsOK
<1>4. ASSUME NEW p \in PodNames, Kubelet(p)
      PROVE  loc'[k].pc # "new" /\ loc'[k].at = loc[k].at
             /\ loc'[k].blocked = loc[k].blocked /\ mix' = mix
  BY <1>4 DEF Kubelet, ContainerStops, ContainerReads, ContainerUp
<1>5. QED
  BY <1>1, <1>2, <1>3, <1>4 DEF Next, JobStep

LEMMA JobTypes ==
  ASSUME TypeInv, NEW j \in Jobs
  PROVE  /\ JobOK(j, loc[j]) /\ loc[j] \in Local
         /\ loc[j].at \in Nat /\ loc[j].blocked \in BOOLEAN
         /\ loc[j].stale \subseteq Svc /\ loc[j].ports \subseteq Ports
         /\ loc[j].todo \subseteq PodNames
         /\ KindOf[j] \in Access \cup Serving \cup {"password"}
<1>1. JobOK(j, loc[j]) /\ loc[j] \in Local
  BY DEF TypeInv, JobsOK
<1>2. Cardinality(Jobs) \in Nat
  BY FS_CardinalityType, ConstantsOK
<1>3. loc[j].at \in Nat
  BY <1>1, <1>2 DEF Local
<1>4. QED
  BY <1>1, <1>3, ConstantsOK DEF Local

LEMMA SvcFields ==
  ASSUME NEW s \in Svc
  PROVE  s.at \in Nat /\ s.blocked \in BOOLEAN /\ s.pod \in PodNames /\ s.port \in Ports
<1>1. Cardinality(Jobs) \in Nat
  BY FS_CardinalityType, ConstantsOK
<1>2. QED
  BY <1>1 DEF Svc

LEMMA RankType ==
  ASSUME NEW t \in Nat, NEW b \in BOOLEAN
  PROVE  Rank(b, t) \in Nat /\ Rank(b, t) >= 2 * t
BY DEF Rank

LEMMA LaterRank ==
  ASSUME TypeInv, NEW j \in Jobs, NEW k \in Jobs, KindOf[j] \in Access, Decided(k)
  PROVE  Later(k, j) <=> KindOf[k] # KindOf[j] /\ RankOf(k) > RankOf(j)
<1>1. loc[j].at \in Nat /\ loc[k].at \in Nat /\ k \in mix
  BY JobTypes DEF JobOK, Decided
<1>2. KindOf[j] \in {"block", "release"} /\ KindOf[k] \in {"block", "release"}
  BY DEF Decided, Access
<1>3. QED
  BY <1>1, <1>2 DEF Later, Is, Decided, RankOf, Rank

\* Only a registered access job can override, and it goes on doing so.
LEMMA LaterStable ==
  ASSUME TypeInv, [Next]_vars, NEW j \in Jobs, NEW k \in Jobs,
         loc[j].pc # "new", Later(k, j)
  PROVE  Later(k, j)'
<1>1. loc[k].pc # "new"
  BY DEF Later
<1>2. QED
  BY <1>1, Stable DEF Later, Is

\* Where a Service's state and annotation come from
Origin(s) ==
  \/ ~s.blocked /\ s.at = 0
  \/ \E k \in Jobs : Decided(k) /\ Agrees(s, k) /\ s.at = loc[k].at
  \/ s.blocked /\ \E m \in Jobs : loc[m].blocked /\ loc[m].at = s.at

\* What an access job is about to patch it outranks.
StaleOK(j) == loc[j].pc = "patch" =>
                \A s \in loc[j].stale : SvcRank(s) < RankOf(j)

GivenUp(j) == loc[j].pc = "superseded" =>
                \/ Overridden(j)
                \/ \E k \in Jobs : loc[k].blocked /\ loc[k].at >= loc[j].at

OriginInv == /\ \A s \in svcs : Origin(s)
             /\ \A j \in Jobs : StaleOK(j) /\ GivenUp(j)

LEMMA OriginStable ==
  ASSUME TypeInv, [Next]_vars, NEW s, Origin(s)
  PROVE  Origin(s)'
<1>1. CASE \E k \in Jobs : Decided(k) /\ Agrees(s, k) /\ s.at = loc[k].at
  BY <1>1, Stable DEF Origin, Decided, Agrees
<1>2. CASE s.blocked /\ \E m \in Jobs : loc[m].blocked /\ loc[m].at = s.at
  <2>1. PICK m \in Jobs : loc[m].blocked /\ loc[m].at = s.at
    BY <1>2
  <2>2. loc[m].pc # "new"
    BY <2>1, JobTypes DEF JobOK
  <2>3. QED
    BY <1>2, <2>1, <2>2, Stable DEF Origin
<1>3. QED
  BY <1>1, <1>2 DEF Origin

\* x stands where y stood.
Instead(x, y) == x.pod = y.pod /\ x.port = y.port /\ x.by = y.by

\* A patched Service is at its patcher's decision.
LEMMA PatchedRank ==
  ASSUME TypeInv, NEW j \in Jobs, KindOf[j] \in Access, NEW s \in Svc,
         SvcRank(s) < RankOf(j)
  PROVE  /\ Agrees(Patched(j, s), j) /\ Patched(j, s).at = loc[j].at
         /\ SvcRank(Patched(j, s)) = RankOf(j)
         /\ Instead(Patched(j, s), s)
<1>1. s.at \in Nat /\ s.blocked \in BOOLEAN /\ loc[j].at \in Nat
  BY SvcFields, JobTypes
<1>2. s.at <= loc[j].at
  BY <1>1 DEF SvcRank, RankOf, Rank
<1>3. /\ (Patched(j, s).blocked <=> KindOf[j] = "block")
      /\ Patched(j, s).at = IF s.at < loc[j].at THEN loc[j].at ELSE s.at
      /\ Instead(Patched(j, s), s)
  BY DEF Patched, Svc, Instead
<1>4. Patched(j, s).at = loc[j].at
  BY <1>1, <1>2, <1>3
<1>5. QED
  BY <1>3, <1>4 DEF Agrees, SvcRank, RankOf, Rank

\* The listing: what is stale, and what overrides.
LEMMA Listed ==
  ASSUME TypeInv, NEW j \in Jobs, KindOf[j] \in Access, NEW s \in svcs
  PROVE  /\ ~Superseded(j) /\ s \in StaleOnes(j) => SvcRank(s) < RankOf(j)
         /\ ~Superseded(j) /\ s \notin StaleOnes(j) => SvcRank(s) >= RankOf(j)
         /\ ~Superseded(j) => Agrees(s, j) \/ SvcRank(s) < RankOf(j)
<1>1. s.at \in Nat /\ s.blocked \in BOOLEAN /\ loc[j].at \in Nat
  BY SvcFields, JobTypes DEF TypeInv, DataOK
<1>2. KindOf[j] \in {"block", "release"}
  BY DEF Access
<1>3. ~Superseded(j) => IF KindOf[j] = "block" THEN s.blocked \/ s.at <= loc[j].at
                                               ELSE ~s.blocked \/ s.at < loc[j].at
  BY <1>1 DEF Superseded
<1>4. s \in StaleOnes(j) <=> ~Agrees(s, j) \/ s.at < loc[j].at
  BY <1>1 DEF StaleOnes, Agrees
<1>5. QED
  BY <1>1, <1>2, <1>3, <1>4 DEF Agrees, SvcRank, RankOf, Rank

\* How the Services change: fewer, one patched, or one created.
LEMMA SvcStep ==
  ASSUME TypeInv, NEW j \in Jobs, JobStep(j)
  PROVE  \/ svcs' \subseteq svcs
         \/ /\ loc[j].pc = "patch" /\ AccessPatch(j)
            /\ \E s \in loc[j].stale \cap svcs :
                 svcs' = (svcs \ {s}) \cup {Patched(j, s)}
         \/ /\ loc[j].pc \in {"add", "service"} /\ (PortAdd(j) \/ MoveService(j))
            /\ \E p, k \in PodNames, i \in Ports : svcs' \subseteq svcs \cup {Created(j, p, i, k)}
<1>1. CASE \/ ReadFails(j) \/ Crash(j) \/ AccessList(j) \/ PortRead(j)
           \/ PortAllocate(j) \/ PasswordJob(j) \/ MoveInherit(j)
           \/ MoveSecret(j) \/ MovePod(j) \/ MoveReady(j) \/ MoveServices(j)
           \/ MoveServed(j) \/ MoveCleanServices(j) \/ MoveCleanPod(j)
           \/ MoveCleaned(j)
  <2>1. CASE MoveSecret(j) \/ MovePod(j) \/ MoveReady(j)
    <3>1. ~MoveService(j)
      BY <2>1 DEF MoveSecret, MovePod, MoveReady, MoveService, At
    <3>2. QED
      BY <2>1, <3>1, MakeSvcs
  <2>2. CASE MoveInherit(j) \/ MoveServices(j) \/ MoveServed(j) \/ MoveCleanServices(j)
             \/ MoveCleanPod(j) \/ MoveCleaned(j)
    BY <2>2 DEF MoveInherit, MoveServices, MoveServed, MoveCleanServices, MoveCleanPod,
                MoveCleaned
  <2>3. CASE ReadFails(j) \/ Crash(j)
    BY <2>3 DEF ReadFails, Crash
  <2>4. CASE AccessList(j) \/ PortRead(j) \/ PortAllocate(j)
    BY <2>4 DEF AccessList, PortRead, PortAllocate
  <2>5. CASE PasswordJob(j)
    BY <2>5 DEF PasswordJob, PasswordLedger, PasswordSecrets, PasswordHash,
                PasswordPods, PasswordExec, PasswordDone
  <2>6. QED
    BY <1>1, <2>1, <2>2, <2>3, <2>4, <2>5
<1>2. CASE AccessPatch(j)
  <2>1. loc[j].pc = "patch"
    BY <1>2 DEF AccessPatch, At
  <2>2. svcs' = svcs \/ \E s \in loc[j].stale \cap svcs :
          svcs' = (svcs \ {s}) \cup {Patched(j, s)}
    BY <1>2 DEF AccessPatch
  <2>3. QED
    BY <1>2, <2>1, <2>2
<1>3. CASE PortAdd(j)
  <2>1. loc[j].pc = "add" /\ JobOK(j, loc[j])
    BY <1>3, JobTypes DEF PortAdd, At
  <2>2. TargetOf[j] \in PodNames /\ Extra \in Ports
    BY <2>1, ConstantsOK DEF JobOK, PortPCs, Serving, PodNames, Ports
  <2>3. \/ svcs' = svcs
        \/ \E k \in loc[j].todo : svcs' = svcs \cup {Created(j, TargetOf[j], Extra, k)}
    BY <1>3 DEF PortAdd
  <2>4. loc[j].todo \subseteq PodNames
    BY JobTypes DEF Local
  <2>5. QED
    BY <1>3, <2>1, <2>2, <2>3, <2>4
<1>4. CASE MoveService(j)
  <2>1. loc[j].pc = "service" /\ j \in PodNames /\ loc[j].ports \subseteq Ports
    BY <1>4, JobTypes DEF MoveService, At, PodNames
  <2>2. \E i \in loc[j].ports : svcs' \subseteq svcs \cup {Created(j, j, i, j)}
    BY <1>4, MakeSvcs
  <2>3. QED
    BY <1>4, <2>1, <2>2
<1>5. QED
  BY <1>1, <1>2, <1>3, <1>4 DEF JobStep, AccessJob, PortJob, MoveJob

-----------------------------------------------------------------------------
(* Where a step leaves its job                                              *)

LEMMA SetIs ==
  ASSUME TypeInv, NEW j \in Jobs, NEW u, Set(j, u)
  PROVE  loc'[j] = u /\ \A i \in Jobs : i # j => loc'[i] = loc[i]
BY DEF Set, TypeInv, JobsOK

LEMMA EndIs ==
  ASSUME TypeInv, NEW j \in Jobs, NEW v \in Final, End(j, v)
  PROVE  loc'[j].pc = v /\ ~loc'[j].back
<1>1. v \in PCs /\ 0 \in 0..MaxTries
  BY ConstantsOK DEF PCs
<1>2. loc'[j] = Fresh(j, v, 0)
  BY SetIs DEF End
<1>3. QED
  BY <1>1, <1>2, FreshType

LEMMA AgainIs ==
  ASSUME TypeInv, NEW j \in Jobs, NEW pc \in PCs, Again(j, pc)
  PROVE  loc'[j].pc \in {pc, "fail"} /\ ~loc'[j].back
<1>1. loc[j].tries \in 0..MaxTries /\ 0 \in 0..MaxTries /\ "fail" \in PCs
  BY ConstantsOK DEF TypeInv, JobsOK, Local, PCs, Final
<1>2. CASE loc[j].tries < MaxTries
  <2>1. loc[j].tries + 1 \in 0..MaxTries /\ loc'[j] = Fresh(j, pc, loc[j].tries + 1)
    BY <1>1, <1>2, SetIs, ConstantsOK DEF Again, Retry
  <2>2. QED
    BY <2>1, FreshType
<1>3. CASE ~(loc[j].tries < MaxTries)
  <2>1. loc'[j] = Fresh(j, "fail", 0)
    BY <1>3, SetIs DEF Again, Retry, End
  <2>2. QED
    BY <1>1, <2>1, FreshType
<1>4. QED
  BY <1>2, <1>3

LEMMA PortPoint ==
  ASSUME TypeInv, NEW j \in Jobs, PortJob(j)
  PROVE  loc'[j].pc \in PortPCs \cup {"ok", "fail"} /\ loc[j].pc \in PortPCs
<1>1. loc[j] \in Local /\ loc[j].pc \in PortPCs
  BY JobTypes DEF PortJob, PortRead, PortAllocate, PortAdd, At, PortPCs
<1>2. /\ Set(j, [loc[j] EXCEPT !.pc = "allocate"]) => loc'[j].pc = "allocate"
      /\ \A x : Set(j, [loc[j] EXCEPT !.pc = "add", !.todo = x]) => loc'[j].pc = "add"
      /\ \A x : Set(j, [loc[j] EXCEPT !.ports = x]) => loc'[j].pc = loc[j].pc
      /\ \A k : Set(j, [loc[j] EXCEPT !.todo = @ \ {k}]) => loc'[j].pc = loc[j].pc
  <2>1. ASSUME Set(j, [loc[j] EXCEPT !.pc = "allocate"]) PROVE loc'[j].pc = "allocate"
    <3>1. loc'[j] = [loc[j] EXCEPT !.pc = "allocate"]
      BY <2>1, SetIs
    <3>2. QED
      BY <1>1, <3>1 DEF Local
  <2>2. ASSUME NEW x, Set(j, [loc[j] EXCEPT !.pc = "add", !.todo = x])
        PROVE  loc'[j].pc = "add"
    <3>1. loc'[j] = [loc[j] EXCEPT !.pc = "add", !.todo = x]
      BY <2>2, SetIs
    <3>2. QED
      BY <1>1, <3>1 DEF Local
  <2>3. ASSUME NEW x, Set(j, [loc[j] EXCEPT !.ports = x])
        PROVE  loc'[j].pc = loc[j].pc
    <3>1. loc'[j] = [loc[j] EXCEPT !.ports = x]
      BY <2>3, SetIs
    <3>2. QED
      BY <1>1, <3>1 DEF Local
  <2>4. ASSUME NEW k, Set(j, [loc[j] EXCEPT !.todo = @ \ {k}])
        PROVE  loc'[j].pc = loc[j].pc
    <3>1. loc'[j] = [loc[j] EXCEPT !.todo = @ \ {k}]
      BY <2>4, SetIs
    <3>2. QED
      BY <1>1, <3>1 DEF Local
  <2>5. QED
    BY <2>1, <2>2, <2>3, <2>4
<1>3. /\ End(j, "ok") => loc'[j].pc = "ok"
      /\ End(j, "fail") => loc'[j].pc = "fail"
      /\ Again(j, "read") => loc'[j].pc \in {"read", "fail"}
  BY EndIs, AgainIs DEF Final, PCs
<1>4. QED
  BY <1>1, <1>2, <1>3 DEF PortJob, PortRead, PortAllocate, PortAdd, PortPCs

LEMMA MoveLeads ==
  ASSUME TypeInv, NEW j \in Jobs, MoveJob(j)
  PROVE  /\ loc[j].pc \in MovePCs
         /\ MoveInherit(j) => loc'[j].pc \in {"secret", "cleanServices", "fail"}
         /\ MoveSecret(j) => loc'[j].pc \in {"pod", "secret", "fail"}
         /\ MovePod(j) => loc'[j].pc \in {"wait", "secret", "fail"}
         /\ MoveReady(j) => loc'[j].pc \in {"services", "secret", "fail"}
         /\ MoveServices(j) => loc'[j].pc = "service"
         /\ MoveService(j) => loc'[j].pc \in {"service", "secret", "fail"}
         /\ MoveServed(j) => loc'[j].pc = "cleanServices"
         /\ MoveCleanServices(j) => loc'[j].pc \in {"cleanPod", "ok"}
         /\ MoveCleanPod(j) => loc'[j].pc \in {"cleanPod", "ok"}
         /\ MoveCleaned(j) => loc'[j].pc = "ok"
<1>1. loc[j] \in Local /\ loc[j].pc \in MovePCs
  BY JobTypes DEF MoveJob, MoveInherit, MoveSecret, MovePod, MoveReady, MoveServices,
         MoveService, MoveServed, MoveCleanServices, MoveCleanPod, MoveCleaned, At, MovePCs
<1>2. ASSUME NEW pc, Set(j, [loc[j] EXCEPT !.pc = pc])
      PROVE  loc'[j].pc = pc
  <2>1. loc'[j] = [loc[j] EXCEPT !.pc = pc]
    BY <1>2, SetIs
  <2>2. QED
    BY <1>1, <2>1 DEF Local
<1>3. ASSUME NEW h, Set(j, [loc[j] EXCEPT !.hash = h,
                      !.pc = IF @ = "inherit" THEN "secret" ELSE "cleanServices"])
      PROVE  loc'[j].pc \in {"secret", "cleanServices"}
  <2>1. loc'[j] = [loc[j] EXCEPT !.hash = h,
                      !.pc = IF @ = "inherit" THEN "secret" ELSE "cleanServices"]
    BY <1>3, SetIs
  <2>2. QED
    BY <1>1, <2>1 DEF Local
<1>4. ASSUME NEW ps, Set(j, [loc[j] EXCEPT !.pc = "service", !.ports = ps])
      PROVE  loc'[j].pc = "service"
  <2>1. loc'[j] = [loc[j] EXCEPT !.pc = "service", !.ports = ps]
    BY <1>4, SetIs
  <2>2. QED
    BY <1>1, <2>1 DEF Local
<1>5. ASSUME NEW i, Set(j, [loc[j] EXCEPT !.ports = @ \ {i}])
      PROVE  loc'[j].pc = loc[j].pc
  <2>1. loc'[j] = [loc[j] EXCEPT !.ports = @ \ {i}]
    BY <1>5, SetIs
  <2>2. QED
    BY <1>1, <2>1 DEF Local
<1>6. /\ End(j, "ok") => loc'[j].pc = "ok"
      /\ End(j, "fail") => loc'[j].pc = "fail"
  BY EndIs DEF Final
<1>7. Rewind(j) => loc'[j].pc \in {"secret", "fail"}
  <2>1. loc[j].pc # "new" /\ KindOf[j] = "migrate"
    BY <1>1, JobTypes DEF JobOK, MovePCs
  <2>2. QED
    BY <2>1, RewindOK, SetIs
<1>8. MoveInherit(j) => loc'[j].pc \in {"secret", "cleanServices", "fail"}
  BY <1>3, <1>6 DEF MoveInherit
<1>9. MoveSecret(j) => loc'[j].pc \in {"pod", "secret", "fail"}
  BY <1>2, <1>7 DEF MoveSecret
<1>10. MovePod(j) => loc'[j].pc \in {"wait", "secret", "fail"}
  BY <1>2, <1>7 DEF MovePod
<1>11. MoveReady(j) => loc'[j].pc \in {"services", "secret", "fail"}
  BY <1>2, <1>6, <1>7 DEF MoveReady
<1>12. MoveServices(j) => loc'[j].pc = "service"
  BY <1>4 DEF MoveServices
<1>13. MoveService(j) => loc'[j].pc \in {"service", "secret", "fail"}
  BY <1>5, <1>7 DEF MoveService, At
<1>14. MoveServed(j) => loc'[j].pc = "cleanServices"
  BY <1>2 DEF MoveServed
<1>15. MoveCleanServices(j) => loc'[j].pc \in {"cleanPod", "ok"}
  BY <1>2, <1>6 DEF MoveCleanServices
<1>16. MoveCleanPod(j) => loc'[j].pc \in {"cleanPod", "ok"}
  BY <1>6 DEF MoveCleanPod, At
<1>17. MoveCleaned(j) => loc'[j].pc = "ok"
  BY <1>6 DEF MoveCleaned
<1>18. QED
  BY <1>1, <1>8, <1>9, <1>10, <1>11, <1>12, <1>13, <1>14, <1>15, <1>16, <1>17

LEMMA MovePoint ==
  ASSUME TypeInv, NEW j \in Jobs, MoveJob(j)
  PROVE  loc'[j].pc \in MovePCs \cup {"ok", "fail"} /\ loc[j].pc \in MovePCs
<1>1. CASE MoveInherit(j) \/ MoveSecret(j) \/ MovePod(j) \/ MoveReady(j) \/ MoveServices(j)
  BY <1>1, MoveLeads DEF MovePCs
<1>2. CASE MoveService(j) \/ MoveServed(j) \/ MoveCleanServices(j) \/ MoveCleanPod(j)
           \/ MoveCleaned(j)
  BY <1>2, MoveLeads DEF MovePCs
<1>3. QED
  BY <1>1, <1>2 DEF MoveJob

LEMMA PasswordPoint ==
  ASSUME TypeInv, NEW j \in Jobs, PasswordJob(j)
  PROVE  loc'[j].pc \in PasswordPCs \cup {"ok", "fail", "undone"}
         /\ loc[j].pc \in PasswordPCs
<1>1. loc[j] \in Local /\ loc[j].pc \in PasswordPCs
  BY JobTypes DEF PasswordJob, PasswordLedger, PasswordSecrets, PasswordHash,
         PasswordPods, PasswordExec, PasswordDone, At, PasswordPCs
<1>2. /\ \A pc, x : Set(j, [loc[j] EXCEPT !.pc = pc, !.hash = x]) => loc'[j].pc = pc
      /\ \A pc, x : Set(j, [loc[j] EXCEPT !.pc = pc, !.todo = x]) => loc'[j].pc = pc
      /\ \A pc : Set(j, [loc[j] EXCEPT !.pc = pc]) => loc'[j].pc = pc
      /\ \A x : Set(j, [loc[j] EXCEPT !.todo = x]) => loc'[j].pc = loc[j].pc
      /\ \A x, b : Set(j, [loc[j] EXCEPT !.todo = x, !.bad = b]) => loc'[j].pc = loc[j].pc
  <2>1. ASSUME NEW pc, NEW x, Set(j, [loc[j] EXCEPT !.pc = pc, !.hash = x])
        PROVE  loc'[j].pc = pc
    <3>1. loc'[j] = [loc[j] EXCEPT !.pc = pc, !.hash = x]
      BY <2>1, SetIs
    <3>2. QED
      BY <1>1, <3>1 DEF Local
  <2>2. ASSUME NEW pc, NEW x, Set(j, [loc[j] EXCEPT !.pc = pc, !.todo = x])
        PROVE  loc'[j].pc = pc
    <3>1. loc'[j] = [loc[j] EXCEPT !.pc = pc, !.todo = x]
      BY <2>2, SetIs
    <3>2. QED
      BY <1>1, <3>1 DEF Local
  <2>3. ASSUME NEW pc, Set(j, [loc[j] EXCEPT !.pc = pc])
        PROVE  loc'[j].pc = pc
    <3>1. loc'[j] = [loc[j] EXCEPT !.pc = pc]
      BY <2>3, SetIs
    <3>2. QED
      BY <1>1, <3>1 DEF Local
  <2>4. ASSUME NEW x, Set(j, [loc[j] EXCEPT !.todo = x])
        PROVE  loc'[j].pc = loc[j].pc
    <3>1. loc'[j] = [loc[j] EXCEPT !.todo = x]
      BY <2>4, SetIs
    <3>2. QED
      BY <1>1, <3>1 DEF Local
  <2>5. ASSUME NEW x, NEW b, Set(j, [loc[j] EXCEPT !.todo = x, !.bad = b])
        PROVE  loc'[j].pc = loc[j].pc
    <3>1. loc'[j] = [loc[j] EXCEPT !.todo = x, !.bad = b]
      BY <2>5, SetIs
    <3>2. QED
      BY <1>1, <3>1 DEF Local
  <2>6. QED
    BY <2>1, <2>2, <2>3, <2>4, <2>5
<1>3. /\ End(j, "ok") => loc'[j].pc = "ok"
      /\ End(j, "undone") => loc'[j].pc = "undone"
      /\ Again(j, "ledger") => loc'[j].pc \in {"ledger", "fail"}
  BY EndIs, AgainIs DEF Final, PCs
<1>4. loc[j].pc # "ledger" /\ Broke(j) => loc'[j].pc \in {"ledger", "fail"}
  BY <1>1, BrokeOK, SetIs
<1>5. CASE PasswordLedger(j)
  BY <1>2, <1>3, <1>5 DEF PasswordLedger, PasswordPCs, At
<1>6. CASE PasswordSecrets(j) \/ PasswordPods(j)
  BY <1>2, <1>4, <1>6 DEF PasswordSecrets, PasswordPods, PasswordPCs, At
<1>7. CASE PasswordHash(j)
  BY <1>2, <1>4, <1>7 DEF PasswordHash, PasswordPCs, At
<1>8. CASE PasswordExec(j)
  BY <1>2, <1>8 DEF PasswordExec, PasswordPCs, At
<1>9. CASE PasswordDone(j)
  BY <1>3, <1>4, <1>9 DEF PasswordDone, PasswordPCs, At
<1>10. QED
  BY <1>5, <1>6, <1>7, <1>8, <1>9 DEF PasswordJob

LEMMA AccessPoint ==
  ASSUME TypeInv, NEW j \in Jobs, AccessJob(j)
  PROVE  /\ loc[j].pc \in AccessPCs /\ KindOf[j] \in Access
         /\ loc'[j].pc \in {"list", "patch", "ok", "fail", "superseded"}
         /\ loc'[j].pc = "superseded" =>
              AccessList(j) /\ Superseded(j)
         /\ loc'[j].pc = "patch" =>
              \/ AccessList(j) /\ ~Superseded(j) /\ loc'[j].stale = StaleOnes(j)
              \/ AccessPatch(j) /\ loc'[j].stale \subseteq loc[j].stale
         /\ loc'[j].pc = "ok" =>
              \/ AccessList(j) /\ ~Superseded(j) /\ StaleOnes(j) = {}
              \/ AccessPatch(j) /\ \E s \in svcs : loc[j].stale = {s}
                                     /\ svcs' = (svcs \ {s}) \cup {Patched(j, s)}
<1>1. loc[j] \in Local /\ loc[j].pc \in AccessPCs /\ KindOf[j] \in Access
  BY JobTypes DEF AccessJob, AccessList, AccessPatch, At, AccessPCs, JobOK
<1>2. /\ End(j, "ok") => loc'[j].pc = "ok"
      /\ End(j, "superseded") => loc'[j].pc = "superseded"
      /\ Again(j, "list") => loc'[j].pc \in {"list", "fail"}
  BY EndIs, AgainIs DEF Final, PCs
<1>3. CASE AccessList(j)
  <2>1. Set(j, [loc[j] EXCEPT !.pc = "patch", !.stale = StaleOnes(j)])
        => loc'[j].pc = "patch" /\ loc'[j].stale = StaleOnes(j)
    <3>1. LET u == [loc[j] EXCEPT !.pc = "patch", !.stale = StaleOnes(j)]
          IN u.pc = "patch" /\ u.stale = StaleOnes(j)
      BY <1>1 DEF Local
    <3>2. QED
      BY <3>1, SetIs
  <2>2. QED
    BY <1>1, <1>2, <1>3, <2>1 DEF AccessList
<1>4. CASE AccessPatch(j)
  <2>1. PICK s \in loc[j].stale :
          \/ /\ s \in svcs /\ svcs' = (svcs \ {s}) \cup {Patched(j, s)}
             /\ IF loc[j].stale = {s} THEN End(j, "ok")
                ELSE Set(j, [loc[j] EXCEPT !.stale = @ \ {s}])
          \/ Again(j, "list")
    BY <1>4 DEF AccessPatch
  <2>2. loc[j].pc = "patch"
    BY <1>4 DEF AccessPatch, At
  <2>3. Set(j, [loc[j] EXCEPT !.stale = @ \ {s}])
        => loc'[j].pc = "patch" /\ loc'[j].stale = loc[j].stale \ {s}
    BY <1>1, <2>2, SetIs DEF Local
  <2>4. QED
    BY <1>1, <1>2, <1>4, <2>1, <2>3
<1>5. QED
  BY <1>3, <1>4 DEF AccessJob

LEMMA CrashPoint ==
  ASSUME TypeInv, NEW j \in Jobs, ReadFails(j) \/ Crash(j)
  PROVE  /\ UNCHANGED <<ledger, secret, pods>> /\ svcs' \subseteq svcs /\ Running(j)
         /\ KindOf[j] # "migrate" => UNCHANGED svcs
         /\ ~loc'[j].back
         /\ \/ loc'[j].pc = "fail"
            \/ KindOf[j] \in Access /\ loc'[j].pc = "list"
            \/ KindOf[j] = "port" /\ loc'[j].pc = "read"
            \/ KindOf[j] = "migrate" /\ loc'[j].pc \in {"inherit", "resume"}
            \/ KindOf[j] = "password" /\ loc'[j].pc = "ledger"
<1>1. JobOK(j, loc[j]) /\ KindOf[j] \in Access \cup Serving \cup {"password"}
  BY JobTypes
<1>2. CASE ReadFails(j)
  <2>1. loc[j].pc \in PCs /\ Again(j, loc[j].pc) /\ Running(j)
        /\ loc[j].pc \in {"list", "read", "inherit", "resume"}
    BY <1>2 DEF ReadFails, PCs, Running, Final
  <2>2. loc'[j].pc \in {loc[j].pc, "fail"} /\ ~loc'[j].back
    BY <2>1, AgainIs
  <2>3. \/ KindOf[j] \in Access /\ loc[j].pc = "list"
        \/ KindOf[j] = "port" /\ loc[j].pc = "read"
        \/ KindOf[j] = "migrate" /\ loc[j].pc \in {"inherit", "resume"}
    BY <1>1, <2>1 DEF JobOK, AccessPCs, PortPCs, MovePCs
  <2>4. QED
    BY <1>2, <2>1, <2>2, <2>3 DEF ReadFails
<1>3. CASE Crash(j)
  <2>1. \/ KindOf[j] \in Access /\ First(KindOf[j]) = "list"
        \/ KindOf[j] = "port" /\ First(KindOf[j]) = "read"
        \/ KindOf[j] = "migrate" /\ First(KindOf[j]) = "inherit"
        \/ KindOf[j] = "password" /\ First(KindOf[j]) = "ledger"
    BY <1>1 DEF First, Access, Serving
  <2>2. First(KindOf[j]) \in PCs /\ "fail" \in Final /\ 0 \in 0..MaxTries
    BY <2>1, ConstantsOK DEF PCs, Final
  <2>3. /\ UNCHANGED <<ledger, secret, pods>> /\ svcs' \subseteq svcs /\ Running(j)
        /\ KindOf[j] # "migrate" => UNCHANGED svcs
    BY <1>3 DEF Crash
  <2>4. CASE End(j, "fail")
    BY <2>2, <2>3, <2>4, EndIs
  <2>5. CASE Set(j, Fresh(j, First(KindOf[j]), 0))
    <3>1. loc'[j].pc = First(KindOf[j]) /\ ~loc'[j].back
      BY <2>2, <2>5, FreshType, SetIs
    <3>2. QED
      BY <2>1, <2>3, <3>1
  <2>6. CASE KindOf[j] = "migrate" /\ Set(j, Fresh(j, "resume", 0))
    <3>1. loc'[j].pc = "resume" /\ ~loc'[j].back
      BY <2>2, <2>6, FreshType, SetIs DEF PCs
    <3>2. QED
      BY <2>3, <2>6, <3>1
  <2>7. QED
    BY <1>3, <2>4, <2>5, <2>6 DEF Crash
<1>4. QED
  BY <1>2, <1>3

LEMMA AccessEnters ==
  ASSUME TypeInv, NEW j \in Jobs, JobStep(j), loc'[j].pc \in {"patch", "superseded"}
  PROVE  AccessJob(j)
BY CrashPoint, PortPoint, MovePoint, PasswordPoint
   DEF JobStep, PortPCs, MovePCs, PasswordPCs

\* A step of one job leaves the others, and every registration, as they are.
LEMMA StepOthers ==
  ASSUME TypeInv, NEW j \in Jobs, JobStep(j)
  PROVE  /\ \A i \in Jobs : i # j => loc'[i] = loc[i]
         /\ loc'[j].at = loc[j].at /\ loc'[j].blocked = loc[j].blocked
         /\ loc[j].pc # "new" /\ loc'[j].pc # "new" /\ mix' = mix /\ now' = now
<1>1. PICK u : Set(j, u) /\ Onto(j, u)
  BY StepMoves DEF Moves
<1>2. QED
  BY <1>1, SetIs, StepMoves DEF Onto

LEMMA RegisterOthers ==
  ASSUME TypeInv, NEW j \in Jobs, Register(j)
  PROVE  /\ \A i \in Jobs : i # j => loc'[i] = loc[i]
         /\ loc[j].pc = "new" /\ loc[j].at = 0 /\ j \in mix
         /\ loc'[j].pc \in {"list", "read", "inherit", "ledger"}
         /\ loc'[j].at = now' /\ loc'[j].at >= 1 /\ now' >= now /\ now' \in Nat
         /\ loc'[j].blocked = (KindOf[j] \in Serving /\ Blocked)
         /\ ~loc'[j].back
         /\ UNCHANGED <<mix, svcs, ledger, secret, pods, counts>>
<1>1. PICK t \in {now, now + 1} \ {0} :
        /\ now' = t
        /\ Set(j, [Blank EXCEPT !.pc = First(KindOf[j]), !.at = t,
                               !.blocked = KindOf[j] \in Serving /\ Blocked])
  BY DEF Register
<1>2. UNCHANGED <<mix, svcs, ledger, secret, pods, counts>> /\ loc[j].pc = "new" /\ j \in mix
  BY DEF Register, At, Well
<1>3. now \in Nat
  BY FS_CardinalityType, ConstantsOK DEF TypeInv, ClockOK
<1>4. Blank \in Local /\ ~Blank.back
  BY BlankType DEF Blank
<1>5. loc'[j] = [Blank EXCEPT !.pc = First(KindOf[j]), !.at = t,
                              !.blocked = KindOf[j] \in Serving /\ Blocked]
      /\ \A i \in Jobs : i # j => loc'[i] = loc[i]
  BY <1>1, SetIs
<1>6. loc'[j].pc = First(KindOf[j]) /\ loc'[j].at = t /\ ~loc'[j].back
      /\ loc'[j].blocked = (KindOf[j] \in Serving /\ Blocked)
  BY <1>4, <1>5 DEF Local
<1>7. First(KindOf[j]) \in {"list", "read", "inherit", "ledger"}
  BY JobTypes DEF First, Access, Serving
<1>8. loc[j].at = 0
  BY <1>2, JobTypes DEF JobOK
<1>9. QED
  BY <1>1, <1>2, <1>3, <1>5, <1>6, <1>7, <1>8

LEMMA GivenUpStable ==
  ASSUME TypeInv, [Next]_vars, NEW j \in Jobs, loc[j].pc # "new",
         \/ Overridden(j)
         \/ \E k \in Jobs : loc[k].blocked /\ loc[k].at >= loc[j].at
  PROVE  GivenUp(j)'
<1>1. CASE Overridden(j)
  BY <1>1, LaterStable DEF Overridden, GivenUp
<1>2. CASE \E k \in Jobs : loc[k].blocked /\ loc[k].at >= loc[j].at
  <2>1. PICK k \in Jobs : loc[k].blocked /\ loc[k].at >= loc[j].at
    BY <1>2
  <2>2. loc[k].pc # "new"
    BY <2>1, JobTypes DEF JobOK
  <2>3. QED
    BY <2>1, <2>2, Stable DEF GivenUp
<1>3. QED
  BY <1>1, <1>2

\* What supersedes a decision was decided later, or made by a job that was
\* registered after a later one.
LEMMA SupersededBy ==
  ASSUME TypeInv, OriginInv, NEW j \in Jobs, Decided(j), Superseded(j)
  PROVE  \/ Overridden(j)
         \/ \E k \in Jobs : loc[k].blocked /\ loc[k].at >= loc[j].at
<1>1. KindOf[j] \in {"block", "release"} /\ loc[j].at \in Nat /\ loc[j].at >= 1
  <2>1. loc[j].at \in 1..now /\ now \in Nat
    BY JobTypes, FS_CardinalityType, ConstantsOK
       DEF JobOK, Decided, TypeInv, ClockOK
  <2>2. QED
    BY <2>1 DEF Decided, Access
<1>2. PICK s \in svcs : IF KindOf[j] = "block" THEN ~s.blocked /\ s.at > loc[j].at
                                               ELSE s.blocked /\ s.at >= loc[j].at
  BY DEF Superseded
<1>3. s.at \in Nat /\ s.blocked \in BOOLEAN /\ Origin(s)
  BY SvcFields DEF TypeInv, DataOK, OriginInv
<1>4. ~(~s.blocked /\ s.at = 0)
  BY <1>1, <1>2
<1>5. CASE \E k \in Jobs : Decided(k) /\ Agrees(s, k) /\ s.at = loc[k].at
  <2>1. PICK k \in Jobs : Decided(k) /\ Agrees(s, k) /\ s.at = loc[k].at
    BY <1>5
  <2>2. KindOf[k] \in {"block", "release"} /\ k \in mix
    BY <2>1, JobTypes DEF Decided, Access, JobOK
  <2>3. Later(k, j)
    BY <1>1, <1>2, <1>3, <2>1, <2>2 DEF Later, Is, Decided, Agrees
  <2>4. QED
    BY <2>3 DEF Overridden
<1>6. CASE s.blocked /\ \E m \in Jobs : loc[m].blocked /\ loc[m].at = s.at
  BY <1>1, <1>2, <1>3, <1>6
<1>7. QED
  BY <1>3, <1>4, <1>5, <1>6 DEF Origin

LEMMA OriginRegister ==
  ASSUME TypeInv, OriginInv, NEW i \in Jobs, Register(i)
  PROVE  OriginInv'
<1>1. [Next]_vars
  BY DEF Next
<1>2. \A s \in svcs' : Origin(s)'
  <2>1. SUFFICES ASSUME NEW s \in svcs PROVE Origin(s)'
    BY RegisterOthers
  <2>2. Origin(s)
    BY DEF OriginInv
  <2>3. QED
    BY <1>1, <2>2, OriginStable
<1>3. ASSUME NEW j \in Jobs PROVE StaleOK(j)'
  BY <1>3, RegisterOthers DEF OriginInv, StaleOK, RankOf
<1>4. ASSUME NEW j \in Jobs PROVE GivenUp(j)'
  <2>1. CASE loc'[j].pc # "superseded"
    BY <2>1 DEF GivenUp
  <2>2. CASE loc'[j].pc = "superseded"
    <3>1. loc[j].pc = "superseded"
      BY <2>2, RegisterOthers
    <3>2. QED
      BY <1>1, <3>1, GivenUpStable DEF OriginInv, GivenUp
  <2>3. QED
    BY <2>1, <2>2
<1>5. QED
  BY <1>2, <1>3, <1>4 DEF OriginInv

LEMMA OriginStep ==
  ASSUME TypeInv, OriginInv, NEW i \in Jobs, JobStep(i)
  PROVE  OriginInv'
<1>1. [Next]_vars
  BY DEF Next, JobStep
<1>2. ASSUME NEW s \in svcs' PROVE Origin(s)'
  <2>1. CASE s \in svcs
    BY <1>1, <2>1, OriginStable DEF OriginInv
  <2>2. CASE loc[i].pc = "patch" /\ \E x \in loc[i].stale \cap svcs : s = Patched(i, x)
    <3>1. PICK x \in loc[i].stale \cap svcs : s = Patched(i, x)
      BY <2>2
    <3>2. KindOf[i] \in Access /\ SvcRank(x) < RankOf(i) /\ x \in Svc
      BY <2>2, JobTypes DEF JobOK, AccessPCs, OriginInv, StaleOK
    <3>3. Agrees(s, i) /\ s.at = loc[i].at
      BY <3>1, <3>2, PatchedRank
    <3>4. Decided(i)
      BY <2>2, <3>2 DEF Decided
    <3>5. Origin(s)
      BY <3>3, <3>4 DEF Origin
    <3>6. QED
      BY <1>1, <3>5, OriginStable
  <2>3. CASE \E p, k \in PodNames, o \in Ports : s = Created(i, p, o, k)
    <3>1. s.blocked = loc[i].blocked /\ s.at = IF loc[i].blocked THEN loc[i].at ELSE 0
      BY <2>3 DEF Created
    <3>2. Origin(s)
      BY <3>1, JobTypes DEF Origin
    <3>3. QED
      BY <1>1, <3>2, OriginStable
  <2>4. QED
    BY <1>2, <2>1, <2>2, <2>3, SvcStep
<1>3. ASSUME NEW j \in Jobs PROVE StaleOK(j)'
  <2>1. CASE j # i
    BY <2>1, StepOthers DEF OriginInv, StaleOK, RankOf
  <2>2. CASE j = i /\ loc'[j].pc = "patch"
    <3>1. AccessJob(j) /\ RankOf(j)' = RankOf(j)
      BY <2>2, AccessEnters, StepOthers DEF RankOf
    <3>2. KindOf[j] \in Access
          /\ \/ AccessList(j) /\ ~Superseded(j) /\ loc'[j].stale = StaleOnes(j)
             \/ AccessPatch(j) /\ loc'[j].stale \subseteq loc[j].stale
      BY <2>2, <3>1, AccessPoint
    <3>3. CASE AccessList(j) /\ ~Superseded(j) /\ loc'[j].stale = StaleOnes(j)
      <4>1. StaleOnes(j) \subseteq svcs
        BY DEF StaleOnes
      <4>2. \A s \in StaleOnes(j) : SvcRank(s) < RankOf(j)
        BY <3>2, <3>3, <4>1, Listed
      <4>3. QED
        BY <3>1, <3>3, <4>2 DEF StaleOK, SvcRank
    <3>4. CASE AccessPatch(j) /\ loc'[j].stale \subseteq loc[j].stale
      BY <3>1, <3>4 DEF StaleOK, SvcRank, OriginInv, AccessPatch, At
    <3>5. QED
      BY <3>2, <3>3, <3>4
  <2>3. CASE loc'[j].pc # "patch"
    BY <2>3 DEF StaleOK
  <2>4. QED
    BY <2>1, <2>2, <2>3
<1>4. ASSUME NEW j \in Jobs PROVE GivenUp(j)'
  <2>1. CASE loc'[j].pc # "superseded"
    BY <2>1 DEF GivenUp
  <2>2. CASE loc'[j].pc = "superseded" /\ loc[j].pc = "superseded"
    BY <1>1, <2>2, GivenUpStable DEF OriginInv, GivenUp
  <2>3. CASE loc'[j].pc = "superseded" /\ loc[j].pc # "superseded"
    <3>1. j = i
      BY <2>3, StepOthers
    <3>2. AccessJob(j)
      BY <2>3, <3>1, AccessEnters
    <3>3. Decided(j) /\ Superseded(j) /\ loc[j].pc # "new"
      BY <2>3, <3>2, AccessPoint DEF Decided, AccessPCs
    <3>4. QED
      BY <1>1, <3>3, SupersededBy, GivenUpStable
  <2>4. QED
    BY <2>1, <2>2, <2>3
<1>5. QED
  BY <1>2, <1>3, <1>4 DEF OriginInv

LEMMA OriginNext == TypeInv /\ OriginInv /\ [Next]_vars => OriginInv'
<1> SUFFICES ASSUME TypeInv, OriginInv, [Next]_vars PROVE OriginInv'
  OBVIOUS
<1>1. CASE UNCHANGED <<mix, svcs, loc>>
  BY <1>1 DEF OriginInv, Origin, Decided, Agrees, StaleOK, RankOf, GivenUp, Overridden,
              Later, Is
<1>2. CASE UNCHANGED vars \/ \E p \in PodNames : Kubelet(p)
  BY <1>1, <1>2 DEF vars, Kubelet, ContainerStops, ContainerReads, ContainerUp
<1>3. QED
  BY <1>2, OriginRegister, OriginStep DEF Next, JobStep

\* An access job that ends as superseded was overridden by a later decision or
\* by a Service that a job registered no earlier created blocked, in whatever
\* order the jobs ran and whatever failed.
THEOREM SupersededOnlyByLater == Spec => []OnlyLaterSupersedes
<1>1. Init => OriginInv
  <2> SUFFICES ASSUME Init PROVE OriginInv
    OBVIOUS
  <2>1. Blank.pc = "new"
    BY DEF Blank
  <2>2. \A j \in Jobs : loc[j].pc = "new"
    BY <2>1 DEF Init
  <2>3. \A x \in svcs : ~x.blocked /\ x.at = 0
    BY DEF Init
  <2>4. QED
    BY <2>2, <2>3 DEF OriginInv, Origin, StaleOK, GivenUp
<1>2. OriginInv => OnlyLaterSupersedes
  BY DEF OriginInv, GivenUp, Overridden, OnlyLaterSupersedes
<1>3. QED
  BY <1>1, <1>2, OriginNext, TypeInvariant, PTL DEF Spec

-----------------------------------------------------------------------------
(* One Service for each node port of a Pod                                  *)

UniqueInv ==
  /\ \A x, y \in svcs : Instead(x, y) => x = y
  /\ \A m \in Jobs : loc[m].pc = "service" =>
       \A x \in svcs : x.pod = m => x.port \notin loc[m].ports

\* One port fewer to open
LEMMA PortsLeft ==
  ASSUME TypeInv, NEW j \in Jobs, NEW i, Set(j, [loc[j] EXCEPT !.ports = @ \ {i}])
  PROVE  loc'[j].ports = loc[j].ports \ {i}
<1>1. loc'[j] = [loc[j] EXCEPT !.ports = @ \ {i}]
  BY SetIs
<1>2. loc[j] \in Local
  BY JobTypes
<1>3. QED
  BY <1>1, <1>2 DEF Local

\* What a step creates: the extra port of an old Pod, for an allocation that has
\* no Service, or one of the ports that a migration has still to open for its
\* own Pod.
LEMMA CreateStep ==
  ASSUME TypeInv, NEW j \in Jobs, JobStep(j)
  PROVE  \/ svcs' \subseteq svcs
         \/ /\ loc[j].pc = "patch"
            /\ \E s \in loc[j].stale \cap svcs :
                 svcs' = (svcs \ {s}) \cup {Patched(j, s)}
         \/ /\ PortAdd(j) /\ TargetOf[j] \in Old
            /\ \E k \in loc[j].todo :
                 /\ \A x \in svcs : ~Instead(x, Created(j, TargetOf[j], Extra, k))
                 /\ svcs' = svcs \cup {Created(j, TargetOf[j], Extra, k)}
         \/ /\ MoveService(j)
            /\ \E i \in loc[j].ports :
                 /\ svcs' \subseteq svcs \cup {Created(j, j, i, j)}
                 /\ loc'[j].pc # "service" \/ loc'[j].ports = loc[j].ports \ {i}
<1>1. CASE ~PortAdd(j) /\ ~MoveService(j)
  BY <1>1, SvcStep
<1>2. CASE PortAdd(j)
  <2>1. loc[j].pc = "add" /\ JobOK(j, loc[j])
    BY <1>2, JobTypes DEF PortAdd, At
  <2>2. TargetOf[j] \in Old
    BY <2>1, ConstantsOK DEF JobOK, PortPCs, Serving
  <2>3. \/ svcs' = svcs
        \/ \E k \in loc[j].todo :
             /\ ~\E s \in Mine(TargetOf[j]) : s.port = Extra /\ s.by = k
             /\ svcs' = svcs \cup {Created(j, TargetOf[j], Extra, k)}
    BY <1>2 DEF PortAdd
  <2>4. ASSUME NEW k, ~\E s \in Mine(TargetOf[j]) : s.port = Extra /\ s.by = k,
               NEW x \in svcs
        PROVE  ~Instead(x, Created(j, TargetOf[j], Extra, k))
    BY <2>4 DEF Mine, Instead, Created
  <2>5. QED
    BY <1>2, <2>2, <2>3, <2>4
<1>3. CASE MoveService(j)
  <2>1. PICK i \in loc[j].ports :
          \/ /\ svcs' = svcs \cup {Created(j, j, i, j)}
             /\ Set(j, [loc[j] EXCEPT !.ports = @ \ {i}])
          \/ svcs' \subseteq svcs \cup {Created(j, j, i, j)} /\ Rewind(j)
    BY <1>3 DEF MoveService, Leave
  <2>2. Set(j, [loc[j] EXCEPT !.ports = @ \ {i}]) => loc'[j].ports = loc[j].ports \ {i}
    BY PortsLeft
  <2>3. Rewind(j) => loc'[j].pc # "service"
    <3>1. loc[j].pc # "new" /\ KindOf[j] = "migrate"
      BY <1>3, JobTypes DEF MoveService, At, JobOK, MovePCs
    <3>2. QED
      BY <3>1, RewindOK, SetIs
  <2>4. QED
    BY <1>3, <2>1, <2>2, <2>3
<1>4. QED
  BY <1>1, <1>2, <1>3

\* A migration comes to its Services when it has taken its Pod's away.
LEMMA ServiceEnters ==
  ASSUME TypeInv, NEW m \in Jobs, JobStep(m), loc'[m].pc = "service"
  PROVE  \/ \A x \in svcs' : x.pod # m
         \/ loc[m].pc = "service" /\ MoveService(m)
<1>1. MoveJob(m)
  BY CrashPoint, PortPoint, PasswordPoint, AccessPoint DEF JobStep, PortPCs, PasswordPCs
<1>2. MoveServices(m) \/ MoveService(m)
  BY <1>1, MoveLeads DEF MoveJob
<1>3. QED
  BY <1>2 DEF MoveServices, MoveService, At, Mine

LEMMA UniqueStep ==
  ASSUME TypeInv, UniqueInv, NEW j \in Jobs, JobStep(j)
  PROVE  UniqueInv'
<1>1. \A i \in Jobs : i # j => loc'[i] = loc[i]
  BY StepOthers
<1>2. svcs \subseteq Svc
  BY DEF TypeInv, DataOK
<1>3. CASE svcs' \subseteq svcs /\ ~MoveService(j)
  <2>1. \A x, y \in svcs' : Instead(x, y) => x = y
    BY <1>3 DEF UniqueInv
  <2>2. ASSUME NEW m \in Jobs, loc'[m].pc = "service", NEW x \in svcs', x.pod = m
        PROVE  x.port \notin loc'[m].ports
    BY <1>1, <1>3, <2>2, ServiceEnters DEF UniqueInv
  <2>3. QED
    BY <2>1, <2>2 DEF UniqueInv
<1>5. CASE loc[j].pc = "patch" /\ \E s \in loc[j].stale \cap svcs :
             svcs' = (svcs \ {s}) \cup {Patched(j, s)}
  <2>1. PICK s \in loc[j].stale \cap svcs : svcs' = (svcs \ {s}) \cup {Patched(j, s)}
    BY <1>5
  <2>2. Instead(Patched(j, s), s)
    BY <1>2, <2>1 DEF Patched, Svc, Instead
  <2>3. \A x, y \in svcs' : Instead(x, y) => x = y
    BY <2>1, <2>2 DEF UniqueInv, Instead
  <2>4. ASSUME NEW m \in Jobs, loc'[m].pc = "service", NEW x \in svcs', x.pod = m
        PROVE  x.port \notin loc'[m].ports
    <3>1. m # j
      BY <1>5, <2>4, ServiceEnters, JobTypes, MovePoint, AccessPoint, PortPoint,
         PasswordPoint, CrashPoint DEF JobStep, MovePCs, PortPCs, PasswordPCs
    <3>2. loc[m].pc = "service" /\ loc'[m].ports = loc[m].ports
      BY <1>1, <2>4, <3>1
    <3>3. QED
      BY <2>1, <2>2, <2>4, <3>2 DEF UniqueInv, Instead
  <2>5. QED
    BY <2>3, <2>4 DEF UniqueInv
<1>6. CASE /\ PortAdd(j) /\ TargetOf[j] \in Old
           /\ \E k \in loc[j].todo :
                /\ \A x \in svcs : ~Instead(x, Created(j, TargetOf[j], Extra, k))
                /\ svcs' = svcs \cup {Created(j, TargetOf[j], Extra, k)}
  <2> PICK k \in loc[j].todo :
        /\ \A x \in svcs : ~Instead(x, Created(j, TargetOf[j], Extra, k))
        /\ svcs' = svcs \cup {Created(j, TargetOf[j], Extra, k)}
    BY <1>6
  <2> DEFINE s == Created(j, TargetOf[j], Extra, k)
  <2>1. s.pod = TargetOf[j]
    BY DEF Created
  <2>2. \A x \in svcs : ~Instead(x, s)
    OBVIOUS
  <2>3. svcs' = svcs \cup {s}
    OBVIOUS
  <2> HIDE DEF s
  <2>4. \A x, y \in svcs' : Instead(x, y) => x = y
    BY <2>2, <2>3 DEF UniqueInv, Instead
  <2>5. ASSUME NEW m \in Jobs, loc'[m].pc = "service", NEW x \in svcs', x.pod = m
        PROVE  x.port \notin loc'[m].ports
    <3>1. m # j
      BY <1>6, <2>5, PortPoint DEF PortJob, PortPCs
    <3>2. loc[m].pc = "service" /\ loc'[m].ports = loc[m].ports
      BY <1>1, <2>5, <3>1
    <3>3. x # s
      BY <1>6, <2>1, <2>5, ConstantsOK
    <3>4. QED
      BY <2>3, <2>5, <3>2, <3>3 DEF UniqueInv
  <2>6. QED
    BY <2>4, <2>5 DEF UniqueInv
<1>7. CASE /\ MoveService(j)
           /\ \E i \in loc[j].ports :
                /\ svcs' \subseteq svcs \cup {Created(j, j, i, j)}
                /\ loc'[j].pc # "service" \/ loc'[j].ports = loc[j].ports \ {i}
  <2>1. PICK i \in loc[j].ports :
          /\ svcs' \subseteq svcs \cup {Created(j, j, i, j)}
          /\ loc'[j].pc # "service" \/ loc'[j].ports = loc[j].ports \ {i}
    BY <1>7
  <2> DEFINE s == Created(j, j, i, j)
  <2>2. s.pod = j /\ s.port = i
    BY DEF Created
  <2>3. svcs' \subseteq svcs \cup {s}
    BY <2>1
  <2> HIDE DEF s
  <2>4. loc[j].pc = "service"
    BY <1>7 DEF MoveService, At
  <2>5. \A x \in svcs : ~Instead(x, s) /\ ~Instead(s, x)
    BY <2>1, <2>2, <2>4 DEF UniqueInv, Instead
  <2>6. \A x, y \in svcs' : Instead(x, y) => x = y
    BY <2>3, <2>5 DEF UniqueInv
  <2>7. ASSUME NEW m \in Jobs, loc'[m].pc = "service", NEW x \in svcs', x.pod = m
        PROVE  x.port \notin loc'[m].ports
    <3>1. CASE m = j
      BY <2>1, <2>2, <2>3, <2>4, <2>7, <3>1 DEF UniqueInv
    <3>2. CASE m # j
      <4>1. loc[m].pc = "service" /\ loc'[m].ports = loc[m].ports /\ x # s
        BY <1>1, <2>2, <2>7, <3>2
      <4>2. QED
        BY <2>3, <2>7, <4>1 DEF UniqueInv
    <3>3. QED
      BY <3>1, <3>2
  <2>8. QED
    BY <2>6, <2>7 DEF UniqueInv
<1>8. CASE svcs' \subseteq svcs /\ MoveService(j)
  <2>1. PICK i \in loc[j].ports :
          loc'[j].pc # "service" \/ loc'[j].ports = loc[j].ports \ {i}
    <3>1. loc[j].pc # "new" /\ KindOf[j] = "migrate"
      BY <1>8, JobTypes DEF MoveService, At, JobOK, MovePCs
    <3>2. \E i \in loc[j].ports : Set(j, [loc[j] EXCEPT !.ports = @ \ {i}]) \/ Rewind(j)
      BY <1>8 DEF MoveService
    <3>3. QED
      BY <3>1, <3>2, PortsLeft, RewindOK, SetIs
  <2>2. QED
    BY <1>7, <1>8, <2>1
<1>9. QED
  BY <1>3, <1>5, <1>6, <1>7, <1>8, CreateStep

LEMMA UniqueNext == TypeInv /\ UniqueInv /\ [Next]_vars => UniqueInv'
<1> SUFFICES ASSUME TypeInv, UniqueInv, [Next]_vars PROVE UniqueInv'
  OBVIOUS
<1>1. CASE UNCHANGED <<svcs, loc>>
  BY <1>1 DEF UniqueInv
<1>2. CASE UNCHANGED vars \/ \E p \in PodNames : Kubelet(p)
  BY <1>1, <1>2 DEF vars, Kubelet, ContainerStops, ContainerReads, ContainerUp
<1>3. ASSUME NEW j \in Jobs, Register(j) PROVE UniqueInv'
  BY <1>3, RegisterOthers DEF UniqueInv
<1>4. QED
  BY <1>2, <1>3, UniqueStep DEF Next, JobStep

LEMMA UniqueInit == Init => UniqueInv
<1> SUFFICES ASSUME Init PROVE UniqueInv
  OBVIOUS
<1>1. Blank.pc = "new"
  BY DEF Blank
<1>2. \A m \in Jobs : loc[m].pc = "new"
  BY <1>1 DEF Init
<1>3. \A x, y \in svcs : Instead(x, y) => x = y
  <2>1. svcs \subseteq Svc
    BY InitOK DEF TypeInv, DataOK
  <2>2. \A x \in svcs : ~x.blocked /\ x.at = 0
    BY DEF Init
  <2>3. ASSUME NEW x \in Svc, NEW y \in Svc, Instead(x, y),
               ~x.blocked, ~y.blocked, x.at = 0, y.at = 0
        PROVE  x = y
    BY <2>3 DEF Svc, Instead
  <2>4. QED
    BY <2>1, <2>2, <2>3
<1>4. QED
  BY <1>2, <1>3 DEF UniqueInv

-----------------------------------------------------------------------------
(* The last decision, when no access job runs beside a port or migrate job: *)
(* what a job creates is in the state that the last decision asks for, and  *)
(* an access job that ends well has left no Service behind its decision.    *)

\* No access job is unfinished together with a port or migrate job.
ApartInv == \A i, j \in Jobs : Running(i) /\ Running(j) /\ KindOf[i] \in Access
                               => KindOf[j] \notin Serving

\* A running port or migrate job knows the last decision.
ServeInv == \A m \in Jobs : Running(m) /\ KindOf[m] \in Serving =>
              /\ loc[m].blocked <=> Blocked
              /\ \A k \in Jobs : Decided(k) => loc[k].at <= loc[m].at

\* While j patches, whatever it has still to bring to its decision is listed,
\* or was changed since: then the patch of what is listed fails.
Reached(j, x) == \/ SvcRank(x) >= RankOf(j)
                 \/ \E y \in loc[j].stale : Instead(x, y)
\* A release also leaves alone what was created open after it.
Left(j, x) == \/ Overridden(j)
              \/ SvcRank(x) >= RankOf(j)
              \/ /\ KindOf[j] = "release" /\ ~x.blocked
                 /\ \A i \in Jobs : Running(i) /\ KindOf[i] = "block" => Later(i, j)
\* Only a later decision puts a Service beyond that of j.
Beyond(j, x) == ~Agrees(x, j) /\ SvcRank(x) > RankOf(j) => Overridden(j)

HoldInv == \A j \in Jobs, x \in svcs :
             /\ loc[j].pc = "patch" => Reached(j, x) /\ Beyond(j, x)
             /\ Is(j, Access) /\ loc[j].pc = "ok" => Left(j, x) /\ Beyond(j, x)

DecisionInv == OriginInv /\ UniqueInv /\ ApartInv /\ ServeInv /\ HoldInv

LEMMA SameDecisions ==
  ASSUME TypeInv, mix' = mix,
         \A k \in Jobs : KindOf[k] \in Access =>
           (loc'[k].pc = "new" <=> loc[k].pc = "new") /\ loc'[k].at = loc[k].at
  PROVE  /\ \A j, k \in Jobs : KindOf[j] \in Access => (Later(k, j)' <=> Later(k, j))
         /\ Blocked' <=> Blocked
         /\ \A k \in Jobs : Decided(k)' <=> Decided(k)
         /\ \A j \in Jobs : KindOf[j] \in Access => (Overridden(j)' <=> Overridden(j))
<1>1. \A j, k \in Jobs : KindOf[j] \in Access => (Later(k, j)' <=> Later(k, j))
  BY DEF Later, Is
<1>2. \A k \in Jobs : Is(k, {"block"}) => KindOf[k] \in Access
  BY DEF Is, Access
<1>3. Blocked' <=> Blocked
  BY <1>1, <1>2 DEF Blocked, Is
<1>4. QED
  BY <1>1, <1>3 DEF Decided, Overridden

\* A job's step makes no other job run, and decides nothing.
LEMMA StepRuns ==
  ASSUME TypeInv, NEW i \in Jobs, JobStep(i)
  PROVE  /\ Running(i) /\ \A j \in Jobs : Running(j)' => Running(j)
         /\ \A j \in Jobs : loc'[j].at = loc[j].at /\ loc'[j].blocked = loc[j].blocked
                            /\ (loc'[j].pc = "new" <=> loc[j].pc = "new")
<1>1. Running(i)
  BY AccessPoint, PortPoint, MovePoint, PasswordPoint
     DEF JobStep, ReadFails, Crash, Running, AccessPCs, PortPCs, MovePCs,
         PasswordPCs, Final
<1>2. QED
  BY <1>1, StepOthers DEF Running

LEMMA ServeStep ==
  ASSUME TypeInv, ApartInv, ServeInv, NEW i \in Jobs, JobStep(i)
  PROVE  ApartInv' /\ ServeInv'
<1>1. mix' = mix
  BY StepOthers
<1>2. ApartInv'
  BY StepRuns DEF ApartInv
<1>3. (Blocked' <=> Blocked) /\ \A k \in Jobs : Decided(k)' <=> Decided(k)
  BY <1>1, StepRuns, SameDecisions
<1>4. ASSUME NEW m \in Jobs, Running(m)', KindOf[m] \in Serving
      PROVE  /\ loc'[m].blocked <=> Blocked'
             /\ \A k \in Jobs : Decided(k)' => loc'[k].at <= loc'[m].at
  <2>1. /\ loc[m].blocked <=> Blocked
        /\ \A k \in Jobs : Decided(k) => loc[k].at <= loc[m].at
    BY <1>4, StepRuns DEF ServeInv
  <2>2. loc'[m].blocked = loc[m].blocked
        /\ \A k \in Jobs : loc'[k].at = loc[k].at
    BY StepRuns
  <2>3. QED
    BY <1>3, <2>1, <2>2
<1>5. QED
  BY <1>2, <1>4 DEF ServeInv

\* A registration that waits for its turn
LEMMA ServeRegister ==
  ASSUME ~Overlap, TypeInv, ApartInv, ServeInv, NEW j \in Jobs, Register(j)
  PROVE  ApartInv' /\ ServeInv'
<1>1. /\ \A i \in Jobs : i # j => loc'[i] = loc[i]
      /\ loc'[j].at = now' /\ now' >= now /\ now' \in Nat
      /\ loc'[j].blocked = (KindOf[j] \in Serving /\ Blocked) /\ mix' = mix
      /\ loc'[j].pc # "new"
  BY RegisterOthers
<1>2. Apart(j)
  BY DEF Register
<1>3. ASSUME NEW a \in Jobs, NEW b \in Jobs, Running(a)', Running(b)', KindOf[a] \in Access
      PROVE  KindOf[b] \notin Serving
  <2>1. CASE a = j
    BY <1>1, <1>2, <1>3, <2>1 DEF Apart, Running, Access, Serving
  <2>2. CASE a # j /\ b = j
    BY <1>1, <1>2, <1>3, <2>2 DEF Apart, Running
  <2>3. CASE a # j /\ b # j
    BY <1>1, <1>3, <2>3 DEF ApartInv, Running
  <2>4. QED
    BY <2>1, <2>2, <2>3
<1>4. ASSUME NEW m \in Jobs, Running(m)', KindOf[m] \in Serving
      PROVE  /\ loc'[m].blocked <=> Blocked'
             /\ \A k \in Jobs : Decided(k)' => loc'[k].at <= loc'[m].at
  <2>1. KindOf[j] \notin Access
    <3>1. CASE m = j
      BY <1>4, <3>1 DEF Access, Serving
    <3>2. CASE m # j
      BY <1>1, <1>2, <1>4, <3>2 DEF Apart, Running
    <3>3. QED
      BY <3>1, <3>2
  <2>2. (Blocked' <=> Blocked) /\ \A k \in Jobs : Decided(k)' <=> Decided(k)
    BY <1>1, <2>1, SameDecisions
  <2>3. \A k \in Jobs : Decided(k) => loc'[k].at = loc[k].at /\ loc[k].at <= now
    <3>1. SUFFICES ASSUME NEW k \in Jobs, Decided(k)
                   PROVE  loc'[k].at = loc[k].at /\ loc[k].at <= now
      OBVIOUS
    <3>2. k # j /\ loc[k].pc # "new"
      BY <2>1, <3>1 DEF Decided
    <3>3. loc[k].at \in 1..now
      BY <3>2, JobTypes DEF JobOK
    <3>4. QED
      BY <1>1, <3>2, <3>3
  <2>4. now \in Nat /\ \A k \in Jobs : loc[k].at \in Nat
    BY JobTypes, FS_CardinalityType, ConstantsOK DEF TypeInv, ClockOK
  <2>5. CASE m = j
    <3>1. \A k \in Jobs : Decided(k)' => loc'[k].at <= loc'[m].at
      BY <1>1, <2>2, <2>3, <2>4, <2>5
    <3>2. QED
      BY <1>1, <1>4, <2>2, <2>5, <3>1
  <2>6. CASE m # j
    <3>1. loc'[m] = loc[m] /\ Running(m)
      BY <1>1, <1>4, <2>6 DEF Running
    <3>2. QED
      BY <1>4, <2>2, <2>3, <3>1 DEF ServeInv
  <2>7. QED
    BY <2>5, <2>6
<1>5. QED
  BY <1>3, <1>4 DEF ApartInv, ServeInv

LEMMA HoldStable ==
  ASSUME TypeInv, NEW i \in Jobs, JobStep(i), NEW j \in Jobs, KindOf[j] \in Access, NEW x
  PROVE  /\ Left(j, x) => Left(j, x)'
         /\ Beyond(j, x) => Beyond(j, x)'
         /\ Reached(j, x) /\ loc'[j] = loc[j] => Reached(j, x)'
         /\ RankOf(j)' = RankOf(j)
<1>1. mix' = mix
  BY StepOthers
<1>2. /\ \A k \in Jobs : Later(k, j)' <=> Later(k, j)
      /\ Overridden(j)' <=> Overridden(j)
  BY <1>1, StepRuns, SameDecisions
<1>3. RankOf(j)' = RankOf(j) /\ SvcRank(x)' = SvcRank(x)
  BY StepRuns DEF RankOf, SvcRank
<1>4. Left(j, x) => Left(j, x)'
  BY <1>2, <1>3, StepRuns DEF Left
<1>5. Beyond(j, x) => Beyond(j, x)'
  BY <1>2, <1>3 DEF Beyond, Agrees
<1>6. QED
  BY <1>3, <1>4, <1>5 DEF Reached, Instead

\* What another job patches
LEMMA HoldPatched ==
  ASSUME TypeInv, OriginInv, NEW i \in Jobs, loc[i].pc = "patch",
         NEW x \in loc[i].stale, NEW j \in Jobs, KindOf[j] \in Access, loc[j].pc # "new"
  PROVE  /\ Left(j, x) /\ Beyond(j, x) => Left(j, Patched(i, x))
         /\ Beyond(j, x) => Beyond(j, Patched(i, x))
         /\ Reached(j, x) => Reached(j, Patched(i, x))
<1> DEFINE z == Patched(i, x)
<1>1. KindOf[i] \in Access /\ Decided(i) /\ Decided(j) /\ Running(i) /\ x \in Svc
  BY JobTypes DEF JobOK, AccessPCs, Decided, Running, Final
<1>2. SvcRank(x) < RankOf(i)
  BY DEF OriginInv, StaleOK
<1>3. Agrees(z, i) /\ SvcRank(z) = RankOf(i) /\ Instead(z, x)
  BY <1>1, <1>2, PatchedRank
<1> HIDE DEF z
<1>4. SvcRank(x) \in Nat /\ RankOf(i) \in Nat /\ RankOf(j) \in Nat
  BY <1>1, SvcFields, JobTypes, RankType DEF SvcRank, RankOf
<1>5. Later(i, j) <=> KindOf[i] # KindOf[j] /\ RankOf(i) > RankOf(j)
  BY <1>1, LaterRank
<1>6. Later(i, j) => Overridden(j)
  BY DEF Overridden
<1>7. KindOf[i] \in {"block", "release"} /\ KindOf[j] \in {"block", "release"}
  BY <1>1 DEF Access
<1>8. Agrees(z, j) <=> KindOf[i] = KindOf[j]
  BY <1>3, <1>7 DEF Agrees
<1>9. Beyond(j, z)
  BY <1>3, <1>5, <1>6, <1>8 DEF Beyond
<1>10. Reached(j, x) => Reached(j, z)
  BY <1>2, <1>3, <1>4 DEF Reached, Instead
<1>11. ASSUME Left(j, x) PROVE Left(j, z)
  <2>1. CASE Overridden(j)
    BY <2>1 DEF Left
  <2>2. CASE SvcRank(x) >= RankOf(j)
    BY <1>2, <1>3, <1>4, <2>2 DEF Left
  <2>3. CASE /\ KindOf[j] = "release" /\ ~x.blocked
             /\ \A k \in Jobs : Running(k) /\ KindOf[k] = "block" => Later(k, j)
    <3>1. CASE KindOf[i] = "block"
      BY <1>1, <1>6, <2>3, <3>1 DEF Left
    <3>2. CASE KindOf[i] = "release"
      BY <1>3, <2>3, <3>2 DEF Left, Agrees
    <3>3. QED
      BY <1>7, <3>1, <3>2
  <2>4. QED
    BY <1>11, <2>1, <2>2, <2>3 DEF Left
<1>12. QED
  BY <1>9, <1>10, <1>11 DEF z

\* What a port or migrate job creates
LEMMA HoldCreated ==
  ASSUME TypeInv, ApartInv, ServeInv, NEW m \in Jobs, Running(m), KindOf[m] \in Serving,
         NEW p, NEW o, NEW q, NEW j \in Jobs, Decided(j)
  PROVE  ~Running(j) /\ Left(j, Created(m, p, o, q)) /\ Beyond(j, Created(m, p, o, q))
<1> DEFINE z == Created(m, p, o, q)
<1>1. z.blocked = loc[m].blocked /\ z.at = IF loc[m].blocked THEN loc[m].at ELSE 0
  BY DEF Created
<1> HIDE DEF z
<1>2. loc[m].blocked <=> Blocked
  BY DEF ServeInv
<1>3. loc[j].at <= loc[m].at /\ loc[j].at \in Nat /\ loc[m].at \in Nat /\ loc[j].at >= 1
  <2>1. loc[j].at \in 1..now /\ now \in Nat /\ loc[m].at \in Nat
    BY JobTypes, FS_CardinalityType, ConstantsOK DEF JobOK, Decided, TypeInv, ClockOK
  <2>2. QED
    BY <2>1 DEF ServeInv
<1>4. \A k \in Jobs : Running(k) => KindOf[k] \notin Access
  BY DEF ApartInv
<1>5. KindOf[j] \in {"block", "release"} /\ j \in mix
  BY JobTypes DEF Decided, Access, JobOK
<1>6. loc[m].blocked \in BOOLEAN
  BY JobTypes
<1>7. CASE loc[m].blocked
  <2>1. SvcRank(z) >= RankOf(j)
    BY <1>1, <1>3, <1>7 DEF SvcRank, RankOf, Rank
  <2>2. CASE KindOf[j] = "block"
    BY <1>1, <1>4, <1>7, <2>1, <2>2 DEF Left, Beyond, Agrees, Decided, z
  <2>3. CASE KindOf[j] = "release"
    <3>1. PICK k \in Jobs : /\ Is(k, {"block"}) /\ loc[k].pc # "new"
                            /\ \A r \in Jobs : ~Later(r, k)
      BY <1>2, <1>7 DEF Blocked
    <3>2. Decided(k) /\ KindOf[k] = "block"
      BY <3>1 DEF Is, Decided, Access
    <3>3. loc[k].at \in Nat /\ ~Later(j, k)
      BY <3>1, JobTypes
    <3>4. Later(k, j)
      BY <1>3, <1>5, <2>3, <3>1, <3>2, <3>3 DEF Later, Is, Access, Decided
    <3>5. Overridden(j)
      BY <3>4 DEF Overridden
    <3>6. QED
      BY <1>4, <3>5 DEF Left, Beyond, Decided, z
  <2>4. QED
    BY <1>5, <2>2, <2>3
<1>8. CASE ~loc[m].blocked
  <2>1. SvcRank(z) = 0 /\ RankOf(j) > 0
    BY <1>1, <1>3, <1>8 DEF SvcRank, RankOf, Rank
  <2>2. Beyond(j, z)
    BY <1>3, <2>1 DEF Beyond, RankOf, Rank
  <2>3. CASE KindOf[j] = "release"
    BY <1>1, <1>4, <1>8, <2>2, <2>3 DEF Left, Decided, Access, z
  <2>4. CASE KindOf[j] = "block"
    <3>1. Is(j, {"block"}) /\ loc[j].pc # "new"
      BY <1>5, <2>4 DEF Is, Decided
    <3>2. Overridden(j)
      BY <1>2, <1>8, <3>1 DEF Blocked, Overridden
    <3>3. QED
      BY <1>4, <2>2, <3>2 DEF Left, Decided, z
  <2>5. QED
    BY <1>5, <2>3, <2>4
<1>9. QED
  BY <1>6, <1>7, <1>8

\* A job that lists, patches one more Service or is done
LEMMA HoldOwn ==
  ASSUME TypeInv, OriginInv, UniqueInv, HoldInv, NEW j \in Jobs, JobStep(j),
         loc'[j].pc \in {"patch", "ok"}, KindOf[j] \in Access, NEW x \in svcs'
  PROVE  /\ loc'[j].pc = "patch" => Reached(j, x)'
         /\ loc'[j].pc = "ok" => Left(j, x)'
         /\ Beyond(j, x)'
<1>1. AccessJob(j)
  BY CrashPoint, PortPoint, MovePoint, PasswordPoint
     DEF JobStep, PortJob, PortRead, PortAllocate, PortAdd, MoveJob, MoveInherit, MoveSecret, MovePod,
         MoveReady, MoveServices, MoveService, MoveServed, MoveCleanServices, MoveCleanPod, MoveCleaned,
         PasswordJob, JobOK, TypeInv, JobsOK, PortPCs, MovePCs, PasswordPCs, Access
<1>2. /\ loc[j].pc \in AccessPCs /\ KindOf[j] \in Access
      /\ loc'[j].pc = "patch" =>
              \/ AccessList(j) /\ ~Superseded(j) /\ loc'[j].stale = StaleOnes(j)
              \/ AccessPatch(j) /\ loc'[j].stale \subseteq loc[j].stale
      /\ loc'[j].pc = "ok" =>
              \/ AccessList(j) /\ ~Superseded(j) /\ StaleOnes(j) = {}
              \/ AccessPatch(j) /\ \E s \in svcs : loc[j].stale = {s}
                                     /\ svcs' = (svcs \ {s}) \cup {Patched(j, s)}
  BY <1>1, AccessPoint
<1>3. RankOf(j)' = RankOf(j) /\ SvcRank(x)' = SvcRank(x)
      /\ (Left(j, x) => Left(j, x)') /\ (Beyond(j, x) => Beyond(j, x)')
  BY HoldStable DEF SvcRank
<1>4. CASE AccessList(j) /\ ~Superseded(j)
  <2>1. x \in svcs /\ x \in Svc
    BY <1>4 DEF AccessList, TypeInv, DataOK
  <2>2. /\ x \notin StaleOnes(j) => SvcRank(x) >= RankOf(j)
        /\ Agrees(x, j) \/ SvcRank(x) < RankOf(j)
    BY <1>2, <1>4, <2>1, Listed
  <2>3. SvcRank(x) \in Nat /\ RankOf(j) \in Nat
    BY <2>1, SvcFields, JobTypes, RankType DEF SvcRank, RankOf
  <2>4. Beyond(j, x)
    BY <2>2, <2>3 DEF Beyond
  <2>5. ASSUME loc'[j].pc = "patch" PROVE Reached(j, x)'
    <3>1. loc'[j].stale = StaleOnes(j)
      BY <1>2, <1>4, <2>5 DEF AccessList, AccessPatch, At
    <3>2. QED
      BY <1>3, <2>2, <3>1 DEF Reached, Instead
  <2>6. ASSUME loc'[j].pc = "ok" PROVE Left(j, x)'
    <3>1. StaleOnes(j) = {}
      BY <1>2, <1>4, <2>6 DEF AccessList, AccessPatch, At
    <3>2. QED
      BY <1>3, <2>2, <3>1 DEF Left
  <2>7. QED
    BY <1>3, <2>4, <2>5, <2>6
<1>5. CASE AccessPatch(j)
  <2>1. loc[j].pc = "patch" /\ ~AccessList(j)
    BY <1>5 DEF AccessPatch, AccessList, At
  <2>2. PICK s \in loc[j].stale :
          /\ s \in svcs /\ svcs' = (svcs \ {s}) \cup {Patched(j, s)}
          /\ loc'[j].pc = "patch" => loc'[j].stale = loc[j].stale \ {s}
          /\ loc'[j].pc = "ok" => loc[j].stale = {s}
    <3>1. PICK s \in loc[j].stale :
            \/ /\ s \in svcs /\ svcs' = (svcs \ {s}) \cup {Patched(j, s)}
               /\ IF loc[j].stale = {s} THEN End(j, "ok")
                  ELSE Set(j, [loc[j] EXCEPT !.stale = @ \ {s}])
            \/ Again(j, "list")
      BY <1>5 DEF AccessPatch
    <3>2. ~Again(j, "list")
      BY AgainIs DEF PCs
    <3>3. End(j, "ok") => loc'[j].pc = "ok"
      BY EndIs DEF Final
    <3>4. Set(j, [loc[j] EXCEPT !.stale = @ \ {s}])
          => loc'[j].pc = "patch" /\ loc'[j].stale = loc[j].stale \ {s}
      BY <2>1, SetIs, JobTypes DEF Local
    <3>5. QED
      BY <3>1, <3>2, <3>3, <3>4
  <2>3. s \in Svc /\ SvcRank(s) < RankOf(j)
    BY <2>1, <2>2, JobTypes DEF OriginInv, StaleOK
  <2>4. Agrees(Patched(j, s), j) /\ SvcRank(Patched(j, s)) = RankOf(j)
    BY <1>2, <2>3, PatchedRank
  <2>5. RankOf(j) \in Nat
    BY JobTypes, RankType DEF RankOf
  <2>6. CASE x = Patched(j, s)
    BY <1>3, <2>4, <2>5, <2>6 DEF Reached, Left, Beyond
  <2>7. CASE x # Patched(j, s)
    <3>1. x \in svcs /\ x # s
      BY <2>2, <2>7
    <3>2. Reached(j, x) /\ Beyond(j, x)
      BY <2>1, <3>1 DEF HoldInv
    <3>3. ~Instead(x, s)
      BY <2>2, <3>1 DEF Instead, UniqueInv
    <3>4. QED
      BY <1>3, <2>2, <3>2, <3>3 DEF Reached, Instead, Left
  <2>8. QED
    BY <2>6, <2>7
<1>6. QED
  BY <1>2, <1>4, <1>5

LEMMA HoldStep ==
  ASSUME TypeInv, DecisionInv, NEW i \in Jobs, JobStep(i)
  PROVE  HoldInv'
<1> USE DEF DecisionInv
<1>1. SUFFICES ASSUME NEW j \in Jobs, NEW x \in svcs'
               PROVE  /\ loc'[j].pc = "patch" => Reached(j, x)' /\ Beyond(j, x)'
                      /\ Is(j, Access)' /\ loc'[j].pc = "ok" => Left(j, x)' /\ Beyond(j, x)'
  BY DEF HoldInv
<1>2. mix' = mix /\ \A k \in Jobs : k # i => loc'[k] = loc[k]
  BY StepOthers
<1>3. CASE j = i
  <2>1. loc'[j].pc = "patch" => KindOf[j] \in Access
    BY <1>3, AccessEnters, AccessPoint
  <2>2. Is(j, Access)' => KindOf[j] \in Access
    BY DEF Is
  <2>3. QED
    BY <1>3, <2>1, <2>2, HoldOwn
<1>4. CASE j # i /\ (loc[j].pc = "patch" \/ (loc[j].pc = "ok" /\ Is(j, Access)))
  <2>1. KindOf[j] \in Access /\ loc[j].pc # "new" /\ Decided(j)
    BY <1>4, JobTypes DEF JobOK, AccessPCs, Is, Decided
  <2>2. /\ \A y : /\ Left(j, y) => Left(j, y)'
                  /\ Beyond(j, y) => Beyond(j, y)'
                  /\ Reached(j, y) => Reached(j, y)'
    BY <1>2, <1>4, <2>1, HoldStable
  <2>3. /\ loc[j].pc = "patch" => Reached(j, x) /\ Beyond(j, x)
        /\ loc[j].pc = "ok" => Left(j, x) /\ Beyond(j, x)
    <3>1. CASE x \in svcs
      BY <1>4, <3>1, <2>1 DEF HoldInv
    <3>2. CASE loc[i].pc = "patch" /\ \E s \in loc[i].stale \cap svcs : x = Patched(i, s)
      BY <1>4, <3>2, <2>1, HoldPatched DEF HoldInv
    <3>3. CASE (PortAdd(i) \/ MoveService(i)) /\ \E p, o, q : x = Created(i, p, o, q)
      <4>1. KindOf[i] \in Serving /\ Running(i)
        BY <3>3, StepRuns, JobTypes
           DEF PortAdd, MoveService, At, JobOK, PortPCs, MovePCs, Serving
      <4>2. PICK p, o, q : x = Created(i, p, o, q)
        BY <3>3
      <4>3. ~Running(j) /\ Left(j, x) /\ Beyond(j, x)
        BY <2>1, <4>1, <4>2, HoldCreated
      <4>4. QED
        BY <4>3 DEF Running, Final
    <3>4. QED
      BY <1>1, <3>1, <3>2, <3>3, CreateStep
  <2>4. QED
    BY <1>2, <1>4, <2>2, <2>3
<1>5. CASE j # i /\ loc[j].pc # "patch" /\ ~(loc[j].pc = "ok" /\ Is(j, Access))
  BY <1>2, <1>5 DEF Is
<1>6. QED
  BY <1>3, <1>4, <1>5

LEMMA HoldRegister ==
  ASSUME ~Overlap, TypeInv, DecisionInv, NEW i \in Jobs, Register(i)
  PROVE  HoldInv'
<1> USE DEF DecisionInv
<1>1. /\ \A k \in Jobs : k # i => loc'[k] = loc[k]
      /\ loc[i].pc = "new" /\ loc[i].at = 0 /\ i \in mix
      /\ loc'[i].pc \in {"list", "read", "inherit", "ledger"}
      /\ loc'[i].at = now' /\ loc'[i].at >= 1 /\ now' >= now /\ now' \in Nat
      /\ UNCHANGED <<mix, svcs>>
  BY RegisterOthers
<1>2. SUFFICES ASSUME NEW j \in Jobs, NEW x \in svcs, j # i,
                      loc[j].pc = "patch" \/ (loc[j].pc = "ok" /\ Is(j, Access))
               PROVE  /\ Reached(j, x) => Reached(j, x)'
                      /\ Beyond(j, x) => Beyond(j, x)'
                      /\ Left(j, x) => Left(j, x)'
  BY <1>1 DEF HoldInv, Is
<1>3. [Next]_vars /\ KindOf[j] \in Access /\ loc[j].pc # "new" /\ loc'[j] = loc[j]
  BY <1>1, <1>2, JobTypes DEF Next, JobOK, AccessPCs, Is
<1>4. \A k \in Jobs : Later(k, j) => Later(k, j)'
  BY <1>3, LaterStable
<1>5. Overridden(j) => Overridden(j)'
  BY <1>4 DEF Overridden
<1>6. RankOf(j)' = RankOf(j) /\ SvcRank(x)' = SvcRank(x)
  BY <1>3 DEF RankOf, SvcRank
<1>7. Reached(j, x) => Reached(j, x)'
  BY <1>3, <1>6 DEF Reached, Instead
<1>8. Beyond(j, x) => Beyond(j, x)'
  BY <1>5, <1>6 DEF Beyond, Agrees
<1>9. ASSUME Left(j, x), KindOf[j] = "release", ~x.blocked,
             \A k \in Jobs : Running(k) /\ KindOf[k] = "block" => Later(k, j),
             NEW k \in Jobs, Running(k)', KindOf[k] = "block"
      PROVE  Later(k, j)'
  <2>1. CASE k # i
    BY <1>1, <1>4, <1>9, <2>1 DEF Running
  <2>2. CASE k = i
    <3>1. loc[j].at \in 1..now /\ now \in Nat
      BY <1>3, JobTypes, FS_CardinalityType, ConstantsOK DEF JobOK, TypeInv, ClockOK
    <3>2. loc'[i].at >= loc'[j].at
      BY <1>1, <1>3, <3>1
    <3>3. loc'[i].pc # "new" /\ Is(i, Access)' /\ KindOf[i] # KindOf[j]
      BY <1>1, <1>9, <2>2 DEF Is, Access
    <3>4. loc'[i].at \in Nat /\ loc'[j].at \in Nat
      BY <1>1, <1>3, <3>1
    <3>5. QED
      BY <1>9, <2>2, <3>2, <3>3, <3>4 DEF Later
  <2>3. QED
    BY <2>1, <2>2
<1>10. Left(j, x) => Left(j, x)'
  BY <1>5, <1>6, <1>9 DEF Left
<1>11. QED
  BY <1>7, <1>8, <1>10

LEMMA DecisionNext ==
  ASSUME ~Overlap
  PROVE  TypeInv /\ DecisionInv /\ [Next]_vars => DecisionInv'
<1> SUFFICES ASSUME TypeInv, DecisionInv, [Next]_vars PROVE DecisionInv'
  OBVIOUS
<1>1. OriginInv' /\ UniqueInv'
  BY OriginNext, UniqueNext DEF DecisionInv
<1>2. CASE UNCHANGED <<mix, svcs, loc>>
  <2>1. (Blocked' <=> Blocked) /\ \A j, k \in Jobs : Later(j, k)' <=> Later(j, k)
    BY <1>2 DEF Blocked, Later, Is
  <2>2. ApartInv' /\ ServeInv'
    BY <1>2, <2>1 DEF DecisionInv, ApartInv, ServeInv, Running, Decided
  <2>3. HoldInv'
    BY <1>2, <2>1 DEF DecisionInv, HoldInv, Reached, Left, Beyond, Overridden, Agrees,
                      RankOf, SvcRank, Instead, Running, Is
  <2>4. QED
    BY <1>1, <2>2, <2>3 DEF DecisionInv
<1>3. CASE UNCHANGED vars \/ \E p \in PodNames : Kubelet(p)
  BY <1>2, <1>3 DEF vars, Kubelet, ContainerStops, ContainerReads, ContainerUp
<1>4. ASSUME NEW i \in Jobs, Register(i) PROVE DecisionInv'
  BY <1>1, <1>4, ServeRegister, HoldRegister DEF DecisionInv
<1>5. ASSUME NEW i \in Jobs, JobStep(i) PROVE DecisionInv'
  BY <1>1, <1>5, ServeStep, HoldStep DEF DecisionInv
<1>6. QED
  BY <1>3, <1>4, <1>5 DEF Next, JobStep

LEMMA DecisionInit == Init => DecisionInv
<1> SUFFICES ASSUME Init PROVE DecisionInv
  OBVIOUS
<1>1. Blank.pc = "new"
  BY DEF Blank
<1>2. \A j \in Jobs : loc[j].pc = "new"
  BY <1>1 DEF Init
<1>3. \A x \in svcs : ~x.blocked /\ x.at = 0
  BY DEF Init
<1>4. OriginInv
  BY <1>2, <1>3 DEF OriginInv, Origin, StaleOK, GivenUp
<1>5. ApartInv /\ ServeInv /\ HoldInv
  BY <1>2 DEF ApartInv, ServeInv, HoldInv, Running
<1>6. QED
  BY <1>4, <1>5, UniqueInit DEF DecisionInv

LEMMA HoldMeans == TypeInv /\ DecisionInv => LaterDecisionHolds
<1> SUFFICES ASSUME TypeInv, DecisionInv, NEW j \in Jobs, Is(j, Access), loc[j].pc = "ok",
                    NEW x \in svcs
             PROVE  x.blocked = (KindOf[j] = "block") \/ \E k \in Jobs : Later(k, j)
  BY DEF LaterDecisionHolds
<1>1. Left(j, x) /\ Beyond(j, x)
  BY DEF DecisionInv, HoldInv
<1>2. /\ x.blocked \in BOOLEAN /\ x.at \in Nat /\ loc[j].at \in Nat
      /\ KindOf[j] \in {"block", "release"}
  BY SvcFields, JobTypes DEF TypeInv, DataOK, Is, Access
<1>3. Agrees(x, j) => x.blocked = (KindOf[j] = "block")
  BY <1>2 DEF Agrees
<1>4. SvcRank(x) = RankOf(j) => Agrees(x, j)
  BY <1>2 DEF SvcRank, RankOf, Rank, Agrees
<1>5. SvcRank(x) >= RankOf(j) => SvcRank(x) = RankOf(j) \/ SvcRank(x) > RankOf(j)
  BY <1>2 DEF SvcRank, RankOf, Rank
<1>6. KindOf[j] = "release" /\ ~x.blocked => Agrees(x, j)
  BY <1>2 DEF Agrees
<1>7. Agrees(x, j) \/ Overridden(j)
  BY <1>1, <1>4, <1>5, <1>6 DEF Left, Beyond
<1>8. QED
  BY <1>3, <1>7 DEF Overridden

\* As long as no access job overlaps a port or migrate job: once an access job
\* has succeeded, every Service is in the state it decided, or a later decision
\* for the opposite state is registered.  Of the access jobs any number may
\* overlap, in any order and with any failures; without the hypothesis the run
\* access shows how a Service slips through.
THEOREM LaterDecision ==
  ASSUME ~Overlap
  PROVE  Spec => []LaterDecisionHolds
<1>1. Init => DecisionInv
  BY DecisionInit
<1>2. TypeInv /\ DecisionInv /\ [Next]_vars => DecisionInv'
  BY DecisionNext
<1>3. TypeInv /\ DecisionInv => LaterDecisionHolds
  BY HoldMeans
<1>4. QED
  BY <1>1, <1>2, <1>3, TypeInvariant, PTL DEF Spec

-----------------------------------------------------------------------------
(* One password, when a password job overlaps no other and no migration:    *)
(* what each stage of the job has brought to the hash that it writes, and   *)
(* how that holds until the next password job.                              *)

\* A running password job has the ledger, the Secrets and the Pods to itself:
\* no other, no migration and no starting Pod, and it is the latest.
AloneInv ==
  /\ \A i, j \in Jobs : Running(i) /\ Running(j) /\ i # j /\ KindOf[i] = "password"
                        => KindOf[j] \notin {"password", "migrate"}
  /\ \A j \in Jobs : Running(j) /\ KindOf[j] = "password" =>
       /\ \A p \in PodNames : pods[p].st # "pending"
       /\ \A k \in Jobs : KindOf[k] = "password" => loc[k].at <= loc[j].at

\* Only a starting container holds an environment that it has not used yet.
PodsInv == \A p \in PodNames : pods[p].env # "none" => pods[p].st = "pending"

Given(p, h) == pods[p].st # "none" => secret[p] \in {"none", h}

\* How far a password job has come
Stage(j) ==
  /\ loc[j].pc \in PasswordPCs \ {"ledger"} => ledger = Writing(j)
  /\ loc[j].pc = "hash" =>
       \A p \in PodNames : Given(p, Writing(j)) \/ p \in loc[j].todo
  /\ loc[j].pc \in {"pods", "exec"} => \A p \in PodNames : Given(p, Writing(j))
  /\ loc[j].pc = "exec" /\ ~loc[j].bad =>
       \A p \in PodNames : pods[p].st = "up" =>
         pods[p].shadow = Writing(j) \/ p \in loc[j].todo

\* From here on a migration knows the hash that it inherits.
Holding == MovePCs \ {"inherit", "resume"}

\* Every Secret, container and migration has the hash of the ledger.
Uniform ==
  /\ \A p \in PodNames : /\ Given(p, ledger)
                         /\ pods[p].st = "up" => pods[p].shadow = ledger
                         /\ pods[p].env \in {"none", ledger}
  /\ \A m \in Jobs : /\ loc[m].pc \in Holding => loc[m].hash = ledger
                     /\ loc[m].pc = "pod" => secret[m] = ledger

LastPassword(j) == \A k \in Jobs \ {j} : Is(k, {"password"}) => loc[k].at < loc[j].at
Settled(j) ==
  Is(j, {"password"}) /\ loc[j].pc \in {"ok", "undone"} /\ LastPassword(j)
  => Uniform /\ (ledger = j <=> loc[j].pc = "ok")

PasswordInv == /\ AloneInv /\ PodsInv
               /\ \A j \in Jobs : Stage(j) /\ Settled(j)

LEMMA DataTypes ==
  ASSUME TypeInv
  PROVE  /\ ledger \in Hashes /\ secret \in [PodNames -> Hashes \cup {"none"}]
         /\ pods \in [PodNames -> Pod] /\ Jobs \subseteq PodNames /\ Old \subseteq PodNames
         /\ "none" \notin Hashes
BY ConstantsOK DEF TypeInv, DataOK, Hashes, PodNames

LEMMA WritingType ==
  ASSUME TypeInv, NEW j \in Jobs
  PROVE  Writing(j) \in Hashes /\ (loc[j].back => Writing(j) # j)
BY JobTypes DEF Writing, JobOK, Hashes

-----------------------------------------------------------------------------
(* The stages, one call at a time                                           *)

LEMMA StageLedger ==
  ASSUME TypeInv, NEW j \in Jobs, PasswordLedger(j)
  PROVE  Stage(j)'
<1>1. loc[j].pc = "ledger" /\ loc[j] \in Local
  BY JobTypes DEF PasswordLedger, At
<1>2. Again(j, "ledger") => loc'[j].pc \in {"ledger", "fail"}
  BY AgainIs DEF PCs
<1>3. ASSUME Set(j, [loc[j] EXCEPT !.pc = "secrets", !.hash = ledger]), ~loc[j].back
      PROVE  loc'[j].pc = "secrets" /\ Writing(j)' = Writing(j)
  <2>1. loc'[j] = [loc[j] EXCEPT !.pc = "secrets", !.hash = ledger]
    BY <1>3, SetIs
  <2>2. loc'[j].pc = "secrets" /\ loc'[j].back = loc[j].back
    BY <1>1, <2>1 DEF Local
  <2>3. QED
    BY <1>3, <2>2 DEF Writing
<1>4. ASSUME Set(j, [loc[j] EXCEPT !.pc = "secrets"])
      PROVE  loc'[j].pc = "secrets" /\ Writing(j)' = Writing(j)
  <2>1. loc'[j] = [loc[j] EXCEPT !.pc = "secrets"]
    BY <1>4, SetIs
  <2>2. loc'[j].pc = "secrets" /\ loc'[j].back = loc[j].back /\ loc'[j].hash = loc[j].hash
    BY <1>1, <2>1 DEF Local
  <2>3. QED
    BY <2>2 DEF Writing
<1>5. \/ loc'[j].pc \in {"ledger", "fail"}
      \/ loc'[j].pc = "secrets" /\ Writing(j)' = Writing(j) /\ ledger' = Writing(j)
  BY <1>2, <1>3, <1>4 DEF PasswordLedger
<1>6. QED
  BY <1>5 DEF Stage, PasswordPCs

\* A failed stage leaves nothing to show.
LEMMA StageBroke ==
  ASSUME TypeInv, NEW j \in Jobs, loc[j].pc \in PasswordPCs \ {"ledger"}, Broke(j)
  PROVE  Stage(j)' /\ loc'[j].pc \in {"ledger", "fail"}
<1>1. loc'[j].pc \in {"ledger", "fail"}
  BY BrokeOK, SetIs
<1>2. QED
  BY <1>1 DEF Stage, PasswordPCs

\* What the steps between two stages keep: the hash to write.
LEMMA StageSet ==
  ASSUME TypeInv, NEW j \in Jobs, NEW u \in Local, Set(j, u),
         u.back = loc[j].back, u.hash = loc[j].hash
  PROVE  loc'[j] = u /\ Writing(j)' = Writing(j)
BY SetIs DEF Writing

LEMMA StageSecrets ==
  ASSUME TypeInv, NEW j \in Jobs, PasswordSecrets(j), Stage(j)
  PROVE  Stage(j)'
<1>1. loc[j].pc = "secrets" /\ loc[j] \in Local /\ "hash" \in PCs
  BY JobTypes DEF PasswordSecrets, At, PCs
<1>2. CASE Broke(j)
  BY <1>1, <1>2, StageBroke DEF PasswordPCs
<1>3. CASE Set(j, [loc[j] EXCEPT !.pc = "hash",
                                 !.todo = {p \in PodNames : pods[p].st # "none"}])
  <2> DEFINE u == [loc[j] EXCEPT !.pc = "hash",
                                 !.todo = {p \in PodNames : pods[p].st # "none"}]
  <2>1. /\ u \in Local /\ u.pc = "hash" /\ u.back = loc[j].back /\ u.hash = loc[j].hash
        /\ u.todo = {p \in PodNames : pods[p].st # "none"}
    BY <1>1 DEF Local
  <2> HIDE DEF u
  <2>2. loc'[j] = u /\ Writing(j)' = Writing(j)
    BY <1>3, <2>1, StageSet DEF u
  <2>3. UNCHANGED <<ledger, secret, pods>>
    BY DEF PasswordSecrets
  <2>4. QED
    BY <1>1, <2>1, <2>2, <2>3 DEF Stage, Given, PasswordPCs
<1>4. QED
  BY <1>2, <1>3 DEF PasswordSecrets

LEMMA StageHash ==
  ASSUME TypeInv, NEW j \in Jobs, PasswordHash(j), Stage(j)
  PROVE  Stage(j)'
<1>1. loc[j].pc = "hash" /\ loc[j] \in Local /\ "pods" \in PCs
  BY JobTypes DEF PasswordHash, At, PCs
<1>2. CASE Broke(j)
  BY <1>1, <1>2, StageBroke DEF PasswordPCs
<1>3. CASE loc[j].todo = {} /\ UNCHANGED secret /\ Set(j, [loc[j] EXCEPT !.pc = "pods"])
  <2> DEFINE u == [loc[j] EXCEPT !.pc = "pods"]
  <2>1. u \in Local /\ u.pc = "pods" /\ u.back = loc[j].back /\ u.hash = loc[j].hash
    BY <1>1 DEF Local
  <2> HIDE DEF u
  <2>2. loc'[j] = u /\ Writing(j)' = Writing(j)
    BY <1>3, <2>1, StageSet DEF u
  <2>3. UNCHANGED <<ledger, pods>>
    BY DEF PasswordHash
  <2>4. QED
    BY <1>1, <1>3, <2>1, <2>2, <2>3 DEF Stage, Given, PasswordPCs
<1>4. ASSUME NEW p \in loc[j].todo, Set(j, [loc[j] EXCEPT !.todo = @ \ {p}]),
             secret' = IF secret[p] = "none" THEN secret
                                            ELSE [secret EXCEPT ![p] = Writing(j)]
      PROVE  Stage(j)'
  <2> DEFINE u == [loc[j] EXCEPT !.todo = @ \ {p}]
  <2>1. /\ u \in Local /\ u.pc = "hash" /\ u.back = loc[j].back /\ u.hash = loc[j].hash
        /\ u.todo = loc[j].todo \ {p}
    BY <1>1 DEF Local
  <2> HIDE DEF u
  <2>2. loc'[j] = u /\ Writing(j)' = Writing(j)
    BY <1>4, <2>1, StageSet DEF u
  <2>3. UNCHANGED <<ledger, pods>> /\ p \in PodNames
    BY JobTypes DEF PasswordHash
  <2>4. secret'[p] \in {"none", Writing(j)} /\ \A q \in PodNames \ {p} : secret'[q] = secret[q]
    BY <1>4, <2>3, DataTypes
  <2>5. QED
    BY <1>1, <2>1, <2>2, <2>3, <2>4 DEF Stage, Given, PasswordPCs
<1>5. QED
  BY <1>2, <1>3, <1>4 DEF PasswordHash

LEMMA StagePods ==
  ASSUME TypeInv, NEW j \in Jobs, PasswordPods(j), Stage(j)
  PROVE  Stage(j)'
<1>1. loc[j].pc = "pods" /\ loc[j] \in Local /\ "exec" \in PCs
  BY JobTypes DEF PasswordPods, At, PCs
<1>2. CASE Broke(j)
  BY <1>1, <1>2, StageBroke DEF PasswordPCs
<1>3. CASE Set(j, [loc[j] EXCEPT !.pc = "exec",
                                 !.todo = {p \in PodNames : pods[p].st = "up"}])
  <2> DEFINE u == [loc[j] EXCEPT !.pc = "exec",
                                 !.todo = {p \in PodNames : pods[p].st = "up"}]
  <2>1. /\ u \in Local /\ u.pc = "exec" /\ u.back = loc[j].back /\ u.hash = loc[j].hash
        /\ u.todo = {p \in PodNames : pods[p].st = "up"}
    BY <1>1 DEF Local
  <2> HIDE DEF u
  <2>2. loc'[j] = u /\ Writing(j)' = Writing(j)
    BY <1>3, <2>1, StageSet DEF u
  <2>3. UNCHANGED <<ledger, secret, pods>>
    BY DEF PasswordPods
  <2>4. QED
    BY <1>1, <2>1, <2>2, <2>3 DEF Stage, Given, PasswordPCs
<1>4. QED
  BY <1>2, <1>3 DEF PasswordPods

LEMMA StageExec ==
  ASSUME TypeInv, NEW j \in Jobs, PasswordExec(j), Stage(j)
  PROVE  Stage(j)'
<1>1. loc[j].pc = "exec" /\ loc[j] \in Local
  BY JobTypes DEF PasswordExec, At
<1>2. PICK p \in loc[j].todo, b \in BOOLEAN :
        /\ Set(j, [loc[j] EXCEPT !.todo = @ \ {p}, !.bad = b])
        /\ pods' \in {pods, [pods EXCEPT ![p].shadow = Writing(j)]}
        /\ ~b => ~loc[j].bad /\ pods' = [pods EXCEPT ![p].shadow = Writing(j)]
  <2>1. PICK p \in loc[j].todo :
          \/ /\ IF pods[p].st = "up" THEN pods' = [pods EXCEPT ![p].shadow = Writing(j)]
                                     ELSE UNCHANGED pods
             /\ Set(j, [loc[j] EXCEPT !.todo = @ \ {p}, !.bad = @ \/ Unreached(j, p)])
          \/ /\ pods' = [pods EXCEPT ![p].shadow = Writing(j)] \/ UNCHANGED pods
             /\ Set(j, [loc[j] EXCEPT !.todo = @ \ {p}, !.bad = TRUE])
    BY DEF PasswordExec
  <2>2. CASE /\ IF pods[p].st = "up" THEN pods' = [pods EXCEPT ![p].shadow = Writing(j)]
                                     ELSE UNCHANGED pods
             /\ Set(j, [loc[j] EXCEPT !.todo = @ \ {p}, !.bad = @ \/ Unreached(j, p)])
    <3> WITNESS p \in loc[j].todo, (loc[j].bad \/ Unreached(j, p)) \in BOOLEAN
    <3>1. QED
      BY <2>2 DEF Unreached
  <2>3. CASE /\ pods' = [pods EXCEPT ![p].shadow = Writing(j)] \/ UNCHANGED pods
             /\ Set(j, [loc[j] EXCEPT !.todo = @ \ {p}, !.bad = TRUE])
    <3> WITNESS p \in loc[j].todo, TRUE \in BOOLEAN
    <3>1. QED
      BY <2>3
  <2>4. QED
    BY <2>1, <2>2, <2>3
<1> DEFINE u == [loc[j] EXCEPT !.todo = @ \ {p}, !.bad = b]
<1>3. /\ u \in Local /\ u.pc = "exec" /\ u.back = loc[j].back /\ u.hash = loc[j].hash
      /\ u.todo = loc[j].todo \ {p} /\ (u.bad <=> b)
  BY <1>1 DEF Local
<1> HIDE DEF u
<1>4. loc'[j] = u /\ Writing(j)' = Writing(j)
  BY <1>2, <1>3, StageSet DEF u
<1>5. UNCHANGED <<ledger, secret>> /\ p \in PodNames
  BY JobTypes DEF PasswordExec
<1>6. /\ \A q \in PodNames : pods'[q].st = pods[q].st
      /\ \A q \in PodNames \ {p} : pods'[q] = pods[q]
      /\ ~b => pods'[p].shadow = Writing(j)
  BY <1>2, <1>5, DataTypes DEF Pod
<1>7. QED
  BY <1>1, <1>2, <1>3, <1>4, <1>5, <1>6 DEF Stage, Given, PasswordPCs

-----------------------------------------------------------------------------
(* The end of a password job, and what the other steps do to it             *)

\* A running password job excludes migrations, and every use of a Secret.
LEMMA Excluded ==
  ASSUME TypeInv, AloneInv, PodsInv, NEW j \in Jobs, loc[j].pc \in PasswordPCs
  PROVE  /\ KindOf[j] = "password" /\ Running(j) /\ j \in mix
         /\ \A m \in Jobs : loc[m].pc \notin MovePCs
         /\ \A k \in Jobs \ {j} : loc[k].pc \notin PasswordPCs
         /\ \A p \in PodNames : pods[p].st # "pending" /\ pods[p].env = "none"
<1>1. KindOf[j] = "password" /\ Running(j) /\ j \in mix
  BY JobTypes DEF JobOK, PasswordPCs, Running, Final
<1>2. ASSUME NEW m \in Jobs, loc[m].pc \in MovePCs PROVE FALSE
  <2>1. KindOf[m] = "migrate" /\ Running(m)
    BY <1>2, JobTypes DEF JobOK, MovePCs, Running, Final
  <2>2. QED
    BY <1>1, <2>1 DEF AloneInv
<1>3. ASSUME NEW k \in Jobs \ {j}, loc[k].pc \in PasswordPCs PROVE FALSE
  <2>1. KindOf[k] = "password" /\ Running(k)
    BY <1>3, JobTypes DEF JobOK, PasswordPCs, Running, Final
  <2>2. QED
    BY <1>1, <2>1 DEF AloneInv
<1>4. QED
  BY <1>1, <1>2, <1>3 DEF AloneInv, PodsInv

LEMMA StageDone ==
  ASSUME TypeInv, AloneInv, PodsInv, NEW j \in Jobs, PasswordDone(j), Stage(j)
  PROVE  /\ Stage(j)'
         /\ loc'[j].pc \in {"ok", "undone"} => Uniform' /\ (ledger' = j <=> loc'[j].pc = "ok")
<1>1. loc[j].pc = "exec" /\ loc[j].todo = {} /\ loc[j].pc \in PasswordPCs \ {"ledger"}
  BY DEF PasswordDone, At, PasswordPCs
<1>2. CASE loc[j].bad
  BY <1>1, <1>2, StageBroke DEF PasswordDone
<1>3. CASE ~loc[j].bad
  <2>1. loc'[j].pc = IF loc[j].back THEN "undone" ELSE "ok"
    BY <1>3, EndIs DEF PasswordDone, Final
  <2>2. UNCHANGED <<ledger, secret, pods>>
    BY DEF PasswordDone
  <2>3. ledger = Writing(j) /\ \A p \in PodNames :
          Given(p, ledger) /\ (pods[p].st = "up" => pods[p].shadow = ledger)
    BY <1>1, <1>3 DEF Stage
  <2>4. ledger' = j <=> loc'[j].pc = "ok"
    BY <2>1, <2>2, <2>3, WritingType DEF Writing
  <2>5. \A m \in Jobs : loc'[m].pc \notin MovePCs
    <3>1. \A m \in Jobs : m # j => loc'[m] = loc[m]
      BY StepOthers DEF JobStep, PasswordJob
    <3>2. QED
      BY <1>1, <2>1, <3>1, Excluded DEF MovePCs
  <2>6. \A p \in PodNames : pods[p].env = "none"
    BY <1>1, Excluded
  <2>7. Uniform'
    BY <2>2, <2>3, <2>5, <2>6 DEF Uniform, Given, Holding, MovePCs
  <2>8. Stage(j)'
    BY <2>1 DEF Stage, PasswordPCs
  <2>9. QED
    BY <2>4, <2>7, <2>8
<1>4. QED
  BY <1>2, <1>3

LEMMA StageStep ==
  ASSUME TypeInv, AloneInv, PodsInv, NEW j \in Jobs, PasswordJob(j), Stage(j)
  PROVE  /\ Stage(j)'
         /\ loc'[j].pc \in {"ok", "undone"} => Uniform' /\ (ledger' = j <=> loc'[j].pc = "ok")
<1>1. CASE PasswordDone(j)
  BY <1>1, StageDone
<1>2. CASE ~PasswordDone(j)
  <2>1. Stage(j)'
    BY <1>2, StageLedger, StageSecrets, StageHash, StagePods, StageExec DEF PasswordJob
  <2>2. loc'[j].pc \notin {"ok", "undone"}
    <3>1. loc[j] \in Local /\ loc[j].pc \in PasswordPCs
      BY PasswordPoint, JobTypes
    <3>2. /\ Again(j, "ledger") => loc'[j].pc \in {"ledger", "fail"}
          /\ loc[j].pc # "ledger" /\ Broke(j) => loc'[j].pc \in {"ledger", "fail"}
      BY <3>1, AgainIs, StageBroke DEF PCs
    <3>3. CASE PasswordLedger(j)
      <4>1. ~(Set(j, [loc[j] EXCEPT !.pc = "secrets", !.hash = ledger])
              /\ loc'[j].pc \in {"ok", "undone"})
        <5>1. SUFFICES ASSUME Set(j, [loc[j] EXCEPT !.pc = "secrets", !.hash = ledger])
                       PROVE  loc'[j].pc = "secrets"
          OBVIOUS
        <5>2. loc'[j] = [loc[j] EXCEPT !.pc = "secrets", !.hash = ledger]
          BY <5>1, SetIs
        <5>3. QED
          BY <3>1, <5>2 DEF Local
      <4>2. ~(Set(j, [loc[j] EXCEPT !.pc = "secrets"]) /\ loc'[j].pc \in {"ok", "undone"})
        BY <3>1, SetIs DEF Local
      <4>3. QED
        BY <3>2, <3>3, <4>1, <4>2 DEF PasswordLedger
    <3>4. CASE PasswordSecrets(j) \/ PasswordPods(j)
      <4>1. ASSUME NEW pc \in {"hash", "exec"}, NEW t,
                   Set(j, [loc[j] EXCEPT !.pc = pc, !.todo = t])
            PROVE  loc'[j].pc = pc
        <5>1. loc'[j] = [loc[j] EXCEPT !.pc = pc, !.todo = t]
          BY <4>1, SetIs
        <5>2. QED
          BY <3>1, <5>1 DEF Local
      <4>2. QED
        BY <3>2, <3>4, <4>1 DEF PasswordSecrets, PasswordPods, At
    <3>5. CASE PasswordHash(j)
      <4>1. loc[j].pc = "hash"
        BY <3>5 DEF PasswordHash, At
      <4>2. ASSUME NEW t, Set(j, [loc[j] EXCEPT !.todo = t]) PROVE loc'[j].pc = "hash"
        <5>1. loc'[j] = [loc[j] EXCEPT !.todo = t]
          BY <4>2, SetIs
        <5>2. QED
          BY <3>1, <4>1, <5>1 DEF Local
      <4>3. Set(j, [loc[j] EXCEPT !.pc = "pods"]) => loc'[j].pc = "pods"
        BY <3>1, SetIs DEF Local
      <4>4. QED
        BY <3>2, <3>5, <4>1, <4>2, <4>3 DEF PasswordHash
    <3>6. CASE PasswordExec(j)
      <4>1. loc[j].pc = "exec"
        BY <3>6 DEF PasswordExec, At
      <4>2. ASSUME NEW t, NEW b, Set(j, [loc[j] EXCEPT !.todo = t, !.bad = b])
            PROVE  loc'[j].pc = "exec"
        <5>1. loc'[j] = [loc[j] EXCEPT !.todo = t, !.bad = b]
          BY <4>2, SetIs
        <5>2. QED
          BY <3>1, <4>1, <5>1 DEF Local
      <4>3. QED
        BY <3>6, <4>2 DEF PasswordExec
    <3>7. QED
      BY <1>2, <3>3, <3>4, <3>5, <3>6 DEF PasswordJob
  <2>3. QED
    BY <2>1, <2>2
<1>3. QED
  BY <1>1, <1>2

\* Uniform as long as no hash is written
LEMMA UniformMove ==
  ASSUME TypeInv, PodsInv, Uniform, NEW i \in Jobs, MoveJob(i)
  PROVE  Uniform'
<1>1. /\ loc[i] \in Local /\ KindOf[i] = "migrate" /\ loc[i].pc \in MovePCs
      /\ TargetOf[i] \in Old /\ i \in PodNames /\ TargetOf[i] \in PodNames
      /\ loc[i].pc # "new"
  BY MovePoint, JobTypes, ConstantsOK DEF JobOK, Serving, PodNames, MovePCs
<1>2. ledger' = ledger /\ ledger \in Hashes
  BY DataTypes DEF MoveJob, MoveInherit, MoveSecret, MovePod, MoveReady, MoveServices,
         MoveService, MoveServed, MoveCleanServices, MoveCleanPod, MoveCleaned
<1>3. \A m \in Jobs : m # i => loc'[m] = loc[m]
  BY StepOthers DEF JobStep
<1>4. /\ NoPod.st = "none" /\ NoPod.env = "none"
      /\ [NoPod EXCEPT !.st = "pending"].st = "pending"
      /\ [NoPod EXCEPT !.st = "pending"].env = "none"
  BY DEF NoPod
<1>5. /\ secret \in [PodNames -> Hashes \cup {"none"}] /\ pods \in [PodNames -> Pod]
      /\ "none" \notin Hashes
  BY DataTypes
\* What it means for the job itself and for the data.
<1>6. ASSUME loc'[i].pc \in Holding => loc'[i].hash = ledger,
             loc'[i].pc = "pod" => secret'[i] = ledger,
             \A p \in PodNames : secret'[p] \in {secret[p], "none", ledger},
             \A p \in PodNames : \/ pods'[p] = pods[p]
                                 \/ pods'[p].st = "none" /\ pods'[p].env = "none"
                                 \/ /\ pods'[p].st = "pending" /\ pods'[p].env = "none"
                                    /\ secret'[p] \in {"none", ledger},
             \A m \in Jobs \ {i} : secret'[m] = secret[m]
      PROVE  Uniform'
  <2>1. ASSUME NEW p \in PodNames
        PROVE  /\ Given(p, ledger)'
               /\ pods'[p].st = "up" => pods'[p].shadow = ledger
               /\ pods'[p].env \in {"none", ledger}
    BY <1>2, <1>6 DEF Uniform, Given
  <2>2. ASSUME NEW m \in Jobs
        PROVE  /\ loc'[m].pc \in Holding => loc'[m].hash = ledger
               /\ loc'[m].pc = "pod" => secret'[m] = ledger
    <3>1. CASE m = i
      BY <1>6, <3>1
    <3>2. CASE m # i
      BY <1>3, <1>6, <3>2 DEF Uniform
    <3>3. QED
      BY <3>1, <3>2
  <2>3. QED
    BY <1>2, <2>1, <2>2 DEF Uniform
<1>7. loc[i].pc \in Holding => loc[i].hash = ledger
  BY DEF Uniform
<1>8. /\ End(i, "ok") => loc'[i].pc = "ok"
      /\ End(i, "fail") => loc'[i].pc = "fail"
      /\ Rewind(i) => loc'[i].pc = "fail"
                      \/ (loc'[i].pc = "secret" /\ loc'[i].hash = loc[i].hash)
  BY <1>1, EndIs, RewindOK, SetIs DEF Final
<1>9. {"ok", "fail"} \cap Holding = {}
  BY DEF Holding, MovePCs
<1>10. CASE MoveInherit(i)
  <2>1. UNCHANGED <<secret, pods>>
    BY <1>10 DEF MoveInherit
  <2>2. CASE End(i, "fail")
    BY <1>6, <1>8, <1>9, <2>1, <2>2
  <2>3. CASE ~End(i, "fail")
    <3>1. loc'[i] = [loc[i] EXCEPT !.hash = secret[TargetOf[i]],
                       !.pc = IF @ = "inherit" THEN "secret" ELSE "cleanServices"]
          /\ pods[TargetOf[i]].st # "none" /\ secret[TargetOf[i]] # "none"
      BY <1>10, <2>3, SetIs DEF MoveInherit
    <3>2. loc'[i].pc # "pod" /\ loc'[i].hash = secret[TargetOf[i]]
      BY <1>1, <3>1 DEF Local
    <3>3. secret[TargetOf[i]] = ledger
      BY <1>1, <3>1 DEF Uniform, Given
    <3>4. QED
      BY <1>6, <2>1, <3>2, <3>3
  <2>4. QED
    BY <2>2, <2>3
<1>11. CASE MoveSecret(i) \/ MovePod(i) \/ MoveReady(i) \/ MoveService(i)
  <2>1. PodMade(i)
    BY <1>11, MakePod
  <2>2. loc[i].pc \in Holding /\ loc[i].hash = ledger
    BY <1>7, <1>11 DEF MoveSecret, MovePod, MoveReady, MoveService, At, Holding, MovePCs
  <2>3. PICK h \in {secret[i], loc[i].hash, "none"} : secret' = [secret EXCEPT ![i] = h]
    BY <2>1 DEF PodMade
  <2>4. PICK q \in {pods[i], NoPod, [NoPod EXCEPT !.st = "pending"]} :
          pods' = [pods EXCEPT ![i] = q]
    BY <2>1 DEF PodMade
  <2>5. /\ secret'[i] = h /\ \A p \in PodNames \ {i} : secret'[p] = secret[p]
        /\ pods'[i] = q /\ \A p \in PodNames \ {i} : pods'[p] = pods[p]
    BY <1>1, <1>5, <2>3, <2>4
  \* The Pod is made after its Secret.
  <2>6. q = [NoPod EXCEPT !.st = "pending"] /\ q # pods[i] => h \in {"none", ledger}
    <3>1. CASE MovePod(i)
      <4>1. secret[i] = ledger
        BY <3>1 DEF MovePod, At, Uniform
      <4>2. QED
        BY <2>2, <2>3, <4>1
    <3>2. CASE ~MovePod(i)
      <4>1. pods'[i] \in {pods[i], NoPod}
        BY <1>1, <1>5, <1>11, <3>2
           DEF MoveSecret, MoveReady, MoveService, Leave, CleanUp
      <4>2. QED
        BY <1>4, <2>5, <4>1
    <3>3. QED
      BY <3>1, <3>2
  <2>7. /\ loc'[i].pc \in Holding => loc'[i].hash = ledger
        /\ loc'[i].pc = "pod" => secret'[i] = ledger
    <3>1. CASE End(i, "fail") \/ Rewind(i)
      BY <1>8, <1>9, <2>2, <3>1
    <3>2. ASSUME NEW pc, Set(i, [loc[i] EXCEPT !.pc = pc])
          PROVE  loc'[i].hash = ledger /\ loc'[i].pc = pc
      <4>1. loc'[i] = [loc[i] EXCEPT !.pc = pc]
        BY <3>2, SetIs
      <4>2. QED
        BY <1>1, <2>2, <4>1 DEF Local
    <3>3. ASSUME NEW o, Set(i, [loc[i] EXCEPT !.ports = @ \ {o}])
          PROVE  loc'[i].hash = ledger /\ loc'[i].pc = loc[i].pc
      <4>1. loc'[i] = [loc[i] EXCEPT !.ports = @ \ {o}]
        BY <3>3, SetIs
      <4>2. QED
        BY <1>1, <2>2, <4>1 DEF Local
    <3>4. CASE MoveSecret(i) /\ ~Rewind(i)
      <4>1. secret' = [secret EXCEPT ![i] = loc[i].hash] /\ Set(i, [loc[i] EXCEPT !.pc = "pod"])
        BY <3>4 DEF MoveSecret
      <4>2. secret'[i] = ledger
        BY <1>1, <1>5, <2>2, <4>1
      <4>3. QED
        BY <3>2, <4>1, <4>2
    <3>5. CASE (MovePod(i) \/ MoveReady(i)) /\ ~End(i, "fail") /\ ~Rewind(i)
      BY <3>2, <3>5 DEF MovePod, MoveReady
    <3>6. CASE MoveService(i) /\ ~Rewind(i)
      BY <3>3, <3>6 DEF MoveService, At
    <3>7. QED
      BY <1>11, <3>1, <3>4, <3>5, <3>6
  <2>8. ASSUME NEW p \in PodNames
        PROVE  /\ secret'[p] \in {secret[p], "none", ledger}
               /\ \/ pods'[p] = pods[p]
                  \/ pods'[p].st = "none" /\ pods'[p].env = "none"
                  \/ /\ pods'[p].st = "pending" /\ pods'[p].env = "none"
                     /\ secret'[p] \in {"none", ledger}
    <3>1. CASE p = i
      BY <1>4, <2>2, <2>5, <2>6, <3>1
    <3>2. CASE p # i
      BY <2>5, <3>2
    <3>3. QED
      BY <3>1, <3>2
  <2>9. QED
    BY <1>6, <2>5, <2>7, <2>8 DEF PodNames
<1>12. CASE MoveServices(i) \/ MoveServed(i) \/ MoveCleanServices(i) \/ MoveCleaned(i)
  <2>1. UNCHANGED <<secret, pods>> /\ loc[i].pc \in Holding
    BY <1>12 DEF MoveServices, MoveServed, MoveCleanServices, MoveCleaned, At, Holding, MovePCs
  <2>2. ASSUME NEW pc, Set(i, [loc[i] EXCEPT !.pc = pc])
        PROVE  loc'[i].hash = ledger /\ loc'[i].pc = pc
    <3>1. loc'[i] = [loc[i] EXCEPT !.pc = pc]
      BY <2>2, SetIs
    <3>2. QED
      BY <1>1, <1>7, <2>1, <3>1 DEF Local
  <2>3. ASSUME Set(i, [loc[i] EXCEPT !.pc = "service", !.ports = Base])
        PROVE  loc'[i].hash = ledger /\ loc'[i].pc = "service"
    <3>1. loc'[i] = [loc[i] EXCEPT !.pc = "service", !.ports = Base]
      BY <2>3, SetIs
    <3>2. QED
      BY <1>1, <1>7, <2>1, <3>1 DEF Local
  <2>4. /\ loc'[i].pc \in Holding => loc'[i].hash = ledger
        /\ loc'[i].pc # "pod"
    BY <1>8, <1>9, <1>12, <2>2, <2>3
       DEF MoveServices, MoveServed, MoveCleanServices, MoveCleaned
  <2>5. QED
    BY <1>6, <2>1, <2>4
<1>13. CASE MoveCleanPod(i)
  <2>1. loc[i].pc = "cleanPod" /\ loc[i].hash = ledger
    BY <1>7, <1>13 DEF MoveCleanPod, At, Holding, MovePCs
  <2>2. loc'[i].pc = "ok" \/ loc'[i] = loc[i]
    BY <1>8, <1>13 DEF MoveCleanPod
  <2>3. \A p \in PodNames : /\ secret'[p] = secret[p] \/ secret'[p] = "none"
                            /\ \/ pods'[p] = pods[p]
                               \/ pods'[p].st = "none" /\ pods'[p].env = "none"
    <3>1. CASE UNCHANGED <<pods, secret>>
      BY <3>1
    <3>2. CASE /\ pods' = [pods EXCEPT ![TargetOf[i]] = NoPod]
               /\ secret' = [secret EXCEPT ![TargetOf[i]] = "none"]
      <4>1. /\ secret'[TargetOf[i]] = "none" /\ pods'[TargetOf[i]] = NoPod
            /\ \A p \in PodNames \ {TargetOf[i]} : secret'[p] = secret[p] /\ pods'[p] = pods[p]
        BY <1>1, <1>5, <3>2
      <4>2. QED
        BY <1>4, <4>1
    <3>3. QED
      BY <1>13, <3>1, <3>2 DEF MoveCleanPod
  <2>4. \A m \in Jobs : secret'[m] = secret[m]
    BY <1>1, <1>5, <1>13, ConstantsOK DEF MoveCleanPod, PodNames
  <2>5. QED
    BY <1>6, <1>9, <2>1, <2>2, <2>3, <2>4
<1>14. QED
  BY <1>10, <1>11, <1>12, <1>13 DEF MoveJob

LEMMA UniformKubelet ==
  ASSUME TypeInv, PodsInv, Uniform, NEW p \in PodNames, Kubelet(p)
  PROVE  Uniform'
<1>1. UNCHANGED <<ledger, secret, loc>>
  BY DEF Kubelet, ContainerStops, ContainerReads, ContainerUp
<1>2. pods \in [PodNames -> Pod] /\ secret \in [PodNames -> Hashes \cup {"none"}]
  BY DataTypes
<1>3. /\ pods'[p].st # "none" => pods[p].st # "none"
      /\ pods'[p].st = "up" => pods'[p].shadow = ledger
      /\ pods'[p].env \in {"none", ledger}
      /\ \A q \in PodNames \ {p} : pods'[q] = pods[q]
  <2>1. CASE ContainerStops(p)
    <3>1. pods'[p] = [NoPod EXCEPT !.st = "down"] /\ pods[p].st = "up"
          /\ \A q \in PodNames \ {p} : pods'[q] = pods[q]
      BY <1>2, <2>1 DEF ContainerStops
    <3>2. [NoPod EXCEPT !.st = "down"].st = "down" /\ [NoPod EXCEPT !.st = "down"].env = "none"
      BY DEF NoPod
    <3>3. QED
      BY <3>1, <3>2
  <2>2. CASE ContainerReads(p)
    <3>1. pods'[p] = [pods[p] EXCEPT !.env = secret[p]] /\ pods[p].st = "pending"
          /\ \A q \in PodNames \ {p} : pods'[q] = pods[q]
      BY <1>2, <2>2 DEF ContainerReads
    <3>2. pods'[p].st = "pending" /\ pods'[p].env = secret[p]
      BY <1>2, <3>1 DEF Pod
    <3>3. secret[p] \in {"none", ledger}
      BY <3>1 DEF Uniform, Given
    <3>4. QED
      BY <3>1, <3>2, <3>3
  <2>3. CASE ContainerUp(p)
    <3>1. /\ pods'[p] = [st |-> "up", env |-> "none", shadow |-> pods[p].env]
          /\ pods[p].env # "none" /\ \A q \in PodNames \ {p} : pods'[q] = pods[q]
      BY <1>2, <2>3 DEF ContainerUp
    <3>2. pods[p].env = ledger
      BY <3>1 DEF Uniform
    <3>3. pods[p].st # "none"
      BY <3>1 DEF PodsInv, ContainerUp
    <3>4. QED
      BY <3>1, <3>2, <3>3
  <2>4. QED
    BY <2>1, <2>2, <2>3 DEF Kubelet
<1>4. QED
  BY <1>1, <1>3 DEF Uniform, Given

LEMMA PodsNext == TypeInv /\ PodsInv /\ [Next]_vars => PodsInv'
<1> SUFFICES ASSUME TypeInv, PodsInv, [Next]_vars PROVE PodsInv'
  OBVIOUS
<1>1. pods \in [PodNames -> Pod]
  BY DataTypes
<1>2. CASE UNCHANGED pods
  BY <1>2 DEF PodsInv
<1>3. CASE \E i \in Jobs : Register(i) \/ ReadFails(i) \/ Crash(i) \/ AccessJob(i) \/ PortJob(i)
  BY <1>2, <1>3 DEF Register, ReadFails, Crash, AccessJob, AccessList, AccessPatch,
                    PortJob, PortRead, PortAllocate, PortAdd
<1>4. ASSUME NEW p \in PodNames, Kubelet(p) PROVE PodsInv'
  <2>1. /\ pods'[p].env # "none" => pods'[p].st = "pending"
        /\ \A q \in PodNames \ {p} : pods'[q] = pods[q]
    <3>1. CASE ContainerStops(p)
      <4>1. pods'[p] = [NoPod EXCEPT !.st = "down"]
            /\ \A q \in PodNames \ {p} : pods'[q] = pods[q]
        BY <1>1, <3>1 DEF ContainerStops
      <4>2. [NoPod EXCEPT !.st = "down"].env = "none"
        BY DEF NoPod
      <4>3. QED
        BY <4>1, <4>2
    <3>2. CASE ContainerReads(p)
      <4>1. pods'[p] = [pods[p] EXCEPT !.env = secret[p]] /\ pods[p].st = "pending"
            /\ \A q \in PodNames \ {p} : pods'[q] = pods[q]
        BY <1>1, <3>2 DEF ContainerReads
      <4>2. pods'[p].st = "pending"
        BY <1>1, <4>1 DEF Pod
      <4>3. QED
        BY <4>1, <4>2
    <3>3. CASE ContainerUp(p)
      <4>1. /\ pods'[p] = [st |-> "up", env |-> "none", shadow |-> pods[p].env]
            /\ \A q \in PodNames \ {p} : pods'[q] = pods[q]
        BY <1>1, <3>3 DEF ContainerUp
      <4>2. QED
        BY <4>1
    <3>4. QED
      BY <1>4, <3>1, <3>2, <3>3 DEF Kubelet
  <2>2. QED
    BY <1>1, <2>1 DEF PodsInv
<1>5. ASSUME NEW i \in Jobs, PasswordJob(i) PROVE PodsInv'
  <2>1. \A p \in PodNames : pods'[p].st = pods[p].st /\ pods'[p].env = pods[p].env
    <3>1. CASE PasswordExec(i)
      <4>1. PICK p \in loc[i].todo :
              pods' \in {pods, [pods EXCEPT ![p].shadow = Writing(i)]}
        BY <3>1 DEF PasswordExec
      <4>2. QED
        BY <1>1, <4>1 DEF Pod
    <3>2. CASE ~PasswordExec(i)
      BY <1>5, <3>2 DEF PasswordJob, PasswordLedger, PasswordSecrets, PasswordHash,
                        PasswordPods, PasswordDone
    <3>3. QED
      BY <3>1, <3>2
  <2>2. QED
    BY <1>1, <2>1 DEF PodsInv
<1>6. ASSUME NEW i \in Jobs, MoveJob(i) PROVE PodsInv'
  <2>1. i \in PodNames /\ TargetOf[i] \in PodNames
    BY <1>6, MovePoint, JobTypes, ConstantsOK DEF JobOK, Serving, PodNames
  <2>2. NoPod.env = "none" /\ [NoPod EXCEPT !.st = "pending"].st = "pending"
    BY DEF NoPod
  <2>3. ASSUME NEW m \in PodNames,
               NEW q \in {pods[m], NoPod, [NoPod EXCEPT !.st = "pending"]},
               pods' = [pods EXCEPT ![m] = q]
        PROVE  PodsInv'
    <3>1. pods'[m] = q /\ \A p \in PodNames \ {m} : pods'[p] = pods[p]
      BY <1>1, <2>3
    <3>2. QED
      BY <2>2, <2>3, <3>1 DEF PodsInv
  <2>4. CASE MoveSecret(i) \/ MovePod(i) \/ MoveReady(i) \/ MoveService(i)
    BY <2>1, <2>3, <2>4, MakePod DEF PodMade
  <2>5. CASE MoveCleanPod(i)
    BY <1>2, <2>1, <2>3, <2>5 DEF MoveCleanPod
  <2>6. QED
    BY <1>2, <1>6, <2>4, <2>5 DEF MoveJob, MoveInherit, MoveServices, MoveServed,
                                  MoveCleanServices, MoveCleaned
<1>7. QED
  BY <1>2, <1>3, <1>4, <1>5, <1>6 DEF Next, vars

\* Port and access jobs, failed readings and crashes write no hash.
Aside(i) == ReadFails(i) \/ Crash(i) \/ AccessJob(i) \/ PortJob(i)

LEMMA AsideOK ==
  ASSUME TypeInv, NEW i \in Jobs, Aside(i)
  PROVE  /\ UNCHANGED <<ledger, secret, pods>>
         /\ loc'[i].pc \notin Holding
         /\ loc'[i].pc \notin PasswordPCs \ {"ledger"}
         /\ KindOf[i] = "password" => loc'[i].pc \notin {"ok", "undone"}
<1>1. CASE ReadFails(i) \/ Crash(i)
  BY <1>1, CrashPoint DEF Holding, MovePCs, PasswordPCs, Access
<1>2. CASE AccessJob(i)
  <2>1. UNCHANGED <<ledger, secret, pods>>
    BY <1>2 DEF AccessJob, AccessList, AccessPatch
  <2>2. QED
    BY <1>2, <2>1, AccessPoint DEF Holding, MovePCs, PasswordPCs, Access
<1>3. CASE PortJob(i)
  <2>1. UNCHANGED <<ledger, secret, pods>>
    BY <1>3 DEF PortJob, PortRead, PortAllocate, PortAdd
  <2>2. KindOf[i] = "port"
    BY <1>3, PortPoint, JobTypes DEF JobOK
  <2>3. QED
    BY <1>3, <2>1, <2>2, PortPoint DEF Holding, MovePCs, PasswordPCs, PortPCs
<1>4. QED
  BY <1>1, <1>2, <1>3 DEF Aside

LEMMA AloneStep ==
  ASSUME TypeInv, AloneInv, PodsInv, NEW i \in Jobs, JobStep(i)
  PROVE  AloneInv'
<1>1. \A a, b \in Jobs : Running(a)' /\ Running(b)' /\ a # b /\ KindOf[a] = "password"
                         => KindOf[b] \notin {"password", "migrate"}
  BY StepRuns DEF AloneInv
<1>2. ASSUME NEW j \in Jobs, Running(j)', KindOf[j] = "password"
      PROVE  /\ \A p \in PodNames : pods'[p].st # "pending"
             /\ \A k \in Jobs : KindOf[k] = "password" => loc'[k].at <= loc'[j].at
  <2>1. Running(j) /\ Running(i)
    BY <1>2, StepRuns
  <2>2. \A p \in PodNames : pods[p].st # "pending"
    BY <1>2, <2>1 DEF AloneInv
  <2>3. ~MoveJob(i)
    <3>1. MoveJob(i) => KindOf[i] = "migrate"
      BY MovePoint, JobTypes DEF JobOK
    <3>2. QED
      BY <1>2, <2>1, <3>1 DEF AloneInv
  <2>4. \A p \in PodNames : pods'[p].st = pods[p].st
    <3>1. pods \in [PodNames -> Pod]
      BY DataTypes
    <3>2. CASE PasswordExec(i)
      <4>1. PICK p \in loc[i].todo :
              pods' \in {pods, [pods EXCEPT ![p].shadow = Writing(i)]}
        BY <3>2 DEF PasswordExec
      <4>2. QED
        BY <3>1, <4>1 DEF Pod
    <3>3. CASE PasswordJob(i) /\ ~PasswordExec(i)
      BY <3>3 DEF PasswordJob, PasswordLedger, PasswordSecrets, PasswordHash,
                  PasswordPods, PasswordDone
    <3>4. CASE Aside(i)
      BY <3>4, AsideOK
    <3>5. QED
      BY <2>3, <3>2, <3>3, <3>4 DEF JobStep, Aside
  <2>5. \A k \in Jobs : KindOf[k] = "password" => loc'[k].at <= loc'[j].at
    BY <1>2, <2>1, StepRuns DEF AloneInv
  <2>6. QED
    BY <2>2, <2>4, <2>5
<1>3. QED
  BY <1>1, <1>2 DEF AloneInv

LEMMA AloneRegister ==
  ASSUME ~Overlap, TypeInv, AloneInv, NEW i \in Jobs, Register(i)
  PROVE  AloneInv'
<1>1. /\ \A k \in Jobs : k # i => loc'[k] = loc[k]
      /\ loc'[i].at = now' /\ now' >= now /\ now' \in Nat /\ loc[i].pc = "new"
      /\ pods' = pods /\ now \in Nat
  BY RegisterOthers, FS_CardinalityType, ConstantsOK DEF TypeInv, ClockOK
<1>2. Apart(i)
  BY DEF Register
<1>3. ASSUME NEW a \in Jobs, NEW b \in Jobs, Running(a)', Running(b)', a # b,
             KindOf[a] = "password"
      PROVE  KindOf[b] \notin {"password", "migrate"}
  <2>1. CASE a = i
    BY <1>1, <1>2, <1>3, <2>1 DEF Apart, Running
  <2>2. CASE b = i
    BY <1>1, <1>2, <1>3, <2>2 DEF Apart, Running
  <2>3. CASE a # i /\ b # i
    BY <1>1, <1>3, <2>3 DEF AloneInv, Running
  <2>4. QED
    BY <2>1, <2>2, <2>3
<1>4. ASSUME NEW j \in Jobs, Running(j)', KindOf[j] = "password"
      PROVE  /\ \A p \in PodNames : pods'[p].st # "pending"
             /\ \A k \in Jobs : KindOf[k] = "password" => loc'[k].at <= loc'[j].at
  <2>1. CASE j = i
    <3>1. \A k \in Jobs : loc[k].at <= now
      <4>1. SUFFICES ASSUME NEW k \in Jobs PROVE loc[k].at <= now
        OBVIOUS
      <4>2. loc[k].at = 0 \/ loc[k].at \in 1..now
        BY JobTypes DEF JobOK
      <4>3. QED
        BY <1>1, <4>2
    <3>2. ASSUME NEW k \in Jobs PROVE loc'[k].at <= loc'[j].at
      BY <1>1, <2>1, <3>1, JobTypes
    <3>3. QED
      BY <1>1, <1>2, <1>4, <2>1, <3>2 DEF Apart
  <2>2. CASE j # i
    <3>1. Running(j) /\ KindOf[i] # "password"
      BY <1>1, <1>2, <1>4, <2>2 DEF Running, Apart
    <3>2. QED
      BY <1>1, <1>4, <2>2, <3>1 DEF AloneInv
  <2>3. QED
    BY <2>1, <2>2
<1>5. QED
  BY <1>3, <1>4 DEF AloneInv

\* Whose turn is the last does not depend on steps after the registration.
LEMMA PasswordStep ==
  ASSUME TypeInv, PasswordInv, NEW i \in Jobs, JobStep(i), NEW j \in Jobs
  PROVE  Stage(j)' /\ Settled(j)'
<1> USE DEF PasswordInv
<1>1. /\ \A k \in Jobs : k # i => loc'[k] = loc[k]
      /\ \A k \in Jobs : loc'[k].at = loc[k].at
      /\ mix' = mix /\ Running(i)
  BY StepOthers, StepRuns
<1>2. LastPassword(j)' <=> LastPassword(j)
  BY <1>1 DEF LastPassword, Is
<1>3. Is(j, {"password"})' <=> Is(j, {"password"})
  BY <1>1 DEF Is
<1>4. CASE Aside(i)
  <2>1. UNCHANGED <<ledger, secret, pods>> /\ loc'[i].pc \notin Holding
        /\ loc'[i].pc \notin PasswordPCs \ {"ledger"}
        /\ (KindOf[i] = "password" => loc'[i].pc \notin {"ok", "undone"})
    BY <1>4, AsideOK
  <2>2. Uniform => Uniform'
    <3>1. ASSUME Uniform, NEW m \in Jobs
          PROVE  /\ loc'[m].pc \in Holding => loc'[m].hash = ledger
                 /\ loc'[m].pc = "pod" => secret'[m] = ledger
      <4>1. CASE m = i
        BY <2>1, <4>1 DEF Holding, MovePCs
      <4>2. CASE m # i
        BY <1>1, <2>1, <3>1, <4>2 DEF Uniform
      <4>3. QED
        BY <4>1, <4>2
    <3>2. QED
      BY <2>1, <3>1 DEF Uniform, Given
  <2>3. CASE j = i
    BY <1>3, <2>1, <2>3 DEF Stage, Settled, Is, PasswordPCs
  <2>4. CASE j # i
    <3>1. Stage(j)'
      BY <1>1, <2>1, <2>4 DEF Stage, Writing, Given
    <3>2. Settled(j)'
      BY <1>1, <1>2, <1>3, <2>1, <2>2, <2>4 DEF Settled
    <3>3. QED
      BY <3>1, <3>2
  <2>5. QED
    BY <2>3, <2>4
<1>5. CASE MoveJob(i)
  <2>1. KindOf[i] = "migrate" /\ ledger' = ledger
    BY <1>5, MovePoint, JobTypes DEF JobOK, MoveJob, MoveInherit, MoveSecret, MovePod,
       MoveReady, MoveServices, MoveService, MoveServed, MoveCleanServices, MoveCleanPod, MoveCleaned
  <2>2. Uniform => Uniform'
    BY <1>5, UniformMove
  <2>3. loc'[j].pc \notin PasswordPCs
    <3>1. CASE j = i
      BY <1>5, <3>1, MovePoint DEF MovePCs, PasswordPCs
    <3>2. CASE j # i
      <4>1. loc[i].pc \in MovePCs
        BY <1>5, MovePoint
      <4>2. QED
        BY <1>1, <3>2, <4>1, Excluded
    <3>3. QED
      BY <3>1, <3>2
  <2>4. Stage(j)'
    BY <2>3 DEF Stage, PasswordPCs
  <2>5. Settled(j)'
    <3>1. CASE j = i
      BY <2>1, <3>1 DEF Settled, Is
    <3>2. CASE j # i
      BY <1>1, <1>2, <1>3, <2>1, <2>2, <3>2 DEF Settled
    <3>3. QED
      BY <3>1, <3>2
  <2>6. QED
    BY <2>4, <2>5
<1>6. CASE PasswordJob(i)
  <2>1. loc[i].pc \in PasswordPCs
    BY <1>6, PasswordPoint
  <2>2. KindOf[i] = "password" /\ i \in mix /\ \A k \in Jobs \ {i} : loc[k].pc \notin PasswordPCs
    BY <2>1, Excluded
  <2>3. CASE j = i
    <3>1. /\ Stage(j)'
          /\ loc'[j].pc \in {"ok", "undone"}
             => Uniform' /\ (ledger' = j <=> loc'[j].pc = "ok")
      BY <1>6, <2>3, StageStep
    <3>2. QED
      BY <3>1 DEF Settled
  <2>4. CASE j # i
    <3>1. Stage(j)'
      BY <1>1, <2>2, <2>4 DEF Stage, PasswordPCs
    <3>2. ~(Is(j, {"password"}) /\ LastPassword(j))
      <4>1. SUFFICES ASSUME Is(j, {"password"}), LastPassword(j) PROVE FALSE
        OBVIOUS
      <4>2. loc[i].at < loc[j].at
        BY <2>2, <2>4, <4>1 DEF LastPassword, Is
      <4>3. loc[j].at <= loc[i].at
        BY <1>1, <2>2, <4>1 DEF AloneInv, Is
      <4>4. QED
        BY <4>2, <4>3, JobTypes
    <3>3. QED
      BY <1>2, <1>3, <3>1, <3>2 DEF Settled
  <2>5. QED
    BY <2>3, <2>4
<1>7. QED
  BY <1>4, <1>5, <1>6 DEF JobStep, Aside

LEMMA PasswordRegister ==
  ASSUME TypeInv, PasswordInv, NEW i \in Jobs, Register(i), NEW j \in Jobs
  PROVE  Stage(j)' /\ Settled(j)'
<1> USE DEF PasswordInv
<1>1. /\ \A k \in Jobs : k # i => loc'[k] = loc[k]
      /\ loc'[i].pc \in {"list", "read", "inherit", "ledger"}
      /\ loc'[i].at = now' /\ loc'[i].at >= 1 /\ now' >= now /\ now' \in Nat
      /\ UNCHANGED <<mix, svcs, ledger, secret, pods, counts>> /\ i \in mix
  BY RegisterOthers
<1>2. CASE j = i
  BY <1>1, <1>2 DEF Stage, Settled, PasswordPCs
<1>3. CASE j # i
  <2>1. Stage(j)'
    BY <1>1, <1>3 DEF Stage, Writing, Given
  <2>2. Uniform => Uniform'
    <3>1. ASSUME Uniform, NEW m \in Jobs
          PROVE  /\ loc'[m].pc \in Holding => loc'[m].hash = ledger
                 /\ loc'[m].pc = "pod" => secret'[m] = ledger
      <4>1. CASE m = i
        BY <1>1, <4>1 DEF Holding, MovePCs
      <4>2. CASE m # i
        BY <1>1, <3>1, <4>2 DEF Uniform
      <4>3. QED
        BY <4>1, <4>2
    <3>2. QED
      BY <1>1, <3>1 DEF Uniform, Given
  <2>3. loc[j].pc # "new" => loc[j].at <= now /\ loc[j].at \in Nat /\ now \in Nat
    <3>1. loc[j].pc # "new" => loc[j].at \in 1..now
      BY JobTypes DEF JobOK
    <3>2. QED
      BY <3>1, JobTypes, FS_CardinalityType, ConstantsOK DEF TypeInv, ClockOK
  <2>4. loc[j].pc # "new" /\ LastPassword(j)' => LastPassword(j)
    <3>1. SUFFICES ASSUME loc[j].pc # "new", LastPassword(j)', NEW k \in Jobs \ {j},
                          Is(k, {"password"})
                   PROVE  loc[k].at < loc[j].at
      BY DEF LastPassword
    <3>2. loc'[k].at < loc[j].at
      BY <1>1, <1>3, <3>1 DEF LastPassword, Is
    <3>3. CASE k = i
      BY <1>1, <2>3, <3>1, <3>2, <3>3
    <3>4. CASE k # i
      BY <1>1, <3>2, <3>4
    <3>5. QED
      BY <3>3, <3>4
  <2>5. Settled(j)'
    BY <1>1, <1>3, <2>2, <2>4 DEF Settled, Is
  <2>6. QED
    BY <2>1, <2>5
<1>4. QED
  BY <1>2, <1>3

LEMMA PasswordKubelet ==
  ASSUME TypeInv, PasswordInv, NEW p \in PodNames, Kubelet(p)
  PROVE  PasswordInv'
<1> USE DEF PasswordInv
<1>1. UNCHANGED <<mix, ledger, secret, loc>> /\ pods \in [PodNames -> Pod]
  BY DataTypes DEF Kubelet, ContainerStops, ContainerReads, ContainerUp
<1>2. PodsInv'
  BY PodsNext DEF Next
<1>3. \A q \in PodNames : pods'[q].st = "pending" => pods[q].st = "pending"
  <2>1. [NoPod EXCEPT !.st = "down"].st = "down"
    BY DEF NoPod
  <2>2. ContainerStops(p) => /\ pods'[p].st = "down"
                             /\ \A q \in PodNames \ {p} : pods'[q] = pods[q]
    BY <1>1, <2>1 DEF ContainerStops
  <2>3. ContainerReads(p) \/ ContainerUp(p) =>
          /\ pods'[p].st = "pending" => pods[p].st = "pending"
          /\ \A q \in PodNames \ {p} : pods'[q] = pods[q]
    BY <1>1 DEF ContainerReads, ContainerUp, Pod
  <2>4. QED
    BY <2>2, <2>3 DEF Kubelet
<1>4. AloneInv'
  BY <1>1, <1>3 DEF AloneInv, Running
<1>5. ASSUME NEW j \in Jobs PROVE Settled(j)'
  <2>1. Uniform => Uniform'
    BY UniformKubelet
  <2>2. QED
    BY <1>1, <2>1 DEF Settled, LastPassword, Is
<1>6. ASSUME NEW j \in Jobs PROVE Stage(j)'
  <2>1. CASE loc[j].pc \in PasswordPCs
    <3>1. ContainerStops(p)
      BY <2>1, Excluded DEF Kubelet, ContainerReads, ContainerUp
    <3>2. /\ pods[p].st = "up" /\ pods'[p].st = "down"
          /\ \A q \in PodNames \ {p} : pods'[q] = pods[q]
      BY <1>1, <3>1 DEF ContainerStops, NoPod, Pod
    <3>3. QED
      BY <1>1, <3>2 DEF Stage, Given, Writing
  <2>2. CASE loc[j].pc \notin PasswordPCs
    BY <1>1, <2>2 DEF Stage, PasswordPCs
  <2>3. QED
    BY <2>1, <2>2
<1>7. QED
  BY <1>2, <1>4, <1>5, <1>6

LEMMA PasswordNext ==
  ASSUME ~Overlap
  PROVE  TypeInv /\ PasswordInv /\ [Next]_vars => PasswordInv'
<1> SUFFICES ASSUME TypeInv, PasswordInv, [Next]_vars PROVE PasswordInv'
  OBVIOUS
<1>1. PodsInv'
  BY PodsNext DEF PasswordInv
<1>2. CASE UNCHANGED vars
  BY <1>2 DEF vars, PasswordInv, AloneInv, PodsInv, Stage, Settled, Uniform, Given,
              Writing, LastPassword, Running, Is
<1>3. ASSUME NEW p \in PodNames, Kubelet(p) PROVE PasswordInv'
  BY <1>3, PasswordKubelet
<1>4. ASSUME NEW i \in Jobs, Register(i) PROVE PasswordInv'
  BY <1>1, <1>4, AloneRegister, PasswordRegister DEF PasswordInv
<1>5. ASSUME NEW i \in Jobs, JobStep(i) PROVE PasswordInv'
  BY <1>1, <1>5, AloneStep, PasswordStep DEF PasswordInv
<1>6. QED
  BY <1>2, <1>3, <1>4, <1>5 DEF Next, JobStep

LEMMA PasswordInit == Init => PasswordInv
<1> SUFFICES ASSUME Init PROVE PasswordInv
  OBVIOUS
<1>1. Blank.pc = "new"
  BY DEF Blank
<1>2. \A j \in Jobs : loc[j].pc = "new"
  BY <1>1 DEF Init
<1>3. PodsInv
  <2>1. NoPod.env = "none"
    BY DEF NoPod
  <2>2. \A p \in PodNames : pods[p].env = "none"
    BY <2>1 DEF Init
  <2>3. QED
    BY <2>2 DEF PodsInv
<1>4. AloneInv /\ \A j \in Jobs : Stage(j) /\ Settled(j)
  BY <1>2 DEF AloneInv, Running, Stage, Settled, PasswordPCs
<1>5. QED
  BY <1>3, <1>4 DEF PasswordInv

\* As long as no password job overlaps another or a migration, and none begins
\* while a Pod is starting: when the last one has ended well or has rolled
\* back, the ledger, every Secret and every container have one password.
\* Whatever fails, whichever containers end and wherever the job crashes.
THEOREM OnePassword ==
  ASSUME ~Overlap
  PROVE  Spec => []PasswordIsOne
<1>1. Init => PasswordInv
  BY PasswordInit
<1>2. TypeInv /\ PasswordInv /\ [Next]_vars => PasswordInv'
  BY PasswordNext
<1>3. TypeInv /\ PasswordInv => PasswordIsOne
  <2>1. SUFFICES ASSUME TypeInv, PasswordInv, NEW j \in Jobs, Is(j, {"password"}),
                        loc[j].pc \in {"ok", "undone"}, LastPassword(j)
                 PROVE  /\ (ledger = j) = (loc[j].pc = "ok")
                        /\ \A p \in PodNames :
                             /\ pods[p].st # "none" => secret[p] \in {"none", ledger}
                             /\ pods[p].st = "up" => pods[p].shadow = ledger
    BY DEF PasswordIsOne, LastPassword
  <2>2. Uniform /\ (ledger = j <=> loc[j].pc = "ok")
    BY <2>1 DEF PasswordInv, Settled
  <2>3. (ledger = j) = (loc[j].pc = "ok")
    BY <2>2
  <2>4. QED
    BY <2>2, <2>3 DEF Uniform, Given
<1>4. QED
  BY <1>1, <1>2, <1>3, TypeInvariant, PTL DEF Spec
=============================================================================
