--------------------------- MODULE AccountChanges ---------------------------
(***************************************************************************)
(* Changes to the running containers of one account: access jobs that      *)
(* block or release all of its Services, password jobs that bring the      *)
(* ledger, the account Secrets and the running Pods to one hash, and the   *)
(* port and migrate jobs that add Services and Pods meanwhile.             *)
(*                                                                         *)
(* A call to Kubernetes, a command in a Pod and a locked rewrite of shadow *)
(* are one action each.  A failed step is tried again as in JobEngine; a   *)
(* crashed job starts its step again.  Of a migration only what matters to *)
(* the account's Services and password is here; Containers has the rest.   *)
(* A port job only adds a port.                                            *)
(***************************************************************************)
EXTENDS Naturals, FiniteSets

CONSTANTS
  Jobs,        \* the jobs; a password job brings the hash named after it, a
               \* migrate job makes the Pod named after it
  KindOf,      \* the kind of each job
  TargetOf,    \* the Pod that a migrate or port job is about
  Old,         \* the account's Pods at the start
  Base,        \* the ports of every container
  Extra,       \* the port that a port job adds
  Mixes,       \* the sets of jobs that are registered in one behaviour
  Overlap,     \* FALSE: no access job is unfinished together with a port or
               \* migrate job, nor a password job with another or a migration,
               \* or while a Pod left by a failed migration is starting
  MaxTries,    \* STEP_MAX_ATTEMPTS - 1
  MaxCrashes, MaxFaults,
  MaxStops     \* containers that end; restartPolicy Never leaves them ended

PodNames == Jobs \cup Old
Access   == {"block", "release"}
Serving  == {"port", "migrate"}
Hashes   == Jobs \cup {"set", "!"}   \* the password at the start; no hash
Ports    == Base \cup {Extra}
Final    == {"ok", "fail", "superseded", "undone"}
PCs      == {"new", "list", "patch", "read", "add", "inherit", "secret", "pod",
             "wait", "services", "service", "resume", "cleanServices",
             "cleanPod", "allocate", "ledger", "secrets", "hash", "pods", "exec"} \cup Final

ASSUME ConstantsOK ==
  /\ IsFiniteSet(Jobs)
  /\ Jobs \cap (Old \cup {"none", "set", "!"}) = {} /\ Extra \notin Base
  /\ KindOf \in [Jobs -> Access \cup Serving \cup {"password"}]
  /\ \A j \in Jobs : KindOf[j] \in Serving => TargetOf[j] \in Old
  /\ Mixes \subseteq SUBSET Jobs
  /\ Overlap \in BOOLEAN
  /\ MaxTries \in Nat /\ MaxCrashes \in Nat
  /\ MaxFaults \in Nat /\ MaxStops \in Nat

VARIABLES
  mix,      \* the jobs of this behaviour
  now,      \* _now_ms() of the last registration
  svcs,     \* the Services: the block in the selector and the decided_at
            \* annotation.  Every patch changes one of them, so the record
            \* stands for the resourceVersion as well
  ledger,   \* the account's hash in shadow
  secret,   \* USER_PW_HASH in each Pod's Secret; "none" without a Secret
  pods,     \* each Pod: its phase, the hash its container is starting with,
            \* and the hash in the container's shadow
  loc,      \* each job: decided_at, access_blocked, and its worker's memory
  counts    \* crashes, faults and stops so far

vars == <<mix, now, svcs, ledger, secret, pods, loc, counts>>

Svc   == [pod: PodNames, port: Ports,
          by: PodNames,             \* the Pod or the job it got its node port for
          blocked: BOOLEAN, at: 0..Cardinality(Jobs)]
Local == [pc: PCs, at: 0..Cardinality(Jobs), blocked: BOOLEAN,
          stale: SUBSET Svc,        \* the Services to patch, as listed
          ports: SUBSET Ports,      \* the ports to open; of a port job the one
                                    \* that it has allocated
          todo: SUBSET PodNames,    \* the Pods to go on with; of a port job the
                                    \* jobs whose allocations it has read
          hash: Hashes \cup {"none"},   \* old_hash, or what a migration inherits
          back: BOOLEAN,            \* within _restore_password
          bad: BOOLEAN,             \* pods["failed"] is not empty
          tries: 0..MaxTries]

TypeOK ==
  /\ mix \in Mixes /\ now \in 0..Cardinality(Jobs)
  /\ svcs \subseteq Svc
  /\ ledger \in Hashes
  /\ secret \in [PodNames -> Hashes \cup {"none"}]
  /\ pods \in [PodNames -> [st: {"none", "pending", "up", "down"},
                            env: Hashes \cup {"none"}, shadow: Hashes \cup {"none"}]]
  /\ loc \in [Jobs -> Local]
  /\ counts \in [crashes: 0..MaxCrashes, faults: 0..MaxFaults,
                 stops: 0..MaxStops]

NoPod == [st |-> "none", env |-> "none", shadow |-> "none"]
Blank == [pc |-> "new", at |-> 0, blocked |-> FALSE, stale |-> {}, ports |-> {},
          todo |-> {}, hash |-> "none", back |-> FALSE, bad |-> FALSE, tries |-> 0]

Init ==
  /\ mix \in Mixes /\ now = 0
  /\ svcs = {[pod |-> p, port |-> i, by |-> p, blocked |-> FALSE, at |-> 0] :
               p \in Old, i \in Base}
  /\ ledger \in IF \E j \in mix : KindOf[j] = "password" THEN {"set", "!"}
                                                        ELSE {"set"}
  /\ secret = [p \in PodNames |-> IF p \in Old THEN "set" ELSE "none"]
  /\ pods = [p \in PodNames |-> IF p \in Old
                                THEN [st |-> "up", env |-> "none", shadow |-> "set"]
                                ELSE NoPod]
  /\ loc = [j \in Jobs |-> Blank]
  /\ counts = [crashes |-> 0, faults |-> 0, stops |-> 0]

-----------------------------------------------------------------------------
Is(j, K)   == j \in mix /\ KindOf[j] \in K
At(j, pc)  == j \in mix /\ loc[j].pc = pc
Running(j) == loc[j].pc \notin Final \cup {"new"}
Set(j, l)  == loc' = [loc EXCEPT ![j] = l]
\* A new attempt.  An allocation stays: its row is in the database.
Fresh(j, pc, n) == [Blank EXCEPT !.pc = pc, !.tries = n, !.at = loc[j].at,
                      !.blocked = loc[j].blocked,
                      !.ports = IF KindOf[j] = "port" THEN loc[j].ports ELSE {}]
End(j, v)  == Set(j, Fresh(j, v, 0))
\* Another attempt from pc, with the values that have to survive.
Retry(j, l) == IF loc[j].tries < MaxTries THEN Set(j, l) ELSE End(j, "fail")
\* Faulty: attempts are not counted.
AgainForever(j, pc) == Set(j, Fresh(j, pc, loc[j].tries + 1))
Again(j, pc) == Retry(j, Fresh(j, pc, loc[j].tries + 1))
Well       == UNCHANGED counts
Failing    == /\ counts.faults < MaxFaults
              /\ counts' = [counts EXCEPT !.faults = @ + 1]

\* Of two decisions for opposite states: k is later.  A block wins a tie.
Later(k, j) == /\ Is(k, Access) /\ loc[k].pc # "new" /\ KindOf[k] # KindOf[j]
               /\ \/ loc[k].at > loc[j].at
                  \/ loc[k].at = loc[j].at /\ KindOf[k] = "block"
\* What the caller holds for the account's state: its last decision.
Blocked == \E k \in Jobs : Is(k, {"block"}) /\ loc[k].pc # "new"
                           /\ \A r \in Jobs : ~Later(r, k)

First(k) == CASE k \in Access    -> "list"
              [] k = "port"      -> "read"
              [] k = "migrate"   -> "inherit"
              [] k = "password"  -> "ledger"

Apart(j) ==
  /\ \A i \in Jobs \ {j} : Running(i) =>
       /\ KindOf[i] \in Access  => KindOf[j] \notin Serving
       /\ KindOf[i] \in Serving => KindOf[j] \notin Access
       /\ KindOf[i] = "password" => KindOf[j] \notin {"password", "migrate"}
       /\ KindOf[i] = "migrate"  => KindOf[j] # "password"
  /\ KindOf[j] = "password" => \A p \in PodNames : pods[p].st # "pending"

\* POST /operations/...: decided_at and access_blocked are fixed here.
Register(j) ==
  /\ At(j, "new") /\ (Overlap \/ Apart(j))
  /\ \E t \in {now, now + 1} \ {0} :
       /\ now' = t
       /\ Set(j, [Blank EXCEPT !.pc = First(KindOf[j]), !.at = t,
                               !.blocked = KindOf[j] \in Serving /\ Blocked])
  /\ Well /\ UNCHANGED <<mix, svcs, ledger, secret, pods>>

\* Reading a listing fails, or a call before the first effect of a step.
ReadFails(j) ==
  /\ j \in mix /\ loc[j].pc \in {"list", "read", "inherit", "resume"}
  /\ Failing /\ Again(j, loc[j].pc)
  /\ UNCHANGED <<mix, now, svcs, ledger, secret, pods>>

-----------------------------------------------------------------------------
(* step_set_account_access                                                 *)

\* Faulty: the later of two decisions in one millisecond wins either way.
SupersededOnTie(j) ==
  \E s \in svcs : s.blocked # (KindOf[j] = "block") /\ s.at >= loc[j].at
\* Is there a Service that a later decision set to the opposite state?
Superseded(j) ==
  \E s \in svcs : IF KindOf[j] = "block" THEN ~s.blocked /\ s.at > loc[j].at
                                         ELSE s.blocked /\ s.at >= loc[j].at

\* Faulty: only the Services in the opposite state are patched.
OppositeOnes(j) == {s \in svcs : s.blocked # (KindOf[j] = "block")}
StaleOnes(j) == {s \in svcs : \/ s.blocked # (KindOf[j] = "block")
                              \/ s.at < loc[j].at}

AccessList(j) ==
  /\ At(j, "list")
  /\ IF Superseded(j) THEN End(j, "superseded")
     ELSE IF StaleOnes(j) = {} THEN End(j, "ok")
     ELSE Set(j, [loc[j] EXCEPT !.pc = "patch", !.stale = StaleOnes(j)])
  /\ Well /\ UNCHANGED <<mix, now, svcs, ledger, secret, pods>>

Patched(j, s) == [s EXCEPT !.blocked = KindOf[j] = "block",
                           !.at = IF @ < loc[j].at THEN loc[j].at ELSE @]

\* A Service that changed since it was listed refuses the patch (409), one
\* that is gone has none (404): the step starts again.
AccessPatch(j) ==
  /\ At(j, "patch")
  /\ \E s \in loc[j].stale :
       \/ /\ s \in svcs /\ svcs' = (svcs \ {s}) \cup {Patched(j, s)}
          /\ IF loc[j].stale = {s} THEN End(j, "ok")
             ELSE Set(j, [loc[j] EXCEPT !.stale = @ \ {s}])
          /\ Well
       \/ s \notin svcs /\ Again(j, "list") /\ Well /\ UNCHANGED svcs
       \/ /\ s \in svcs /\ svcs' \in {svcs, (svcs \ {s}) \cup {Patched(j, s)}}
          /\ Again(j, "list") /\ Failing
  /\ UNCHANGED <<mix, now, ledger, secret, pods>>

-----------------------------------------------------------------------------
(* The jobs that create Services and Pods.                                 *)

\* nodeport_service_body: only a blocked Service carries decided_at.
Created(j, p, i, k) == [pod |-> p, port |-> i, by |-> k, blocked |-> loc[j].blocked,
                        at |-> IF loc[j].blocked THEN loc[j].at ELSE 0]
Mine(p) == {s \in svcs : s.pod = p}
Open(p) == {s.port : s \in Mine(p)}
\* The jobs that have allocated a node port for the additional port of p.
Rows(p) == {k \in Jobs : Is(k, {"port"}) /\ TargetOf[k] = p /\ Extra \in loc[k].ports}

\* step_change_ports reads the rows and the Services of its Pod, allocates a
\* node port if it saw no row, and creates a Service for each row.
PortRead(j) ==
  /\ At(j, "read")
  /\ IF pods[TargetOf[j]].st = "none" THEN End(j, "fail")
     ELSE IF Extra \in Open(TargetOf[j]) THEN End(j, "ok")
     ELSE IF Rows(TargetOf[j]) = {} THEN Set(j, [loc[j] EXCEPT !.pc = "allocate"])
     ELSE Set(j, [loc[j] EXCEPT !.pc = "add", !.todo = Rows(TargetOf[j])])
  /\ Well /\ UNCHANGED <<mix, now, svcs, ledger, secret, pods>>
\* Nothing keeps two jobs from a node port each for the same port.
PortAllocate(j) ==
  /\ At(j, "allocate")
  /\ \/ /\ Extra \notin loc[j].ports /\ Set(j, [loc[j] EXCEPT !.ports = {Extra}])
        /\ Well
     \/ /\ Extra \in loc[j].ports
        /\ Set(j, [loc[j] EXCEPT !.pc = "add", !.todo = Rows(TargetOf[j])]) /\ Well
     \/ Again(j, "read") /\ Failing
  /\ UNCHANGED <<mix, now, svcs, ledger, secret, pods>>
\* Kubernetes refuses a node port that is in use.
PortAdd(j) ==
  /\ At(j, "add")
  /\ \E k \in loc[j].todo :
       LET used  == \E s \in Mine(TargetOf[j]) : s.port = Extra /\ s.by = k
           added == svcs \cup {Created(j, TargetOf[j], Extra, k)}
       IN \/ /\ ~used /\ svcs' = added /\ Well
             /\ IF loc[j].todo = {k} THEN End(j, "ok")
                ELSE Set(j, [loc[j] EXCEPT !.todo = @ \ {k}])
          \/ ~used /\ svcs' = added /\ Again(j, "read") /\ Failing
          \/ used /\ UNCHANGED svcs /\ Again(j, "read") /\ Well
          \/ UNCHANGED svcs /\ Again(j, "read") /\ Failing
  /\ UNCHANGED <<mix, now, ledger, secret, pods>>

\* step_migrate_inherit_password takes the hash of the old Pod's Secret, which
\* goes with its Pod; that of the request is gone since the approval.  A job that
\* is resumed does it again (ALWAYS_RERUN), even after the last step before the
\* clean-up.
MoveInherit(j) ==
  LET old == TargetOf[j]
  IN /\ j \in mix /\ loc[j].pc \in {"inherit", "resume"}
     /\ IF pods[old].st = "none" \/ secret[old] = "none" THEN End(j, "fail")
        ELSE Set(j, [loc[j] EXCEPT !.hash = secret[old],
                       !.pc = IF @ = "inherit" THEN "secret" ELSE "cleanServices"])
     /\ Well /\ UNCHANGED <<mix, now, svcs, ledger, secret, pods>>

\* A migration starts again from step_build_pod_spec with what it inherited.
Rewind(j) == Retry(j, [Fresh(j, "secret", loc[j].tries + 1)
                         EXCEPT !.hash = loc[j].hash])
\* _cleanup_create_failure.
CleanUp(j) == /\ pods' = [pods EXCEPT ![j] = NoPod]
              /\ secret' = [secret EXCEPT ![j] = "none"]
\* A failed call may have had its effect, and each part of the clean-up that
\* fails as well is passed over: the Services S, a Pod of P, a hash of H are left.
Leave(j, S, P, H) ==
  /\ svcs' \in S
  /\ \E p \in P \cup {NoPod} : pods' = [pods EXCEPT ![j] = p]
  /\ \E h \in H \cup {"none"} : secret' = [secret EXCEPT ![j] = h]

\* step_create_pod_k8s: ensure_account_secret, then the Pod.  Kubernetes refuses
\* a Pod while one of its name is there.
MoveSecret(j) ==
  /\ At(j, "secret")
  /\ \/ /\ secret' = [secret EXCEPT ![j] = loc[j].hash]
        /\ Set(j, [loc[j] EXCEPT !.pc = "pod"])
        /\ Well /\ UNCHANGED <<svcs, pods>>
     \/ /\ Leave(j, {svcs}, {pods[j]}, {secret[j], loc[j].hash})
        /\ Rewind(j) /\ Failing
  /\ UNCHANGED <<mix, now, ledger>>
MovePod(j) ==
  LET made == IF pods[j].st = "none" THEN [NoPod EXCEPT !.st = "pending"] ELSE pods[j]
  IN /\ At(j, "pod")
     /\ \/ /\ pods[j].st = "none" /\ pods' = [pods EXCEPT ![j] = made]
           /\ Set(j, [loc[j] EXCEPT !.pc = "wait"])
           /\ Well /\ UNCHANGED <<svcs, secret>>
        \/ /\ pods[j].st # "none" /\ CleanUp(j) /\ Rewind(j)
           /\ Well /\ UNCHANGED svcs
        \/ /\ Leave(j, {svcs}, {pods[j], made}, {secret[j]}) /\ Rewind(j) /\ Failing
     /\ UNCHANGED <<mix, now, ledger>>
\* step_wait_ready.  A container that has ended or takes too long is not tried
\* again; a lookup that fails is.
MoveReady(j) ==
  /\ At(j, "wait")
  /\ \/ /\ pods[j].st = "up" /\ Set(j, [loc[j] EXCEPT !.pc = "services"])
        /\ Well /\ UNCHANGED <<svcs, secret, pods>>
     \/ /\ pods[j].st # "up" /\ CleanUp(j) /\ End(j, "fail")
        /\ Well /\ UNCHANGED svcs
     \/ /\ Leave(j, {svcs}, {pods[j]}, {secret[j]}) /\ Failing
        /\ Rewind(j) \/ (pods[j].st # "up" /\ End(j, "fail"))
  /\ UNCHANGED <<mix, now, ledger>>

\* step_create_services, whose PRE_STEP takes away what an earlier attempt
\* made.
MoveServices(j) ==
  /\ At(j, "services")
  /\ svcs' = svcs \ Mine(j)
  /\ Set(j, [loc[j] EXCEPT !.pc = "service", !.ports = Base])
  /\ Well /\ UNCHANGED <<mix, now, ledger, secret, pods>>
MoveService(j) ==
  /\ At(j, "service")
  /\ \E i \in loc[j].ports :
       LET added == svcs \cup {Created(j, j, i, j)}
       IN \/ /\ svcs' = added /\ Set(j, [loc[j] EXCEPT !.ports = @ \ {i}])
             /\ Well /\ UNCHANGED <<secret, pods>>
          \/ /\ Leave(j, {added \ gone : gone \in SUBSET {s \in added : s.pod = j}},
                      {pods[j]}, {secret[j]})
             /\ Rewind(j) /\ Failing
  /\ UNCHANGED <<mix, now, ledger>>
MoveServed(j) ==
  /\ At(j, "service") /\ loc[j].ports = {}
  /\ Set(j, [loc[j] EXCEPT !.pc = "cleanServices"])
  /\ Well /\ UNCHANGED <<mix, now, svcs, ledger, secret, pods>>

\* step_migrate_cleanup_old: the Services, then the Pod and its Secret; what
\* fails is left and recorded in the result.
MoveCleanServices(j) ==
  /\ At(j, "cleanServices")
  /\ \/ /\ svcs' = svcs \ Mine(TargetOf[j])
        /\ Set(j, [loc[j] EXCEPT !.pc = "cleanPod"]) /\ Well
     \/ UNCHANGED svcs /\ End(j, "ok") /\ Failing
  /\ UNCHANGED <<mix, now, ledger, secret, pods>>
MoveCleanPod(j) ==
  /\ At(j, "cleanPod") /\ pods[TargetOf[j]].st # "none"
  /\ \/ /\ pods' = [pods EXCEPT ![TargetOf[j]] = NoPod]
        /\ secret' = [secret EXCEPT ![TargetOf[j]] = "none"]
        /\ Well /\ UNCHANGED loc
     \/ UNCHANGED <<pods, secret>> /\ End(j, "ok") /\ Failing
  /\ UNCHANGED <<mix, now, svcs, ledger>>
\* The rest of the step is in Containers.
MoveCleaned(j) ==
  /\ At(j, "cleanPod") /\ pods[TargetOf[j]].st = "none" /\ End(j, "ok")
  /\ Well /\ UNCHANGED <<mix, now, svcs, ledger, secret, pods>>

-----------------------------------------------------------------------------
(* step_change_login_password, and _restore_password as the same walk with *)
(* the old hash (back).                                                    *)

Writing(j) == IF loc[j].back THEN loc[j].hash ELSE j

\* Faulty: an attempt that found its own hash rolls back as well.
BrokeBlindly(j) == IF loc[j].back THEN Again(j, "ledger")
                   ELSE Set(j, [loc[j] EXCEPT !.pc = "ledger", !.back = TRUE,
                                              !.todo = {}, !.bad = FALSE])
\* _fail: an attempt that knows the old hash restores it; one that found the
\* new hash in the ledger, or whose restoration failed, is made again.
Broke(j) == IF loc[j].back \/ loc[j].hash = j THEN Again(j, "ledger")
            ELSE Set(j, [loc[j] EXCEPT !.pc = "ledger", !.back = TRUE,
                                       !.todo = {}, !.bad = FALSE])

\* set_ledger_password; the Secrets cannot be given a hash that is not
\* SHA-512.
PasswordLedger(j) ==
  /\ At(j, "ledger")
  /\ \/ /\ ledger' = Writing(j) /\ Well
        /\ IF ~loc[j].back
           THEN Set(j, [loc[j] EXCEPT !.pc = "secrets", !.hash = ledger])
           ELSE IF loc[j].hash = "!" THEN Again(j, "ledger")
           ELSE Set(j, [loc[j] EXCEPT !.pc = "secrets"])
     \/ UNCHANGED ledger /\ Again(j, "ledger") /\ Failing
  /\ UNCHANGED <<mix, now, svcs, secret, pods>>

\* update_account_secrets lists the Pods, then patches the Secret of each.
PasswordSecrets(j) ==
  /\ At(j, "secrets")
  /\ \/ /\ Set(j, [loc[j] EXCEPT !.pc = "hash",
                                 !.todo = {p \in PodNames : pods[p].st # "none"}])
        /\ Well
     \/ Broke(j) /\ Failing
  /\ UNCHANGED <<mix, now, svcs, ledger, secret, pods>>
\* A Pod without a Secret (404) is passed over.
PasswordHash(j) ==
  LET New(p) == IF secret[p] = "none" THEN secret
                                  ELSE [secret EXCEPT ![p] = Writing(j)]
  IN /\ At(j, "hash")
     /\ \/ /\ loc[j].todo = {} /\ UNCHANGED secret
           /\ Set(j, [loc[j] EXCEPT !.pc = "pods"]) /\ Well
        \/ \E p \in loc[j].todo :
             \/ /\ secret' = New(p) /\ Well
                /\ Set(j, [loc[j] EXCEPT !.todo = @ \ {p}])
             \/ secret' \in {secret, New(p)} /\ Broke(j) /\ Failing
     /\ UNCHANGED <<mix, now, svcs, ledger, pods>>

\* sync_running_pod_password lists the Pods and runs chpasswd in those that
\* are Running.  It goes on past a Pod that fails.
PasswordPods(j) ==
  /\ At(j, "pods")
  /\ \/ /\ Set(j, [loc[j] EXCEPT !.pc = "exec",
                       !.todo = {p \in PodNames : pods[p].st = "up"}])
        /\ Well
     \/ Broke(j) /\ Failing
  /\ UNCHANGED <<mix, now, svcs, ledger, secret, pods>>

\* The command fails in a container that has ended or is gone.
Unreached(j, p) == pods[p].st # "up"
PasswordExec(j) ==
  /\ At(j, "exec")
  /\ \E p \in loc[j].todo :
       LET Chpasswd == pods' = [pods EXCEPT ![p].shadow = Writing(j)]
       IN \/ /\ IF pods[p].st = "up" THEN Chpasswd ELSE UNCHANGED pods
             /\ Set(j, [loc[j] EXCEPT !.todo = @ \ {p},
                                      !.bad = @ \/ Unreached(j, p)])
             /\ Well
          \/ /\ pods[p].st = "up" /\ (Chpasswd \/ UNCHANGED pods)
             /\ Set(j, [loc[j] EXCEPT !.todo = @ \ {p}, !.bad = TRUE])
             /\ Failing
  /\ UNCHANGED <<mix, now, svcs, ledger, secret>>
PasswordDone(j) ==
  /\ At(j, "exec") /\ loc[j].todo = {}
  /\ IF loc[j].bad THEN Broke(j)
                   ELSE End(j, IF loc[j].back THEN "undone" ELSE "ok")
  /\ Well /\ UNCHANGED <<mix, now, svcs, ledger, secret, pods>>

-----------------------------------------------------------------------------
(* The Pods, and crashes.                                                  *)

\* A container ends, and its Pod with it.
ContainerStops(p) ==
  /\ pods[p].st = "up" /\ counts.stops < MaxStops
  /\ counts' = [counts EXCEPT !.stops = @ + 1]
  /\ pods' = [pods EXCEPT ![p] = [NoPod EXCEPT !.st = "down"]]
  /\ UNCHANGED <<mix, now, svcs, ledger, secret, loc>>
\* A starting container takes its environment from the Secret ...
ContainerReads(p) ==
  /\ pods[p].st = "pending" /\ pods[p].env = "none" /\ secret[p] # "none"
  /\ pods' = [pods EXCEPT ![p].env = secret[p]]
  /\ Well /\ UNCHANGED <<mix, now, svcs, ledger, secret, loc>>
\* ... and sets the password from it.
ContainerUp(p) ==
  /\ pods[p].env # "none"
  /\ pods' = [pods EXCEPT ![p] = [st |-> "up", env |-> "none", shadow |-> pods[p].env]]
  /\ Well /\ UNCHANGED <<mix, now, svcs, ledger, secret, loc>>

\* The controller dies; the next one starts the step of the job again.  A
\* migration whose Pod is recorded has lost its client (ctx["v1"]) and fails in
\* the next step, when PRE_STEP may have taken its Services; with the Services
\* recorded it inherits the hash again and goes on.
Crash(j) ==
  LET moving == KindOf[j] = "migrate"
  IN /\ j \in mix /\ Running(j) /\ counts.crashes < MaxCrashes
     /\ counts' = [counts EXCEPT !.crashes = @ + 1]
     /\ \/ /\ moving => loc[j].pc \in {"inherit", "secret", "pod", "wait"}
           /\ Set(j, Fresh(j, First(KindOf[j]), 0)) /\ UNCHANGED svcs
        \/ /\ moving /\ loc[j].pc \in {"wait", "services", "service"}
           /\ End(j, "fail")
           /\ svcs' \in {svcs} \cup IF loc[j].pc = "wait" THEN {} ELSE {svcs \ Mine(j)}
        \/ /\ moving /\ loc[j].pc \in {"resume", "cleanServices", "cleanPod"}
           /\ Set(j, Fresh(j, "resume", 0)) /\ UNCHANGED svcs
     /\ UNCHANGED <<mix, now, ledger, secret, pods>>

AccessJob(j)   == AccessList(j) \/ AccessPatch(j)
PortJob(j)     == PortRead(j) \/ PortAllocate(j) \/ PortAdd(j)
MoveJob(j)     == \/ MoveInherit(j) \/ MoveSecret(j) \/ MovePod(j) \/ MoveReady(j)
                  \/ MoveServices(j) \/ MoveService(j) \/ MoveServed(j)
                  \/ MoveCleanServices(j) \/ MoveCleanPod(j) \/ MoveCleaned(j)
PasswordJob(j) == \/ PasswordLedger(j) \/ PasswordSecrets(j) \/ PasswordHash(j)
                  \/ PasswordPods(j) \/ PasswordExec(j) \/ PasswordDone(j)
Kubelet(p)     == ContainerStops(p) \/ ContainerReads(p) \/ ContainerUp(p)

Next ==
  \/ \E j \in Jobs : \/ Register(j) \/ ReadFails(j) \/ Crash(j)
                     \/ AccessJob(j) \/ PortJob(j) \/ MoveJob(j) \/ PasswordJob(j)
  \/ \E p \in PodNames : Kubelet(p)

Spec == Init /\ [][Next]_vars

-----------------------------------------------------------------------------
(* Properties.                                                             *)

\* Once an access job has succeeded, every Service of the account is in the
\* state it decided, unless a later decision for the opposite state has been
\* registered: neither a delayed older job, nor another that patches the
\* Services in another order, nor a Service created since brings the old
\* state back (step_set_account_access, create_nodeport_services).
LaterDecisionHolds ==
  \A j \in Jobs : Is(j, Access) /\ loc[j].pc = "ok" =>
    \A s \in svcs : s.blocked = (KindOf[j] = "block") \/ \E k \in Jobs : Later(k, j)

\* ACCESS_SUPERSEDED is told only of a decision that a later one overrides, or
\* that is not later than a port or migrate job that found the account blocked
\* and carries that time to its Services (_superseded): a decision that is later
\* than all others is carried out or fails, it is never given up.
OnlyLaterSupersedes ==
  \A j \in Jobs : loc[j].pc = "superseded" =>
    \/ \E k \in Jobs : Later(k, j)
    \/ \E k \in Jobs : loc[k].blocked /\ loc[k].at >= loc[j].at

\* When the last password job has ended well, the Secret of every Pod and every
\* container that is up have its hash; when it has rolled back, they have the
\* one that the ledger had before.  This also holds when containers end
\* meanwhile and for Pods that a migration made before or since.  (A Secret
\* whose Pod was never made is in no listing; nothing reads it.)
PasswordIsOne ==
  \A j \in Jobs :
    /\ Is(j, {"password"}) /\ loc[j].pc \in {"ok", "undone"}
    /\ \A k \in Jobs \ {j} : Is(k, {"password"}) => loc[k].at < loc[j].at
    => /\ (ledger = j) = (loc[j].pc = "ok")
       /\ \A p \in PodNames :
            /\ pods[p].st # "none" => secret[p] \in {"none", ledger}
            /\ pods[p].st = "up" => pods[p].shadow = ledger
=============================================================================
