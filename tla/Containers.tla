----------------------------- MODULE Containers -----------------------------
(***************************************************************************)
(* The container of an account and what goes with it: its Pod, the rows of *)
(* nodeport_allocations, the NodePort Services, the keytab on the Pod's    *)
(* node, and the account's home.  The jobs that create, migrate, revoke    *)
(* and re-port a container or delete an expired home run concurrently with *)
(* each other, with the reconciliation of the rows that every allocation   *)
(* may start, and with the cron job that works off krb5_cleanup_pending.   *)
(*                                                                         *)
(* A call to Kubernetes, MySQL or a farm node is one action; the callers   *)
(* read before they write, so what they read may be old.  A transaction of *)
(* MySQL is one action (the SELECT ... FOR UPDATE of an allocation keeps   *)
(* other writers of the table out until it commits).  The engine around    *)
(* the steps is module JobEngine's: here a crashed job is resumed from the *)
(* last step it recorded, and a job fails when its attempts are used up.   *)
(***************************************************************************)
EXTENDS Naturals, FiniteSets, Functions

CONSTANTS
  Jobs,         \* the jobs; a created Pod is named after its job, since
                \* generate_pod_name draws a new name for each
  Old,          \* Pods that exist at the start
  KindOf,       \* the kind of each job
  UserOf,       \* the user of each job and of each old Pod
  TargetOf,     \* the Pod that a job migrates, revokes, deletes or re-ports
  Wanted,       \* the additional ports that a port job is to leave
  OldNode,      \* the node of each old Pod
  OldPorts,     \* the ports of each old Pod: internal port -> node port
  OldPending,   \* reservations left at the start, with their keytabs
  Base,         \* internal ports of every container
  NodePortMax,  \* NODEPORT_MAX; NODEPORT_MIN is 1
  Nodes,
  NodesOf,      \* the nodes that a creation may choose from
  Mixes,        \* the sets of jobs that are registered in one behaviour
  Overlap,      \* FALSE: no two jobs on one old Pod are unfinished at once
  GraceCovers,  \* _NODEPORT_STALE_GRACE_SEC exceeds the time from the rows
                \* of a new Pod to the end of a reconciliation that listed
                \* the Services before the new Pod had any
  LostRecords,  \* reservations may get lost: the failure to record one is
                \* swallowed, and the cron job may die with one in hand
  MaxTries,     \* STEP_MAX_ATTEMPTS - 1, for retries and rewinds together
  MaxCrashes,   \* crashes of a controller
  MaxFaults     \* calls that fail

PodNames  == Jobs \cup Old
Users     == {UserOf[p] : p \in PodNames}
NodePorts == 1..NodePortMax
Kinds     == {"provision", "migrate", "revoke", "delete", "port", "home"}
Creating  == {"provision", "migrate"}
Targeting == {"migrate", "revoke", "delete", "port"}
InPorts   == Base \cup (UNION {Wanted[j] : j \in DOMAIN Wanted})
                  \cup (UNION {DOMAIN OldPorts[p] : p \in Old})

ASSUME ConstantsOK ==
  /\ Jobs \cap Old = {}
  /\ KindOf \in [Jobs -> Kinds]
  /\ \A j \in Jobs : KindOf[j] \in Targeting =>
       TargetOf[j] \in Old /\ UserOf[TargetOf[j]] = UserOf[j]
  /\ \A j \in Jobs : KindOf[j] = "port" => /\ j \in DOMAIN Wanted
                                             /\ Wanted[j] \cap Base = {}
  /\ OldNode \in [Old -> Nodes] /\ "none" \notin Nodes
  /\ NodesOf \in [Jobs -> SUBSET Nodes]
  /\ \A p \in Old : /\ Base \subseteq DOMAIN OldPorts[p]
                      /\ \A i \in DOMAIN OldPorts[p] : OldPorts[p][i] \in NodePorts
  /\ OldPending \subseteq Users \X Nodes /\ Base # {}
  /\ Mixes \subseteq SUBSET Jobs
  /\ NodePortMax \in Nat /\ MaxTries \in Nat
  /\ MaxCrashes \in Nat /\ MaxFaults \in Nat
  /\ Overlap \in BOOLEAN /\ LostRecords \in BOOLEAN /\ GraceCovers \in BOOLEAN

\* UNIQUE KEY node_port of nodeport_allocations (pod_port_db.sql)
ASSUME OldApart ==
  \A p, q \in Old : \A i \in DOMAIN OldPorts[p], k \in DOMAIN OldPorts[q] :
    OldPorts[p][i] = OldPorts[q][k] => p = q /\ i = k

VARIABLES
  mix,      \* the jobs of this behaviour
  rows,     \* nodeport_allocations
  aged,     \* Pods whose newest row is older than _NODEPORT_STALE_GRACE_SEC
  svcs,     \* the NodePort Services
  pods,     \* the Pods: absent, up, or Terminating; and their nodes
  keytabs,  \* (user, node): a keytab and its ticket timer are on the node
  pending,  \* krb5_cleanup_pending
  homes,    \* users whose home is on the NAS
  loc,      \* what each job's worker has in memory, and its verdict
  cron,     \* reconcile_krb5_cleanup_pending: the reservation in hand
  unseen,   \* history: the creations that a removal of the user's keytab or
            \* home could not see, having looked before they were there
  crashes, faults

ports  == <<rows, aged, svcs>>
krb    == <<keytabs, pending, cron, unseen>>
counts == <<crashes, faults>>
vars   == <<mix, ports, pods, krb, homes, loc, counts>>

Row   == [pod: PodNames, iport: InPorts, nport: NodePorts, node: Nodes]
Svc   == [pod: PodNames, iport: InPorts, nport: NodePorts]
Pair  == [iport: InPorts, nport: NodePorts]
Where == Users \X Nodes
Missed == Jobs \X {"keytab", "home"}
Final == {"ok", "fail"}
\* The removal of a Pod; of the old one, in a migration whose new Pod serves.
Handing == {"dropServices", "dropRows", "dropPod", "keys", "remove"}
PCs   == {"new", "home", "node", "build", "reconcile", "stale", "alloc",
          "deploy", "clear", "undo", "pod", "made", "wait", "services", "service",
          "cleanServices", "cleanRows", "cleanPod", "cleanBlind", "dropServices",
          "dropRows", "dropPod", "gone", "keys", "remove", "read", "list",
          "dropPort", "dropPortRow", "fill", "homePods", "homeJobs",
          "homeDelete"} \cup Final

Local == [pc: PCs, node: Nodes \cup {"none"}, from: Nodes \cup {"none"},
          ports: SUBSET Pair,    \* allocated_ports, then what is left to open
          pods: SUBSET PodNames, \* live_pod_names of the reconciliation
          open: SUBSET InPorts,  \* a port job: ports that had a Service
          add: SUBSET InPorts, drop: SUBSET InPorts,
          tries: 0..MaxTries,
          made: BOOLEAN,         \* step_create_pod_k8s is recorded as done
          then: {"none", "build", "fail"},  \* where a clean-up leads
          hurt: BOOLEAN]         \* a failed step or a crash may have left
                                 \* something (see NothingLeft)

TypeOK ==
  /\ mix \in Mixes
  /\ rows \subseteq Row /\ svcs \subseteq Svc /\ aged \subseteq PodNames
  /\ pods \in [PodNames -> [st: {"none", "up", "term"}, node: Nodes \cup {"none"}]]
  /\ keytabs \subseteq Where /\ pending \subseteq Where
  /\ homes \subseteq Users /\ unseen \subseteq Missed
  /\ loc \in [Jobs -> Local]
  /\ cron \in [pc: {"idle", "next", "check", "remove"},
               todo: SUBSET Where, of: SUBSET Where]
  /\ crashes \in 0..MaxCrashes /\ faults \in 0..MaxFaults

Blank == [pc |-> "new", node |-> "none", from |-> "none", ports |-> {}, pods |-> {},
          open |-> {}, add |-> {}, drop |-> {}, tries |-> 0, made |-> FALSE,
          then |-> "none", hurt |-> FALSE]
NoPod == [st |-> "none", node |-> "none"]

\* The rows of the old Pods are past their grace.
Init ==
  /\ mix \in Mixes
  /\ rows = {r \in Row : r.pod \in Old /\ r.iport \in DOMAIN OldPorts[r.pod]
                         /\ r.nport = OldPorts[r.pod][r.iport]
                         /\ r.node = OldNode[r.pod]}
  /\ svcs = {[pod |-> r.pod, iport |-> r.iport, nport |-> r.nport] : r \in rows}
  /\ aged = Old
  /\ pods = [p \in PodNames |-> IF p \in Old
                                THEN [st |-> "up", node |-> OldNode[p]]
                                ELSE NoPod]
  /\ pending = {k \in OldPending : \E j \in mix : UserOf[j] = k[1]}
  /\ keytabs = pending \cup {<<UserOf[p], OldNode[p]>> : p \in Old}
  /\ homes = Users /\ unseen = {}
  /\ loc = [j \in Jobs |-> Blank]
  /\ cron = [pc |-> "idle", todo |-> {}, of |-> {}]
  /\ crashes = 0 /\ faults = 0

-----------------------------------------------------------------------------
(* What the tables and the listings say.                                   *)

RowsOf(p)  == {r \in rows : r.pod = p}
SvcsOf(p)  == {s \in svcs : s.pod = p}
Pairs(T)   == {[iport |-> x.iport, nport |-> x.nport] : x \in T}
PodsOf(u)  == {p \in PodNames : UserOf[p] = u /\ pods[p].st # "none"}
Running(j) == loc[j].pc \notin Final \cup {"new"}
InUse(u, n)    == \E r \in rows : UserOf[r.pod] = u /\ r.node = n
Removing(u, n) == \/ cron.pc = "remove" /\ cron.of = {<<u, n>>}
                  \/ \E j \in Jobs : /\ UserOf[j] = u /\ loc[j].from = n
                                     /\ loc[j].pc = "remove"
\* Creations that put the user's keytab on the node and have no Pod yet.
Coming(u, n) == {j \in Jobs : /\ UserOf[j] = u /\ loc[j].node = n
                              /\ loc[j].pc \in {"clear", "pod"}}
\* A home of the user that was found unused is being deleted.
HomeGoing(u) == \E j \in Jobs : UserOf[j] = u /\ loc[j].pc = "homeDelete"
\* The rows of a new Pod are there and its Services are not.
InFlight(p) == p \in Jobs /\ loc[p].pc \in {"deploy", "clear", "pod", "made",
                                            "wait", "services", "service"}

At(j, pc)  == j \in mix /\ loc[j].pc = pc
Set(j, l)  == loc' = [loc EXCEPT ![j] = l]
Go(j, pc)  == Set(j, [loc[j] EXCEPT !.pc = pc])
Over(l, pc) == [Blank EXCEPT !.pc = pc, !.hurt = l.hurt]
End(j, pc) == Set(j, Over(loc[j], pc))
Well       == UNCHANGED counts
Failing    == faults < MaxFaults /\ faults' = faults + 1 /\ UNCHANGED crashes

\* Faulty: attempts are not counted.
AgainForever(j, l, pc) ==
  Set(j, [Blank EXCEPT !.pc = pc, !.tries = l.tries + 1, !.node = l.node,
                       !.from = l.from, !.hurt = l.hurt])
\* A failed step is tried again from pc while attempts are left.  The API
\* that deletes an orphan Pod has one attempt; a migration whose new Pod
\* serves ends well whatever becomes of the old one.
Again(j, l, pc) ==
  Set(j, IF l.tries < MaxTries /\ KindOf[j] # "delete"
         THEN [Blank EXCEPT !.pc = pc, !.tries = l.tries + 1, !.node = l.node,
                            !.from = l.from, !.hurt = l.hurt]
         ELSE Over(l, "fail"))
Trip(j, pc) == IF KindOf[j] = "migrate" THEN End(j, "ok")
                                        ELSE Again(j, loc[j], pc)

-----------------------------------------------------------------------------
(* Creation of a container.                                                *)

First(k) == CASE k = "provision" -> "home"
              [] k = "migrate"   -> "node"
              [] k \in {"revoke", "delete"} -> "dropServices"
              [] k = "port"      -> "read"
              [] k = "home"      -> "homePods"

\* POST /operations/...: from here on the job is unfinished.
Register(j) ==
  /\ At(j, "new")
  /\ \/ Overlap
     \/ \A i \in Jobs \ {j} :
          Running(i) /\ KindOf[i] \in Targeting /\ KindOf[j] \in Targeting
            => TargetOf[i] # TargetOf[j]
  /\ Go(j, First(KindOf[j])) /\ Well
  /\ UNCHANGED <<mix, ports, pods, krb, homes>>

\* step_restore_missing_home
RestoreHome(j) ==
  /\ At(j, "home")
  /\ homes' = homes \cup {UserOf[j]}
  /\ unseen' = IF HomeGoing(UserOf[j]) THEN unseen \cup {<<j, "home">>}
                                       ELSE unseen
  /\ Go(j, "node") /\ Well
  /\ UNCHANGED <<mix, ports, pods, keytabs, pending, cron>>

\* step_fetch_user_config, step_prepare_pod, step_select_node.
ProvisionNode(j) ==
  /\ At(j, "node") /\ KindOf[j] = "provision"
  /\ \E n \in NodesOf[j] : Set(j, [loc[j] EXCEPT !.pc = "build", !.node = n])
  /\ Well /\ UNCHANGED <<mix, ports, pods, krb, homes>>

\* step_migrate_select_target: the same node again is a recreation.
MigrateNode(j) ==
  /\ At(j, "node") /\ KindOf[j] = "migrate"
  /\ IF pods[TargetOf[j]].st = "none"
     THEN End(j, "fail")
     ELSE \E n \in NodesOf[j] : Set(j, [loc[j] EXCEPT !.pc = "build", !.node = n,
                                        !.from = pods[TargetOf[j]].node])
  /\ Well /\ UNCHANGED <<mix, ports, pods, krb, homes>>

\* A step that had no effect yet fails (admin_be, the NAS, Prometheus, ...).
EarlyFailure(j) ==
  /\ j \in mix /\ loc[j].pc \in {"home", "node", "read", "list", "homePods",
                                 "homeJobs"}
  /\ Failing /\ Again(j, loc[j], CASE loc[j].pc = "list" -> "read"
                                   [] loc[j].pc = "homeJobs" -> "homePods"
                                   [] OTHER -> loc[j].pc)
  /\ UNCHANGED <<mix, ports, pods, krb, homes>>

\* PRE_STEP of step_build_pod_spec; its failure is swallowed.
BuildStart(j) ==
  /\ At(j, "build")
  /\ \/ rows' = rows \ RowsOf(j) /\ Go(j, "reconcile") /\ Well
     \/ /\ Failing /\ UNCHANGED rows
        /\ Set(j, [loc[j] EXCEPT !.pc = "reconcile",
                                 !.hurt = @ \/ RowsOf(j) # {}])
  /\ UNCHANGED <<mix, aged, svcs, pods, krb, homes>>

\* allocate_nodeports begins with reconcile_nodeport_allocations, which does
\* nothing when this process ran it less than _RECONCILE_INTERVAL_SEC ago or
\* the Services cannot be listed.
ReconcileSkip(j) ==
  /\ At(j, "reconcile") /\ Go(j, "alloc") /\ Well
  /\ UNCHANGED <<mix, ports, pods, krb, homes>>
ReconcileList(j) ==
  /\ At(j, "reconcile")
  /\ Set(j, [loc[j] EXCEPT !.pc = "stale", !.pods = {s.pod : s \in svcs}])
  /\ Well /\ UNCHANGED <<mix, ports, pods, krb, homes>>
\* Faulty: young rows count as well.
StaleAtOnce(j) == PodNames \ loc[j].pods
\* Pods past the grace of their rows that had no Service when listed.
Stale(j) == aged \ loc[j].pods
ReconcileDelete(j) ==
  /\ At(j, "stale")
  /\ rows' = {r \in rows : r.pod \notin Stale(j)} /\ aged' = aged \ Stale(j)
  /\ Set(j, [loc[j] EXCEPT !.pc = "alloc", !.pods = {}])
  /\ Well /\ UNCHANGED <<mix, svcs, pods, krb, homes>>

PodOf(j)  == IF KindOf[j] = "port" THEN TargetOf[j] ELSE j
Asked(j)  == IF KindOf[j] = "port" THEN loc[j].add ELSE Base
Lowest(free, k) == {n \in free : Cardinality({m \in free : m < n}) < k}
\* Faulty: only the Services are looked at.
FreeOfServices(seen) == NodePorts \ seen
Free(seen) == NodePorts \ ({r.nport : r \in rows} \cup seen)
RowFor(j, x) == [pod |-> PodOf(j), iport |-> x.iport, nport |-> x.nport,
                 node |-> loc[j].node]

\* allocate_nodeports assigns the lowest node ports that neither a row nor,
\* when they can be listed, a Service has.  It is one transaction, and when
\* the answer to its commit is lost nobody knows of the new rows.
Allocate(j) ==
  /\ At(j, "alloc")
  /\ \E seen \in {{s.nport : s \in svcs}, {}} :
       LET free    == Free(seen)
           n       == Cardinality(Asked(j))
           Back(l) == Again(j, l, IF KindOf[j] = "port" THEN "read" ELSE "build")
           Blind   == seen = {} /\ svcs # {}
       IN IF Cardinality(free) < n
          THEN /\ IF KindOf[j] = "port" THEN Back(loc[j]) ELSE End(j, "fail")
               /\ IF Blind THEN Failing ELSE Well
               /\ UNCHANGED <<rows, aged>>
          ELSE \E f \in Injection(Asked(j), Lowest(free, n)) :
                 LET got == {[iport |-> i, nport |-> f[i]] : i \in Asked(j)}
                     new == {RowFor(j, x) : x \in got}
                 IN \/ /\ rows' = rows \cup new /\ aged' = aged \ {PodOf(j)}
                       /\ IF Blind THEN Failing ELSE Well
                       /\ IF KindOf[j] = "port" THEN Go(j, "fill")
                          ELSE Set(j, [loc[j] EXCEPT !.pc = "deploy", !.ports = got])
                    \/ /\ ~Blind /\ Failing /\ UNCHANGED aged
                       /\ \/ rows' = rows /\ Back(loc[j])
                          \/ rows' = rows \cup new
                             /\ Back([loc[j] EXCEPT !.hurt = TRUE])
  /\ UNCHANGED <<mix, svcs, pods, krb, homes>>

\* _deploy_krb5_to_farm; without an answer it counts as failed.
DeployKeytab(j) ==
  /\ At(j, "deploy")
  /\ unseen' = IF Removing(UserOf[j], loc[j].node)
               THEN unseen \cup {<<j, "keytab">>} ELSE unseen \ {<<j, "keytab">>}
  /\ \/ keytabs' = keytabs \cup {<<UserOf[j], loc[j].node>>}
        /\ Go(j, "clear") /\ Well
     \/ /\ keytabs' \in {keytabs, keytabs \cup {<<UserOf[j], loc[j].node>>}}
        /\ Go(j, "undo") /\ Failing
  /\ UNCHANGED <<mix, ports, pods, pending, cron, homes>>

\* _clear_krb5_cleanup_pending; its failure is swallowed.
ClearPending(j) ==
  /\ At(j, "clear")
  /\ \/ pending' = pending \ {<<UserOf[j], loc[j].node>>} /\ Well
     \/ UNCHANGED pending /\ Failing
  /\ Go(j, "pod")
  /\ UNCHANGED <<mix, ports, pods, keytabs, cron, unseen, homes>>

\* build_pod_spec fails after the allocation: the rows are released.
UndoBuild(j) ==
  /\ At(j, "undo")
  /\ \/ rows' = rows \ RowsOf(j) /\ Again(j, loc[j], "build") /\ Well
     \/ /\ UNCHANGED rows /\ Failing
        /\ Again(j, [loc[j] EXCEPT !.hurt = TRUE], "build")
  /\ UNCHANGED <<mix, aged, svcs, pods, krb, homes>>

Clean(j, pc, then) == Set(j, [loc[j] EXCEPT !.pc = pc, !.then = then])

\* step_create_pod_k8s: no client can be set up, the login password of a
\* new account is missing, or a Pod of that name may still be Terminating.
CreatePod(j) ==
  /\ At(j, "pod")
  /\ LET made == [pods EXCEPT ![j] = [st |-> "up", node |-> loc[j].node]]
     IN \/ Clean(j, "cleanBlind", "build") /\ UNCHANGED pods /\ Failing
        \/ /\ KindOf[j] = "provision" /\ Clean(j, "cleanBlind", "fail")
           /\ UNCHANGED pods /\ Well
        \/ /\ pods[j].st # "none" /\ Clean(j, "cleanRows", "build")
           /\ UNCHANGED pods /\ Well
        \/ pods[j].st = "none" /\ pods' = made /\ Go(j, "made") /\ Well
        \/ /\ pods[j].st = "none" /\ pods' \in {pods, made} /\ Failing
           /\ Clean(j, "cleanRows", "build")
  /\ UNCHANGED <<mix, ports, krb, homes>>

\* Faulty: the old Pod's Services go as soon as the new Pod exists.
PodMadeHandsOver(j) ==
  /\ At(j, "made")
  /\ Set(j, [loc[j] EXCEPT !.made = TRUE, !.pc =
               IF KindOf[j] = "migrate" THEN "dropServices" ELSE "wait"])
  /\ Well /\ UNCHANGED <<mix, ports, pods, krb, homes>>
\* The step is recorded; from here on the job cannot be resumed, because
\* the next steps read ctx["v1"], which step_create_pod_k8s sets.
PodMade(j) ==
  /\ At(j, "made")
  /\ Set(j, [loc[j] EXCEPT !.pc = "wait", !.made = TRUE])
  /\ Well /\ UNCHANGED <<mix, ports, pods, krb, homes>>

\* step_wait_ready: the container runs, or does not start and is not tried
\* again, or cannot be looked up.
WaitReady(j) ==
  /\ At(j, "wait") /\ UNCHANGED <<mix, ports, pods, krb, homes>>
  /\ \/ pods[j].st = "up" /\ Go(j, "services") /\ Well
     \/ Clean(j, "cleanRows", "fail") /\ Well
     \/ Clean(j, "cleanRows", "build") /\ Failing

\* PRE_STEP of step_create_services; its failure is swallowed.
ServicesStart(j) ==
  /\ At(j, "services")
  /\ \/ svcs' = svcs \ SvcsOf(j) /\ Well
     \/ UNCHANGED svcs /\ Failing
  /\ Go(j, "service") /\ UNCHANGED <<mix, rows, aged, pods, krb, homes>>

\* create_nodeport_services, one at a time: Kubernetes refuses a node port
\* that another Service has.
CreateService(j) ==
  /\ At(j, "service") /\ UNCHANGED <<mix, rows, aged, pods, krb, homes>>
  /\ \E x \in loc[j].ports :
       LET s == [pod |-> PodOf(j), iport |-> x.iport, nport |-> x.nport]
           Failed == IF KindOf[j] = "port" THEN Again(j, loc[j], "read")
                     ELSE Clean(j, "cleanServices", "build")
       IN IF \E t \in svcs : t.nport = x.nport
          THEN Failed /\ UNCHANGED svcs /\ Well
          ELSE \/ /\ svcs' = svcs \cup {s} /\ Well
                  /\ Set(j, [loc[j] EXCEPT !.ports = @ \ {x}])
               \/ svcs' \in {svcs, svcs \cup {s}} /\ Failed /\ Failing

\* The container serves; a migration goes on to the old one.
Serving(j) ==
  /\ At(j, "service") /\ loc[j].ports = {}
  /\ IF KindOf[j] = "migrate" THEN Go(j, "dropServices") ELSE End(j, "ok")
  /\ Well /\ UNCHANGED <<mix, ports, pods, krb, homes>>

\* _cleanup_create_failure: Services if there may be any, rows, Pod; each
\* failure is swallowed.
Swallow(j, pc) == /\ Failing
                  /\ Set(j, [loc[j] EXCEPT !.pc = pc, !.hurt = TRUE])
CleanServices(j) ==
  /\ At(j, "cleanServices")
  /\ \/ svcs' = svcs \ SvcsOf(j) /\ Go(j, "cleanRows") /\ Well
     \/ (\E gone \in SUBSET SvcsOf(j) : svcs' = svcs \ gone)
        /\ Swallow(j, "cleanRows")
  /\ UNCHANGED <<mix, rows, aged, pods, krb, homes>>
\* Faulty: the rows stay.
CleanRowsNot(j) ==
  /\ At(j, "cleanRows") /\ Go(j, "cleanPod")
  /\ Well /\ UNCHANGED <<mix, ports, pods, krb, homes>>
CleanRows(j) ==
  /\ At(j, "cleanRows")
  /\ \/ rows' = rows \ RowsOf(j) /\ Go(j, "cleanPod") /\ Well
     \/ UNCHANGED rows /\ Swallow(j, "cleanPod")
  /\ UNCHANGED <<mix, aged, svcs, pods, krb, homes>>
Onward(j, l) == IF l.then = "build" THEN Again(j, l, "build")
                                    ELSE Set(j, Over(l, "fail"))
CleanPod(j) ==
  /\ At(j, "cleanPod")
  /\ \/ /\ pods' = IF pods[j].st = "up" THEN [pods EXCEPT ![j].st = "term"]
                                        ELSE pods
        /\ Onward(j, loc[j]) /\ Well
     \/ /\ UNCHANGED pods /\ Failing
        /\ Onward(j, [loc[j] EXCEPT !.hurt = TRUE])
  /\ UNCHANGED <<mix, ports, krb, homes>>
\* Without a client it releases the rows only, and leaves a Pod alone.
CleanBlind(j) ==
  /\ At(j, "cleanBlind")
  /\ \/ rows' = rows \ RowsOf(j) /\ Onward(j, loc[j]) /\ Well
     \/ /\ UNCHANGED rows /\ Failing
        /\ Onward(j, [loc[j] EXCEPT !.hurt = TRUE])
  /\ UNCHANGED <<mix, aged, svcs, pods, krb, homes>>

-----------------------------------------------------------------------------
(* Removal: POD_DELETE_STEPS of a revocation or of the orphan Pod API, and *)
(* step_migrate_cleanup_old, which does the same to the old Pod.           *)

Target(j) == TargetOf[j]

\* step_delete_services
DropServices(j) ==
  /\ At(j, "dropServices")
  /\ \/ svcs' = svcs \ SvcsOf(Target(j)) /\ Go(j, "dropRows") /\ Well
     \/ /\ \E gone \in SUBSET SvcsOf(Target(j)) : svcs' = svcs \ gone
        /\ Trip(j, "dropServices") /\ Failing
  /\ UNCHANGED <<mix, rows, aged, pods, krb, homes>>

\* step_release_nodeports
DropRows(j) ==
  /\ At(j, "dropRows")
  /\ \/ rows' = rows \ RowsOf(Target(j)) /\ Go(j, "dropPod") /\ Well
     \/ UNCHANGED rows /\ Trip(j, "dropRows") /\ Failing
  /\ UNCHANGED <<mix, aged, svcs, pods, krb, homes>>

\* step_delete_pod_k8s notes the Pod's node and asks for its deletion.  Of a
\* Pod that is gone it leaves the keytab alone; a migration knows the node
\* from before and does not wait for the Pod to end.
DropPod(j) ==
  /\ At(j, "dropPod")
  /\ LET t    == Target(j)
         term == IF pods[t].st = "up" THEN [pods EXCEPT ![t].st = "term"] ELSE pods
     IN \/ /\ pods[t].st = "none" /\ UNCHANGED pods /\ Well
           /\ IF KindOf[j] = "migrate" THEN Go(j, "keys") ELSE End(j, "ok")
        \/ /\ pods[t].st # "none" /\ pods' = term /\ Well
           /\ IF KindOf[j] = "migrate" THEN Go(j, "keys")
              ELSE Set(j, [loc[j] EXCEPT !.pc = "gone", !.from = pods[t].node])
        \/ /\ pods[t].st # "none" /\ pods' = term /\ Failing
           /\ KindOf[j] # "migrate"   \* the lookup of its node failed
           /\ Set(j, [loc[j] EXCEPT !.pc = "gone", !.from = "none"])
        \/ pods' \in {pods, term} /\ Trip(j, "dropPod") /\ Failing
  /\ UNCHANGED <<mix, ports, krb, homes>>

\* wait_for_pod_deleted, at most 60 s.
Gone(j) ==
  /\ At(j, "gone")
  /\ IF pods[Target(j)].st = "none" THEN Go(j, "keys") /\ Well
                                    ELSE Trip(j, "dropPod") /\ Failing
  /\ UNCHANGED <<mix, ports, pods, krb, homes>>

\* Faulty: a migration is alone on its node.
NoOthers(j) == IF KindOf[j] = "migrate" THEN {} ELSE
  {p \in PodsOf(UserOf[j]) \ {Target(j)} : pods[p].node = loc[j].from}
\* The user's other Pods on the node, Terminating ones too.
Others(j) == {p \in PodsOf(UserOf[j]) \ {Target(j)} : pods[p].node = loc[j].from}
\* step_cleanup_pod_node_krb5 keeps the keytab when another Pod of the user
\* is on the node or the Pods cannot be listed.
Keys(j) ==
  /\ At(j, "keys")
  /\ IF loc[j].from = "none" \/ Others(j) # {}
     THEN End(j, "ok") /\ UNCHANGED unseen /\ Well
     ELSE \/ /\ Go(j, "remove") /\ Well
             /\ unseen' = unseen \cup (Coming(UserOf[j], loc[j].from) \X {"keytab"})
          \/ End(j, "ok") /\ UNCHANGED unseen /\ Failing
  /\ UNCHANGED <<mix, ports, pods, keytabs, pending, cron, homes>>

\* Faulty: a failed removal is forgotten.
Forgotten(k) == k \in Where /\ UNCHANGED pending
\* _record_krb5_cleanup_pending, after a removal that failed.
Recorded(k) == \/ pending' = pending \cup {k}
               \/ LostRecords /\ UNCHANGED pending

\* _remove_krb5_from_farm; without an answer a reservation is recorded.
RemoveKeytab(j) ==
  /\ At(j, "remove") /\ End(j, "ok")
  /\ LET k == <<UserOf[j], loc[j].from>>
     IN \/ keytabs' = keytabs \ {k} /\ UNCHANGED pending /\ Well
        \/ /\ keytabs' \in {keytabs, keytabs \ {k}} /\ Failing
           /\ Recorded(k)
  /\ UNCHANGED <<mix, ports, pods, cron, unseen, homes>>

\* The kubelet ends a Terminating Pod.
PodGone(p) ==
  /\ pods[p].st = "term" /\ pods' = [pods EXCEPT ![p] = NoPod]
  /\ Well /\ UNCHANGED <<mix, ports, krb, homes, loc>>

-----------------------------------------------------------------------------
(* step_change_ports: one step, run from its start whenever it fails.      *)

\* _read_pod and _allocations: what to take away and what to add.
ReadPod(j) ==
  /\ At(j, "read")
  /\ LET extra == {r.iport : r \in RowsOf(Target(j))} \ Base
     IN IF pods[Target(j)].st # "up" \/ RowsOf(Target(j)) = {}
        THEN End(j, "fail")
        ELSE Set(j, [loc[j] EXCEPT !.pc = "list", !.node = pods[Target(j)].node,
                                   !.drop = extra \ Wanted[j],
                                   !.add = Wanted[j] \ extra])
  /\ Well /\ UNCHANGED <<mix, ports, pods, krb, homes>>

\* _services_by_port; the Services to delete are those that it saw.
ListServices(j) ==
  /\ At(j, "list")
  /\ LET seen == SvcsOf(Target(j))
     IN Set(j, [loc[j] EXCEPT !.pc = "dropPort",
                  !.open = {s.iport : s \in seen},
                  !.ports = Pairs({s \in seen : s.iport \in loc[j].drop})])
  /\ Well /\ UNCHANGED <<mix, ports, pods, krb, homes>>

\* The Services of the dropped ports, one at a time.
DropPort(j) ==
  /\ At(j, "dropPort") /\ UNCHANGED <<mix, rows, aged, pods, krb, homes>>
  /\ \E x \in loc[j].ports :
       LET s == [pod |-> Target(j), iport |-> x.iport, nport |-> x.nport]
       IN IF s \notin svcs
          THEN Again(j, loc[j], "read") /\ UNCHANGED svcs /\ Well
          ELSE \/ /\ svcs' = svcs \ {s} /\ Well
                  /\ Set(j, [loc[j] EXCEPT !.ports = @ \ {x}])
               \/ /\ svcs' \in {svcs, svcs \ {s}} /\ Failing
                  /\ Again(j, loc[j], "read")

\* _release, once the Services are gone.
DropPortRow(j) ==
  /\ At(j, "dropPort") /\ loc[j].ports = {}
  /\ \/ /\ rows' = {r \in rows : ~(r.pod = Target(j) /\ r.iport \in loc[j].drop)}
        /\ Go(j, IF loc[j].add # {} THEN "reconcile" ELSE "fill") /\ Well
     \/ /\ loc[j].drop # {} /\ UNCHANGED rows
        /\ Again(j, loc[j], "read") /\ Failing
  /\ UNCHANGED <<mix, aged, svcs, pods, krb, homes>>

\* The rows are read again: every wanted port without a Service gets one.
Fill(j) ==
  /\ At(j, "fill")
  /\ Set(j, [loc[j] EXCEPT !.pc = "service", !.ports =
               Pairs({r \in RowsOf(Target(j)) :
                        r.iport \in Wanted[j] \ loc[j].open})])
  /\ Well /\ UNCHANGED <<mix, ports, pods, krb, homes>>

-----------------------------------------------------------------------------
(* step_delete_expired_home: _require_home_unused looks at the Pods first  *)
(* and at the unfinished jobs second.                                      *)

HomePods(j) ==
  /\ At(j, "homePods")
  /\ IF PodsOf(UserOf[j]) # {} THEN End(j, "fail") ELSE Go(j, "homeJobs")
  /\ Well /\ UNCHANGED <<mix, ports, pods, krb, homes>>

HomeUnused(j) ==
  /\ Go(j, "homeDelete")
  /\ unseen' = unseen \cup ((PodsOf(UserOf[j]) \cap Jobs) \X {"home"})
\* Faulty: unfinished jobs are not looked at.
HomeJobsUnchecked(j) ==
  /\ At(j, "homeJobs") /\ HomeUnused(j)
  /\ Well /\ UNCHANGED <<mix, ports, pods, keytabs, pending, cron, homes>>
HomeJobs(j) ==
  /\ At(j, "homeJobs")
  /\ IF \E i \in Jobs \ {j} : /\ UserOf[i] = UserOf[j] /\ Running(i)
                              /\ KindOf[i] \in Creating
     THEN End(j, "fail") /\ UNCHANGED unseen ELSE HomeUnused(j)
  /\ Well /\ UNCHANGED <<mix, ports, pods, keytabs, pending, cron, homes>>

HomeDelete(j) ==
  /\ At(j, "homeDelete")
  /\ \/ homes' = homes \ {UserOf[j]} /\ End(j, "ok") /\ Well
     \/ /\ homes' \in {homes, homes \ {UserOf[j]}} /\ Failing
        /\ Again(j, loc[j], "homePods")
  /\ UNCHANGED <<mix, ports, pods, krb>>

-----------------------------------------------------------------------------
(* reconcile_krb5_cleanup_pending, every 30 minutes.                       *)

CronList ==
  /\ cron.pc = "idle" /\ pending # {}
  /\ cron' = [pc |-> "next", todo |-> pending, of |-> {}] /\ Well
  /\ UNCHANGED <<mix, ports, pods, keytabs, pending, unseen, homes, loc>>

\* The reservation is claimed by deleting it; one that a deployment has
\* cancelled is skipped.
CronClaim ==
  /\ cron.pc = "next" /\ cron.todo # {}
  /\ LET k == CHOOSE k \in cron.todo : TRUE
     IN /\ pending' = pending \ {k}
        /\ cron' = [cron EXCEPT !.todo = @ \ {k},
                      !.pc = IF k \in pending THEN "check" ELSE "next",
                      !.of = IF k \in pending THEN {k} ELSE {}]
  /\ Well /\ UNCHANGED <<mix, ports, pods, keytabs, unseen, homes, loc>>

\* Faulty: the keytab is removed without a look at the rows.
CronUnchecked ==
  /\ cron.pc = "check" /\ cron' = [cron EXCEPT !.pc = "remove"]
  /\ Well /\ UNCHANGED <<mix, ports, pods, keytabs, pending, unseen, homes, loc>>
\* _get_expected_krb5_usernames_for_node: rows mean the keytab is in use.
CronCheck ==
  /\ cron.pc = "check"
  /\ \E k \in cron.of :
       \/ /\ cron' = [cron EXCEPT !.pc = IF InUse(k[1], k[2]) THEN "next"
                                                              ELSE "remove"]
          /\ UNCHANGED pending /\ Well
       \/ /\ cron' = [cron EXCEPT !.pc = "next"]
          /\ Recorded(k) /\ Failing
  /\ UNCHANGED <<mix, ports, pods, keytabs, unseen, homes, loc>>

CronRemove ==
  /\ cron.pc = "remove" /\ cron' = [cron EXCEPT !.pc = "next"]
  /\ \E k \in cron.of :
       \/ keytabs' = keytabs \ {k} /\ UNCHANGED pending /\ Well
       \/ /\ keytabs' \in {keytabs, keytabs \ {k}}
          /\ Recorded(k) /\ Failing
  /\ UNCHANGED <<mix, ports, pods, unseen, homes, loc>>

CronDone ==
  /\ cron.pc = "next" /\ cron.todo = {}
  /\ cron' = [pc |-> "idle", todo |-> {}, of |-> {}] /\ Well
  /\ UNCHANGED <<mix, ports, pods, keytabs, pending, unseen, homes, loc>>

\* The process dies; a reservation that it had claimed is lost.
CronDies ==
  /\ LostRecords /\ cron.pc # "idle" /\ crashes < MaxCrashes
  /\ cron' = [pc |-> "idle", todo |-> {}, of |-> {}]
  /\ crashes' = crashes + 1
  /\ UNCHANGED <<mix, ports, pods, keytabs, pending, unseen, homes, loc, faults>>

-----------------------------------------------------------------------------
(* Time and crashes.                                                       *)

AgeOut(p) ==
  /\ RowsOf(p) # {} /\ p \notin aged
  /\ GraceCovers => /\ ~InFlight(p)
                    /\ \A j \in mix : loc[j].pc = "stale" => p \in loc[j].pods
  /\ aged' = aged \cup {p}
  /\ Well /\ UNCHANGED <<mix, rows, svcs, pods, krb, homes, loc>>

\* Where a job goes on after its controller died: the first step that is not
\* recorded.  step_build_pod_spec is recorded only with the Pod's creation.
ResumeAt(j) ==
  IF KindOf[j] = "migrate" /\ loc[j].pc \in Handing THEN "dropServices" ELSE
  CASE loc[j].pc \in {"home", "node", "dropServices", "dropRows", "keys"} -> loc[j].pc
    [] loc[j].pc \in {"dropPod", "gone"} -> "dropPod"
    [] loc[j].pc = "remove" -> "keys"
    [] KindOf[j] \in {"port", "home"} -> First(KindOf[j])
    [] OTHER -> "build"

\* The orphan Pod API has no journal: nobody resumes it.
Lost(j) == KindOf[j] = "delete"
\* The Pod's creation is recorded and the steps after it are not: they need
\* ctx["v1"], and the job ends with what it has left for an operator.
Stuck(j) == KindOf[j] \in Creating /\ loc[j].made /\ loc[j].pc \notin Handing
\* The Pod exists and the journal does not say so.
Unrecorded(j) == pods[j].st = "up" /\ ~loc[j].made
\* A resumed creation first repeats the steps of ALWAYS_RERUN, which may fail
\* for good: the account is not known any more, or a migration has deleted
\* the Secret of the old Pod that step_migrate_inherit_password reads.
Repeats(j) == KindOf[j] \in Creating /\ loc[j].pc \notin {"home", "node"}
CannotGoOn(j) ==
  /\ Lost(j) \/ Stuck(j) \/ Repeats(j)
  /\ Set(j, [Over(loc[j], "fail") EXCEPT !.hurt = TRUE])
  /\ svcs' \in IF Stuck(j) /\ loc[j].pc # "wait"   \* PRE_STEP comes first
               THEN {svcs, svcs \ SvcsOf(j)} ELSE {svcs}
Resumed(j) ==
  /\ ~Lost(j) /\ ~Stuck(j) /\ UNCHANGED svcs
  /\ Set(j, [Blank EXCEPT !.pc = ResumeAt(j), !.node = loc[j].node,
               !.from = loc[j].from, !.made = loc[j].made,
               !.hurt = loc[j].hurt \/ Unrecorded(j)])
Crash(j) ==
  /\ j \in mix /\ Running(j) /\ crashes < MaxCrashes
  /\ crashes' = crashes + 1 /\ UNCHANGED faults
  /\ CannotGoOn(j) \/ Resumed(j)
  /\ UNCHANGED <<mix, rows, aged, pods, krb, homes>>

-----------------------------------------------------------------------------
Create(j) ==
  \/ RestoreHome(j) \/ ProvisionNode(j) \/ MigrateNode(j) \/ BuildStart(j)
  \/ DeployKeytab(j) \/ ClearPending(j) \/ UndoBuild(j) \/ CreatePod(j)
  \/ PodMade(j) \/ WaitReady(j) \/ ServicesStart(j) \/ CleanServices(j)
  \/ CleanRows(j) \/ CleanPod(j) \/ CleanBlind(j)
Ports(j) ==
  \/ ReconcileSkip(j) \/ ReconcileList(j) \/ ReconcileDelete(j) \/ Allocate(j)
  \/ CreateService(j) \/ Serving(j)
Remove(j) ==
  \/ DropServices(j) \/ DropRows(j) \/ DropPod(j) \/ Gone(j) \/ Keys(j)
  \/ RemoveKeytab(j)
Change(j) == ReadPod(j) \/ ListServices(j) \/ DropPort(j) \/ DropPortRow(j) \/ Fill(j)
Home(j)   == HomePods(j) \/ HomeJobs(j) \/ HomeDelete(j)
Step(j)   == \/ Create(j) \/ Ports(j) \/ Remove(j) \/ Change(j) \/ Home(j)
             \/ EarlyFailure(j)
Cron      == CronList \/ CronClaim \/ CronCheck \/ CronRemove \/ CronDone

Next ==
  \/ \E j \in Jobs : Register(j) \/ Step(j) \/ Crash(j)
  \/ Cron \/ CronDies
  \/ \E p \in PodNames : PodGone(p) \/ AgeOut(p)

Spec     == Init /\ [][Next]_vars
FairSpec == Spec /\ WF_vars(Cron)

-----------------------------------------------------------------------------
(* Correctness.                                                            *)

Serves(p) == pods[p].st = "up" /\ Base \subseteq {s.iport : s \in SvcsOf(p)}

\* In use: its base ports are recorded and open, and its creation is over, or
\* has come to the removal of the Pod that it replaces.
InService(p) ==
  /\ Serves(p) /\ Base \subseteq {r.iport : r \in RowsOf(p)}
  /\ p \in Jobs => loc[p].pc \in Handing \cup {"ok"}
HasKeytab(p) == <<UserOf[p], pods[p].node>> \in keytabs
HasHome(p)   == UserOf[p] \in homes

\* No job works on the Pod any more: its creation ended without a swallowed
\* failure, and a later job on it was at most a port change that succeeded.
Settled(p) ==
  /\ p \in Jobs => loc[p].pc = "ok" /\ ~loc[p].hurt
  /\ \A j \in mix : KindOf[j] \in Targeting /\ Target(j) = p =>
       \/ loc[j].pc = "new"
       \/ KindOf[j] = "port" /\ loc[j].pc = "ok"

\* The node port that the table gives to a Pod never leads to another Pod's
\* container or to another port: allocation, reconciliation, releases before
\* and after failures and port changes keep the table and the Services from
\* disagreeing about a node port that both know.
PortLeadsToOwner ==
  \A r \in rows, s \in svcs : r.nport = s.nport =>
    r.pod = s.pod /\ r.iport = s.iport

\* When the jobs on a Pod are over, exactly the ports in the table are open:
\* no recorded port is dead and no Service is unrecorded, whatever retries,
\* reconciliations by other jobs and port changes happened on the way.
ServedAsRecorded ==
  \A p \in PodNames : pods[p].st = "up" /\ Settled(p) =>
    Pairs(RowsOf(p)) = Pairs(SvcsOf(p))

\* A creation that failed, and a removal that succeeded, leave no running
\* Pod, no row and no Service behind, however often it was retried, rewound
\* and resumed; except in these cases, noted in hurt: a clean-up failed and
\* was swallowed; the job was cut off after its Pod was created and before
\* that was recorded; or it was cut off and, resumed, failed before it could
\* go on.
NothingLeft ==
  \A j \in mix : ~loc[j].hurt =>
    LET p == IF KindOf[j] \in Creating THEN j ELSE Target(j)
        ended == \/ KindOf[j] \in Creating /\ loc[j].pc = "fail"
                 \/ KindOf[j] \in {"revoke", "delete"} /\ loc[j].pc = "ok"
    IN ended => pods[p].st # "up" /\ RowsOf(p) = {} /\ SvcsOf(p) = {}

\* step_migrate_cleanup_old runs when the new Pod serves: at every moment of
\* a migration, and after it failed, crashed or ended, one of the two Pods
\* can be reached at every base port.
MigrationKeepsServing ==
  \A j \in mix : KindOf[j] = "migrate" => Serves(j) \/ Serves(Target(j))

\* The keytab is on the node of every Pod in use, without which the user
\* loses the home when the ticket expires: whatever jobs remove the user's
\* other Pods, and whenever the cron job works off an old reservation, the
\* look at the Pods or at the rows before the removal keeps it; but not for a
\* Pod whose creation they could not see, since it put the keytab on the
\* node and had no Pod there when they looked at the Pods, or put it there
\* after they had looked.  Those cases are KeytabAlways.
PodHasKeytab ==
  \A p \in PodNames :
    InService(p) /\ <<p, "keytab">> \notin unseen => HasKeytab(p)

\* A Pod in use has its home: an expired home is deleted only when neither
\* the Pods nor the unfinished jobs show one that uses it, and it is restored
\* before a Pod is created for a user whose home is gone; but not for a Pod
\* whose creation came to an end between the look at the Pods and the look at
\* the jobs, or found the home there after both.  Those cases are HomeAlways.
PodHasHome ==
  \A p \in PodNames :
    InService(p) /\ <<p, "home">> \notin unseen => HasHome(p)

\* What reconcile_krb5.py:24-28 and step_cleanup_pod_node_krb5 (revoke.py:
\* 225-229) promise by looking first: no keytab is removed from under a Pod
\* that lives.
KeytabAlways == \A p \in PodNames : InService(p) => HasKeytab(p)

\* What home.py:4-6 promises: a home is not deleted unless the account has no
\* container and no creation or migration of it is under way.
HomeAlways == \A p \in PodNames : InService(p) => HasHome(p)

\* What migrate.py:158-159 promises: once the new Pod serves, the job ends
\* well whatever becomes of the old one, so that the caller does not migrate
\* again and make another Pod.  Here for a migration that has already deleted
\* the old Pod, and with it the Secret that a resumed job asks for.
ServingMigrationEndsWell ==
  [][\A j \in mix :
       KindOf[j] = "migrate" /\ loc[j].pc \in Handing /\ pods[Target(j)].st # "up"
         => loc'[j].pc # "fail"]_vars

\* A reservation is worked off: the keytab leaves the node, unless the user
\* has a Pod with ports there when the cron job looks.
KeytabWithdrawn ==
  \A k \in Where : k \in pending ~> k \notin keytabs \/ InUse(k[1], k[2])

=============================================================================
