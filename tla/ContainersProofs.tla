-------------------------- MODULE ContainersProofs --------------------------
(***************************************************************************)
(* Proofs about Containers, for every value of its constants:              *)
(*   TypeCorrect       Spec => []TypeOK                                    *)
(*   HomeOfPodInUse    Spec => []PodHasHome                                *)
(*   KeytabThere       Spec => []PodHasKeytab                              *)
(*   MigrationServes   SoleMover => (Spec => []MigrationKeepsServing)      *)
(* The first invariant says which steps a job of each kind takes and when  *)
(* its worker knows a node; the later ones say what every creation has     *)
(* whose home or keytab nobody is about to delete unseen, and which of its *)
(* two Pods a migration has serving.  The next module,                     *)
(* ContainerRecordsProofs, is about the rows and the Services.             *)
(***************************************************************************)
EXTENDS Containers, TLAPS

MakePCs == {"build", "reconcile", "stale", "alloc", "deploy", "clear", "undo",
            "pod", "made", "wait", "services", "service", "cleanServices",
            "cleanRows", "cleanPod", "cleanBlind"}
PortPCs == {"read", "list", "dropPort", "reconcile", "stale", "alloc", "fill",
            "service"}

\* the steps of a job of each kind
PCsOf(k) ==
  {"new", "ok", "fail"} \cup
  {q \in {"home", "node"} \cup MakePCs : k = "provision"} \cup
  {q \in {"node"} \cup MakePCs \cup Handing : k = "migrate"} \cup
  {q \in {"gone"} \cup Handing : k \in {"revoke", "delete"}} \cup
  {q \in PortPCs : k = "port"} \cup
  {q \in {"homePods", "homeJobs", "homeDelete"} : k = "home"}

\* where the worker of a job has a node in memory
NodeKnown(k, pc) ==
  \/ k \in Creating /\ pc \in MakePCs \cup Handing
  \/ k = "port" /\ pc \in PortPCs \ {"read"}

MemoryOK(j, l) ==
  /\ l.pc \in PCsOf(KindOf[j])
  /\ NodeKnown(KindOf[j], l.pc) => l.node \in Nodes
  /\ l.pc = "remove" => l.from \in Nodes

Memories   == \A j \in Jobs : MemoryOK(j, loc[j])
PodsPlaced == \A p \in PodNames : pods[p].st # "none" => pods[p].node \in Nodes

TypeInv == TypeOK /\ Memories /\ PodsPlaced

-----------------------------------------------------------------------------
(* What a step of a job does to the workers' memories                      *)

\* only job j's worker moves, to one of the places S, and it forgets its node
\* only when the job is over
Moves(j, S) ==
  /\ loc' \in [Jobs -> Local]
  /\ \A i \in Jobs \ {j} : loc'[i] = loc[i]
  /\ loc'[j].pc \in S
  /\ MemoryOK(j, loc'[j])
  /\ loc'[j].node = loc[j].node \/ loc'[j].pc \in Final

LEMMA MovesMore ==
  ASSUME NEW j, NEW S, NEW T, Moves(j, S), S \subseteq T PROVE Moves(j, T)
  BY DEF Moves

LEMMA MovesAll ==
  ASSUME TypeInv, NEW j \in Jobs, NEW S, Moves(j, S) PROVE Memories'
  BY DEF TypeInv, Memories, Moves, MemoryOK

LEMMA SetMoves ==
  ASSUME TypeInv, NEW j \in Jobs, NEW m \in Local, Set(j, m), MemoryOK(j, m),
         m.node = loc[j].node \/ m.pc \in Final
  PROVE  Moves(j, {m.pc})
  <1>1. loc \in [Jobs -> Local]
    BY DEF TypeInv, TypeOK
  <1>2. loc' = [loc EXCEPT ![j] = m]
    BY DEF Set
  <1>3. loc'[j] = m /\ loc' \in [Jobs -> Local]
    BY <1>1, <1>2
  <1>4. \A i \in Jobs \ {j} : loc'[i] = loc[i]
    BY <1>1, <1>2
  <1> QED BY <1>3, <1>4 DEF Moves

LEMMA BlankLocal == ConstantsOK => Blank \in Local
  <1>1. SUFFICES ASSUME ConstantsOK PROVE Blank \in Local
    OBVIOUS
  <1>2. 0 \in 0..MaxTries
    BY <1>1 DEF ConstantsOK
  <1> QED BY <1>2 DEF Blank, Local, PCs

LEMMA GoMoves ==
  ASSUME TypeInv, NEW j \in Jobs, NEW pc, Go(j, pc), pc \in PCs,
         pc \in PCsOf(KindOf[j]),
         NodeKnown(KindOf[j], pc) => NodeKnown(KindOf[j], loc[j].pc),
         pc = "remove" => loc[j].from \in Nodes
  PROVE  Moves(j, {pc})
  <1> DEFINE m == [loc[j] EXCEPT !.pc = pc]
  <1>1. loc[j] \in Local /\ MemoryOK(j, loc[j])
    BY DEF TypeInv, TypeOK, Memories
  <1>2. m \in Local /\ m.pc = pc /\ m.node = loc[j].node /\ m.from = loc[j].from
    BY <1>1 DEF Local
  <1>3. MemoryOK(j, m)
    BY <1>1, <1>2 DEF MemoryOK
  <1>4. Set(j, m)
    BY DEF Go
  <1> QED BY <1>2, <1>3, <1>4, SetMoves

LEMMA OverOK ==
  ASSUME ConstantsOK, NEW j, NEW l \in Local, NEW pc \in Final
  PROVE  Over(l, pc) \in Local /\ Over(l, pc).pc = pc /\ MemoryOK(j, Over(l, pc))
  <1>1. Over(l, pc) \in Local /\ Over(l, pc).pc = pc
    <2>1. Blank \in Local /\ l.hurt \in BOOLEAN /\ pc \in PCs
      BY BlankLocal DEF Local, PCs
    <2> QED BY <2>1 DEF Over, Local
  <1>2. MemoryOK(j, Over(l, pc))
    BY <1>1 DEF MemoryOK, Final, PCsOf, NodeKnown, MakePCs, Handing, PortPCs
  <1> QED BY <1>1, <1>2

LEMMA EndMoves ==
  ASSUME ConstantsOK, TypeInv, NEW j \in Jobs, NEW pc \in Final, End(j, pc)
  PROVE  Moves(j, {pc})
  <1>1. loc[j] \in Local
    BY DEF TypeInv, TypeOK
  <1>2. PICK m \in Local : m = Over(loc[j], pc)
    BY <1>1, OverOK
  <1>3. m.pc = pc /\ MemoryOK(j, m)
    BY <1>1, <1>2, OverOK
  <1>4. Set(j, m)
    BY <1>2 DEF End
  <1> QED BY <1>3, <1>4, SetMoves

LEMMA AgainMoves ==
  ASSUME ConstantsOK, TypeInv, NEW j \in Jobs, NEW l \in Local, NEW pc, Again(j, l, pc),
         l.node = loc[j].node, pc \in PCs, pc \in PCsOf(KindOf[j]), pc # "remove",
         NodeKnown(KindOf[j], pc) => l.node \in Nodes
  PROVE  Moves(j, {pc, "fail"})
  <1>1. CASE l.tries < MaxTries /\ KindOf[j] # "delete"
    <2>1. l.tries + 1 \in 0..MaxTries
      BY <1>1 DEF Local, ConstantsOK
    <2>2. PICK m : m = [Blank EXCEPT !.pc = pc, !.tries = l.tries + 1, !.node = l.node,
                              !.from = l.from, !.hurt = l.hurt]
      OBVIOUS
    <2>3. Blank \in Local
      BY BlankLocal
    <2>4. m \in Local /\ m.pc = pc /\ m.node = l.node
      BY <2>1, <2>2, <2>3 DEF Local
    <2>5. MemoryOK(j, m)
      BY <2>4 DEF MemoryOK
    <2>6. Set(j, m)
      BY <1>1, <2>2 DEF Again
    <2>7. Moves(j, {m.pc})
      BY <2>4, <2>5, <2>6, SetMoves
    <2> QED BY <2>4, <2>7, MovesMore
  <1>2. CASE ~(l.tries < MaxTries /\ KindOf[j] # "delete")
    <2>0. "fail" \in Final
      BY DEF Final
    <2>1. PICK m \in Local : m = Over(l, "fail")
      BY <2>0, OverOK
    <2>2. m.pc = "fail" /\ MemoryOK(j, m)
      BY <2>0, <2>1, OverOK
    <2>3. Set(j, m)
      BY <1>2, <2>1 DEF Again
    <2>4. Moves(j, {m.pc})
      BY <2>0, <2>2, <2>3, SetMoves
    <2> QED BY <2>2, <2>4, MovesMore
  <1> QED BY <1>1, <1>2

\* a failure while the old Pod is removed
LEMMA TripMoves ==
  ASSUME ConstantsOK, TypeInv, NEW j \in Jobs, NEW pc, Trip(j, pc), pc \in PCs,
         pc \in PCsOf(KindOf[j]), pc # "remove", KindOf[j] \in {"migrate", "revoke", "delete"}
  PROVE  Moves(j, IF KindOf[j] = "migrate" THEN {"ok"} ELSE {pc, "fail"})
  <1>1. CASE KindOf[j] = "migrate"
    <2>1. "ok" \in Final
      BY DEF Final
    <2> QED BY <1>1, <2>1, EndMoves DEF Trip
  <1>2. CASE KindOf[j] # "migrate"
    <2>1. loc[j] \in Local
      BY DEF TypeInv, TypeOK
    <2>2. ~NodeKnown(KindOf[j], pc)
      BY <1>2 DEF NodeKnown, Creating
    <2> QED BY <1>2, <2>1, <2>2, AgainMoves DEF Trip
  <1> QED BY <1>1, <1>2

LEMMA CleanMoves ==
  ASSUME ConstantsOK, TypeInv, NEW j \in Jobs,
         NEW pc \in {"cleanServices", "cleanRows", "cleanBlind"},
         NEW then \in {"build", "fail"}, Clean(j, pc, then),
         KindOf[j] \in Creating, loc[j].pc \in MakePCs
  PROVE  Moves(j, {pc})
  <1> DEFINE m == [loc[j] EXCEPT !.pc = pc, !.then = then]
  <1>1. loc[j] \in Local /\ MemoryOK(j, loc[j])
    BY DEF TypeInv, TypeOK, Memories
  <1>a. pc \in PCs
    BY DEF PCs
  <1>2. m \in Local /\ m.pc = pc /\ m.node = loc[j].node
    BY <1>1, <1>a DEF Local
  <1>3. NodeKnown(KindOf[j], loc[j].pc) /\ pc \in PCsOf(KindOf[j]) /\ pc # "remove"
    BY DEF NodeKnown, PCsOf, Creating, MakePCs
  <1>4. Set(j, m)
    BY DEF Clean
  <1> HIDE DEF m
  <1>5. MemoryOK(j, m)
    BY <1>1, <1>2, <1>3 DEF MemoryOK
  <1> QED BY <1>2, <1>4, <1>5, SetMoves

-----------------------------------------------------------------------------
(* The steps and the kinds                                                 *)

LEMMA StepsOf ==
  ASSUME NEW k
  PROVE  /\ {"new", "ok", "fail"} \subseteq PCsOf(k)
         /\ k \in Creating => MakePCs \cup {"node"} \subseteq PCsOf(k)
         /\ k = "provision" => "home" \in PCsOf(k)
         /\ k \in {"migrate", "revoke", "delete"} => Handing \subseteq PCsOf(k)
         /\ k \in {"revoke", "delete"} => "gone" \in PCsOf(k)
         /\ k = "port" => PortPCs \subseteq PCsOf(k)
         /\ k = "home" => {"homePods", "homeJobs", "homeDelete"} \subseteq PCsOf(k)
  BY DEF PCsOf, Creating

LEMMA KindAt ==
  ASSUME TypeInv, NEW j \in Jobs
  PROVE  /\ loc[j].pc \in MakePCs \ PortPCs => KindOf[j] \in Creating
         /\ loc[j].pc \in MakePCs => KindOf[j] \in Creating \cup {"port"}
         /\ loc[j].pc = "home" => KindOf[j] = "provision"
         /\ loc[j].pc = "node" => KindOf[j] \in Creating
         /\ loc[j].pc \in Handing => KindOf[j] \in {"migrate", "revoke", "delete"}
         /\ loc[j].pc = "gone" => KindOf[j] \in {"revoke", "delete"}
         /\ loc[j].pc \in {"read", "list", "dropPort", "fill"} => KindOf[j] = "port"
         /\ loc[j].pc \in {"homePods", "homeJobs", "homeDelete"} => KindOf[j] = "home"
  <1>1. loc[j].pc \in PCsOf(KindOf[j])
    BY DEF TypeInv, Memories, MemoryOK
  <1> QED BY <1>1 DEF PCsOf, Creating, MakePCs, Handing, PortPCs

\* what the worker has in memory
LEMMA Memory ==
  ASSUME TypeInv, NEW j \in Jobs
  PROVE  /\ loc[j] \in Local /\ MemoryOK(j, loc[j]) /\ j \in PodNames
         /\ UserOf[j] \in Users
         /\ NodeKnown(KindOf[j], loc[j].pc) => loc[j].node \in Nodes
  BY DEF TypeInv, TypeOK, Memories, MemoryOK, PodNames, Users

LEMMA CountsOK ==
  ASSUME ConstantsOK, TypeOK, Well \/ Failing
  PROVE  crashes' \in 0..MaxCrashes /\ faults' \in 0..MaxFaults
  BY DEF ConstantsOK, TypeOK, Well, Failing, counts

\* the types of everything but the memories
TablesOK ==
  /\ mix \in Mixes
  /\ rows \subseteq Row /\ svcs \subseteq Svc /\ aged \subseteq PodNames
  /\ pods \in [PodNames -> [st: {"none", "up", "term"}, node: Nodes \cup {"none"}]]
  /\ PodsPlaced
  /\ keytabs \subseteq Where /\ pending \subseteq Where
  /\ homes \subseteq Users /\ unseen \subseteq Missed
  /\ cron \in [pc: {"idle", "next", "check", "remove"},
               todo: SUBSET Where, of: SUBSET Where]
  /\ crashes \in 0..MaxCrashes /\ faults \in 0..MaxFaults

LEMMA StepTypes ==
  ASSUME TypeInv, NEW j \in Jobs, NEW S, Moves(j, S), TablesOK' PROVE TypeInv'
  <1>1. Memories'
    BY MovesAll
  <1> QED BY <1>1 DEF Moves, TablesOK, TypeInv, TypeOK

\* the Pods and the cron job stay as they are
LEMMA TablesStay ==
  ASSUME ConstantsOK, TypeInv, Well \/ Failing, UNCHANGED <<mix, pods, cron>>,
         rows' \subseteq Row, svcs' \subseteq Svc, aged' \subseteq PodNames,
         keytabs' \subseteq Where, pending' \subseteq Where, homes' \subseteq Users,
         unseen' \subseteq Missed
  PROVE  TablesOK'
  <1>1. crashes' \in 0..MaxCrashes /\ faults' \in 0..MaxFaults
    BY CountsOK DEF TypeInv
  <1> QED BY <1>1 DEF TypeInv, TypeOK, TablesOK, PodsPlaced

LEMMA Tables ==
  ASSUME TypeInv
  PROVE  /\ rows \subseteq Row /\ svcs \subseteq Svc /\ aged \subseteq PodNames
         /\ keytabs \subseteq Where /\ pending \subseteq Where /\ homes \subseteq Users
         /\ unseen \subseteq Missed
  BY DEF TypeInv, TypeOK

-----------------------------------------------------------------------------
(* One lemma per action: where its job goes, and that the types stay       *)

LEMMA RegisterOK ==
  ASSUME ConstantsOK, TypeInv, NEW j \in Jobs, Register(j)
  PROVE  TablesOK' /\ Moves(j, {First(KindOf[j])})
  <1>1. TablesOK'
    BY Tables, TablesStay DEF Register, ports, krb
  <1>2. KindOf[j] \in Kinds
    BY DEF ConstantsOK
  <1>3. /\ First(KindOf[j]) \in PCs /\ First(KindOf[j]) # "remove"
        /\ First(KindOf[j]) \in {"home", "node", "dropServices", "read", "homePods"}
        /\ First(KindOf[j]) = "dropServices" => KindOf[j] \in {"revoke", "delete"}
        /\ First(KindOf[j]) \in PCsOf(KindOf[j])
    BY <1>2 DEF First, Kinds, PCs, PCsOf, MakePCs, Handing, PortPCs
  <1>4. ~NodeKnown(KindOf[j], First(KindOf[j]))
    BY <1>3 DEF NodeKnown, MakePCs, Handing, PortPCs, Creating
  <1>5. Go(j, First(KindOf[j]))
    BY DEF Register
  <1> QED BY <1>1, <1>3, <1>4, <1>5, GoMoves

LEMMA RestoreHomeOK ==
  ASSUME ConstantsOK, TypeInv, NEW j \in Jobs, RestoreHome(j)
  PROVE  TablesOK' /\ Moves(j, {"node"})
  <1>1. TablesOK'
    <2>1. unseen' \subseteq Missed
      BY Tables DEF RestoreHome, Missed
    <2> QED BY <2>1, Tables, Memory, TablesStay DEF RestoreHome, ports
  <1>2. KindOf[j] = "provision"
    BY KindAt DEF RestoreHome, At
  <1>3. "node" \in PCs /\ "node" \in PCsOf(KindOf[j]) /\ ~NodeKnown(KindOf[j], "node")
    BY <1>2 DEF PCs, PCsOf, NodeKnown, MakePCs, Handing, PortPCs
  <1> QED BY <1>1, <1>3, GoMoves DEF RestoreHome

\* a node is chosen, and the node of the old Pod noted
LEMMA NodeOK ==
  ASSUME ConstantsOK, TypeInv, NEW j \in Jobs, ProvisionNode(j) \/ MigrateNode(j)
  PROVE  /\ TablesOK' /\ loc' \in [Jobs -> Local]
         /\ \A i \in Jobs \ {j} : loc'[i] = loc[i]
         /\ loc'[j].pc \in {"build", "fail"} /\ MemoryOK(j, loc'[j])
  <1>1. TablesOK'
    BY Tables, TablesStay DEF ProvisionNode, MigrateNode, ports, krb
  <1>2. KindOf[j] \in Creating
    BY KindAt DEF ProvisionNode, MigrateNode, At
  <1>3. ASSUME NEW n \in NodesOf[j], NEW f \in Nodes \cup {"none"},
               Set(j, [loc[j] EXCEPT !.pc = "build", !.node = n, !.from = f])
        PROVE  /\ loc' \in [Jobs -> Local] /\ \A i \in Jobs \ {j} : loc'[i] = loc[i]
               /\ loc'[j].pc \in {"build", "fail"} /\ MemoryOK(j, loc'[j])
    <2> DEFINE m == [loc[j] EXCEPT !.pc = "build", !.node = n, !.from = f]
    <2>1. n \in Nodes /\ loc[j] \in Local /\ "build" \in PCs
      BY <1>3, Memory DEF ConstantsOK, PCs
    <2>2. m \in Local /\ m.pc = "build" /\ m.node = n
      BY <2>1 DEF Local
    <2>3. loc' = [loc EXCEPT ![j] = m] /\ loc \in [Jobs -> Local]
      BY <1>3 DEF Set, TypeInv, TypeOK
    <2> HIDE DEF m
    <2>4. MemoryOK(j, m)
      BY <1>2, <2>1, <2>2 DEF MemoryOK, PCsOf, Creating, MakePCs
    <2> QED BY <2>2, <2>3, <2>4
  <1>4. CASE ProvisionNode(j)
    <2>1. PICK n \in NodesOf[j] : Set(j, [loc[j] EXCEPT !.pc = "build", !.node = n])
      BY <1>4 DEF ProvisionNode
    <2>2. loc[j] \in Local
      BY Memory
    <2>3. PICK f \in Nodes \cup {"none"} : f = loc[j].from
      BY <2>2 DEF Local
    <2>4. [loc[j] EXCEPT !.pc = "build", !.node = n]
          = [loc[j] EXCEPT !.pc = "build", !.node = n, !.from = f]
      BY <2>2, <2>3 DEF Local
    <2>5. Set(j, [loc[j] EXCEPT !.pc = "build", !.node = n, !.from = f])
      BY <2>1, <2>4
    <2> QED BY <1>1, <1>3, <2>5
  <1>5. CASE MigrateNode(j)
    <2>1. KindOf[j] = "migrate"
      BY <1>5 DEF MigrateNode
    <2>2. TargetOf[j] \in PodNames
      BY <2>1 DEF ConstantsOK, Targeting, PodNames
    <2>3. pods[TargetOf[j]].node \in Nodes \cup {"none"}
      BY <2>2 DEF TypeInv, TypeOK
    <2>4. CASE End(j, "fail")
      <3>1. "fail" \in Final
        BY DEF Final
      <3>2. Moves(j, {"fail"})
        BY <2>4, <3>1, EndMoves
      <3> QED BY <1>1, <3>2 DEF Moves
    <2>5. CASE \E n \in NodesOf[j] :
                 Set(j, [loc[j] EXCEPT !.pc = "build", !.node = n,
                                       !.from = pods[TargetOf[j]].node])
      <3>1. PICK f \in Nodes \cup {"none"} : f = pods[TargetOf[j]].node
        BY <2>3
      <3>2. PICK n \in NodesOf[j] :
              Set(j, [loc[j] EXCEPT !.pc = "build", !.node = n, !.from = f])
        BY <2>5, <3>1
      <3> QED BY <1>1, <1>3, <3>2
    <2> QED BY <1>5, <2>4, <2>5 DEF MigrateNode
  <1> QED BY <1>4, <1>5

LEMMA EarlyFailureOK ==
  ASSUME ConstantsOK, TypeInv, NEW j \in Jobs, EarlyFailure(j)
  PROVE  /\ TablesOK'
         /\ Moves(j, {CASE loc[j].pc = "list" -> "read"
                        [] loc[j].pc = "homeJobs" -> "homePods"
                        [] OTHER -> loc[j].pc, "fail"})
  <1> DEFINE pc == CASE loc[j].pc = "list" -> "read"
                     [] loc[j].pc = "homeJobs" -> "homePods"
                     [] OTHER -> loc[j].pc
  <1>1. TablesOK'
    BY Tables, TablesStay DEF EarlyFailure, ports, krb
  <1>2. loc[j] \in Local /\ Again(j, loc[j], pc)
        /\ loc[j].pc \in {"home", "node", "read", "list", "homePods", "homeJobs"}
    BY Memory DEF EarlyFailure
  <1>3. loc[j].pc \in PCsOf(KindOf[j])
    BY Memory DEF MemoryOK
  <1>4. pc \in {"home", "node", "read", "homePods"} /\ pc \in PCsOf(KindOf[j])
    BY <1>2, <1>3 DEF PCsOf, MakePCs, Handing, PortPCs
  <1> HIDE DEF pc
  <1>5. pc \in PCs /\ pc # "remove" /\ ~NodeKnown(KindOf[j], pc)
    BY <1>4 DEF PCs, NodeKnown, MakePCs, Handing, PortPCs
  <1>6. Moves(j, {pc, "fail"})
    BY <1>2, <1>4, <1>5, AgainMoves
  <1> QED BY <1>1, <1>6 DEF pc

\* the steps between which a job that creates a container, or opens ports,
\* keeps its node
LEMMA Known ==
  ASSUME NEW k, NEW q
  PROVE  /\ k \in Creating /\ q \in MakePCs =>
              q \in PCs /\ q \in PCsOf(k) /\ q # "remove" /\ NodeKnown(k, q)
         /\ k = "port" /\ q \in PortPCs =>
              q \in PCs /\ q \in PCsOf(k) /\ q # "remove"
         /\ k = "port" /\ q \in PortPCs \ {"read"} => NodeKnown(k, q)
         /\ ~NodeKnown("port", "read")
         /\ "port" \notin Creating
  BY DEF Creating, MakePCs, PortPCs, PCs, PCsOf, NodeKnown

LEMMA StayMoves ==
  ASSUME TypeInv, NEW j \in Jobs, NEW m \in Local, Set(j, m),
         m.pc \in PCsOf(KindOf[j]), m.node = loc[j].node, m.pc # "remove",
         NodeKnown(KindOf[j], m.pc) => NodeKnown(KindOf[j], loc[j].pc)
  PROVE  Moves(j, {m.pc})
  <1>1. MemoryOK(j, m)
    BY Memory DEF MemoryOK
  <1> QED BY <1>1, SetMoves

LEMMA MakeGoes ==
  ASSUME TypeInv, NEW j \in Jobs, NEW q \in MakePCs, Go(j, q),
         KindOf[j] \in Creating, loc[j].pc \in MakePCs
  PROVE  Moves(j, {q})
  BY Known, GoMoves

LEMMA BuildStartOK ==
  ASSUME ConstantsOK, TypeInv, NEW j \in Jobs, BuildStart(j)
  PROVE  TablesOK' /\ Moves(j, {"reconcile"})
  <1>1. TablesOK'
    <2>1. rows' \subseteq Row
      BY Tables DEF BuildStart
    <2>2. /\ Well \/ Failing
          /\ svcs' \subseteq Svc /\ aged' \subseteq PodNames
          /\ keytabs' \subseteq Where /\ pending' \subseteq Where /\ homes' \subseteq Users
          /\ unseen' \subseteq Missed
      BY Tables DEF BuildStart, krb
    <2>3. UNCHANGED <<mix, pods, cron>>
      BY DEF BuildStart, krb
    <2> QED BY <2>1, <2>2, <2>3, TablesStay
  <1>2. /\ loc[j].pc = "build" /\ "build" \in MakePCs \ PortPCs
        /\ "build" \in MakePCs /\ "reconcile" \in MakePCs
    BY DEF BuildStart, At, MakePCs, PortPCs
  <1>3. KindOf[j] \in Creating
    BY <1>2, KindAt
  <1>4. CASE Go(j, "reconcile")
    BY <1>2, <1>3, <1>4, MakeGoes, <1>1
  <1>5. CASE Set(j, [loc[j] EXCEPT !.pc = "reconcile", !.hurt = @ \/ RowsOf(j) # {}])
    <2>1. loc[j] \in Local /\ "reconcile" \in PCs
      BY Memory DEF PCs
    <2>2. PICK m : m = [loc[j] EXCEPT !.pc = "reconcile", !.hurt = @ \/ RowsOf(j) # {}]
      OBVIOUS
    <2>3. (loc[j].hurt \/ RowsOf(j) # {}) \in BOOLEAN
      OBVIOUS
    <2>4. m \in Local /\ m.pc = "reconcile" /\ m.node = loc[j].node
      BY <2>1, <2>2, <2>3 DEF Local
    <2>5. Set(j, m)
      BY <1>5, <2>2
    <2>6. m.pc \in PCsOf(KindOf[j]) /\ m.pc # "remove" /\ NodeKnown(KindOf[j], loc[j].pc)
      BY <1>2, <1>3, <2>4, Known
    <2> QED BY <1>1, <2>4, <2>5, <2>6, StayMoves
  <1> QED BY <1>4, <1>5 DEF BuildStart

\* what is common to the jobs that reconcile and allocate
LEMMA AllocKnown ==
  ASSUME TypeInv, NEW j \in Jobs, loc[j].pc \in {"reconcile", "stale", "alloc"}
  PROVE  /\ KindOf[j] \in Creating \cup {"port"}
         /\ NodeKnown(KindOf[j], loc[j].pc) /\ loc[j].node \in Nodes
         /\ \A q \in {"stale", "alloc"} : q \in PCs /\ q \in PCsOf(KindOf[j])
         /\ loc[j] \in Local
  <1>1. loc[j].pc \in MakePCs /\ loc[j].pc \in PortPCs \ {"read"}
        /\ \A q \in {"stale", "alloc"} : q \in MakePCs /\ q \in PortPCs
    BY DEF MakePCs, PortPCs
  <1>2. KindOf[j] \in Creating \cup {"port"}
    BY <1>1, KindAt
  <1>3. NodeKnown(KindOf[j], loc[j].pc)
    BY <1>1, <1>2, Known
  <1> QED BY <1>1, <1>2, <1>3, Known, Memory

LEMMA ReconcileSkipOK ==
  ASSUME ConstantsOK, TypeInv, NEW j \in Jobs, ReconcileSkip(j)
  PROVE  TablesOK' /\ Moves(j, {"alloc"})
  <1>1. TablesOK'
    BY Tables, TablesStay DEF ReconcileSkip, ports, krb
  <1>2. loc[j].pc = "reconcile" /\ Go(j, "alloc")
    BY DEF ReconcileSkip, At
  <1> QED BY <1>1, <1>2, AllocKnown, GoMoves

LEMMA ReconcileListOK ==
  ASSUME ConstantsOK, TypeInv, NEW j \in Jobs, ReconcileList(j)
  PROVE  TablesOK' /\ Moves(j, {"stale"})
  <1>1. TablesOK'
    BY Tables, TablesStay DEF ReconcileList, ports, krb
  <1>2. PICK m : m = [loc[j] EXCEPT !.pc = "stale", !.pods = {s.pod : s \in svcs}]
    OBVIOUS
  <1>3. loc[j].pc = "reconcile" /\ Set(j, m)
    BY <1>2 DEF ReconcileList, At
  <1>4. {s.pod : s \in svcs} \subseteq PodNames
    BY Tables DEF Svc
  <1>5. m \in Local /\ m.pc = "stale" /\ m.node = loc[j].node
    <2>1. loc[j] \in Local /\ "stale" \in PCs
      BY Memory DEF PCs
    <2> QED BY <1>2, <1>3, <1>4, <2>1 DEF Local
  <1> QED BY <1>1, <1>3, <1>5, AllocKnown, StayMoves

LEMMA ReconcileDeleteOK ==
  ASSUME ConstantsOK, TypeInv, NEW j \in Jobs, ReconcileDelete(j)
  PROVE  TablesOK' /\ Moves(j, {"alloc"})
  <1>1. TablesOK'
    BY Tables, TablesStay DEF ReconcileDelete, krb
  <1>2. PICK m : m = [loc[j] EXCEPT !.pc = "alloc", !.pods = {}]
    OBVIOUS
  <1>3. loc[j].pc = "stale" /\ Set(j, m)
    BY <1>2 DEF ReconcileDelete, At
  <1>4. m \in Local /\ m.pc = "alloc" /\ m.node = loc[j].node
    <2>1. loc[j] \in Local /\ "alloc" \in PCs
      BY Memory DEF PCs
    <2> QED BY <1>2, <1>3, <2>1 DEF Local
  <1> QED BY <1>1, <1>3, <1>4, AllocKnown, StayMoves

\* a failed attempt goes back to the first step that is not recorded
LEMMA BackMoves ==
  ASSUME ConstantsOK, TypeInv, NEW j \in Jobs, NEW l \in Local,
         KindOf[j] \in Creating \cup {"port"}, NodeKnown(KindOf[j], loc[j].pc),
         l.node = loc[j].node,
         Again(j, l, IF KindOf[j] = "port" THEN "read" ELSE "build")
  PROVE  Moves(j, {IF KindOf[j] = "port" THEN "read" ELSE "build", "fail"})
  <1> DEFINE q == IF KindOf[j] = "port" THEN "read" ELSE "build"
  <1>1. q \in PCs /\ q \in PCsOf(KindOf[j]) /\ q # "remove"
    <2>1. "build" \in MakePCs /\ "read" \in PortPCs
      BY DEF MakePCs, PortPCs
    <2> QED BY <2>1, Known
  <1>2. l.node \in Nodes
    BY Memory
  <1>3. Again(j, l, q)
    OBVIOUS
  <1> HIDE DEF q
  <1>4. Moves(j, {q, "fail"})
    BY <1>1, <1>2, <1>3, AgainMoves
  <1> QED BY <1>4 DEF q

\* the same for a creation
LEMMA RebuildMoves ==
  ASSUME ConstantsOK, TypeInv, NEW j \in Jobs, NEW l \in Local,
         KindOf[j] \in Creating, loc[j].pc \in MakePCs, l.node = loc[j].node,
         Again(j, l, "build")
  PROVE  Moves(j, {"build", "fail"})
  <1>1. KindOf[j] # "port" /\ NodeKnown(KindOf[j], loc[j].pc)
    BY Known
  <1> QED BY <1>1, BackMoves

LEMMA AllocateTypes ==
  ASSUME ConstantsOK, TypeInv, NEW j \in Jobs, loc[j].pc = "alloc",
         NEW seen, NEW f \in Injection(Asked(j), Lowest(Free(seen), Cardinality(Asked(j))))
  PROVE  /\ {[iport |-> i, nport |-> f[i]] : i \in Asked(j)} \subseteq Pair
         /\ {RowFor(j, x) : x \in {[iport |-> i, nport |-> f[i]] : i \in Asked(j)}}
              \subseteq Row
  <1>1. Asked(j) \subseteq InPorts
    <2>0. loc[j] \in Local
      BY Memory
    <2>1. loc[j].add \in SUBSET InPorts
      BY <2>0 DEF Local
    <2>2. Base \subseteq InPorts
      BY DEF InPorts
    <2> QED BY <2>1, <2>2 DEF Asked
  <1>2. ASSUME NEW i \in Asked(j) PROVE f[i] \in NodePorts
    BY <1>2 DEF Injection, Lowest, Free
  <1>3. {[iport |-> i, nport |-> f[i]] : i \in Asked(j)} \subseteq Pair
    BY <1>1, <1>2 DEF Pair
  <1>4. loc[j].node \in Nodes /\ KindOf[j] \in Creating \cup {"port"}
    BY AllocKnown
  <1>5. PodOf(j) \in PodNames
    BY DEF PodOf, ConstantsOK, PodNames, Targeting
  <1> QED BY <1>3, <1>4, <1>5 DEF RowFor, Row, Pair

LEMMA AllocateOK ==
  ASSUME ConstantsOK, TypeInv, NEW j \in Jobs, Allocate(j)
  PROVE  TablesOK' /\ Moves(j, {"read", "build", "fill", "deploy", "fail"})
  <1> DEFINE q == IF KindOf[j] = "port" THEN "read" ELSE "build"
             S == {"read", "build", "fill", "deploy", "fail"}
  <1>1. loc[j].pc = "alloc" /\ UNCHANGED <<mix, svcs, pods, krb, homes>>
    BY DEF Allocate, At
  <1>2. /\ KindOf[j] \in Creating \cup {"port"} /\ loc[j] \in Local
        /\ NodeKnown(KindOf[j], loc[j].pc) /\ loc[j].node \in Nodes
    BY <1>1, AllocKnown
  <1>3. ASSUME Well \/ Failing, rows' \subseteq Row, aged' \subseteq PodNames
        PROVE  TablesOK'
    BY <1>1, <1>3, Tables, TablesStay DEF krb
  <1>4. ASSUME NEW l \in Local, l.node = loc[j].node, Again(j, l, q) PROVE Moves(j, S)
    <2>1. Moves(j, {q, "fail"})
      BY <1>2, <1>4, BackMoves
    <2> QED BY <2>1, MovesMore
  <1>5. PICK seen \in {{s.nport : s \in svcs}, {}} :
       LET free    == Free(seen)
           n       == Cardinality(Asked(j))
           Back(l) == Again(j, l, q)
           Blind   == seen = {} /\ svcs # {}
       IN IF Cardinality(free) < n
          THEN /\ IF KindOf[j] = "port" THEN Back(loc[j]) ELSE End(j, "fail")
               /\ IF Blind THEN Failing ELSE Well
               /\ UNCHANGED <<rows, aged>>
          ELSE \E f \in Injection(Asked(j), Lowest(free, n)) :
                 LET got == {[iport |-> i, nport |-> f[i]] : i \in Asked(j)}
                     new == {RowFor(j, x) : x \in got}
                 IN \/ /\ rows' = rows \cup new /\ aged' = aged \ {PodOf(j)}
                       /\ IF Blind THEN Failing ELSE Well
                       /\ IF KindOf[j] = "port" THEN Go(j, "fill")
                          ELSE Set(j, [loc[j] EXCEPT !.pc = "deploy", !.ports = got])
                    \/ /\ ~Blind /\ Failing /\ UNCHANGED aged
                       /\ \/ rows' = rows /\ Back(loc[j])
                          \/ rows' = rows \cup new
                             /\ Back([loc[j] EXCEPT !.hurt = TRUE])
    BY DEF Allocate
  <1> DEFINE n == Cardinality(Asked(j))
             Blind == seen = {} /\ svcs # {}
  <1>6. CASE Cardinality(Free(seen)) < n
    <2>1. /\ IF KindOf[j] = "port" THEN Again(j, loc[j], q) ELSE End(j, "fail")
          /\ Well \/ Failing
          /\ UNCHANGED <<rows, aged>>
      BY <1>5, <1>6
    <2>2. TablesOK'
      BY <1>3, <2>1, Tables
    <2>3. CASE KindOf[j] = "port"
      BY <1>2, <1>4, <2>1, <2>2, <2>3
    <2>4. CASE KindOf[j] # "port"
      <3>1. "fail" \in Final
        BY DEF Final
      <3>2. Moves(j, {"fail"})
        BY <2>1, <2>4, <3>1, EndMoves
      <3> QED BY <2>2, <3>2, MovesMore
    <2> QED BY <2>3, <2>4
  <1>7. CASE ~(Cardinality(Free(seen)) < n)
    <2>1. PICK f \in Injection(Asked(j), Lowest(Free(seen), n)) :
                 LET got == {[iport |-> i, nport |-> f[i]] : i \in Asked(j)}
                     new == {RowFor(j, x) : x \in got}
                 IN \/ /\ rows' = rows \cup new /\ aged' = aged \ {PodOf(j)}
                       /\ IF Blind THEN Failing ELSE Well
                       /\ IF KindOf[j] = "port" THEN Go(j, "fill")
                          ELSE Set(j, [loc[j] EXCEPT !.pc = "deploy", !.ports = got])
                    \/ /\ ~Blind /\ Failing /\ UNCHANGED aged
                       /\ \/ rows' = rows /\ Again(j, loc[j], q)
                          \/ rows' = rows \cup new
                             /\ Again(j, [loc[j] EXCEPT !.hurt = TRUE], q)
      BY <1>5, <1>7
    <2> DEFINE got == {[iport |-> i, nport |-> f[i]] : i \in Asked(j)}
               new == {RowFor(j, x) : x \in got}
    <2>2. got \subseteq Pair /\ new \subseteq Row
      BY <1>1, AllocateTypes
    <2>3. /\ (rows' = rows \/ rows' = rows \cup new)
          /\ (aged' = aged \/ aged' = aged \ {PodOf(j)}) /\ (Well \/ Failing)
      BY <2>1
    <2>4. TablesOK'
      <3> HIDE DEF new
      <3> QED BY <1>3, <2>2, <2>3, Tables
    <2>5. CASE Again(j, loc[j], q)
      BY <1>2, <1>4, <2>4, <2>5
    <2>6. CASE Again(j, [loc[j] EXCEPT !.hurt = TRUE], q)
      <3>1. PICK l \in Local : l = [loc[j] EXCEPT !.hurt = TRUE]
        BY <1>2 DEF Local
      <3>2. l.node = loc[j].node /\ Again(j, l, q)
        BY <1>2, <2>6, <3>1 DEF Local
      <3> HIDE DEF q
      <3> QED BY <1>4, <2>4, <3>2
    <2>7. CASE KindOf[j] = "port" /\ Go(j, "fill")
      <3>1. "fill" \in PortPCs \ {"read"}
        BY DEF PortPCs
      <3>2. Moves(j, {"fill"})
        BY <1>2, <2>7, <3>1, Known, GoMoves
      <3> QED BY <2>4, <3>2, MovesMore
    <2>8. CASE KindOf[j] # "port" /\ Set(j, [loc[j] EXCEPT !.pc = "deploy", !.ports = got])
      <3>1. PICK m : m = [loc[j] EXCEPT !.pc = "deploy", !.ports = got]
        OBVIOUS
      <3>2. "deploy" \in PCs /\ "deploy" \in MakePCs /\ KindOf[j] \in Creating
        BY <1>2, <2>8 DEF PCs, MakePCs
      <3> HIDE DEF got
      <3>3. m \in Local /\ m.pc = "deploy" /\ m.node = loc[j].node
        BY <1>2, <2>2, <3>1, <3>2 DEF Local
      <3>4. Set(j, m)
        BY <2>8, <3>1
      <3>5. Moves(j, {"deploy"})
        BY <1>2, <3>2, <3>3, <3>4, Known, StayMoves
      <3> QED BY <2>4, <3>5, MovesMore
    <2> QED BY <2>1, <2>5, <2>6, <2>7, <2>8
  <1> QED BY <1>6, <1>7

\* a creation between its build and its Services
LEMMA Making ==
  ASSUME TypeInv, NEW j \in Jobs, loc[j].pc \in MakePCs \ PortPCs
  PROVE  /\ KindOf[j] \in Creating /\ KindOf[j] # "port" /\ loc[j].pc \in MakePCs
         /\ loc[j] \in Local /\ loc[j].node \in Nodes /\ UserOf[j] \in Users
         /\ j \in PodNames
  <1>1. KindOf[j] \in Creating /\ loc[j].pc \in MakePCs
    BY KindAt
  <1> QED BY <1>1, Known, Memory

\* a failure that is swallowed, or remembered, changes nothing else
LEMMA Hurt ==
  ASSUME NEW l \in Local
  PROVE  \E m \in Local : /\ m = [l EXCEPT !.hurt = TRUE] /\ m.node = l.node
                          /\ m.then = l.then
  <1> DEFINE m == [l EXCEPT !.hurt = TRUE]
  <1>1. m \in Local /\ m.node = l.node /\ m.then = l.then
    BY DEF Local
  <1> QED BY <1>1

LEMMA MakePlaces ==
  /\ {"build", "deploy", "clear", "undo", "pod", "made", "wait", "services",
      "cleanServices", "cleanRows", "cleanPod", "cleanBlind"} \subseteq MakePCs \ PortPCs
  /\ "service" \in MakePCs /\ "service" \in PortPCs \ {"read"}
  /\ "fail" \in Final /\ "ok" \in Final
  BY DEF MakePCs, PortPCs, Final

LEMMA DeployKeytabOK ==
  ASSUME ConstantsOK, TypeInv, NEW j \in Jobs, DeployKeytab(j)
  PROVE  TablesOK' /\ Moves(j, {"clear", "undo"})
  <1>1. loc[j].pc = "deploy"
    BY DEF DeployKeytab, At
  <1>2. KindOf[j] \in Creating /\ loc[j].pc \in MakePCs
        /\ loc[j].node \in Nodes /\ UserOf[j] \in Users
    BY <1>1, MakePlaces, Making
  <1>3. TablesOK'
    <2>1. keytabs' \subseteq Where
      BY <1>2, Tables DEF DeployKeytab, Where
    <2>2. unseen' \subseteq Missed
      BY Tables DEF DeployKeytab, Missed
    <2> QED BY <2>1, <2>2, Tables, TablesStay DEF DeployKeytab, ports
  <1>4. Go(j, "clear") \/ Go(j, "undo")
    BY DEF DeployKeytab
  <1>5. Moves(j, {"clear"}) \/ Moves(j, {"undo"})
    BY <1>2, <1>4, MakePlaces, MakeGoes
  <1> QED BY <1>3, <1>5, MovesMore

LEMMA ClearPendingOK ==
  ASSUME ConstantsOK, TypeInv, NEW j \in Jobs, ClearPending(j)
  PROVE  TablesOK' /\ Moves(j, {"pod"})
  <1>1. loc[j].pc = "clear" /\ Go(j, "pod")
    BY DEF ClearPending, At
  <1>2. TablesOK'
    <2>1. pending' \subseteq Where
      BY Tables DEF ClearPending
    <2> QED BY <2>1, Tables, TablesStay DEF ClearPending, ports
  <1> QED BY <1>1, <1>2, MakePlaces, Making, MakeGoes

LEMMA UndoBuildOK ==
  ASSUME ConstantsOK, TypeInv, NEW j \in Jobs, UndoBuild(j)
  PROVE  TablesOK' /\ Moves(j, {"build", "fail"})
  <1>1. loc[j].pc = "undo"
    BY DEF UndoBuild, At
  <1>2. KindOf[j] \in Creating /\ loc[j].pc \in MakePCs /\ loc[j] \in Local
    BY <1>1, MakePlaces, Making
  <1>3. TablesOK'
    <2>1. rows' \subseteq Row /\ (Well \/ Failing)
      BY Tables DEF UndoBuild
    <2> QED BY <2>1, Tables, TablesStay DEF UndoBuild, krb
  <1>4. CASE Again(j, loc[j], "build")
    BY <1>2, <1>3, <1>4, RebuildMoves
  <1>5. CASE Again(j, [loc[j] EXCEPT !.hurt = TRUE], "build")
    <2>1. PICK m \in Local : m = [loc[j] EXCEPT !.hurt = TRUE] /\ m.node = loc[j].node
      BY <1>2, Hurt
    <2>2. Again(j, m, "build")
      BY <1>5, <2>1
    <2> QED BY <1>2, <1>3, <2>1, <2>2, RebuildMoves
  <1> QED BY <1>4, <1>5 DEF UndoBuild

\* the Pods change and nothing else does
LEMMA PodsChange ==
  ASSUME ConstantsOK, TypeInv, Well \/ Failing, UNCHANGED <<mix, ports, krb, homes>>,
         pods' \in [PodNames -> [st: {"none", "up", "term"}, node: Nodes \cup {"none"}]],
         PodsPlaced'
  PROVE  TablesOK'
  <1>1. crashes' \in 0..MaxCrashes /\ faults' \in 0..MaxFaults
    BY CountsOK DEF TypeInv
  <1> QED BY <1>1 DEF TypeInv, TypeOK, TablesOK, ports, krb

\* a Pod is made, ends, or is gone
LEMMA PodTypes ==
  ASSUME TypeInv, NEW p \in PodNames, NEW n,
         \/ n \in Nodes /\ pods' = [pods EXCEPT ![p] = [st |-> "up", node |-> n]]
         \/ pods[p].st = "up" /\ pods' = [pods EXCEPT ![p].st = "term"]
         \/ pods' = [pods EXCEPT ![p] = NoPod]
         \/ pods' = pods
  PROVE  /\ pods' \in [PodNames -> [st: {"none", "up", "term"}, node: Nodes \cup {"none"}]]
         /\ PodsPlaced'
  <1>1. pods \in [PodNames -> [st: {"none", "up", "term"}, node: Nodes \cup {"none"}]]
        /\ \A q \in PodNames : pods[q].st # "none" => pods[q].node \in Nodes
    BY DEF TypeInv, TypeOK, PodsPlaced
  <1>2. CASE n \in Nodes /\ pods' = [pods EXCEPT ![p] = [st |-> "up", node |-> n]]
    BY <1>1, <1>2 DEF PodsPlaced
  <1>3. CASE pods[p].st = "up" /\ pods' = [pods EXCEPT ![p].st = "term"]
    BY <1>1, <1>3 DEF PodsPlaced
  <1>4. CASE pods' = [pods EXCEPT ![p] = NoPod]
    BY <1>1, <1>4 DEF PodsPlaced, NoPod
  <1>5. CASE pods' = pods
    BY <1>1, <1>5 DEF PodsPlaced
  <1> QED BY <1>2, <1>3, <1>4, <1>5

LEMMA CreatePodOK ==
  ASSUME ConstantsOK, TypeInv, NEW j \in Jobs, CreatePod(j)
  PROVE  TablesOK' /\ Moves(j, {"made", "cleanRows", "cleanBlind"})
  <1>1. loc[j].pc = "pod" /\ (Well \/ Failing) /\ UNCHANGED <<mix, ports, krb, homes>>
    BY DEF CreatePod, At
  <1>2. KindOf[j] \in Creating /\ loc[j].pc \in MakePCs
        /\ loc[j].node \in Nodes /\ j \in PodNames
    BY <1>1, MakePlaces, Making
  <1>3. \/ pods' = [pods EXCEPT ![j] = [st |-> "up", node |-> loc[j].node]]
        \/ pods' = pods
    BY DEF CreatePod
  <1>4. TablesOK'
    BY <1>1, <1>2, <1>3, PodTypes, PodsChange
  <1>5. \/ Go(j, "made") \/ Clean(j, "cleanRows", "build")
        \/ Clean(j, "cleanBlind", "build") \/ Clean(j, "cleanBlind", "fail")
    BY DEF CreatePod
  <1>6. CASE Go(j, "made")
    <2>1. Moves(j, {"made"})
      BY <1>2, <1>6, MakePlaces, MakeGoes
    <2> QED BY <1>4, <2>1, MovesMore
  <1>7. CASE Clean(j, "cleanRows", "build")
    <2>1. Moves(j, {"cleanRows"})
      BY <1>2, <1>7, CleanMoves
    <2> QED BY <1>4, <2>1, MovesMore
  <1>8. CASE Clean(j, "cleanBlind", "build") \/ Clean(j, "cleanBlind", "fail")
    <2>1. Moves(j, {"cleanBlind"})
      BY <1>2, <1>8, CleanMoves
    <2> QED BY <1>4, <2>1, MovesMore
  <1> QED BY <1>5, <1>6, <1>7, <1>8

LEMMA PodMadeOK ==
  ASSUME ConstantsOK, TypeInv, NEW j \in Jobs, PodMade(j)
  PROVE  TablesOK' /\ Moves(j, {"wait"})
  <1>1. TablesOK'
    BY Tables, TablesStay DEF PodMade, ports, krb
  <1>2. PICK m : m = [loc[j] EXCEPT !.pc = "wait", !.made = TRUE]
    OBVIOUS
  <1>3. loc[j].pc = "made" /\ Set(j, m)
    BY <1>2 DEF PodMade, At
  <1>4. KindOf[j] \in Creating /\ loc[j].pc \in MakePCs /\ loc[j] \in Local
    BY <1>3, MakePlaces, Making
  <1>5. "wait" \in PCs /\ "wait" \in MakePCs
    BY DEF PCs, MakePCs
  <1>6. m \in Local /\ m.pc = "wait" /\ m.node = loc[j].node
    BY <1>2, <1>4, <1>5 DEF Local
  <1> QED BY <1>1, <1>3, <1>4, <1>5, <1>6, Known, StayMoves

LEMMA WaitReadyOK ==
  ASSUME ConstantsOK, TypeInv, NEW j \in Jobs, WaitReady(j)
  PROVE  TablesOK' /\ Moves(j, {"services", "cleanRows"})
  <1>1. TablesOK'
    BY Tables, TablesStay DEF WaitReady, ports, krb
  <1>2. loc[j].pc = "wait"
    BY DEF WaitReady, At
  <1>3. KindOf[j] \in Creating /\ loc[j].pc \in MakePCs
    BY <1>2, MakePlaces, Making
  <1>4. CASE Go(j, "services")
    <2>1. Moves(j, {"services"})
      BY <1>3, <1>4, MakePlaces, MakeGoes
    <2> QED BY <1>1, <2>1, MovesMore
  <1>5. ASSUME NEW t \in {"build", "fail"}, Clean(j, "cleanRows", t)
        PROVE  Moves(j, {"services", "cleanRows"})
    <2>1. Moves(j, {"cleanRows"})
      BY <1>3, <1>5, CleanMoves
    <2> QED BY <2>1, MovesMore
  <1> QED BY <1>1, <1>4, <1>5 DEF WaitReady

LEMMA ServicesStartOK ==
  ASSUME ConstantsOK, TypeInv, NEW j \in Jobs, ServicesStart(j)
  PROVE  TablesOK' /\ Moves(j, {"service"})
  <1>1. loc[j].pc = "services" /\ Go(j, "service")
    BY DEF ServicesStart, At
  <1>2. TablesOK'
    <2>1. svcs' \subseteq Svc /\ (Well \/ Failing)
      BY Tables DEF ServicesStart
    <2> QED BY <2>1, Tables, TablesStay DEF ServicesStart, krb
  <1> QED BY <1>1, <1>2, MakePlaces, Making, MakeGoes

\* one of the ports that are left to open is opened, or closed
LEMMA LessPorts ==
  ASSUME TypeInv, NEW j \in Jobs, NEW x,
         Set(j, [loc[j] EXCEPT !.ports = @ \ {x}])
  PROVE  /\ loc[j].pc # "remove" => Moves(j, {loc[j].pc})
         /\ loc'[j].pc = loc[j].pc
  <1>1. loc[j] \in Local /\ MemoryOK(j, loc[j]) /\ loc \in [Jobs -> Local]
    BY Memory DEF TypeInv, TypeOK
  <1>2. PICK m : m = [loc[j] EXCEPT !.ports = @ \ {x}]
    OBVIOUS
  <1>3. loc[j].ports \ {x} \in SUBSET Pair
    BY <1>1 DEF Local
  <1>4. m \in Local /\ m.pc = loc[j].pc /\ m.node = loc[j].node
    BY <1>1, <1>2, <1>3 DEF Local
  <1>5. Set(j, m)
    BY <1>2
  <1>6. loc'[j] = m
    BY <1>1, <1>5 DEF Set
  <1>7. loc[j].pc # "remove" => Moves(j, {m.pc})
    BY <1>1, <1>4, <1>5, StayMoves DEF MemoryOK
  <1> QED BY <1>4, <1>6, <1>7

LEMMA ServiceKnown ==
  ASSUME TypeInv, NEW j \in Jobs, loc[j].pc = "service"
  PROVE  /\ KindOf[j] \in Creating \cup {"port"} /\ loc[j].pc \in MakePCs
         /\ NodeKnown(KindOf[j], loc[j].pc) /\ loc[j] \in Local
  <1>1. loc[j].pc \in MakePCs /\ loc[j].pc \in PortPCs \ {"read"}
    BY DEF MakePCs, PortPCs
  <1>2. KindOf[j] \in Creating \cup {"port"}
    BY <1>1, KindAt
  <1> QED BY <1>1, <1>2, Known, Memory

LEMMA CreateServiceOK ==
  ASSUME ConstantsOK, TypeInv, NEW j \in Jobs, CreateService(j)
  PROVE  TablesOK' /\ Moves(j, {"service", "read", "cleanServices", "fail"})
  <1> DEFINE S == {"service", "read", "cleanServices", "fail"}
             s(x) == [pod |-> PodOf(j), iport |-> x.iport, nport |-> x.nport]
  <1>1. loc[j].pc = "service" /\ UNCHANGED <<mix, rows, aged, pods, krb, homes>>
    BY DEF CreateService, At
  <1>2. /\ KindOf[j] \in Creating \cup {"port"} /\ loc[j].pc \in MakePCs
        /\ NodeKnown(KindOf[j], loc[j].pc) /\ loc[j] \in Local
    BY <1>1, ServiceKnown
  <1>3. PICK x \in loc[j].ports :
          /\ svcs' \in {svcs, svcs \cup {s(x)}} /\ (Well \/ Failing)
          /\ \/ IF KindOf[j] = "port" THEN Again(j, loc[j], "read")
                                      ELSE Clean(j, "cleanServices", "build")
             \/ Set(j, [loc[j] EXCEPT !.ports = @ \ {x}])
    BY DEF CreateService
  <1>4. TablesOK'
    <2>1. loc[j].ports \in SUBSET Pair
      BY <1>2 DEF Local
    <2>2. x.iport \in InPorts /\ x.nport \in NodePorts
      BY <1>3, <2>1 DEF Pair
    <2>3. PodOf(j) \in PodNames
      BY <1>2 DEF PodOf, ConstantsOK, PodNames, Targeting
    <2>4. s(x) \in Svc
      BY <2>2, <2>3 DEF Svc
    <2> HIDE DEF s
    <2>5. svcs' \subseteq Svc
      BY <1>3, <2>4, Tables
    <2> QED BY <1>1, <1>3, <2>5, Tables, TablesStay DEF krb
  <1>5. CASE Set(j, [loc[j] EXCEPT !.ports = @ \ {x}])
    <2>1. Moves(j, {"service"})
      BY <1>1, <1>5, LessPorts
    <2> QED BY <1>4, <2>1, MovesMore
  <1>6. CASE KindOf[j] = "port" /\ Again(j, loc[j], "read")
    <2>1. Moves(j, {"read", "fail"})
      BY <1>2, <1>6, BackMoves
    <2> QED BY <1>4, <2>1, MovesMore
  <1>7. CASE KindOf[j] # "port" /\ Clean(j, "cleanServices", "build")
    <2>1. Moves(j, {"cleanServices"})
      BY <1>2, <1>7, CleanMoves
    <2> QED BY <1>4, <2>1, MovesMore
  <1> QED BY <1>3, <1>5, <1>6, <1>7

LEMMA ServingOK ==
  ASSUME ConstantsOK, TypeInv, NEW j \in Jobs, Serving(j)
  PROVE  /\ TablesOK'
         /\ Moves(j, IF KindOf[j] = "migrate" THEN {"dropServices"} ELSE {"ok"})
  <1>1. TablesOK'
    BY Tables, TablesStay DEF Serving, ports, krb
  <1>2. loc[j].pc = "service"
        /\ IF KindOf[j] = "migrate" THEN Go(j, "dropServices") ELSE End(j, "ok")
    BY DEF Serving, At
  <1>3. CASE KindOf[j] = "migrate"
    <2>1. /\ "dropServices" \in PCs /\ "dropServices" \in PCsOf(KindOf[j])
          /\ "dropServices" # "remove"
      BY <1>3, StepsOf DEF PCs, Handing
    <2>2. NodeKnown(KindOf[j], loc[j].pc)
      BY <1>2, ServiceKnown
    <2>3. Moves(j, {"dropServices"})
      BY <1>2, <1>3, <2>1, <2>2, GoMoves
    <2> QED BY <1>1, <1>3, <2>3
  <1>4. CASE KindOf[j] # "migrate"
    <2>1. Moves(j, {"ok"})
      BY <1>2, <1>4, MakePlaces, EndMoves
    <2> QED BY <1>1, <1>4, <2>1
  <1> QED BY <1>3, <1>4

LEMMA SwallowMoves ==
  ASSUME TypeInv, NEW j \in Jobs, NEW q \in MakePCs, Swallow(j, q),
         KindOf[j] \in Creating, loc[j].pc \in MakePCs
  PROVE  Moves(j, {q})
  <1>1. PICK m : m = [loc[j] EXCEPT !.pc = q, !.hurt = TRUE]
    OBVIOUS
  <1>2. loc[j] \in Local /\ q \in PCs
    BY Memory, Known
  <1>3. m \in Local /\ m.pc = q /\ m.node = loc[j].node
    BY <1>1, <1>2 DEF Local
  <1>4. Set(j, m)
    BY <1>1 DEF Swallow
  <1> QED BY <1>3, <1>4, Known, StayMoves

LEMMA CleanServicesOK ==
  ASSUME ConstantsOK, TypeInv, NEW j \in Jobs, CleanServices(j)
  PROVE  TablesOK' /\ Moves(j, {"cleanRows"})
  <1>1. loc[j].pc = "cleanServices"
    BY DEF CleanServices, At
  <1>2. TablesOK'
    <2>1. svcs' \subseteq Svc /\ (Well \/ Failing)
      BY Tables DEF CleanServices, Swallow
    <2> QED BY <2>1, Tables, TablesStay DEF CleanServices, krb
  <1>3. Go(j, "cleanRows") \/ Swallow(j, "cleanRows")
    BY DEF CleanServices
  <1> QED BY <1>1, <1>2, <1>3, MakePlaces, Making, MakeGoes, SwallowMoves

LEMMA CleanRowsOK ==
  ASSUME ConstantsOK, TypeInv, NEW j \in Jobs, CleanRows(j)
  PROVE  TablesOK' /\ Moves(j, {"cleanPod"})
  <1>1. loc[j].pc = "cleanRows"
    BY DEF CleanRows, At
  <1>2. TablesOK'
    <2>1. rows' \subseteq Row /\ (Well \/ Failing)
      BY Tables DEF CleanRows, Swallow
    <2> QED BY <2>1, Tables, TablesStay DEF CleanRows, krb
  <1>3. Go(j, "cleanPod") \/ Swallow(j, "cleanPod")
    BY DEF CleanRows
  <1> QED BY <1>1, <1>2, <1>3, MakePlaces, Making, MakeGoes, SwallowMoves

\* what follows a clean-up
LEMMA OnwardMoves ==
  ASSUME ConstantsOK, TypeInv, NEW j \in Jobs, KindOf[j] \in Creating,
         loc[j].pc \in MakePCs, NEW l \in Local, l.node = loc[j].node, Onward(j, l)
  PROVE  Moves(j, {"build", "fail"})
  <1>1. CASE l.then = "build"
    <2>1. Again(j, l, "build")
      BY <1>1 DEF Onward
    <2> QED BY <2>1, RebuildMoves
  <1>2. CASE l.then # "build"
    <2>1. PICK m \in Local : m = Over(l, "fail")
      BY MakePlaces, OverOK
    <2>2. m.pc = "fail" /\ MemoryOK(j, m) /\ m.pc \in Final
      BY <2>1, MakePlaces, OverOK
    <2>3. Set(j, m)
      BY <1>2, <2>1 DEF Onward
    <2>4. Moves(j, {m.pc})
      BY <2>2, <2>3, SetMoves
    <2> QED BY <2>2, <2>4, MovesMore
  <1> QED BY <1>1, <1>2

\* the Pod of a creation that failed ends, or is left when its deletion fails
LEMMA CleanPodOK ==
  ASSUME ConstantsOK, TypeInv, NEW j \in Jobs, CleanPod(j)
  PROVE  TablesOK' /\ Moves(j, {"build", "fail"})
  <1>1. loc[j].pc = "cleanPod" /\ UNCHANGED <<mix, ports, krb, homes>>
        /\ (Well \/ Failing)
    BY DEF CleanPod, At
  <1>2. KindOf[j] \in Creating /\ loc[j].pc \in MakePCs /\ loc[j] \in Local
        /\ j \in PodNames
    BY <1>1, MakePlaces, Making
  <1>3. \/ pods[j].st = "up" /\ pods' = [pods EXCEPT ![j].st = "term"]
        \/ pods' = pods
    BY DEF CleanPod
  <1>4. TablesOK'
    BY <1>1, <1>2, <1>3, PodTypes, PodsChange
  <1>5. PICK l : l \in {loc[j], [loc[j] EXCEPT !.hurt = TRUE]} /\ Onward(j, l)
    BY DEF CleanPod
  <1>6. PICK h \in Local : h = [loc[j] EXCEPT !.hurt = TRUE] /\ h.node = loc[j].node
    BY <1>2, Hurt
  <1>7. l \in Local /\ l.node = loc[j].node
    BY <1>2, <1>5, <1>6
  <1> QED BY <1>2, <1>4, <1>5, <1>7, OnwardMoves

LEMMA CleanBlindOK ==
  ASSUME ConstantsOK, TypeInv, NEW j \in Jobs, CleanBlind(j)
  PROVE  TablesOK' /\ Moves(j, {"build", "fail"})
  <1>1. loc[j].pc = "cleanBlind"
    BY DEF CleanBlind, At
  <1>2. KindOf[j] \in Creating /\ loc[j].pc \in MakePCs /\ loc[j] \in Local
    BY <1>1, MakePlaces, Making
  <1>3. TablesOK'
    <2>1. rows' \subseteq Row /\ (Well \/ Failing)
      BY Tables DEF CleanBlind
    <2> QED BY <2>1, Tables, TablesStay DEF CleanBlind, krb
  <1>4. PICK l : l \in {loc[j], [loc[j] EXCEPT !.hurt = TRUE]} /\ Onward(j, l)
    BY DEF CleanBlind
  <1>5. PICK h \in Local : h = [loc[j] EXCEPT !.hurt = TRUE] /\ h.node = loc[j].node
    BY <1>2, Hurt
  <1>6. l \in Local /\ l.node = loc[j].node
    BY <1>2, <1>4, <1>5
  <1> QED BY <1>2, <1>3, <1>4, <1>6, OnwardMoves

\* a job that removes a Pod
LEMMA Dropping ==
  ASSUME ConstantsOK, TypeInv, NEW j \in Jobs, loc[j].pc \in Handing \cup {"gone"}
  PROVE  /\ KindOf[j] \in {"migrate", "revoke", "delete"}
         /\ loc[j].pc = "gone" => KindOf[j] # "migrate"
         /\ Target(j) \in PodNames /\ UserOf[Target(j)] = UserOf[j]
         /\ UserOf[j] \in Users /\ loc[j] \in Local
         /\ loc[j].from \in Nodes \cup {"none"}
  <1>1. KindOf[j] \in {"migrate", "revoke", "delete"}
        /\ (loc[j].pc = "gone" => KindOf[j] # "migrate")
    BY KindAt
  <1>2. Target(j) \in PodNames /\ UserOf[Target(j)] = UserOf[j]
    BY <1>1 DEF ConstantsOK, Targeting, Target, PodNames
  <1>3. loc[j] \in Local /\ UserOf[j] \in Users
    BY Memory
  <1>4. loc[j].from \in Nodes \cup {"none"}
    BY <1>3 DEF Local
  <1> QED BY <1>1, <1>2, <1>3, <1>4

LEMMA DropGoes ==
  ASSUME ConstantsOK, TypeInv, NEW j \in Jobs, loc[j].pc \in Handing \cup {"gone"},
         NEW q \in Handing, Go(j, q), q = "remove" => loc[j].from \in Nodes
  PROVE  Moves(j, {q})
  <1>1. KindOf[j] \in {"migrate", "revoke", "delete"}
        /\ (loc[j].pc = "gone" => KindOf[j] # "migrate")
    BY Dropping
  <1>2. q \in PCsOf(KindOf[j]) /\ q \in PCs
    BY <1>1, StepsOf DEF Handing, PCs
  <1>3. NodeKnown(KindOf[j], q) => NodeKnown(KindOf[j], loc[j].pc)
    BY <1>1 DEF NodeKnown, Creating
  <1> QED BY <1>2, <1>3, GoMoves

LEMMA DropTrips ==
  ASSUME ConstantsOK, TypeInv, NEW j \in Jobs, loc[j].pc \in Handing \cup {"gone"},
         NEW q \in Handing, q # "remove", Trip(j, q)
  PROVE  Moves(j, IF KindOf[j] = "migrate" THEN {"ok"} ELSE {q, "fail"})
  <1>1. KindOf[j] \in {"migrate", "revoke", "delete"}
    BY Dropping
  <1>2. q \in PCsOf(KindOf[j]) /\ q \in PCs
    BY <1>1, StepsOf DEF Handing, PCs
  <1> QED BY <1>1, <1>2, TripMoves

LEMMA DropPlaces ==
  {"dropServices", "dropRows", "dropPod", "keys", "remove"} \subseteq Handing
  BY DEF Handing

LEMMA DropServicesOK ==
  ASSUME ConstantsOK, TypeInv, NEW j \in Jobs, DropServices(j)
  PROVE  TablesOK' /\ Moves(j, {"dropServices", "dropRows", "ok", "fail"})
  <1>1. loc[j].pc = "dropServices"
    BY DEF DropServices, At
  <1>2. TablesOK'
    <2>1. svcs' \subseteq Svc /\ (Well \/ Failing)
      BY Tables DEF DropServices
    <2> QED BY <2>1, Tables, TablesStay DEF DropServices, krb
  <1>3. CASE Go(j, "dropRows")
    <2>1. Moves(j, {"dropRows"})
      BY <1>1, <1>3, DropPlaces, DropGoes
    <2> QED BY <1>2, <2>1, MovesMore
  <1>4. CASE Trip(j, "dropServices")
    <2>1. Moves(j, IF KindOf[j] = "migrate" THEN {"ok"} ELSE {"dropServices", "fail"})
      BY <1>1, <1>4, DropPlaces, DropTrips
    <2> QED BY <1>2, <2>1, MovesMore
  <1> QED BY <1>3, <1>4 DEF DropServices

LEMMA DropRowsOK ==
  ASSUME ConstantsOK, TypeInv, NEW j \in Jobs, DropRows(j)
  PROVE  TablesOK' /\ Moves(j, {"dropRows", "dropPod", "ok", "fail"})
  <1>1. loc[j].pc = "dropRows"
    BY DEF DropRows, At
  <1>2. TablesOK'
    <2>1. rows' \subseteq Row /\ (Well \/ Failing)
      BY Tables DEF DropRows
    <2> QED BY <2>1, Tables, TablesStay DEF DropRows, krb
  <1>3. CASE Go(j, "dropPod")
    <2>1. Moves(j, {"dropPod"})
      BY <1>1, <1>3, DropPlaces, DropGoes
    <2> QED BY <1>2, <2>1, MovesMore
  <1>4. CASE Trip(j, "dropRows")
    <2>1. Moves(j, IF KindOf[j] = "migrate" THEN {"ok"} ELSE {"dropRows", "fail"})
      BY <1>1, <1>4, DropPlaces, DropTrips
    <2> QED BY <1>2, <2>1, MovesMore
  <1> QED BY <1>3, <1>4 DEF DropRows

\* the node of the Pod is noted when its deletion was asked for
LEMMA GoneMoves ==
  ASSUME ConstantsOK, TypeInv, NEW j \in Jobs, loc[j].pc = "dropPod",
         KindOf[j] # "migrate", NEW f \in Nodes \cup {"none"},
         Set(j, [loc[j] EXCEPT !.pc = "gone", !.from = f])
  PROVE  Moves(j, {"gone"}) /\ loc'[j].from = f
  <1>1. PICK m : m = [loc[j] EXCEPT !.pc = "gone", !.from = f]
    OBVIOUS
  <1>2. loc[j] \in Local /\ KindOf[j] \in {"revoke", "delete"} /\ loc \in [Jobs -> Local]
    BY Dropping, DropPlaces DEF TypeInv, TypeOK
  <1>3. "gone" \in PCs /\ "gone" \in PCsOf(KindOf[j]) /\ ~NodeKnown(KindOf[j], "gone")
    BY <1>2, StepsOf DEF PCs, NodeKnown, Creating
  <1>4. m \in Local /\ m.pc = "gone" /\ m.node = loc[j].node /\ m.from = f
    BY <1>1, <1>2, <1>3 DEF Local
  <1>5. Set(j, m)
    BY <1>1
  <1>6. loc'[j] = m
    BY <1>2, <1>5 DEF Set
  <1>7. Moves(j, {m.pc})
    BY <1>3, <1>4, <1>5, StayMoves
  <1> QED BY <1>4, <1>6, <1>7

LEMMA DropPodOK ==
  ASSUME ConstantsOK, TypeInv, NEW j \in Jobs, DropPod(j)
  PROVE  TablesOK' /\ Moves(j, {"keys", "ok", "gone", "dropPod", "fail"})
  <1> DEFINE S == {"keys", "ok", "gone", "dropPod", "fail"}
  <1>1. loc[j].pc = "dropPod" /\ UNCHANGED <<mix, ports, krb, homes>>
        /\ (Well \/ Failing)
    BY DEF DropPod, At
  <1>2. Target(j) \in PodNames /\ loc[j].pc \in Handing \cup {"gone"}
    BY <1>1, DropPlaces, Dropping
  <1>3. \/ pods[Target(j)].st = "up" /\ pods' = [pods EXCEPT ![Target(j)].st = "term"]
        \/ pods' = pods
    BY DEF DropPod
  <1>4. TablesOK'
    BY <1>1, <1>2, <1>3, PodTypes, PodsChange
  <1>5. CASE Go(j, "keys")
    <2>1. Moves(j, {"keys"})
      BY <1>2, <1>5, DropPlaces, DropGoes
    <2> QED BY <1>4, <2>1, MovesMore
  <1>6. CASE End(j, "ok")
    <2>1. Moves(j, {"ok"})
      BY <1>6, MakePlaces, EndMoves
    <2> QED BY <1>4, <2>1, MovesMore
  <1>7. ASSUME KindOf[j] # "migrate", NEW f \in Nodes \cup {"none"},
               Set(j, [loc[j] EXCEPT !.pc = "gone", !.from = f])
        PROVE  Moves(j, S)
    <2>1. Moves(j, {"gone"})
      BY <1>1, <1>7, GoneMoves
    <2> QED BY <2>1, MovesMore
  <1>8. CASE Trip(j, "dropPod")
    <2>1. Moves(j, IF KindOf[j] = "migrate" THEN {"ok"} ELSE {"dropPod", "fail"})
      BY <1>2, <1>8, DropPlaces, DropTrips
    <2> QED BY <1>4, <2>1, MovesMore
  <1>9. PICK n \in Nodes \cup {"none"} : n = pods[Target(j)].node
    BY <1>2 DEF TypeInv, TypeOK
  <1>10. \/ Go(j, "keys") \/ End(j, "ok") \/ Trip(j, "dropPod")
         \/ \E f \in {n, "none"} : /\ KindOf[j] # "migrate"
                                   /\ Set(j, [loc[j] EXCEPT !.pc = "gone", !.from = f])
    BY <1>9 DEF DropPod
  <1> QED BY <1>4, <1>5, <1>6, <1>7, <1>8, <1>10

LEMMA GoneOK ==
  ASSUME ConstantsOK, TypeInv, NEW j \in Jobs, Gone(j)
  PROVE  TablesOK' /\ Moves(j, {"keys", "ok", "dropPod", "fail"})
  <1>1. loc[j].pc = "gone" /\ (Go(j, "keys") \/ Trip(j, "dropPod"))
    BY DEF Gone, At
  <1>2. TablesOK'
    BY Tables, TablesStay DEF Gone, ports, krb
  <1>3. CASE Go(j, "keys")
    <2>1. Moves(j, {"keys"})
      BY <1>1, <1>3, DropPlaces, DropGoes
    <2> QED BY <1>2, <2>1, MovesMore
  <1>4. CASE Trip(j, "dropPod")
    <2>1. Moves(j, IF KindOf[j] = "migrate" THEN {"ok"} ELSE {"dropPod", "fail"})
      BY <1>1, <1>4, DropPlaces, DropTrips
    <2> QED BY <1>2, <2>1, MovesMore
  <1> QED BY <1>1, <1>3, <1>4

LEMMA KeysOK ==
  ASSUME ConstantsOK, TypeInv, NEW j \in Jobs, Keys(j)
  PROVE  TablesOK' /\ Moves(j, {"remove", "ok"})
  <1>1. loc[j].pc = "keys" /\ (Go(j, "remove") \/ End(j, "ok"))
        /\ (Go(j, "remove") => loc[j].from # "none" \/ End(j, "ok"))
    BY DEF Keys, At
  <1>2. loc[j].from \in Nodes \cup {"none"}
    BY <1>1, DropPlaces, Dropping
  <1>3. TablesOK'
    <2>1. unseen' \subseteq Missed
      BY Tables DEF Keys, Coming, Missed
    <2>2. Well \/ Failing
      BY DEF Keys
    <2> QED BY <2>1, <2>2, Tables, TablesStay DEF Keys, ports
  <1>4. CASE End(j, "ok")
    <2>1. Moves(j, {"ok"})
      BY <1>4, MakePlaces, EndMoves
    <2> QED BY <1>3, <2>1, MovesMore
  <1>5. CASE Go(j, "remove") /\ loc[j].from \in Nodes
    <2>1. Moves(j, {"remove"})
      BY <1>1, <1>5, DropPlaces, DropGoes
    <2> QED BY <1>3, <2>1, MovesMore
  <1> QED BY <1>1, <1>2, <1>4, <1>5

LEMMA RemoveKeytabOK ==
  ASSUME ConstantsOK, TypeInv, NEW j \in Jobs, RemoveKeytab(j)
  PROVE  TablesOK' /\ Moves(j, {"ok"})
  <1>1. loc[j].pc = "remove" /\ End(j, "ok")
    BY DEF RemoveKeytab, At
  <1>2. UserOf[j] \in Users /\ loc[j].from \in Nodes
    BY <1>1, Memory DEF MemoryOK
  <1>3. TablesOK'
    <2>1. keytabs' \subseteq Where /\ pending' \subseteq Where
      BY <1>2, Tables DEF RemoveKeytab, Recorded, Where
    <2> QED BY <2>1, Tables, TablesStay DEF RemoveKeytab, ports
  <1> QED BY <1>1, <1>3, MakePlaces, EndMoves

LEMMA PortPlaces ==
  /\ {"list", "dropPort", "fill", "reconcile", "service"} \subseteq PortPCs \ {"read"}
  /\ "read" \in PortPCs
  BY DEF PortPCs

\* a job that changes ports
LEMMA Changing ==
  ASSUME ConstantsOK, TypeInv, NEW j \in Jobs,
         loc[j].pc \in {"read", "list", "dropPort", "fill"}
  PROVE  /\ KindOf[j] = "port" /\ KindOf[j] \in Creating \cup {"port"}
         /\ loc[j] \in Local /\ Target(j) \in PodNames
         /\ loc[j].pc # "read" => NodeKnown(KindOf[j], loc[j].pc)
  <1>1. KindOf[j] = "port" /\ loc[j].pc \in PortPCs
    BY KindAt DEF PortPCs
  <1> QED BY <1>1, Memory, Known DEF ConstantsOK, Targeting, Target, PodNames

\* the only step at which the worker gets to know another node
LEMMA ReadPodOK ==
  ASSUME ConstantsOK, TypeInv, NEW j \in Jobs, ReadPod(j)
  PROVE  /\ TablesOK' /\ loc' \in [Jobs -> Local]
         /\ \A i \in Jobs \ {j} : loc'[i] = loc[i]
         /\ loc'[j].pc \in {"list", "fail"} /\ MemoryOK(j, loc'[j])
  <1> DEFINE t == Target(j)
             extra == {r.iport : r \in RowsOf(t)} \ Base
             drop == extra \ Wanted[j]
             add == Wanted[j] \ extra
             m == [loc[j] EXCEPT !.pc = "list", !.node = pods[t].node,
                                 !.drop = drop, !.add = add]
  <1>1. loc[j].pc = "read"
    BY DEF ReadPod, At
  <1>2. KindOf[j] = "port" /\ loc[j] \in Local /\ t \in PodNames
    BY <1>1, Changing
  <1>3. TablesOK'
    BY Tables, TablesStay DEF ReadPod, ports, krb
  <1>4. CASE End(j, "fail")
    <2>1. Moves(j, {"fail"})
      BY <1>4, MakePlaces, EndMoves
    <2> QED BY <1>3, <2>1 DEF Moves
  <1>5. CASE pods[t].st = "up" /\ Set(j, m)
    <2>1. pods[t].node \in Nodes /\ loc \in [Jobs -> Local]
      BY <1>2, <1>5 DEF TypeInv, TypeOK, PodsPlaced
    <2>2. drop \in SUBSET InPorts
      <3>1. RowsOf(t) \subseteq Row
        BY Tables DEF RowsOf
      <3>2. \A r \in RowsOf(t) : r.iport \in InPorts
        BY <3>1 DEF Row
      <3> QED BY <3>2
    <2>3. add \in SUBSET InPorts
      <3>1. Wanted[j] \subseteq InPorts
        BY <1>2 DEF ConstantsOK, InPorts
      <3> QED BY <3>1
    <2>4. "list" \in PCs /\ "list" \in PCsOf(KindOf[j]) /\ "list" # "remove"
      BY <1>2, PortPlaces, Known
    <2> HIDE DEF drop, add
    <2>5. m \in Local /\ m.pc = "list" /\ m.node \in Nodes
      BY <1>2, <2>1, <2>2, <2>3, <2>4 DEF Local
    <2>6. loc' = [loc EXCEPT ![j] = m]
      BY <1>5 DEF Set
    <2> HIDE DEF m
    <2>7. MemoryOK(j, m)
      BY <2>4, <2>5 DEF MemoryOK
    <2> QED BY <1>3, <2>1, <2>5, <2>6, <2>7
  <1> QED BY <1>4, <1>5 DEF ReadPod

LEMMA ListServicesOK ==
  ASSUME ConstantsOK, TypeInv, NEW j \in Jobs, ListServices(j)
  PROVE  TablesOK' /\ Moves(j, {"dropPort"})
  <1> DEFINE open == {s.iport : s \in SvcsOf(Target(j))}
             close == Pairs({s \in SvcsOf(Target(j)) : s.iport \in loc[j].drop})
  <1>1. TablesOK'
    BY Tables, TablesStay DEF ListServices, ports, krb
  <1>2. open \in SUBSET InPorts /\ close \in SUBSET Pair
    BY Tables DEF SvcsOf, Svc, Pairs, Pair
  <1>3. PICK m : m = [loc[j] EXCEPT !.pc = "dropPort", !.open = open, !.ports = close]
    OBVIOUS
  <1>4. loc[j].pc = "list" /\ Set(j, m)
    BY <1>3 DEF ListServices, At
  <1>5. KindOf[j] = "port" /\ loc[j] \in Local /\ NodeKnown(KindOf[j], loc[j].pc)
    BY <1>4, Changing
  <1>6. "dropPort" \in PCs /\ "dropPort" \in PCsOf(KindOf[j]) /\ "dropPort" # "remove"
    BY <1>5, PortPlaces, Known
  <1> HIDE DEF open, close
  <1>7. m \in Local /\ m.pc = "dropPort" /\ m.node = loc[j].node
    BY <1>2, <1>3, <1>5, <1>6 DEF Local
  <1> QED BY <1>1, <1>4, <1>5, <1>6, <1>7, StayMoves

LEMMA DropPortOK ==
  ASSUME ConstantsOK, TypeInv, NEW j \in Jobs, DropPort(j)
  PROVE  TablesOK' /\ Moves(j, {"dropPort", "read", "fail"})
  <1>1. loc[j].pc = "dropPort" /\ UNCHANGED <<mix, rows, aged, pods, krb, homes>>
    BY DEF DropPort, At
  <1>2. KindOf[j] = "port" /\ loc[j] \in Local /\ NodeKnown(KindOf[j], loc[j].pc)
    BY <1>1, Changing
  <1>3. PICK x \in loc[j].ports :
          /\ svcs' \subseteq svcs /\ (Well \/ Failing)
          /\ \/ Again(j, loc[j], "read")
             \/ Set(j, [loc[j] EXCEPT !.ports = @ \ {x}])
    BY DEF DropPort
  <1>4. TablesOK'
    <2>1. svcs' \subseteq Svc
      BY <1>3, Tables
    <2> QED BY <1>1, <1>3, <2>1, Tables, TablesStay DEF krb
  <1>5. CASE Again(j, loc[j], "read")
    <2>1. Moves(j, {"read", "fail"})
      BY <1>2, <1>5, BackMoves
    <2> QED BY <1>4, <2>1, MovesMore
  <1>6. CASE Set(j, [loc[j] EXCEPT !.ports = @ \ {x}])
    <2>1. Moves(j, {"dropPort"})
      BY <1>1, <1>6, LessPorts
    <2> QED BY <1>4, <2>1, MovesMore
  <1> QED BY <1>3, <1>5, <1>6

LEMMA DropPortRowOK ==
  ASSUME ConstantsOK, TypeInv, NEW j \in Jobs, DropPortRow(j)
  PROVE  TablesOK' /\ Moves(j, {"reconcile", "fill", "read", "fail"})
  <1>1. loc[j].pc = "dropPort"
    BY DEF DropPortRow, At
  <1>2. KindOf[j] = "port" /\ loc[j] \in Local /\ NodeKnown(KindOf[j], loc[j].pc)
    BY <1>1, Changing
  <1>3. TablesOK'
    <2>1. rows' \subseteq Row /\ (Well \/ Failing)
      BY Tables DEF DropPortRow
    <2> QED BY <2>1, Tables, TablesStay DEF DropPortRow, krb
  <1>4. ASSUME NEW q \in {"reconcile", "fill"}, Go(j, q)
        PROVE  Moves(j, {"reconcile", "fill", "read", "fail"})
    <2>1. q \in PortPCs \ {"read"}
      BY PortPlaces
    <2>2. Moves(j, {q})
      BY <1>2, <1>4, <2>1, Known, GoMoves
    <2> QED BY <2>2, MovesMore
  <1>5. CASE Again(j, loc[j], "read")
    <2>1. Moves(j, {"read", "fail"})
      BY <1>2, <1>5, BackMoves
    <2> QED BY <1>3, <2>1, MovesMore
  <1>6. CASE Go(j, IF loc[j].add # {} THEN "reconcile" ELSE "fill")
    BY <1>3, <1>4, <1>6
  <1> QED BY <1>5, <1>6 DEF DropPortRow

LEMMA FillOK ==
  ASSUME ConstantsOK, TypeInv, NEW j \in Jobs, Fill(j)
  PROVE  TablesOK' /\ Moves(j, {"service"})
  <1> DEFINE left == Pairs({r \in RowsOf(Target(j)) : r.iport \in Wanted[j] \ loc[j].open})
  <1>1. TablesOK'
    BY Tables, TablesStay DEF Fill, ports, krb
  <1>2. left \in SUBSET Pair
    BY Tables DEF RowsOf, Row, Pairs, Pair
  <1>3. PICK m : m = [loc[j] EXCEPT !.pc = "service", !.ports = left]
    OBVIOUS
  <1>4. loc[j].pc = "fill" /\ Set(j, m)
    BY <1>3 DEF Fill, At
  <1>5. KindOf[j] = "port" /\ loc[j] \in Local /\ NodeKnown(KindOf[j], loc[j].pc)
    BY <1>4, Changing
  <1>6. "service" \in PCs /\ "service" \in PCsOf(KindOf[j]) /\ "service" # "remove"
    BY <1>5, PortPlaces, Known
  <1> HIDE DEF left
  <1>7. m \in Local /\ m.pc = "service" /\ m.node = loc[j].node
    BY <1>2, <1>3, <1>5, <1>6 DEF Local
  <1> QED BY <1>1, <1>4, <1>5, <1>6, <1>7, StayMoves

\* a job that deletes a home
LEMMA Deleting ==
  ASSUME TypeInv, NEW j \in Jobs, loc[j].pc \in {"homePods", "homeJobs", "homeDelete"}
  PROVE  /\ KindOf[j] = "home" /\ loc[j] \in Local
         /\ \A q \in {"homePods", "homeJobs", "homeDelete"} :
              q \in PCs /\ q \in PCsOf(KindOf[j]) /\ ~NodeKnown(KindOf[j], q)
  <1>1. KindOf[j] = "home"
    BY KindAt
  <1> QED BY <1>1, Memory, StepsOf DEF PCs, NodeKnown, Creating

LEMMA HomePodsOK ==
  ASSUME ConstantsOK, TypeInv, NEW j \in Jobs, HomePods(j)
  PROVE  TablesOK' /\ Moves(j, {"homeJobs", "fail"})
  <1>1. loc[j].pc = "homePods" /\ (Go(j, "homeJobs") \/ End(j, "fail"))
    BY DEF HomePods, At
  <1>2. TablesOK'
    BY Tables, TablesStay DEF HomePods, ports, krb
  <1>3. CASE Go(j, "homeJobs")
    <2>1. Moves(j, {"homeJobs"})
      BY <1>1, <1>3, Deleting, GoMoves
    <2> QED BY <1>2, <2>1, MovesMore
  <1>4. CASE End(j, "fail")
    <2>1. Moves(j, {"fail"})
      BY <1>4, MakePlaces, EndMoves
    <2> QED BY <1>2, <2>1, MovesMore
  <1> QED BY <1>1, <1>3, <1>4

LEMMA HomeJobsOK ==
  ASSUME ConstantsOK, TypeInv, NEW j \in Jobs, HomeJobs(j)
  PROVE  TablesOK' /\ Moves(j, {"homeDelete", "fail"})
  <1>1. loc[j].pc = "homeJobs" /\ (Go(j, "homeDelete") \/ End(j, "fail"))
    BY DEF HomeJobs, HomeUnused, At
  <1>2. TablesOK'
    <2>1. unseen' \subseteq Missed
      BY Tables DEF HomeJobs, HomeUnused, Missed
    <2> QED BY <2>1, Tables, TablesStay DEF HomeJobs, ports
  <1>3. CASE Go(j, "homeDelete")
    <2>1. Moves(j, {"homeDelete"})
      BY <1>1, <1>3, Deleting, GoMoves
    <2> QED BY <1>2, <2>1, MovesMore
  <1>4. CASE End(j, "fail")
    <2>1. Moves(j, {"fail"})
      BY <1>4, MakePlaces, EndMoves
    <2> QED BY <1>2, <2>1, MovesMore
  <1> QED BY <1>1, <1>3, <1>4

LEMMA HomeDeleteOK ==
  ASSUME ConstantsOK, TypeInv, NEW j \in Jobs, HomeDelete(j)
  PROVE  TablesOK' /\ Moves(j, {"homePods", "ok", "fail"})
  <1>1. loc[j].pc = "homeDelete" /\ (Again(j, loc[j], "homePods") \/ End(j, "ok"))
    BY DEF HomeDelete, At
  <1>2. TablesOK'
    <2>1. homes' \subseteq Users /\ (Well \/ Failing)
      BY Tables DEF HomeDelete
    <2> QED BY <2>1, Tables, TablesStay DEF HomeDelete, ports, krb
  <1>3. CASE Again(j, loc[j], "homePods")
    <2>1. Moves(j, {"homePods", "fail"})
      BY <1>1, <1>3, Deleting, AgainMoves
    <2> QED BY <1>2, <2>1, MovesMore
  <1>4. CASE End(j, "ok")
    <2>1. Moves(j, {"ok"})
      BY <1>4, MakePlaces, EndMoves
    <2> QED BY <1>2, <2>1, MovesMore
  <1> QED BY <1>1, <1>3, <1>4

\* where a resumed job goes on
LEMMA ResumedAt ==
  ASSUME ConstantsOK, TypeInv, NEW j \in Jobs, Running(j)
  PROVE  /\ ResumeAt(j) \in PCs /\ ResumeAt(j) \in PCsOf(KindOf[j])
         /\ ResumeAt(j) \in {"home", "node", "build", "read", "homePods", "dropServices",
                            "dropRows", "dropPod", "keys"}
         /\ NodeKnown(KindOf[j], ResumeAt(j)) => NodeKnown(KindOf[j], loc[j].pc)
         /\ ResumeAt(j) \in {"home", "node"} => loc[j].pc = ResumeAt(j)
         /\ ResumeAt(j) = "build" => KindOf[j] \in Creating /\ loc[j].pc \in MakePCs
         /\ ResumeAt(j) \in Handing => loc[j].pc \in Handing \cup {"gone"}
  <1>1. loc[j].pc \in PCsOf(KindOf[j]) /\ KindOf[j] \in Kinds
    BY Memory DEF MemoryOK, ConstantsOK
  <1>2. loc[j].pc \notin {"new", "ok", "fail"}
    BY DEF Running, Final
  <1>3. CASE KindOf[j] \in {"port", "home"}
    <2>1. ResumeAt(j) = IF KindOf[j] = "port" THEN "read" ELSE "homePods"
      <3>1. loc[j].pc \in PortPCs \cup {"homePods", "homeJobs", "homeDelete"}
        BY <1>1, <1>2, <1>3 DEF PCsOf
      <3>2. loc[j].pc \notin {"home", "node", "dropServices", "dropRows", "keys",
                              "dropPod", "gone", "remove"}
        BY <3>1 DEF PortPCs
      <3> QED BY <1>3, <3>2 DEF ResumeAt, First
    <2>2. ~NodeKnown(KindOf[j], ResumeAt(j))
      BY <1>3, <2>1 DEF NodeKnown, Creating
    <2>3. ResumeAt(j) \in PCs /\ ResumeAt(j) \in PCsOf(KindOf[j])
      BY <1>3, <2>1, StepsOf DEF PCs, PortPCs
    <2> QED BY <2>1, <2>2, <2>3 DEF Handing
  <1>4. CASE KindOf[j] \in {"revoke", "delete"}
    <2>1. loc[j].pc \in {"gone"} \cup Handing
      BY <1>1, <1>2, <1>4 DEF PCsOf, Creating
    <2>2. ResumeAt(j) \in {"dropServices", "dropRows", "dropPod", "keys"}
      BY <1>4, <2>1 DEF ResumeAt, Handing
    <2>3. ~NodeKnown(KindOf[j], ResumeAt(j))
      BY <1>4 DEF NodeKnown, Creating
    <2>4. ResumeAt(j) \in PCs /\ ResumeAt(j) \in PCsOf(KindOf[j])
      BY <1>4, <2>2, StepsOf DEF PCs, Handing
    <2> QED BY <2>1, <2>2, <2>3, <2>4
  <1>5. CASE KindOf[j] = "migrate"
    <2>1. loc[j].pc \in {"node"} \cup MakePCs \cup Handing
      BY <1>1, <1>2, <1>5 DEF PCsOf
    <2>2. CASE loc[j].pc = "node"
      <3>1. ResumeAt(j) = loc[j].pc
        BY <1>5, <2>2 DEF ResumeAt, Handing
      <3>2. ResumeAt(j) \in PCs /\ ResumeAt(j) \notin Handing /\ ResumeAt(j) # "build"
        BY <2>2, <3>1 DEF PCs, Handing
      <3>3. ResumeAt(j) \in PCsOf(KindOf[j])
        BY <1>1, <3>1
      <3> QED BY <2>2, <3>1, <3>2, <3>3
    <2>3. CASE loc[j].pc \in Handing
      <3>1. ResumeAt(j) = "dropServices"
        BY <1>5, <2>3 DEF ResumeAt
      <3>2. NodeKnown(KindOf[j], loc[j].pc)
        BY <1>5, <2>3 DEF NodeKnown, Creating
      <3> QED BY <1>5, <2>3, <3>1, <3>2, StepsOf DEF PCs, Handing
    <2>4. CASE loc[j].pc \in MakePCs
      <3>0. loc[j].pc \notin Handing \cup {"home", "node", "gone"}
        BY <2>4 DEF MakePCs, Handing
      <3>1. ResumeAt(j) = "build"
        BY <1>5, <3>0 DEF ResumeAt, Handing
      <3>2. KindOf[j] \in Creating /\ "build" \in MakePCs /\ "build" \notin Handing
        BY <1>5 DEF Creating, MakePCs, Handing
      <3> QED BY <2>4, <3>1, <3>2, Known
    <2> QED BY <2>1, <2>2, <2>3, <2>4
  <1>6. CASE KindOf[j] = "provision"
    <2>1. loc[j].pc \in {"home", "node"} \cup MakePCs
      BY <1>1, <1>2, <1>6 DEF PCsOf
    <2>2. CASE loc[j].pc \in {"home", "node"}
      <3>1. ResumeAt(j) = loc[j].pc
        BY <1>6, <2>2 DEF ResumeAt
      <3> QED BY <1>1, <2>2, <3>1 DEF PCs, Handing
    <2>3. CASE loc[j].pc \in MakePCs
      <3>1. ResumeAt(j) = "build"
        BY <1>6, <2>3 DEF ResumeAt, MakePCs
      <3>2. KindOf[j] \in Creating /\ "build" \in MakePCs /\ "build" \notin Handing
        BY <1>6 DEF Creating, MakePCs, Handing
      <3> QED BY <2>3, <3>1, <3>2, Known
    <2> QED BY <2>1, <2>2, <2>3
  <1> QED BY <1>1, <1>3, <1>4, <1>5, <1>6 DEF Kinds

LEMMA CrashOK ==
  ASSUME ConstantsOK, TypeInv, NEW j \in Jobs, Crash(j)
  PROVE  TablesOK' /\ Moves(j, {ResumeAt(j), "fail"})
  <1>1. Running(j) /\ UNCHANGED <<mix, rows, aged, pods, krb, homes, faults>>
        /\ svcs' \subseteq svcs /\ crashes < MaxCrashes /\ crashes' = crashes + 1
    BY DEF Crash, CannotGoOn, Resumed
  <1>2. TablesOK'
    <2>1. crashes' \in 0..MaxCrashes
      BY <1>1 DEF TypeInv, TypeOK, ConstantsOK
    <2> QED BY <1>1, <2>1 DEF TypeInv, TypeOK, TablesOK, PodsPlaced, krb
  <1>3. loc[j] \in Local /\ Blank \in Local
    BY Memory, BlankLocal
  <1>4. CASE Set(j, [Over(loc[j], "fail") EXCEPT !.hurt = TRUE])
    <2>1. PICK o \in Local : o = Over(loc[j], "fail")
      BY <1>3, MakePlaces, OverOK
    <2>2. PICK m : m = [o EXCEPT !.hurt = TRUE]
      OBVIOUS
    <2>3. o.pc = "fail"
      BY <1>3, <2>1, MakePlaces, OverOK
    <2>4. m \in Local /\ m.pc = "fail"
      BY <2>2, <2>3 DEF Local
    <2>5. Set(j, m)
      BY <1>4, <2>1, <2>2
    <2>6. MemoryOK(j, m)
      BY <2>4, StepsOf DEF MemoryOK, NodeKnown, MakePCs, Handing, PortPCs
    <2>7. Moves(j, {m.pc})
      BY <2>4, <2>5, <2>6, MakePlaces, SetMoves
    <2> QED BY <1>2, <2>4, <2>7, MovesMore
  <1>5. CASE Set(j, [Blank EXCEPT !.pc = ResumeAt(j), !.node = loc[j].node,
                                  !.from = loc[j].from, !.made = loc[j].made,
                                  !.hurt = loc[j].hurt \/ Unrecorded(j)])
    <2>1. PICK m : m = [Blank EXCEPT !.pc = ResumeAt(j), !.node = loc[j].node,
                                  !.from = loc[j].from, !.made = loc[j].made,
                                  !.hurt = loc[j].hurt \/ Unrecorded(j)]
      OBVIOUS
    <2>2. /\ ResumeAt(j) \in PCs /\ ResumeAt(j) \in PCsOf(KindOf[j]) /\ ResumeAt(j) # "remove"
          /\ NodeKnown(KindOf[j], ResumeAt(j)) => NodeKnown(KindOf[j], loc[j].pc)
      BY <1>1, ResumedAt
    <2>3. m \in Local /\ m.pc = ResumeAt(j) /\ m.node = loc[j].node
      BY <1>3, <2>1, <2>2 DEF Local
    <2>4. Set(j, m)
      BY <1>5, <2>1
    <2>5. Moves(j, {m.pc})
      BY <2>2, <2>3, <2>4, StayMoves
    <2> QED BY <1>2, <2>3, <2>5, MovesMore
  <1> QED BY <1>4, <1>5 DEF Crash, CannotGoOn, Resumed

\* the actions of no job: the memories stay
LEMMA StayTypes ==
  ASSUME TypeInv, UNCHANGED loc, TablesOK' PROVE TypeInv'
  BY DEF TypeInv, TypeOK, TablesOK, Memories, MemoryOK

LEMMA CronTypes ==
  ASSUME ConstantsOK, TypeInv,
         CronList \/ CronClaim \/ CronCheck \/ CronRemove \/ CronDone \/ CronDies
  PROVE  TablesOK' /\ UNCHANGED loc
  <1> DEFINE CronType == [pc: {"idle", "next", "check", "remove"},
                          todo: SUBSET Where, of: SUBSET Where]
  <1>1. cron \in CronType /\ pending \subseteq Where /\ keytabs \subseteq Where
    BY DEF TypeInv, TypeOK
  <1>2. ASSUME cron' \in CronType, pending' \subseteq Where, keytabs' \subseteq Where,
               crashes' \in 0..MaxCrashes, faults' \in 0..MaxFaults,
               UNCHANGED <<mix, ports, pods, unseen, homes, loc>>
        PROVE  TablesOK' /\ UNCHANGED loc
    BY <1>2 DEF TypeInv, TypeOK, TablesOK, PodsPlaced, ports
  <1>3. CASE CronList
    <2>1. cron' \in CronType
      BY <1>1, <1>3 DEF CronList
    <2>2. crashes' \in 0..MaxCrashes /\ faults' \in 0..MaxFaults
      BY <1>3, CountsOK DEF CronList, TypeInv
    <2> QED BY <1>1, <1>2, <1>3, <2>1, <2>2 DEF CronList
  <1>4. CASE CronClaim
    <2>1. PICK k : /\ k = (CHOOSE x \in cron.todo : TRUE)
                   /\ pending' = pending \ {k}
                   /\ cron' = [cron EXCEPT !.todo = @ \ {k},
                                !.pc = IF k \in pending THEN "check" ELSE "next",
                                !.of = IF k \in pending THEN {k} ELSE {}]
      BY <1>4 DEF CronClaim
    <2>2. cron.todo # {} /\ cron.todo \in SUBSET Where
      BY <1>1, <1>4 DEF CronClaim
    <2>3. k \in Where /\ cron.todo \ {k} \in SUBSET Where
      BY <2>1, <2>2
    <2>4. cron' \in CronType
      BY <1>1, <2>1, <2>3
    <2>5. crashes' \in 0..MaxCrashes /\ faults' \in 0..MaxFaults
      BY <1>4, CountsOK DEF CronClaim, TypeInv
    <2> QED BY <1>1, <1>2, <1>4, <2>1, <2>4, <2>5 DEF CronClaim
  <1>5. CASE CronCheck
    <2>1. /\ \/ cron' = [cron EXCEPT !.pc = "next"]
             \/ cron' = [cron EXCEPT !.pc = "remove"]
          /\ (Well \/ Failing)
      BY <1>5 DEF CronCheck
    <2>2. cron' \in CronType
      BY <1>1, <2>1
    <2>3. pending' \subseteq Where
      BY <1>1, <1>5 DEF CronCheck, Recorded
    <2>4. crashes' \in 0..MaxCrashes /\ faults' \in 0..MaxFaults
      BY <2>1, CountsOK DEF TypeInv
    <2> QED BY <1>1, <1>2, <1>5, <2>2, <2>3, <2>4 DEF CronCheck
  <1>6. CASE CronRemove
    <2>1. cron' \in CronType
      BY <1>1, <1>6 DEF CronRemove
    <2>2. pending' \subseteq Where /\ keytabs' \subseteq Where /\ (Well \/ Failing)
      BY <1>1, <1>6 DEF CronRemove, Recorded
    <2>3. crashes' \in 0..MaxCrashes /\ faults' \in 0..MaxFaults
      BY <2>2, CountsOK DEF TypeInv
    <2> QED BY <1>2, <1>6, <2>1, <2>2, <2>3 DEF CronRemove
  <1>7. CASE CronDone
    <2>1. cron' \in CronType
      BY <1>7 DEF CronDone
    <2>2. crashes' \in 0..MaxCrashes /\ faults' \in 0..MaxFaults
      BY <1>7, CountsOK DEF CronDone, TypeInv
    <2> QED BY <1>1, <1>2, <1>7, <2>1, <2>2 DEF CronDone
  <1>8. CASE CronDies
    <2>1. cron' \in CronType
      BY <1>8 DEF CronDies
    <2>2. crashes' \in 0..MaxCrashes /\ faults' \in 0..MaxFaults
      BY <1>8 DEF CronDies, TypeInv, TypeOK, ConstantsOK
    <2> QED BY <1>1, <1>2, <1>8, <2>1, <2>2 DEF CronDies
  <1> QED BY <1>3, <1>4, <1>5, <1>6, <1>7, <1>8

LEMMA PodGoneTypes ==
  ASSUME ConstantsOK, TypeInv, NEW p \in PodNames, PodGone(p)
  PROVE  TablesOK' /\ UNCHANGED loc
  BY PodTypes, PodsChange DEF PodGone

LEMMA AgeOutTypes ==
  ASSUME ConstantsOK, TypeInv, NEW p \in PodNames, AgeOut(p)
  PROVE  TablesOK' /\ UNCHANGED loc
  <1>1. aged' \subseteq PodNames
    BY Tables DEF AgeOut
  <1> QED BY <1>1, Tables, TablesStay DEF AgeOut, krb

LEMMA InitTypes == ASSUME ConstantsOK, Init PROVE TypeInv
  <1>1. mix \in Mixes /\ rows \subseteq Row /\ aged \subseteq PodNames
    BY DEF Init, PodNames
  <1>2. svcs \subseteq Svc
    <2>1. \A r \in rows : [pod |-> r.pod, iport |-> r.iport, nport |-> r.nport] \in Svc
      BY <1>1 DEF Row, Svc
    <2> QED BY <2>1 DEF Init
  <1>3. /\ pods \in [PodNames -> [st: {"none", "up", "term"}, node: Nodes \cup {"none"}]]
        /\ PodsPlaced
    <2>1. pods = [p \in PodNames |-> IF p \in Old THEN [st |-> "up", node |-> OldNode[p]]
                                                  ELSE NoPod]
      BY DEF Init
    <2>2. \A p \in Old : OldNode[p] \in Nodes
      BY DEF ConstantsOK
    <2> QED BY <2>1, <2>2 DEF PodsPlaced, NoPod
  <1>4. /\ pending \subseteq Where /\ keytabs \subseteq Where
        /\ homes \subseteq Users /\ unseen \subseteq Missed
    <2>1. pending \subseteq Where /\ homes \subseteq Users
      BY DEF Init, ConstantsOK, Where
    <2>2. ASSUME NEW p \in Old PROVE <<UserOf[p], OldNode[p]>> \in Where
      <3>1. UserOf[p] \in Users /\ OldNode[p] \in Nodes
        BY DEF ConstantsOK, Users, PodNames
      <3> QED BY <3>1 DEF Where
    <2>3. {<<UserOf[p], OldNode[p]>> : p \in Old} \subseteq Where
      BY <2>2
    <2>4. unseen \subseteq Missed
      BY DEF Init
    <2> QED BY <2>1, <2>3, <2>4 DEF Init
  <1>5. loc \in [Jobs -> Local] /\ \A j \in Jobs : loc[j] = Blank
    BY BlankLocal DEF Init
  <1>6. Memories
    <2>1. ASSUME NEW j \in Jobs PROVE MemoryOK(j, loc[j])
      <3>1. loc[j].pc = "new"
        BY <1>5 DEF Blank
      <3> QED BY <3>1, StepsOf DEF MemoryOK, NodeKnown, MakePCs, Handing, PortPCs
    <2> QED BY <2>1 DEF Memories
  <1>7. /\ cron \in [pc: {"idle", "next", "check", "remove"},
                     todo: SUBSET Where, of: SUBSET Where]
        /\ crashes \in 0..MaxCrashes /\ faults \in 0..MaxFaults
    BY DEF Init, ConstantsOK
  <1> QED BY <1>1, <1>2, <1>3, <1>4, <1>5, <1>6, <1>7 DEF TypeInv, TypeOK

\* the types after the actions that note a node
LEMMA NotedTypes ==
  ASSUME TypeInv, NEW j \in Jobs, TablesOK', loc' \in [Jobs -> Local],
         \A i \in Jobs \ {j} : loc'[i] = loc[i], MemoryOK(j, loc'[j])
  PROVE  TypeInv'
  <1>1. Memories'
    BY DEF TypeInv, Memories, MemoryOK
  <1> QED BY <1>1 DEF TablesOK, TypeInv, TypeOK

LEMMA CreateTypes ==
  ASSUME ConstantsOK, TypeInv, NEW j \in Jobs, Create(j) PROVE TypeInv'
  <1>1. CASE RestoreHome(j)
    BY <1>1, RestoreHomeOK, StepTypes
  <1>2. CASE ProvisionNode(j) \/ MigrateNode(j)
    BY <1>2, NodeOK, NotedTypes
  <1>3. CASE BuildStart(j)
    BY <1>3, BuildStartOK, StepTypes
  <1>4. CASE DeployKeytab(j)
    BY <1>4, DeployKeytabOK, StepTypes
  <1>5. CASE ClearPending(j)
    BY <1>5, ClearPendingOK, StepTypes
  <1>6. CASE UndoBuild(j)
    BY <1>6, UndoBuildOK, StepTypes
  <1>7. CASE CreatePod(j)
    BY <1>7, CreatePodOK, StepTypes
  <1>8. CASE PodMade(j)
    BY <1>8, PodMadeOK, StepTypes
  <1>9. CASE WaitReady(j)
    BY <1>9, WaitReadyOK, StepTypes
  <1>10. CASE ServicesStart(j)
    BY <1>10, ServicesStartOK, StepTypes
  <1>11. CASE CleanServices(j)
    BY <1>11, CleanServicesOK, StepTypes
  <1>12. CASE CleanRows(j)
    BY <1>12, CleanRowsOK, StepTypes
  <1>13. CASE CleanPod(j)
    BY <1>13, CleanPodOK, StepTypes
  <1>14. CASE CleanBlind(j)
    BY <1>14, CleanBlindOK, StepTypes
  <1> QED BY <1>1, <1>2, <1>3, <1>4, <1>5, <1>6, <1>7, <1>8, <1>9, <1>10, <1>11,
             <1>12, <1>13, <1>14 DEF Create

LEMMA PortsTypes ==
  ASSUME ConstantsOK, TypeInv, NEW j \in Jobs, Ports(j) PROVE TypeInv'
  <1>1. CASE ReconcileSkip(j)
    BY <1>1, ReconcileSkipOK, StepTypes
  <1>2. CASE ReconcileList(j)
    BY <1>2, ReconcileListOK, StepTypes
  <1>3. CASE ReconcileDelete(j)
    BY <1>3, ReconcileDeleteOK, StepTypes
  <1>4. CASE Allocate(j)
    BY <1>4, AllocateOK, StepTypes
  <1>5. CASE CreateService(j)
    BY <1>5, CreateServiceOK, StepTypes
  <1>6. CASE Serving(j)
    BY <1>6, ServingOK, StepTypes
  <1> QED BY <1>1, <1>2, <1>3, <1>4, <1>5, <1>6 DEF Ports

LEMMA RemoveTypes ==
  ASSUME ConstantsOK, TypeInv, NEW j \in Jobs, Remove(j) PROVE TypeInv'
  <1>1. CASE DropServices(j)
    BY <1>1, DropServicesOK, StepTypes
  <1>2. CASE DropRows(j)
    BY <1>2, DropRowsOK, StepTypes
  <1>3. CASE DropPod(j)
    BY <1>3, DropPodOK, StepTypes
  <1>4. CASE Gone(j)
    BY <1>4, GoneOK, StepTypes
  <1>5. CASE Keys(j)
    BY <1>5, KeysOK, StepTypes
  <1>6. CASE RemoveKeytab(j)
    BY <1>6, RemoveKeytabOK, StepTypes
  <1> QED BY <1>1, <1>2, <1>3, <1>4, <1>5, <1>6 DEF Remove

LEMMA OtherTypes ==
  ASSUME ConstantsOK, TypeInv, NEW j \in Jobs,
         Change(j) \/ Home(j) \/ EarlyFailure(j) \/ Register(j) \/ Crash(j)
  PROVE  TypeInv'
  <1>1. CASE ReadPod(j)
    BY <1>1, ReadPodOK, NotedTypes
  <1>2. CASE ListServices(j)
    BY <1>2, ListServicesOK, StepTypes
  <1>3. CASE DropPort(j)
    BY <1>3, DropPortOK, StepTypes
  <1>4. CASE DropPortRow(j)
    BY <1>4, DropPortRowOK, StepTypes
  <1>5. CASE Fill(j)
    BY <1>5, FillOK, StepTypes
  <1>6. CASE HomePods(j)
    BY <1>6, HomePodsOK, StepTypes
  <1>7. CASE HomeJobs(j)
    BY <1>7, HomeJobsOK, StepTypes
  <1>8. CASE HomeDelete(j)
    BY <1>8, HomeDeleteOK, StepTypes
  <1>9. CASE EarlyFailure(j)
    <2>1. TablesOK' /\ \E S : Moves(j, S)
      BY <1>9, EarlyFailureOK
    <2> QED BY <2>1, StepTypes
  <1>10. CASE Register(j)
    <2>1. TablesOK' /\ \E S : Moves(j, S)
      BY <1>10, RegisterOK
    <2> QED BY <2>1, StepTypes
  <1>11. CASE Crash(j)
    <2>1. TablesOK' /\ \E S : Moves(j, S)
      BY <1>11, CrashOK
    <2> QED BY <2>1, StepTypes
  <1> QED BY <1>1, <1>2, <1>3, <1>4, <1>5, <1>6, <1>7, <1>8, <1>9, <1>10, <1>11
       DEF Change, Home

LEMMA NextTypes == ASSUME ConstantsOK, TypeInv, [Next]_vars PROVE TypeInv'
  <1>1. CASE UNCHANGED vars
    BY <1>1 DEF vars, ports, krb, counts, TypeInv, TypeOK, Memories, MemoryOK, PodsPlaced
  <1>2. CASE \E j \in Jobs : Register(j) \/ Step(j) \/ Crash(j)
    BY <1>2, CreateTypes, PortsTypes, RemoveTypes, OtherTypes DEF Step
  <1>3. CASE Cron \/ CronDies
    BY <1>3, CronTypes, StayTypes DEF Cron
  <1>4. CASE \E p \in PodNames : PodGone(p) \/ AgeOut(p)
    BY <1>4, PodGoneTypes, AgeOutTypes, StayTypes
  <1> QED BY <1>1, <1>2, <1>3, <1>4 DEF Next

LEMMA Types == Spec => []TypeInv
  <1>1. Init => TypeInv
    BY ConstantsOK, InitTypes
  <1>2. TypeInv /\ [Next]_vars => TypeInv'
    BY ConstantsOK, NextTypes
  <1> QED BY <1>1, <1>2, PTL DEF Spec

\* The tables hold Pods, ports and nodes of the system, a job of each kind is
\* only at steps of its kind, and a worker that allocates ports, deploys a
\* keytab or creates a Pod knows the node: whatever the mix of jobs, their
\* retries, rewinds and crashes.
THEOREM TypeCorrect == Spec => []TypeOK
  <1>1. TypeInv => TypeOK
    BY DEF TypeInv
  <1> QED BY <1>1, Types, PTL

-----------------------------------------------------------------------------
(* The home of a Pod in use                                                *)

\* a Pod is created by its job after the home was restored, and is up when
\* the job goes on to its Services
UpPCs   == {"made", "wait", "services", "service"}
Done    == Handing \cup {"ok"}
PodLate(j) ==
  /\ pods[j].st # "none" =>
       KindOf[j] \in Creating /\ loc[j].pc \notin {"new", "home", "node"}
  /\ KindOf[j] \in Creating /\ loc[j].pc \in UpPCs \cup Done => pods[j].st = "up"

NoOld(u) == \A p \in Old : UserOf[p] = u => pods[p].st = "none"
\* a creation that has done nothing that needs the home
Idle(j, pc) == \/ pc \in {"new", "fail"}
               \/ KindOf[j] = "provision" /\ pc = "home"
               \/ KindOf[j] = "migrate" /\ pc = "node"

\* the same, or one that the deletion of the home has not seen
Excused(i) == Idle(i, loc[i].pc) \/ <<i, "home">> \in unseen

\* what a deletion of a home knows of the user's Pods and creations after it
\* looked at the Pods, and after it looked at the jobs
HomeSeen(h) ==
  /\ loc[h].pc \in {"homeJobs", "homeDelete"} => NoOld(UserOf[h])
  /\ loc[h].pc = "homeDelete" =>
       \A i \in Jobs : KindOf[i] \in Creating /\ UserOf[i] = UserOf[h] => Excused(i)
HomeGone(u) ==
  u \notin homes =>
    /\ NoOld(u)
    /\ \A i \in Jobs : KindOf[i] \in Creating /\ UserOf[i] = u => Excused(i)

HomeInv ==
  /\ \A j \in Jobs : PodLate(j) /\ HomeSeen(j)
  /\ \A u \in Users : HomeGone(u)

LEMMA HomeOfPod == ASSUME TypeInv, HomeInv PROVE PodHasHome
  <1>1. SUFFICES ASSUME NEW p \in PodNames, InService(p), UserOf[p] \notin homes,
                        <<p, "home">> \notin unseen
                 PROVE  FALSE
    BY DEF PodHasHome, HasHome
  <1>2. HomeGone(UserOf[p]) /\ pods[p].st = "up"
    BY <1>1 DEF HomeInv, Users, InService, Serves
  <1>3. p \in Jobs
    BY <1>1, <1>2 DEF HomeGone, NoOld, PodNames
  <1>4. KindOf[p] \in Creating /\ loc[p].pc \notin {"new", "home", "node"}
    BY <1>2, <1>3 DEF HomeInv, PodLate
  <1>5. loc[p].pc # "fail"
    BY <1>1, <1>3 DEF InService, Handing
  <1> QED BY <1>1, <1>2, <1>3, <1>4, <1>5 DEF HomeGone, Excused, Idle

\* a creation begins to need the home when it is there and no deletion of it
\* is under way that has not seen the creation
Needs(i) ==
  /\ UserOf[i] \in homes'
  /\ \A h \in Jobs : UserOf[h] = UserOf[i] /\ loc[h].pc = "homeDelete" =>
                       <<i, "home">> \in unseen'
HomeNoted == \A i \in Jobs : <<i, "home">> \in unseen => <<i, "home">> \in unseen'

\* what a step may do to the invariant: a creation that goes on to its
\* Services has its Pod, and one starts to need the home as said above
LEMMA HomeKept ==
  ASSUME ConstantsOK, HomeInv, homes \subseteq homes', HomeNoted,
         \A j \in Jobs : PodLate(j)',
         \A p \in Old : pods[p].st = "none" => pods'[p].st = "none",
         \A h \in Jobs : loc'[h].pc \in {"homeJobs", "homeDelete"} =>
                           loc'[h].pc = loc[h].pc,
         \A i \in Jobs : KindOf[i] \in Creating /\ Idle(i, loc[i].pc) =>
           Idle(i, loc'[i].pc) \/ Needs(i)
  PROVE  HomeInv'
  <1>1. ASSUME NEW u, NoOld(u) PROVE NoOld(u)'
    BY <1>1 DEF NoOld
  <1>2. ASSUME NEW h \in Jobs PROVE HomeSeen(h)'
    <2>1. HomeSeen(h)
      BY DEF HomeInv
    <2>2. loc'[h].pc \in {"homeJobs", "homeDelete"} => NoOld(UserOf[h])'
      BY <1>1, <2>1 DEF HomeSeen
    <2>3. ASSUME NEW i \in Jobs, KindOf[i] \in Creating, UserOf[i] = UserOf[h],
                 loc'[h].pc = "homeDelete"
          PROVE  Excused(i)'
      <3>1. loc[h].pc = "homeDelete" /\ Excused(i)
        BY <2>1, <2>3 DEF HomeSeen
      <3> QED BY <2>3, <3>1 DEF Excused, HomeNoted, Needs
    <2> QED BY <2>2, <2>3 DEF HomeSeen
  <1>3. ASSUME NEW u \in Users, u \notin homes' PROVE HomeGone(u)'
    <2>1. HomeGone(u) /\ u \notin homes
      BY <1>3 DEF HomeInv
    <2>2. NoOld(u)'
      BY <1>1, <2>1 DEF HomeGone
    <2>3. ASSUME NEW i \in Jobs, KindOf[i] \in Creating, UserOf[i] = u
          PROVE  Excused(i)'
      BY <1>3, <2>1, <2>3 DEF HomeGone, Excused, HomeNoted, Needs
    <2> QED BY <2>2, <2>3 DEF HomeGone
  <1>4. \A u \in Users : HomeGone(u)'
    BY <1>3 DEF HomeGone
  <1> QED BY <1>2, <1>4 DEF HomeInv

\* a step of a job that touches neither Pods nor homes and does not bring it
\* nearer to its Pod, its end, or the deletion of a home
Calm(j) ==
  /\ KindOf[j] \in Creating =>
       /\ loc'[j].pc \in {"new", "home", "node"} => loc[j].pc \in {"new", "home", "node"}
       /\ loc'[j].pc \in UpPCs \cup Done => loc[j].pc \in UpPCs \cup Done
       /\ Idle(j, loc[j].pc) => Idle(j, loc'[j].pc)
  /\ KindOf[j] = "home" /\ loc'[j].pc \in {"homeJobs", "homeDelete"} =>
       loc'[j].pc = loc[j].pc

LEMMA CalmKeeps ==
  ASSUME ConstantsOK, TypeInv', HomeInv, NEW j \in Jobs,
         \A i \in Jobs \ {j} : loc'[i] = loc[i],
         UNCHANGED <<pods, homes>>, HomeNoted, Calm(j)
  PROVE  HomeInv'
  <1>1. ASSUME NEW h \in Jobs, loc'[h].pc \in {"homeJobs", "homeDelete"}
        PROVE  loc'[h].pc = loc[h].pc
    <2>1. CASE h = j
      <3>1. KindOf[h] = "home"
        <4>1. loc'[h].pc \in PCsOf(KindOf[h])
          BY DEF TypeInv, Memories, MemoryOK
        <4> QED BY <1>1, <4>1 DEF PCsOf, MakePCs, Handing, PortPCs
      <3> QED BY <1>1, <2>1, <3>1 DEF Calm
    <2> QED BY <2>1
  <1>2. ASSUME NEW i \in Jobs PROVE PodLate(i)'
    <2>1. PodLate(i)
      BY DEF HomeInv
    <2>2. CASE i = j
      BY <2>1, <2>2 DEF PodLate, Calm
    <2>3. CASE i # j
      BY <2>1, <2>3 DEF PodLate
    <2> QED BY <2>2, <2>3
  <1>3. ASSUME NEW i \in Jobs, KindOf[i] \in Creating
        PROVE  Idle(i, loc[i].pc) => Idle(i, loc'[i].pc)
    BY <1>3 DEF Calm
  <1> QED BY <1>1, <1>2, <1>3, HomeKept

\* the steps between the build and the Services, and those of a port job
LEMMA CalmMake ==
  ASSUME NEW j \in Jobs, loc[j].pc \in MakePCs \cup PortPCs,
         loc'[j].pc \in MakePCs \cup PortPCs \cup {"fail"},
         KindOf[j] \in Creating /\ loc'[j].pc \in UpPCs => loc[j].pc \in UpPCs
  PROVE  Calm(j)
  BY DEF Calm, MakePCs, PortPCs, UpPCs, Done, Handing, Idle

\* the steps that remove a Pod
LEMMA CalmDrop ==
  ASSUME TypeInv, NEW j \in Jobs, loc[j].pc \in Handing \cup {"gone"},
         loc'[j].pc \in Handing \cup {"gone", "ok", "fail"}
  PROVE  Calm(j)
  <1>1. KindOf[j] \in Creating => loc[j].pc \in Handing
    BY KindAt DEF Creating
  <1>2. KindOf[j] # "home"
    BY KindAt
  <1> QED BY <1>1, <1>2 DEF Calm, UpPCs, Done, Handing, Idle

\* the steps of a creation and of a port job that touch no Pod
LEMMA MakeHome ==
  ASSUME ConstantsOK, TypeInv, TypeInv', HomeInv, NEW j \in Jobs,
         \/ ProvisionNode(j) \/ BuildStart(j) \/ DeployKeytab(j) \/ ClearPending(j)
         \/ UndoBuild(j) \/ PodMade(j) \/ WaitReady(j) \/ ServicesStart(j)
         \/ CleanServices(j) \/ CleanRows(j) \/ CleanBlind(j)
  PROVE  HomeInv'
  <1>0. HomeNoted
    BY DEF HomeNoted, krb, ProvisionNode, BuildStart, DeployKeytab, ClearPending, UndoBuild,
       PodMade, WaitReady, ServicesStart, CleanServices, CleanRows, CleanBlind
  <1>1. /\ UNCHANGED <<pods, homes>> /\ \A i \in Jobs \ {j} : loc'[i] = loc[i]
        /\ \/ /\ loc[j].pc = "node" /\ KindOf[j] = "provision"
              /\ loc'[j].pc \in {"build", "fail"}
           \/ /\ loc[j].pc \in MakePCs /\ loc'[j].pc \in MakePCs \cup {"fail"}
              /\ loc'[j].pc \in UpPCs => loc[j].pc \in UpPCs
    <2>1. CASE ProvisionNode(j)
      BY <2>1, NodeOK DEF ProvisionNode, At
    <2>2. CASE BuildStart(j)
      BY <2>2, BuildStartOK DEF BuildStart, At, Moves, MakePCs, UpPCs
    <2>3. CASE DeployKeytab(j)
      BY <2>3, DeployKeytabOK DEF DeployKeytab, At, Moves, MakePCs, UpPCs
    <2>4. CASE ClearPending(j)
      BY <2>4, ClearPendingOK DEF ClearPending, At, Moves, MakePCs, UpPCs
    <2>5. CASE UndoBuild(j)
      BY <2>5, UndoBuildOK DEF UndoBuild, At, Moves, MakePCs, UpPCs
    <2>6. CASE PodMade(j)
      BY <2>6, PodMadeOK DEF PodMade, At, Moves, MakePCs, UpPCs
    <2>7. CASE WaitReady(j)
      BY <2>7, WaitReadyOK DEF WaitReady, At, Moves, MakePCs, UpPCs
    <2>8. CASE ServicesStart(j)
      BY <2>8, ServicesStartOK DEF ServicesStart, At, Moves, MakePCs, UpPCs
    <2>9. CASE CleanServices(j)
      BY <2>9, CleanServicesOK DEF CleanServices, At, Moves, MakePCs, UpPCs
    <2>10. CASE CleanRows(j)
      BY <2>10, CleanRowsOK DEF CleanRows, At, Moves, MakePCs, UpPCs
    <2>11. CASE CleanBlind(j)
      BY <2>11, CleanBlindOK DEF CleanBlind, At, Moves, MakePCs, UpPCs
    <2> QED BY <2>1, <2>2, <2>3, <2>4, <2>5, <2>6, <2>7, <2>8, <2>9, <2>10, <2>11
  <1>2. Calm(j)
    <2>1. CASE /\ loc[j].pc = "node" /\ KindOf[j] = "provision"
               /\ loc'[j].pc \in {"build", "fail"}
      BY <2>1 DEF Calm, UpPCs, Done, Handing, Idle
    <2> QED BY <1>1, <2>1, CalmMake
  <1> QED BY <1>0, <1>1, <1>2, CalmKeeps

LEMMA PortsHome ==
  ASSUME ConstantsOK, TypeInv, TypeInv', HomeInv, NEW j \in Jobs,
         \/ ReconcileSkip(j) \/ ReconcileList(j) \/ ReconcileDelete(j) \/ Allocate(j)
         \/ CreateService(j) \/ Change(j)
  PROVE  HomeInv'
  <1>0. HomeNoted
    BY DEF HomeNoted, krb, ReconcileSkip, ReconcileList, ReconcileDelete, Allocate,
       CreateService, Change, ReadPod, ListServices, DropPort, DropPortRow, Fill
  <1>1. /\ UNCHANGED <<pods, homes>> /\ \A i \in Jobs \ {j} : loc'[i] = loc[i]
        /\ loc[j].pc \in MakePCs \cup PortPCs
        /\ loc'[j].pc \in MakePCs \cup PortPCs \cup {"fail"}
        /\ KindOf[j] \in Creating /\ loc'[j].pc \in UpPCs => loc[j].pc \in UpPCs
    <2>1. CASE ReconcileSkip(j)
      BY <2>1, ReconcileSkipOK DEF ReconcileSkip, At, Moves, MakePCs, UpPCs
    <2>2. CASE ReconcileList(j)
      BY <2>2, ReconcileListOK DEF ReconcileList, At, Moves, MakePCs, UpPCs
    <2>3. CASE ReconcileDelete(j)
      BY <2>3, ReconcileDeleteOK DEF ReconcileDelete, At, Moves, MakePCs, UpPCs
    <2>4. CASE Allocate(j)
      <3>1. loc'[j].pc \in {"read", "build", "fill", "deploy", "fail"}
            /\ \A i \in Jobs \ {j} : loc'[i] = loc[i]
        BY <2>4, AllocateOK DEF Moves
      <3>2. loc[j].pc = "alloc" /\ UNCHANGED <<pods, homes>>
        BY <2>4 DEF Allocate, At
      <3> QED BY <3>1, <3>2 DEF MakePCs, PortPCs, UpPCs
    <2>5. CASE CreateService(j)
      BY <2>5, CreateServiceOK DEF CreateService, At, Moves, MakePCs, PortPCs, UpPCs
    <2>6. CASE ReadPod(j)
      BY <2>6, ReadPodOK DEF ReadPod, At, PortPCs, UpPCs
    <2>7. CASE ListServices(j)
      BY <2>7, ListServicesOK DEF ListServices, At, Moves, PortPCs, UpPCs
    <2>8. CASE DropPort(j)
      BY <2>8, DropPortOK DEF DropPort, At, Moves, PortPCs, UpPCs
    <2>9. CASE DropPortRow(j)
      BY <2>9, DropPortRowOK DEF DropPortRow, At, Moves, PortPCs, UpPCs
    <2>10. CASE Fill(j)
      <3>1. KindOf[j] \notin Creating
        BY <2>10, KindAt DEF Fill, At, Creating
      <3> QED BY <2>10, <3>1, FillOK DEF Fill, At, Moves, PortPCs
    <2> QED BY <2>1, <2>2, <2>3, <2>4, <2>5, <2>6, <2>7, <2>8, <2>9, <2>10 DEF Change
  <1> QED BY <1>0, <1>1, CalmMake, CalmKeeps

LEMMA DropHome ==
  ASSUME ConstantsOK, TypeInv, TypeInv', HomeInv, NEW j \in Jobs,
         \/ DropServices(j) \/ DropRows(j) \/ Gone(j) \/ Keys(j) \/ RemoveKeytab(j)
  PROVE  HomeInv'
  <1>0. HomeNoted
    BY DEF HomeNoted, krb, DropServices, DropRows, Gone, Keys, RemoveKeytab
  <1>1. /\ UNCHANGED <<pods, homes>> /\ \A i \in Jobs \ {j} : loc'[i] = loc[i]
        /\ loc[j].pc \in Handing \cup {"gone"}
        /\ loc'[j].pc \in Handing \cup {"gone", "ok", "fail"}
    <2>1. CASE DropServices(j)
      BY <2>1, DropServicesOK DEF DropServices, At, Moves, Handing
    <2>2. CASE DropRows(j)
      BY <2>2, DropRowsOK DEF DropRows, At, Moves, Handing
    <2>3. CASE Gone(j)
      BY <2>3, GoneOK DEF Gone, At, Moves, Handing
    <2>4. CASE Keys(j)
      BY <2>4, KeysOK DEF Keys, At, Moves, Handing
    <2>5. CASE RemoveKeytab(j)
      BY <2>5, RemoveKeytabOK DEF RemoveKeytab, At, Moves, Handing
    <2> QED BY <2>1, <2>2, <2>3, <2>4, <2>5
  <1> QED BY <1>0, <1>1, CalmDrop, CalmKeeps

\* a step of a creation that may touch its own Pod, or an old one
LEMMA CreatingKeeps ==
  ASSUME ConstantsOK, TypeInv', HomeInv, NEW j \in Jobs, KindOf[j] \in Creating,
         \A i \in Jobs \ {j} : loc'[i] = loc[i] /\ pods'[i] = pods[i],
         \A p \in Old : pods[p].st = "none" => pods'[p].st = "none",
         homes \subseteq homes', HomeNoted, PodLate(j)',
         Idle(j, loc[j].pc) => Idle(j, loc'[j].pc) \/ Needs(j)
  PROVE  HomeInv'
  <1>1. loc'[j].pc \notin {"homeJobs", "homeDelete"}
    <2>1. loc'[j].pc \in PCsOf(KindOf[j])
      BY DEF TypeInv, Memories, MemoryOK
    <2> QED BY <2>1 DEF PCsOf, MakePCs, Handing, PortPCs, Creating
  <1>2. \A h \in Jobs : loc'[h].pc \in {"homeJobs", "homeDelete"} =>
                          loc'[h].pc = loc[h].pc
    BY <1>1
  <1>3. ASSUME NEW i \in Jobs PROVE PodLate(i)'
    <2>1. PodLate(i)
      BY DEF HomeInv
    <2>2. CASE i = j
      BY <2>2
    <2>3. CASE i # j
      BY <2>1, <2>3 DEF PodLate
    <2> QED BY <2>2, <2>3
  <1>4. \A i \in Jobs : KindOf[i] \in Creating /\ Idle(i, loc[i].pc) =>
           Idle(i, loc'[i].pc) \/ Needs(i)
    OBVIOUS
  <1> QED BY <1>2, <1>3, <1>4, HomeKept

\* a deletion that is under way does not stop a registration
LEMMA RegisterHome ==
  ASSUME ConstantsOK, TypeInv, TypeInv', HomeInv, NEW j \in Jobs, Register(j)
  PROVE  HomeInv'
  <1>1. /\ loc[j].pc = "new" /\ UNCHANGED <<pods, homes>> /\ HomeNoted
        /\ loc'[j].pc = First(KindOf[j]) /\ \A i \in Jobs \ {j} : loc'[i] = loc[i]
    BY RegisterOK DEF Register, At, Moves, HomeNoted, krb
  <1>2. PodLate(j) /\ pods[j].st = "none"
    BY <1>1 DEF HomeInv, PodLate
  <1>3. CASE KindOf[j] \in Creating
    <2>1. loc'[j].pc = IF KindOf[j] = "provision" THEN "home" ELSE "node"
      BY <1>1, <1>3 DEF First, Creating
    <2>2. PodLate(j)' /\ Idle(j, loc'[j].pc)
      BY <1>1, <1>2, <1>3, <2>1 DEF PodLate, UpPCs, Done, Handing, Idle, Creating
    <2> QED BY <1>1, <1>3, <2>2, CreatingKeeps
  <1>4. CASE KindOf[j] \notin Creating
    <2>1. loc'[j].pc \notin {"homeJobs", "homeDelete"}
      <3>1. KindOf[j] \in Kinds
        BY DEF ConstantsOK
      <3> QED BY <1>1, <3>1 DEF First, Kinds
    <2>2. Calm(j)
      BY <1>4, <2>1 DEF Calm
    <2> QED BY <1>1, <2>2, CalmKeeps
  <1> QED BY <1>3, <1>4

LEMMA RestoreHomeHome ==
  ASSUME ConstantsOK, TypeInv, TypeInv', HomeInv, NEW j \in Jobs, RestoreHome(j)
  PROVE  HomeInv'
  <1>1. /\ loc[j].pc = "home" /\ UNCHANGED pods /\ homes' = homes \cup {UserOf[j]}
        /\ loc'[j].pc = "node" /\ \A i \in Jobs \ {j} : loc'[i] = loc[i]
    BY RestoreHomeOK DEF RestoreHome, At, Moves
  <1>2. KindOf[j] \in Creating
    BY <1>1, KindAt DEF Creating
  <1>3. PodLate(j)'
    <2>1. PodLate(j)
      BY DEF HomeInv
    <2> QED BY <1>1, <2>1 DEF PodLate, UpPCs, Done, Handing
  <1>4. HomeNoted /\ Needs(j)
    <2>1. unseen' = IF HomeGoing(UserOf[j]) THEN unseen \cup {<<j, "home">>} ELSE unseen
      BY DEF RestoreHome
    <2> QED BY <1>1, <2>1 DEF HomeNoted, Needs, HomeGoing
  <1> QED BY <1>1, <1>2, <1>3, <1>4, CreatingKeeps

\* the user's old Pod is there, and so is the home
LEMMA MigrateNodeHome ==
  ASSUME ConstantsOK, TypeInv, TypeInv', HomeInv, NEW j \in Jobs, MigrateNode(j)
  PROVE  HomeInv'
  <1>1. /\ loc[j].pc = "node" /\ KindOf[j] = "migrate" /\ UNCHANGED <<pods, homes>>
        /\ loc'[j].pc \in {"build", "fail"} /\ \A i \in Jobs \ {j} : loc'[i] = loc[i]
        /\ HomeNoted
    BY NodeOK DEF MigrateNode, At, HomeNoted, krb
  <1>2. PodLate(j)'
    <2>1. PodLate(j)
      BY DEF HomeInv
    <2> QED BY <1>1, <2>1 DEF PodLate, UpPCs, Done, Handing
  <1>3. CASE loc'[j].pc = "fail"
    <2>1. Idle(j, loc'[j].pc)
      BY <1>3 DEF Idle
    <2> QED BY <1>1, <1>2, <2>1, CreatingKeeps DEF Creating
  <1>4. CASE loc'[j].pc = "build"
    <2>1. pods[TargetOf[j]].st # "none"
      <3>1. ASSUME End(j, "fail") PROVE FALSE
        <4>1. Moves(j, {"fail"})
          BY <3>1, MakePlaces, EndMoves
        <4> QED BY <1>4, <4>1 DEF Moves
      <3> QED BY <3>1 DEF MigrateNode
    <2>2. TargetOf[j] \in Old /\ UserOf[TargetOf[j]] = UserOf[j]
      BY <1>1 DEF ConstantsOK, Targeting
    <2>3. UserOf[j] \in Users
      BY Memory
    <2>4. UserOf[j] \in homes
      BY <2>1, <2>2, <2>3 DEF HomeInv, HomeGone, NoOld
    <2>5. Needs(j)
      <3>1. \A h \in Jobs : UserOf[h] = UserOf[j] => loc[h].pc # "homeDelete"
        BY <2>1, <2>2 DEF HomeInv, HomeSeen, NoOld
      <3> QED BY <1>1, <2>4, <3>1 DEF Needs
    <2> QED BY <1>1, <1>2, <2>5, CreatingKeeps DEF Creating
  <1> QED BY <1>1, <1>3, <1>4

LEMMA CreatePodHome ==
  ASSUME ConstantsOK, TypeInv, TypeInv', HomeInv, NEW j \in Jobs, CreatePod(j)
  PROVE  HomeInv'
  <1> DEFINE made == [pods EXCEPT ![j] = [st |-> "up", node |-> loc[j].node]]
  <1>1. /\ loc[j].pc = "pod" /\ homes' = homes
        /\ loc'[j].pc \in {"made", "cleanRows", "cleanBlind"}
        /\ HomeNoted /\ \A i \in Jobs \ {j} : loc'[i] = loc[i]
    BY CreatePodOK DEF CreatePod, At, Moves, HomeNoted, krb
  <1>2. KindOf[j] \in Creating /\ j \in PodNames
    BY <1>1, MakePlaces, Making
  <1>3. pods' \in {pods, made}
    BY DEF CreatePod
  <1>4. \A p \in PodNames : p # j => pods'[p] = pods[p]
    BY <1>3 DEF TypeInv, TypeOK
  <1>5. loc'[j].pc = "made" => pods'[j].st = "up"
    <2>1. ASSUME loc'[j].pc = "made" PROVE pods' = made
      <3>1. loc[j].pc \in MakePCs
        BY <1>1, MakePlaces
      <3>2. ASSUME Clean(j, "cleanRows", "build") PROVE FALSE
        <4>1. Moves(j, {"cleanRows"})
          BY <1>2, <3>1, <3>2, CleanMoves
        <4> QED BY <2>1, <4>1 DEF Moves
      <3>3. ASSUME Clean(j, "cleanBlind", "build") PROVE FALSE
        <4>1. Moves(j, {"cleanBlind"})
          BY <1>2, <3>1, <3>3, CleanMoves
        <4> QED BY <2>1, <4>1 DEF Moves
      <3>4. ASSUME Clean(j, "cleanBlind", "fail") PROVE FALSE
        <4>1. Moves(j, {"cleanBlind"})
          BY <1>2, <3>1, <3>4, CleanMoves
        <4> QED BY <2>1, <4>1 DEF Moves
      <3> QED BY <3>2, <3>3, <3>4 DEF CreatePod
    <2>2. pods' = made => pods'[j].st = "up"
      BY <1>2 DEF TypeInv, TypeOK
    <2> QED BY <2>1, <2>2
  <1>6. PodLate(j)'
    BY <1>1, <1>2, <1>5 DEF PodLate, UpPCs, Done, Handing
  <1>7. \A i \in Jobs \ {j} : pods'[i] = pods[i]
    BY <1>4 DEF PodNames
  <1>8. \A p \in Old : pods[p].st = "none" => pods'[p].st = "none"
    BY <1>4 DEF ConstantsOK, PodNames
  <1>9. ~Idle(j, loc[j].pc)
    BY <1>1 DEF Idle
  <1> QED BY <1>1, <1>2, <1>6, <1>7, <1>8, <1>9, CreatingKeeps

LEMMA ServingHome ==
  ASSUME ConstantsOK, TypeInv, TypeInv', HomeInv, NEW j \in Jobs, Serving(j)
  PROVE  HomeInv'
  <1>1. /\ loc[j].pc = "service" /\ UNCHANGED <<pods, homes>> /\ HomeNoted
        /\ loc'[j].pc \in {"dropServices", "ok"} /\ \A i \in Jobs \ {j} : loc'[i] = loc[i]
    BY ServingOK DEF Serving, At, Moves, HomeNoted, krb
  <1>2. CASE KindOf[j] \in Creating
    <2>1. PodLate(j)
      BY DEF HomeInv
    <2>2. PodLate(j)'
      BY <1>1, <1>2, <2>1 DEF PodLate, UpPCs, Done, Handing
    <2>3. ~Idle(j, loc[j].pc)
      BY <1>1 DEF Idle
    <2> QED BY <1>1, <1>2, <2>2, <2>3, CreatingKeeps
  <1>3. CASE KindOf[j] \notin Creating
    <2>1. Calm(j)
      BY <1>1, <1>3 DEF Calm
    <2> QED BY <1>1, <2>1, CalmKeeps
  <1> QED BY <1>2, <1>3

LEMMA CleanPodHome ==
  ASSUME ConstantsOK, TypeInv, TypeInv', HomeInv, NEW j \in Jobs, CleanPod(j)
  PROVE  HomeInv'
  <1>1. /\ loc[j].pc = "cleanPod" /\ homes' = homes /\ HomeNoted
        /\ loc'[j].pc \in {"build", "fail"} /\ \A i \in Jobs \ {j} : loc'[i] = loc[i]
    BY CleanPodOK DEF CleanPod, At, Moves, HomeNoted, krb
  <1>2. KindOf[j] \in Creating /\ j \in PodNames
    BY <1>1, MakePlaces, Making
  <1>3. \/ pods[j].st = "up" /\ pods' = [pods EXCEPT ![j].st = "term"]
        \/ pods' = pods
    BY DEF CleanPod
  <1>4. /\ \A p \in PodNames : p # j => pods'[p] = pods[p]
        /\ pods'[j].st # "none" => pods[j].st # "none"
    BY <1>2, <1>3 DEF TypeInv, TypeOK
  <1>5. PodLate(j)
    BY DEF HomeInv
  <1>6. PodLate(j)'
    BY <1>1, <1>2, <1>4, <1>5 DEF PodLate, UpPCs, Done, Handing
  <1>7. \A i \in Jobs \ {j} : pods'[i] = pods[i]
    BY <1>4 DEF PodNames
  <1>8. \A p \in Old : pods[p].st = "none" => pods'[p].st = "none"
    BY <1>4 DEF ConstantsOK, PodNames
  <1>9. ~Idle(j, loc[j].pc)
    BY <1>1 DEF Idle
  <1> QED BY <1>1, <1>2, <1>6, <1>7, <1>8, <1>9, CreatingKeeps

LEMMA DropPodHome ==
  ASSUME ConstantsOK, TypeInv, TypeInv', HomeInv, NEW j \in Jobs, DropPod(j)
  PROVE  HomeInv'
  <1>1. /\ loc[j].pc = "dropPod" /\ homes' = homes /\ HomeNoted
        /\ loc'[j].pc \in {"keys", "ok", "gone", "dropPod", "fail"}
        /\ \A i \in Jobs \ {j} : loc'[i] = loc[i]
    BY DropPodOK DEF DropPod, At, Moves, HomeNoted, krb
  <1>2. KindOf[j] \in Targeting /\ KindOf[j] # "home"
    <2>1. KindOf[j] \in {"migrate", "revoke", "delete"}
      BY <1>1, DropPlaces, Dropping
    <2> QED BY <2>1 DEF Targeting
  <1>3. Target(j) \in Old
    BY <1>2 DEF ConstantsOK, Target
  <1>4. \/ pods[Target(j)].st = "up" /\ pods' = [pods EXCEPT ![Target(j)].st = "term"]
        \/ pods' = pods
    BY DEF DropPod
  <1>5. /\ \A i \in Jobs : pods'[i] = pods[i]
        /\ \A p \in Old : pods[p].st = "none" => pods'[p].st = "none"
    BY <1>3, <1>4 DEF TypeInv, TypeOK, ConstantsOK, PodNames
  <1>6. CASE KindOf[j] \in Creating
    <2>1. PodLate(j) /\ KindOf[j] = "migrate"
      BY <1>2, <1>6 DEF HomeInv, Creating, Targeting
    <2>2. loc'[j].pc # "gone"
      <3>1. loc'[j].pc \in PCsOf("migrate")
        BY <2>1 DEF TypeInv, Memories, MemoryOK
      <3> QED BY <3>1 DEF PCsOf, MakePCs, Handing, PortPCs
    <2>3. PodLate(j)'
      BY <1>1, <1>5, <1>6, <2>1, <2>2 DEF PodLate, UpPCs, Done, Handing
    <2>4. ~Idle(j, loc[j].pc)
      BY <1>1 DEF Idle
    <2> QED BY <1>1, <1>5, <1>6, <2>3, <2>4, CreatingKeeps
  <1>7. CASE KindOf[j] \notin Creating
    <2>1. ASSUME NEW i \in Jobs PROVE PodLate(i)'
      <3>1. PodLate(i)
        BY DEF HomeInv
      <3>2. CASE i = j
        BY <1>5, <1>7, <3>1, <3>2 DEF PodLate
      <3>3. CASE i # j
        BY <1>1, <1>5, <3>1, <3>3 DEF PodLate
      <3> QED BY <3>2, <3>3
    <2>2. \A h \in Jobs : loc'[h].pc \in {"homeJobs", "homeDelete"} =>
                            loc'[h].pc = loc[h].pc
      BY <1>1
    <2>3. \A i \in Jobs : KindOf[i] \in Creating => loc'[i] = loc[i]
      BY <1>1, <1>7
    <2> QED BY <1>1, <1>5, <2>1, <2>2, <2>3, HomeKept
  <1> QED BY <1>6, <1>7

\* a step of a deletion of a home: what it has seen, and what is gone
LEMMA DeletingKeeps ==
  ASSUME ConstantsOK, HomeInv, NEW j \in Jobs, KindOf[j] = "home", UNCHANGED pods,
         \A i \in Jobs \ {j} : loc'[i] = loc[i], HomeNoted,
         HomeSeen(j)', \A u \in Users : HomeGone(u)'
  PROVE  HomeInv'
  <1>1. "home" \notin Creating
    BY DEF Creating
  <1>2. ASSUME NEW i \in Jobs PROVE PodLate(i)'
    <2>1. PodLate(i)
      BY DEF HomeInv
    <2> QED BY <1>1, <2>1 DEF PodLate
  <1>3. ASSUME NEW h \in Jobs, h # j PROVE HomeSeen(h)'
    <2>1. HomeSeen(h) /\ loc'[h] = loc[h]
      BY <1>3 DEF HomeInv
    <2>2. \A i \in Jobs : KindOf[i] \in Creating => loc'[i] = loc[i]
      BY <1>1
    <2> QED BY <2>1, <2>2 DEF HomeSeen, NoOld, Excused, HomeNoted
  <1> QED BY <1>2, <1>3 DEF HomeInv

LEMMA HomePodsHome ==
  ASSUME ConstantsOK, TypeInv, TypeInv', HomeInv, NEW j \in Jobs, HomePods(j)
  PROVE  HomeInv'
  <1>1. /\ loc[j].pc = "homePods" /\ UNCHANGED <<pods, homes, unseen>>
        /\ loc'[j].pc \in {"homeJobs", "fail"} /\ \A i \in Jobs \ {j} : loc'[i] = loc[i]
    BY HomePodsOK DEF HomePods, At, Moves, krb
  <1>2. KindOf[j] = "home" /\ "home" \notin Creating
    BY <1>1, KindAt DEF Creating
  <1>3. HomeSeen(j)'
    <2>1. CASE PodsOf(UserOf[j]) # {}
      <3>1. Moves(j, {"fail"})
        BY <2>1, MakePlaces, EndMoves DEF HomePods
      <3>2. loc'[j].pc = "fail"
        BY <3>1 DEF Moves
      <3> QED BY <3>2 DEF HomeSeen
    <2>2. CASE PodsOf(UserOf[j]) = {}
      <3>1. \A p \in PodNames : UserOf[p] = UserOf[j] => pods[p].st = "none"
        BY <2>2 DEF PodsOf
      <3>2. NoOld(UserOf[j])'
        BY <1>1, <3>1 DEF NoOld, PodNames
      <3> QED BY <1>1, <3>2 DEF HomeSeen
    <2> QED BY <2>1, <2>2
  <1>4. HomeNoted /\ \A u \in Users : HomeGone(u)'
    BY <1>1, <1>2 DEF HomeNoted, HomeInv, HomeGone, NoOld, Excused
  <1> QED BY <1>1, <1>2, <1>3, <1>4, DeletingKeeps

\* a creation that is not unfinished and has a Pod ended well in between
LEMMA HomeJobsHome ==
  ASSUME ConstantsOK, TypeInv, TypeInv', HomeInv, NEW j \in Jobs, HomeJobs(j)
  PROVE  HomeInv'
  <1>1. /\ loc[j].pc = "homeJobs" /\ UNCHANGED <<pods, homes>>
        /\ loc'[j].pc \in {"homeDelete", "fail"} /\ \A i \in Jobs \ {j} : loc'[i] = loc[i]
        /\ unseen \subseteq unseen'
    BY HomeJobsOK DEF HomeJobs, HomeUnused, At, Moves
  <1>2. KindOf[j] = "home" /\ "home" \notin Creating
    BY <1>1, KindAt DEF Creating
  <1>3. HomeSeen(j)'
    <2>0. HomeSeen(j)
      BY DEF HomeInv
    <2>1. CASE loc'[j].pc = "fail"
      BY <2>1 DEF HomeSeen
    <2>2. CASE loc'[j].pc = "homeDelete"
      <3>1. /\ \A i \in Jobs \ {j} :
                 ~(UserOf[i] = UserOf[j] /\ Running(i) /\ KindOf[i] \in Creating)
            /\ HomeUnused(j)
        <4>1. ASSUME End(j, "fail") PROVE FALSE
          <5>1. Moves(j, {"fail"})
            BY <4>1, MakePlaces, EndMoves
          <5> QED BY <2>2, <5>1 DEF Moves
        <4> QED BY <4>1 DEF HomeJobs
      <3>2. ASSUME NEW i \in Jobs, KindOf[i] \in Creating, UserOf[i] = UserOf[j]
            PROVE  Excused(i)'
        <4>1. loc'[i] = loc[i] /\ loc[i].pc \in {"new", "ok", "fail"}
          BY <1>1, <1>2, <3>1, <3>2 DEF Running, Final
        <4>2. CASE loc[i].pc = "ok"
          <5>1. pods[i].st = "up" /\ i \in PodNames
            BY <3>2, <4>2 DEF HomeInv, PodLate, Done, PodNames
          <5>2. i \in PodsOf(UserOf[j]) \cap Jobs
            BY <3>2, <5>1 DEF PodsOf
          <5> QED BY <3>1, <5>2 DEF HomeUnused, Excused
        <4> QED BY <4>1, <4>2 DEF Excused, Idle
      <3>3. NoOld(UserOf[j])'
        BY <1>1, <2>0 DEF HomeSeen, NoOld
      <3> QED BY <2>2, <3>2, <3>3 DEF HomeSeen
    <2> QED BY <1>1, <2>1, <2>2
  <1>4. HomeNoted /\ \A u \in Users : HomeGone(u)'
    BY <1>1, <1>2 DEF HomeNoted, HomeInv, HomeGone, NoOld, Excused
  <1> QED BY <1>1, <1>2, <1>3, <1>4, DeletingKeeps

LEMMA HomeDeleteHome ==
  ASSUME ConstantsOK, TypeInv, TypeInv', HomeInv, NEW j \in Jobs, HomeDelete(j)
  PROVE  HomeInv'
  <1>1. /\ loc[j].pc = "homeDelete" /\ UNCHANGED <<pods, unseen>>
        /\ homes' \in {homes, homes \ {UserOf[j]}}
        /\ loc'[j].pc \in {"homePods", "ok", "fail"} /\ \A i \in Jobs \ {j} : loc'[i] = loc[i]
    BY HomeDeleteOK DEF HomeDelete, At, Moves, krb
  <1>2. KindOf[j] = "home" /\ "home" \notin Creating
    BY <1>1, KindAt DEF Creating
  <1>3. HomeSeen(j)'
    BY <1>1 DEF HomeSeen
  <1>4. ASSUME NEW u \in Users PROVE HomeGone(u)'
    <2>0. HomeGone(u) /\ HomeSeen(j)
      BY DEF HomeInv
    <2>1. CASE u = UserOf[j]
      <3>1. NoOld(u)'
        BY <1>1, <2>0, <2>1 DEF HomeSeen, NoOld
      <3>2. ASSUME NEW i \in Jobs, KindOf[i] \in Creating, UserOf[i] = u
            PROVE  Excused(i)'
        <4>1. loc'[i] = loc[i]
          BY <1>1, <1>2, <3>2
        <4> QED BY <1>1, <2>0, <2>1, <3>2, <4>1 DEF HomeSeen, Excused
      <3> QED BY <3>1, <3>2 DEF HomeGone
    <2>2. CASE u # UserOf[j]
      BY <1>1, <1>2, <2>0, <2>2 DEF HomeGone, NoOld, Excused
    <2> QED BY <2>1, <2>2
  <1>5. HomeNoted
    BY <1>1 DEF HomeNoted
  <1> QED BY <1>1, <1>2, <1>3, <1>4, <1>5, DeletingKeeps

LEMMA EarlyFailureHome ==
  ASSUME ConstantsOK, TypeInv, TypeInv', HomeInv, NEW j \in Jobs, EarlyFailure(j)
  PROVE  HomeInv'
  <1>1. /\ UNCHANGED <<pods, homes>> /\ \A i \in Jobs \ {j} : loc'[i] = loc[i]
        /\ loc[j].pc \in {"home", "node", "read", "list", "homePods", "homeJobs"}
        /\ loc'[j].pc \in {IF loc[j].pc = "list" THEN "read" ELSE
                           IF loc[j].pc = "homeJobs" THEN "homePods" ELSE loc[j].pc,
                           "fail"}
        /\ HomeNoted
    BY EarlyFailureOK DEF EarlyFailure, Moves, HomeNoted, krb
  <1>2. KindOf[j] \in Creating => loc[j].pc \in {"home", "node"}
    BY <1>1, KindAt DEF Creating
  <1>3. Calm(j)
    BY <1>1, <1>2 DEF Calm, UpPCs, Done, Handing, Idle
  <1> QED BY <1>1, <1>3, CalmKeeps

LEMMA CrashHome ==
  ASSUME ConstantsOK, TypeInv, TypeInv', HomeInv, NEW j \in Jobs, Crash(j)
  PROVE  HomeInv'
  <1>1. /\ UNCHANGED <<pods, homes>> /\ \A i \in Jobs \ {j} : loc'[i] = loc[i]
        /\ loc'[j].pc \in {ResumeAt(j), "fail"} /\ Running(j) /\ HomeNoted
    BY CrashOK DEF Crash, Moves, HomeNoted, krb
  <1>2. Calm(j)
    <2>1. CASE loc'[j].pc = "fail"
      BY <1>1, <2>1 DEF Calm, UpPCs, Done, Handing, Idle, Running, Final
    <2>2. CASE loc'[j].pc = ResumeAt(j)
      <3>1. /\ ResumeAt(j) \in {"home", "node", "build", "read", "homePods", "dropServices",
                               "dropRows", "dropPod", "keys"}
            /\ ResumeAt(j) \in PCsOf(KindOf[j])
            /\ ResumeAt(j) \in {"home", "node"} => loc[j].pc = ResumeAt(j)
            /\ ResumeAt(j) = "build" => loc[j].pc \in MakePCs
            /\ ResumeAt(j) \in Handing => loc[j].pc \in Handing \cup {"gone"}
        BY <1>1, ResumedAt
      <3>2. KindOf[j] \in Creating => ResumeAt(j) \notin {"read", "homePods"}
        BY <3>1 DEF PCsOf, Creating, MakePCs, Handing
      <3>3. KindOf[j] \in Creating => loc[j].pc # "gone"
        BY KindAt DEF Creating
      <3>4. loc[j].pc \notin {"new", "fail"}
        BY <1>1 DEF Running, Final
      <3> QED BY <2>2, <3>1, <3>2, <3>3, <3>4
              DEF Calm, UpPCs, Done, Handing, MakePCs, Idle
    <2> QED BY <1>1, <2>1, <2>2
  <1> QED BY <1>1, <1>2, CalmKeeps

\* a Pod of a creation that went on to its Services is not Terminating
LEMMA PodGoneHome ==
  ASSUME ConstantsOK, TypeInv, HomeInv, NEW p \in PodNames, PodGone(p)
  PROVE  HomeInv'
  <1>1. /\ pods[p].st = "term" /\ pods' = [pods EXCEPT ![p] = NoPod]
        /\ UNCHANGED <<homes, loc>> /\ HomeNoted
    BY DEF PodGone, HomeNoted, krb
  <1>2. /\ \A q \in PodNames : q # p => pods'[q] = pods[q]
        /\ pods'[p].st = "none"
    BY <1>1 DEF TypeInv, TypeOK, NoPod
  <1>3. ASSUME NEW i \in Jobs PROVE PodLate(i)'
    <2>1. PodLate(i) /\ i \in PodNames
      BY DEF HomeInv, PodNames
    <2> QED BY <1>1, <1>2, <2>1 DEF PodLate
  <1>4. \A q \in Old : pods[q].st = "none" => pods'[q].st = "none"
    BY <1>2 DEF PodNames
  <1> QED BY <1>1, <1>3, <1>4, HomeKept

LEMMA HomeStays ==
  ASSUME HomeInv, UNCHANGED <<pods, homes, loc, unseen>> PROVE HomeInv'
  BY DEF HomeInv, PodLate, HomeSeen, HomeGone, NoOld, Excused

LEMMA InitHome == ASSUME ConstantsOK, Init PROVE HomeInv
  <1>1. \A j \in Jobs : loc[j].pc = "new"
    BY DEF Init, Blank
  <1>2. \A j \in Jobs : pods[j].st = "none"
    BY DEF Init, PodNames, NoPod, ConstantsOK
  <1>3. homes = Users
    BY DEF Init
  <1> QED BY <1>1, <1>2, <1>3
          DEF HomeInv, PodLate, HomeSeen, HomeGone, UpPCs, Done, Handing

LEMMA NextHome ==
  ASSUME ConstantsOK, TypeInv, TypeInv', HomeInv, [Next]_vars PROVE HomeInv'
  <1>1. CASE UNCHANGED vars
    BY <1>1, HomeStays DEF vars, krb
  <1>2. ASSUME NEW j \in Jobs, Register(j) \/ Step(j) \/ Crash(j) PROVE HomeInv'
    <2>1. CASE Create(j)
      BY <2>1, RestoreHomeHome, MigrateNodeHome, CreatePodHome, CleanPodHome, MakeHome
         DEF Create
    <2>2. CASE Ports(j) \/ Change(j)
      BY <2>2, PortsHome, ServingHome DEF Ports
    <2>3. CASE Remove(j)
      BY <2>3, DropHome, DropPodHome DEF Remove
    <2>4. CASE Home(j)
      BY <2>4, HomePodsHome, HomeJobsHome, HomeDeleteHome DEF Home
    <2>5. CASE Register(j) \/ EarlyFailure(j) \/ Crash(j)
      BY <2>5, RegisterHome, EarlyFailureHome, CrashHome
    <2> QED BY <1>2, <2>1, <2>2, <2>3, <2>4, <2>5 DEF Step
  <1>3. CASE Cron \/ CronDies
    <2>1. UNCHANGED <<pods, homes, loc, unseen>>
      BY <1>3 DEF Cron, CronList, CronClaim, CronCheck, CronRemove, CronDone, CronDies
    <2> QED BY <2>1, HomeStays
  <1>4. ASSUME NEW p \in PodNames, PodGone(p) \/ AgeOut(p) PROVE HomeInv'
    <2>1. CASE AgeOut(p)
      BY <2>1, HomeStays DEF AgeOut, krb
    <2> QED BY <1>4, <2>1, PodGoneHome
  <1> QED BY <1>1, <1>2, <1>3, <1>4 DEF Next

\* A Pod in use has its home, whatever deletions of homes, creations and
\* migrations overlap, fail, are retried or crash: a home goes only from under
\* a creation that ended between the two looks of a deletion, or that found
\* the home there after both.  Nothing else can escape the looks: neither an
\* old Pod, nor a creation under way, nor a migration that starts during the
\* deletion.
THEOREM HomeOfPodInUse == Spec => []PodHasHome
  <1>1. Init => HomeInv
    BY ConstantsOK, InitHome
  <1>2. TypeInv /\ TypeInv' /\ HomeInv /\ [Next]_vars => HomeInv'
    BY ConstantsOK, NextHome
  <1>3. TypeInv /\ HomeInv => PodHasHome
    BY HomeOfPod
  <1> QED BY <1>1, <1>2, <1>3, Types, PTL DEF Spec

-----------------------------------------------------------------------------
(* The keytab of a Pod in use                                              *)

Early   == {"new", "home", "node"}
Reach   == MakePCs \cup Handing   \* where a creation knows its node
Opening == PortPCs \ {"read"}     \* where a port job knows the Pod's node
Landing == {"clear", "pod"}       \* where a creation has deployed the keytab
Asking  == {"list", "dropPort", "reconcile", "stale", "alloc"}
                                  \* where a port job is to allocate its ports

\* the rows of a Pod name the Pod's node
RowsPlaced == \A r \in rows : pods[r.pod].st # "none" => r.node = pods[r.pod].node
\* the rows and the Pod of a creation are on the node that its worker knows,
\* and so is the old Pod of a port job, which allocates no base port
RowLate(j) ==
  /\ KindOf[j] \in Creating => loc[j].pc \notin Early \/ \A r \in rows : r.pod # j
  /\ KindOf[j] \notin Creating => \A r \in rows : r.pod # j
  /\ KindOf[j] \in Creating /\ loc[j].pc \in Reach =>
       /\ \A r \in rows : r.pod = j => r.node = loc[j].node
       /\ pods[j].st # "none" => pods[j].node = loc[j].node
  /\ KindOf[j] = "port" /\ loc[j].pc \in Opening /\ pods[Target(j)].st # "none" =>
       pods[Target(j)].node = loc[j].node
  /\ KindOf[j] = "port" /\ loc[j].pc \in Asking => loc[j].add \cap Base = {}
\* the Pod whose keytab a job removes is going
RemoveSafe(j) == loc[j].pc \in {"keys", "remove"} => pods[Target(j)].st # "up"
CronSafe == cron.pc \in {"check", "remove"} => \E k \in Where : cron.of = {k}

\* a Pod that has its base ports in the table and needs the keytab of its node
Keyed(p) ==
  /\ \E r \in rows : r.pod = p /\ r.iport \in Base
  /\ \/ p \in Jobs /\ loc[p].pc \in Landing
     \/ pods[p].st = "up" /\ (p \in Jobs => loc[p].pc \in UpPCs \cup Done)
KeyNode(p) == IF p \in Jobs /\ loc[p].pc \in Landing THEN loc[p].node
                                                     ELSE pods[p].node
\* the keytab is there and nobody is about to remove it, or somebody is who
\* has not seen the Pod
Guarded(p) ==
  Keyed(p) => \/ <<p, "keytab">> \in unseen
              \/ /\ <<UserOf[p], KeyNode(p)>> \in keytabs
                 /\ ~Removing(UserOf[p], KeyNode(p))

KeyInv == /\ RowsPlaced /\ CronSafe /\ \A j \in Jobs : RowLate(j) /\ RemoveSafe(j)
          /\ \A p \in PodNames : Guarded(p)

LEMMA KeyOfPod == ASSUME ConstantsOK, TypeInv, KeyInv PROVE PodHasKeytab
  <1>1. SUFFICES ASSUME NEW p \in PodNames, InService(p), <<p, "keytab">> \notin unseen
                 PROVE  <<UserOf[p], pods[p].node>> \in keytabs
    BY DEF PodHasKeytab, HasKeytab
  <1>2. pods[p].st = "up" /\ (p \in Jobs => loc[p].pc \in Done)
    BY <1>1 DEF InService, Serves, Done
  <1>3. \E r \in rows : r.pod = p /\ r.iport \in Base
    <2>1. PICK b : b \in Base
      BY DEF ConstantsOK
    <2>2. b \in {r.iport : r \in RowsOf(p)}
      BY <1>1, <2>1 DEF InService
    <2> QED BY <2>1, <2>2 DEF RowsOf
  <1>4. KeyNode(p) = pods[p].node
    BY <1>2 DEF KeyNode, Done, Handing, Landing
  <1>5. Keyed(p)
    BY <1>2, <1>3 DEF Keyed
  <1> QED BY <1>1, <1>4, <1>5 DEF KeyInv, Guarded

\* where a step of a job leads, as far as the nodes are concerned
KeyMove(j) ==
  /\ KindOf[j] \in Creating =>
       /\ loc'[j].pc \in Early => loc[j].pc \in Early
       /\ loc'[j].pc \in Reach =>
            \/ loc[j].pc \in Early
            \/ loc[j].pc \in Reach /\ loc'[j].node = loc[j].node
       /\ loc'[j].pc \in UpPCs \cup Done =>
            \/ loc[j].pc \in UpPCs \cup Done
            \/ loc[j].pc = "pod" /\ pods'[j].node = loc[j].node
  /\ KindOf[j] = "port" /\ loc'[j].pc \in Opening =>
       \/ loc[j].pc \in Opening /\ loc'[j].node = loc[j].node
       \/ pods[Target(j)].st # "none" => pods[Target(j)].node = loc'[j].node
  /\ KindOf[j] = "port" /\ loc'[j].pc \in Asking =>
       \/ loc[j].pc \in Asking /\ loc'[j].add = loc[j].add
       \/ loc'[j].add \cap Base = {}
  /\ loc'[j].pc \in {"keys", "remove"} => pods'[Target(j)].st # "up"
\* no Pod appears or moves, but the one that a creation makes
PodsLess(j) ==
  \A p \in PodNames : pods'[p].st # "none" =>
    \/ /\ pods[p].st # "none" /\ pods'[p].node = pods[p].node
       /\ pods'[p].st = "up" => pods[p].st = "up"
    \/ /\ p = j /\ KindOf[j] \in Creating /\ loc[j].pc = "pod"
       /\ pods'[p].node = loc[j].node
\* no row appears, but those of an allocation
RowsLess(j) ==
  \A r \in rows' : r \in rows \/ /\ r.pod = PodOf(j) /\ r.node = loc[j].node
                                 /\ loc[j].pc = "alloc" /\ pods' = pods
                                 /\ KindOf[j] = "port" => r.iport \notin Base
\* no keytab goes and none is about to go, and the worker has deployed no
\* other keytab
KeysStay == /\ cron' = cron /\ keytabs \subseteq keytabs'
            /\ \A p : <<p, "keytab">> \in unseen => <<p, "keytab">> \in unseen'
Landed(j) == loc'[j].pc \in Landing => loc[j].pc \in Landing /\ loc'[j].node = loc[j].node

\* an allocation is for the job's own Pod or for an old one
LEMMA AllocPod ==
  ASSUME ConstantsOK, TypeInv, NEW j \in Jobs, loc[j].pc = "alloc"
  PROVE  /\ UserOf[PodOf(j)] = UserOf[j]
         /\ \/ KindOf[j] \in Creating /\ PodOf(j) = j
            \/ KindOf[j] = "port" /\ PodOf(j) = Target(j) /\ Target(j) \in Old
  <1>1. KindOf[j] \in Creating \cup {"port"}
    BY AllocKnown
  <1>2. CASE KindOf[j] = "port"
    BY <1>2 DEF ConstantsOK, Targeting, PodOf, Target
  <1>3. CASE KindOf[j] # "port"
    BY <1>1, <1>3 DEF PodOf
  <1> QED BY <1>2, <1>3

LEMMA PlacesApart ==
  /\ {"alloc", "pod"} \subseteq Reach /\ "alloc" \in Opening /\ Asking \subseteq Opening
  /\ Early \cap Reach = {} /\ Landing \subseteq Reach /\ UpPCs \subseteq Reach
  /\ Handing \subseteq Reach
  /\ (UpPCs \cup Done) \cap Landing = {} /\ "alloc" \notin UpPCs \cup Done \cup Landing
  /\ "pod" \in Landing /\ "pod" \notin UpPCs \cup Done
  BY DEF Reach, MakePCs, Handing, Opening, PortPCs, Early, Landing, UpPCs, Done, Asking

LEMMA RowsPlacedKept ==
  ASSUME ConstantsOK, TypeInv, TypeInv', KeyInv, NEW j \in Jobs, PodsLess(j), RowsLess(j)
  PROVE  RowsPlaced'
  <1>1. SUFFICES ASSUME NEW r \in rows', pods'[r.pod].st # "none"
                 PROVE  r.node = pods'[r.pod].node
    BY DEF RowsPlaced
  <1>2. r.pod \in PodNames
    BY DEF TypeInv, TypeOK, Row
  <1>3. RowLate(j)
    BY DEF KeyInv
  <1>4. CASE r \in rows
    <2>1. CASE pods[r.pod].st # "none" /\ pods'[r.pod].node = pods[r.pod].node
      BY <1>4, <2>1 DEF KeyInv, RowsPlaced
    <2>2. CASE /\ r.pod = j /\ KindOf[j] \in Creating /\ loc[j].pc = "pod"
               /\ pods'[r.pod].node = loc[j].node
      BY <1>3, <1>4, <2>2, PlacesApart DEF RowLate
    <2> QED BY <1>1, <1>2, <2>1, <2>2 DEF PodsLess
  <1>5. CASE /\ r.pod = PodOf(j) /\ r.node = loc[j].node
             /\ loc[j].pc = "alloc" /\ pods' = pods
    BY <1>1, <1>3, <1>5, AllocPod, PlacesApart DEF RowLate
  <1> QED BY <1>4, <1>5 DEF RowsLess

LEMMA RowLateKept ==
  ASSUME ConstantsOK, TypeInv, TypeInv', HomeInv, KeyInv, NEW j \in Jobs,
         \A i \in Jobs \ {j} : loc'[i] = loc[i],
         KeyMove(j), PodsLess(j), RowsLess(j), NEW i \in Jobs
  PROVE  RowLate(i)'
  <1>1. RowLate(i) /\ PodLate(i) /\ i \in PodNames /\ i \notin Old
    BY DEF KeyInv, HomeInv, PodNames, ConstantsOK
  <1>2. ASSUME NEW r \in rows', r.pod = i, r \notin rows
        PROVE  i = j /\ KindOf[j] \in Creating /\ loc[j].pc = "alloc" /\ r.node = loc[j].node
    BY <1>1, <1>2, AllocPod DEF RowsLess
  <1>3. ASSUME NEW p \in PodNames, p # j, pods'[p].st # "none"
        PROVE  pods[p].st # "none" /\ pods'[p].node = pods[p].node
    BY <1>3 DEF PodsLess
  <1>4. ASSUME KindOf[i] \in Creating, loc'[i].pc \in Early
        PROVE  \A r \in rows' : r.pod # i
    <2>1. loc[i].pc \in Early
      BY <1>4 DEF KeyMove
    <2> QED BY <1>1, <1>2, <1>4, <2>1, PlacesApart DEF RowLate
  <1>5. ASSUME KindOf[i] \notin Creating PROVE \A r \in rows' : r.pod # i
    BY <1>1, <1>2, <1>5 DEF RowLate
  <1>6. ASSUME KindOf[i] \in Creating, loc'[i].pc \in Reach
        PROVE  /\ \A r \in rows' : r.pod = i => r.node = loc'[i].node
               /\ pods'[i].st # "none" => pods'[i].node = loc'[i].node
    <2>1. CASE i # j
      <3>1. loc'[i] = loc[i]
        BY <2>1
      <3> QED BY <1>1, <1>2, <1>3, <1>6, <2>1, <3>1 DEF RowLate
    <2>2. CASE i = j /\ loc[j].pc \in Early
      <3>1. pods[j].st = "none"
        BY <1>1, <2>2 DEF PodLate, Early
      <3>2. pods'[j].st = "none"
        BY <1>1, <2>2, <3>1, PlacesApart DEF PodsLess
      <3> QED BY <1>1, <1>2, <1>6, <2>2, <3>2, PlacesApart DEF RowLate
    <2>3. CASE i = j /\ loc[j].pc \in Reach /\ loc'[j].node = loc[j].node
      <3>1. /\ \A r \in rows : r.pod = j => r.node = loc[j].node
            /\ pods[j].st # "none" => pods[j].node = loc[j].node
        BY <1>1, <1>6, <2>3 DEF RowLate
      <3>2. pods'[j].st # "none" => pods'[j].node = loc[j].node
        BY <1>1, <2>3, <3>1 DEF PodsLess
      <3> QED BY <1>2, <2>3, <3>1, <3>2
    <2> QED BY <1>6, <2>1, <2>2, <2>3 DEF KeyMove
  <1>7. ASSUME KindOf[i] = "port", loc'[i].pc \in Opening, pods'[Target(i)].st # "none"
        PROVE  pods'[Target(i)].node = loc'[i].node
    <2>1. Target(i) \in Old /\ Target(i) \in PodNames /\ Target(i) # j
      BY <1>7 DEF ConstantsOK, Targeting, Target, PodNames
    <2>2. pods[Target(i)].st # "none" /\ pods'[Target(i)].node = pods[Target(i)].node
      BY <1>3, <1>7, <2>1
    <2> QED BY <1>1, <1>7, <2>2 DEF RowLate, KeyMove
  <1>8. ASSUME KindOf[i] = "port", loc'[i].pc \in Asking PROVE loc'[i].add \cap Base = {}
    BY <1>1, <1>8 DEF RowLate, KeyMove
  <1> QED BY <1>4, <1>5, <1>6, <1>7, <1>8 DEF RowLate, Target

LEMMA RemoveSafeKept ==
  ASSUME ConstantsOK, TypeInv, TypeInv', KeyInv, NEW j \in Jobs,
         \A i \in Jobs \ {j} : loc'[i] = loc[i],
         KeyMove(j), PodsLess(j), NEW i \in Jobs
  PROVE  RemoveSafe(i)'
  <1>1. CASE i = j
    BY <1>1 DEF KeyMove, RemoveSafe, Target
  <1>2. CASE i # j
    <2>1. loc'[i] = loc[i] /\ RemoveSafe(i)
      BY <1>2 DEF KeyInv
    <2>2. ASSUME loc[i].pc \in {"keys", "remove"} PROVE pods'[Target(i)].st # "up"
      <3>1. Target(i) \in PodNames /\ Target(i) # j
        <4>1. KindOf[i] \in {"migrate", "revoke", "delete"}
          BY <2>2, DropPlaces, Dropping
        <4> QED BY <4>1 DEF ConstantsOK, Targeting, Target, PodNames
      <3> QED BY <2>1, <2>2, <3>1 DEF RemoveSafe, PodsLess
    <2> QED BY <2>1, <2>2 DEF RemoveSafe, Target
  <1> QED BY <1>1, <1>2

\* only a deployment makes a Pod need a keytab that it did not need
LEMMA KeyedBefore ==
  ASSUME ConstantsOK, TypeInv, TypeInv', KeyInv, NEW j \in Jobs,
         \A i \in Jobs \ {j} : loc'[i] = loc[i],
         KeyMove(j), PodsLess(j), RowsLess(j),
         NEW p \in PodNames, p = j => Landed(j), Keyed(p)'
  PROVE  Keyed(p) /\ KeyNode(p)' = KeyNode(p)
  <1>1. PICK r \in rows' : r.pod = p /\ r.iport \in Base
    BY DEF Keyed
  <1>2. \/ p \in Jobs /\ loc'[p].pc \in Landing
        \/ pods'[p].st = "up" /\ (p \in Jobs => loc'[p].pc \in UpPCs \cup Done)
    BY DEF Keyed
  <1>3. r \in rows
    <2>1. SUFFICES ASSUME r \notin rows PROVE FALSE
      OBVIOUS
    <2>2. /\ p = PodOf(j) /\ loc[j].pc = "alloc"
          /\ KindOf[j] = "port" => r.iport \notin Base
      BY <1>1, <2>1 DEF RowsLess
    <2>3. KindOf[j] \in Creating /\ p = j
      BY <1>1, <2>2, AllocPod
    <2> QED BY <1>2, <2>2, <2>3, PlacesApart DEF KeyMove, Landed
  <1>4. ASSUME p # j, pods'[p].st = "up" PROVE pods[p].st = "up" /\ pods'[p].node = pods[p].node
    BY <1>4 DEF PodsLess
  <1>5. CASE p # j
    <2>1. p \in Jobs => loc'[p] = loc[p]
      BY <1>5
    <2> QED BY <1>1, <1>2, <1>3, <1>4, <1>5, <2>1, PlacesApart DEF Keyed, KeyNode
  <1>6. CASE p = j
    <2>1. KindOf[j] \in Creating /\ Landed(j)
      BY <1>1, <1>3, <1>6 DEF KeyInv, RowLate
    <2>2. CASE loc'[j].pc \in Landing
      BY <1>1, <1>3, <1>6, <2>1, <2>2 DEF Landed, Keyed, KeyNode
    <2>3. CASE loc'[j].pc \notin Landing
      <3>1. pods'[j].st = "up" /\ loc'[j].pc \in UpPCs \cup Done
        BY <1>2, <1>6, <2>3
      <3>2. CASE loc[j].pc \in UpPCs \cup Done
        <4>1. pods[j].st = "up" /\ pods'[j].node = pods[j].node
          BY <1>6, <3>1, <3>2, PlacesApart DEF PodsLess
        <4> QED BY <1>1, <1>3, <1>6, <2>3, <3>2, <4>1, PlacesApart DEF Keyed, KeyNode
      <3>3. CASE loc[j].pc = "pod" /\ pods'[j].node = loc[j].node
        BY <1>1, <1>3, <1>6, <2>3, <3>3, PlacesApart DEF Keyed, KeyNode
      <3> QED BY <2>1, <3>1, <3>2, <3>3 DEF KeyMove
    <2> QED BY <2>2, <2>3
  <1> QED BY <1>5, <1>6

LEMMA RemovingBefore ==
  ASSUME NEW j \in Jobs, \A i \in Jobs \ {j} : loc'[i] = loc[i], UNCHANGED cron,
         loc'[j].pc # "remove", NEW u, NEW n, Removing(u, n)'
  PROVE  Removing(u, n)
  BY DEF Removing

LEMMA GuardedKept ==
  ASSUME ConstantsOK, TypeInv, TypeInv', KeyInv, NEW j \in Jobs,
         \A i \in Jobs \ {j} : loc'[i] = loc[i],
         KeyMove(j), PodsLess(j), RowsLess(j), KeysStay, Landed(j), loc'[j].pc # "remove",
         NEW p \in PodNames
  PROVE  Guarded(p)'
  <1>1. SUFFICES ASSUME Keyed(p)', <<p, "keytab">> \notin unseen'
                 PROVE  /\ <<UserOf[p], KeyNode(p)'>> \in keytabs'
                        /\ ~Removing(UserOf[p], KeyNode(p))'
    BY DEF Guarded
  <1>2. Keyed(p) /\ KeyNode(p)' = KeyNode(p)
    BY <1>1, KeyedBefore
  <1>3. /\ <<UserOf[p], KeyNode(p)>> \in keytabs
        /\ ~Removing(UserOf[p], KeyNode(p))
    BY <1>1, <1>2 DEF KeyInv, Guarded, KeysStay
  <1>4. ~Removing(UserOf[p], KeyNode(p))'
    <2>1. ASSUME NEW n, n = KeyNode(p), Removing(UserOf[p], n)' PROVE FALSE
      BY <1>3, <2>1, RemovingBefore DEF KeysStay
    <2>2. PICK n : n = KeyNode(p)
      OBVIOUS
    <2> QED BY <1>2, <2>1, <2>2 DEF Removing
  <1> QED BY <1>2, <1>3, <1>4 DEF KeysStay

LEMMA KeyRest ==
  ASSUME ConstantsOK, TypeInv, TypeInv', HomeInv, KeyInv, NEW j \in Jobs,
         \A i \in Jobs \ {j} : loc'[i] = loc[i], UNCHANGED cron,
         KeyMove(j), PodsLess(j), RowsLess(j), \A p \in PodNames : Guarded(p)'
  PROVE  KeyInv'
  <1>1. CronSafe'
    BY DEF KeyInv, CronSafe
  <1> QED BY <1>1, RowsPlacedKept, RowLateKept, RemoveSafeKept DEF KeyInv

LEMMA KeySteps ==
  ASSUME ConstantsOK, TypeInv, TypeInv', HomeInv, KeyInv, NEW j \in Jobs,
         \A i \in Jobs \ {j} : loc'[i] = loc[i],
         KeyMove(j), PodsLess(j), RowsLess(j), KeysStay, Landed(j), loc'[j].pc # "remove"
  PROVE  KeyInv'
  <1>1. \A p \in PodNames : Guarded(p)'
    BY GuardedKept
  <1> QED BY <1>1, KeyRest DEF KeysStay

\* the same, said of the places only
LEMMA PlainKeeps ==
  ASSUME ConstantsOK, TypeInv, TypeInv', HomeInv, KeyInv, NEW j \in Jobs, NEW S,
         Moves(j, S), KeysStay, PodsLess(j), rows' \subseteq rows,
         KindOf[j] \in Creating =>
           /\ loc'[j].pc \in Early => loc[j].pc \in Early
           /\ loc'[j].pc \in Reach => loc[j].pc \in Early \cup Reach
           /\ loc'[j].pc \in UpPCs \cup Done =>
                \/ loc[j].pc \in UpPCs \cup Done
                \/ loc[j].pc = "pod" /\ pods'[j].node = loc[j].node,
         KindOf[j] = "port" =>
           /\ loc'[j].pc \in Opening => loc[j].pc \in Opening
           /\ loc'[j].pc \in Asking => loc[j].pc \in Asking /\ loc'[j].add = loc[j].add,
         loc'[j].pc # "remove",
         loc'[j].pc = "keys" => pods'[Target(j)].st # "up",
         loc'[j].pc \in Landing => loc[j].pc \in Landing
  PROVE  KeyInv'
  <1>1. loc'[j].pc \in Reach \cup Opening \cup Landing => loc'[j].node = loc[j].node
    <2>1. loc'[j].node = loc[j].node \/ loc'[j].pc \in Final
      BY DEF Moves
    <2>2. Final \cap (Reach \cup Opening \cup Landing) = {}
      BY DEF Final, Reach, MakePCs, Handing, Opening, PortPCs, Landing
    <2> QED BY <2>1, <2>2
  <1>2. RowsLess(j) /\ Landed(j)
    BY <1>1 DEF RowsLess, Landed
  <1>3. KeyMove(j)
    BY <1>1 DEF KeyMove
  <1>4. \A i \in Jobs \ {j} : loc'[i] = loc[i]
    BY DEF Moves
  <1> QED BY <1>2, <1>3, <1>4, KeySteps

LEMMA PodsSame == ASSUME NEW j, UNCHANGED pods PROVE PodsLess(j)
  BY DEF PodsLess

LEMMA PodsEnd ==
  ASSUME TypeInv, NEW j, NEW p \in PodNames,
         \/ pods[p].st = "up" /\ pods' = [pods EXCEPT ![p].st = "term"]
         \/ pods' = [pods EXCEPT ![p] = NoPod]
         \/ pods' = pods
  PROVE  PodsLess(j)
  <1>1. pods \in [PodNames -> [st: {"none", "up", "term"}, node: Nodes \cup {"none"}]]
    BY DEF TypeInv, TypeOK
  <1>2. CASE pods[p].st = "up" /\ pods' = [pods EXCEPT ![p].st = "term"]
    BY <1>1, <1>2 DEF PodsLess
  <1>3. CASE pods' = [pods EXCEPT ![p] = NoPod]
    BY <1>1, <1>3 DEF PodsLess, NoPod
  <1>4. CASE pods' = pods
    BY <1>4 DEF PodsLess
  <1> QED BY <1>2, <1>3, <1>4

LEMMA RegisterKey ==
  ASSUME ConstantsOK, TypeInv, TypeInv', HomeInv, KeyInv, NEW j \in Jobs, Register(j)
  PROVE  KeyInv'
  <1>1. loc[j].pc = "new" /\ UNCHANGED <<pods, rows>> /\ KeysStay
    BY DEF Register, At, ports, krb, KeysStay
  <1>2. Moves(j, {First(KindOf[j])})
    BY RegisterOK
  <1>3. /\ loc'[j].pc \in {"home", "node", "dropServices", "read", "homePods"}
        /\ KindOf[j] \in Creating => loc'[j].pc \in {"home", "node"}
    <2>1. KindOf[j] \in Kinds /\ loc'[j].pc = First(KindOf[j])
      BY <1>2 DEF ConstantsOK, Moves
    <2> QED BY <2>1 DEF First, Kinds, Creating
  <1>4. PodsLess(j)
    BY <1>1, PodsSame
  <1>5. KindOf[j] \in Creating => loc'[j].pc \notin UpPCs \cup Done
    BY <1>3 DEF UpPCs, Done, Handing
  <1>6. loc'[j].pc \notin Opening \cup Asking \cup Landing
    BY <1>3 DEF Opening, PortPCs, Asking, Landing
  <1>7. loc'[j].pc \notin {"keys", "remove"} /\ loc[j].pc \in Early
    BY <1>1, <1>3 DEF Early
  <1> QED BY <1>1, <1>2, <1>4, <1>5, <1>6, <1>7, PlainKeeps

\* a creation gets to know its node while it has neither rows nor a Pod
LEMMA NodeKey ==
  ASSUME ConstantsOK, TypeInv, TypeInv', HomeInv, KeyInv, NEW j \in Jobs,
         ProvisionNode(j) \/ MigrateNode(j)
  PROVE  KeyInv'
  <1>1. /\ loc[j].pc = "node" /\ UNCHANGED <<pods, rows>> /\ KeysStay
        /\ KindOf[j] \in {"provision", "migrate"}
    BY DEF ProvisionNode, MigrateNode, At, ports, krb, KeysStay
  <1>2. loc'[j].pc \in {"build", "fail"} /\ \A i \in Jobs \ {j} : loc'[i] = loc[i]
    BY NodeOK
  <1>3. KeyMove(j) /\ Landed(j)
    BY <1>1, <1>2 DEF KeyMove, Early, Landed, Landing, UpPCs, Done, Handing, Asking
  <1>4. PodsLess(j) /\ RowsLess(j)
    BY <1>1 DEF PodsLess, RowsLess
  <1> QED BY <1>1, <1>2, <1>3, <1>4, KeySteps

\* the steps of a creation
LEMMA MakePlain ==
  ASSUME ConstantsOK, TypeInv, TypeInv', HomeInv, KeyInv, NEW j \in Jobs, NEW S, Moves(j, S),
         UNCHANGED pods, KeysStay, rows' \subseteq rows,
         loc[j].pc \in MakePCs \ PortPCs, S \subseteq MakePCs \cup {"fail"},
         S \cap Landing = {} \/ loc[j].pc \in Landing,
         S \cap UpPCs = {} \/ loc[j].pc \in UpPCs
  PROVE  KeyInv'
  <1>1. KindOf[j] # "port" /\ loc[j].pc \in MakePCs
    BY Making
  <1>2. PodsLess(j)
    BY PodsSame
  <1>3. loc'[j].pc \in S
    BY DEF Moves
  <1>4. /\ loc'[j].pc \in MakePCs \cup {"fail"}
        /\ loc'[j].pc \in Landing => loc[j].pc \in Landing
        /\ loc'[j].pc \in UpPCs => loc[j].pc \in UpPCs
    BY <1>3
  <1>5. /\ loc'[j].pc \notin {"keys", "remove"} /\ loc'[j].pc \notin Early \cup Done
        /\ loc[j].pc \in Reach
    BY <1>1, <1>4 DEF Early, Reach, MakePCs, Done, Handing
  <1> QED BY <1>1, <1>2, <1>4, <1>5, PlainKeeps

LEMMA MakeKey ==
  ASSUME ConstantsOK, TypeInv, TypeInv', HomeInv, KeyInv, NEW j \in Jobs,
         \/ RestoreHome(j) \/ BuildStart(j) \/ ClearPending(j)
         \/ UndoBuild(j) \/ PodMade(j) \/ WaitReady(j) \/ ServicesStart(j)
         \/ CleanServices(j) \/ CleanRows(j) \/ CleanBlind(j)
  PROVE  KeyInv'
  <1>1. CASE RestoreHome(j)
    <2>1. /\ loc[j].pc = "home" /\ UNCHANGED <<pods, rows>>
          /\ Moves(j, {"node"}) /\ PodsLess(j)
      BY <1>1, RestoreHomeOK, PodsSame DEF RestoreHome, At, ports
    <2>2. KeysStay
      BY <1>1 DEF RestoreHome, KeysStay
    <2>3. loc'[j].pc = "node" /\ KindOf[j] # "port"
      BY <2>1, KindAt DEF Moves
    <2>4. /\ loc'[j].pc \notin Landing \cup Reach \cup UpPCs \cup Done
          /\ loc[j].pc \in Early
      BY <2>1, <2>3 DEF Landing, Reach, MakePCs, Handing, UpPCs, Done, Early
    <2> QED BY <2>1, <2>2, <2>3, <2>4, PlainKeeps
  <1>2. CASE BuildStart(j)
    <2>1. Moves(j, {"reconcile"})
      BY <1>2, BuildStartOK
    <2>2. loc[j].pc = "build" /\ UNCHANGED pods /\ KeysStay /\ rows' \subseteq rows
      BY <1>2 DEF BuildStart, At, ports, krb, KeysStay
    <2>3. /\ {"reconcile"} \subseteq MakePCs \cup {"fail"} /\ "build" \in MakePCs \ PortPCs
          /\ ({"reconcile"} \cap Landing = {} \/ "build" \in Landing)
          /\ ({"reconcile"} \cap UpPCs = {} \/ "build" \in UpPCs)
      BY DEF MakePCs, PortPCs, Landing, UpPCs
    <2> QED BY <2>1, <2>2, <2>3, MakePlain
  <1>4. CASE ClearPending(j)
    <2>1. Moves(j, {"pod"})
      BY <1>4, ClearPendingOK
    <2>2. loc[j].pc = "clear" /\ UNCHANGED pods /\ KeysStay /\ rows' \subseteq rows
      BY <1>4 DEF ClearPending, At, ports, krb, KeysStay
    <2>3. /\ {"pod"} \subseteq MakePCs \cup {"fail"} /\ "clear" \in MakePCs \ PortPCs
          /\ ({"pod"} \cap Landing = {} \/ "clear" \in Landing)
          /\ ({"pod"} \cap UpPCs = {} \/ "clear" \in UpPCs)
      BY DEF MakePCs, PortPCs, Landing, UpPCs
    <2> QED BY <2>1, <2>2, <2>3, MakePlain
  <1>5. CASE UndoBuild(j)
    <2>1. Moves(j, {"build", "fail"})
      BY <1>5, UndoBuildOK
    <2>2. loc[j].pc = "undo" /\ UNCHANGED pods /\ KeysStay /\ rows' \subseteq rows
      BY <1>5 DEF UndoBuild, At, ports, krb, KeysStay
    <2>3. /\ {"build", "fail"} \subseteq MakePCs \cup {"fail"} /\ "undo" \in MakePCs \ PortPCs
          /\ ({"build", "fail"} \cap Landing = {} \/ "undo" \in Landing)
          /\ ({"build", "fail"} \cap UpPCs = {} \/ "undo" \in UpPCs)
      BY DEF MakePCs, PortPCs, Landing, UpPCs
    <2> QED BY <2>1, <2>2, <2>3, MakePlain
  <1>6. CASE PodMade(j)
    <2>1. Moves(j, {"wait"})
      BY <1>6, PodMadeOK
    <2>2. loc[j].pc = "made" /\ UNCHANGED pods /\ KeysStay /\ rows' \subseteq rows
      BY <1>6 DEF PodMade, At, ports, krb, KeysStay
    <2>3. /\ {"wait"} \subseteq MakePCs \cup {"fail"} /\ "made" \in MakePCs \ PortPCs
          /\ ({"wait"} \cap Landing = {} \/ "made" \in Landing)
          /\ ({"wait"} \cap UpPCs = {} \/ "made" \in UpPCs)
      BY DEF MakePCs, PortPCs, Landing, UpPCs
    <2> QED BY <2>1, <2>2, <2>3, MakePlain
  <1>7. CASE WaitReady(j)
    <2>1. Moves(j, {"services", "cleanRows"})
      BY <1>7, WaitReadyOK
    <2>2. loc[j].pc = "wait" /\ UNCHANGED pods /\ KeysStay /\ rows' \subseteq rows
      BY <1>7 DEF WaitReady, At, ports, krb, KeysStay
    <2>3. /\ {"services", "cleanRows"} \subseteq MakePCs \cup {"fail"} /\ "wait" \in MakePCs \ PortPCs
          /\ ({"services", "cleanRows"} \cap Landing = {} \/ "wait" \in Landing)
          /\ ({"services", "cleanRows"} \cap UpPCs = {} \/ "wait" \in UpPCs)
      BY DEF MakePCs, PortPCs, Landing, UpPCs
    <2> QED BY <2>1, <2>2, <2>3, MakePlain
  <1>8. CASE ServicesStart(j)
    <2>1. Moves(j, {"service"})
      BY <1>8, ServicesStartOK
    <2>2. loc[j].pc = "services" /\ UNCHANGED pods /\ KeysStay /\ rows' \subseteq rows
      BY <1>8 DEF ServicesStart, At, ports, krb, KeysStay
    <2>3. /\ {"service"} \subseteq MakePCs \cup {"fail"} /\ "services" \in MakePCs \ PortPCs
          /\ ({"service"} \cap Landing = {} \/ "services" \in Landing)
          /\ ({"service"} \cap UpPCs = {} \/ "services" \in UpPCs)
      BY DEF MakePCs, PortPCs, Landing, UpPCs
    <2> QED BY <2>1, <2>2, <2>3, MakePlain
  <1>9. CASE CleanServices(j)
    <2>1. Moves(j, {"cleanRows"})
      BY <1>9, CleanServicesOK
    <2>2. loc[j].pc = "cleanServices" /\ UNCHANGED pods /\ KeysStay /\ rows' \subseteq rows
      BY <1>9 DEF CleanServices, At, ports, krb, KeysStay
    <2>3. /\ {"cleanRows"} \subseteq MakePCs \cup {"fail"} /\ "cleanServices" \in MakePCs \ PortPCs
          /\ ({"cleanRows"} \cap Landing = {} \/ "cleanServices" \in Landing)
          /\ ({"cleanRows"} \cap UpPCs = {} \/ "cleanServices" \in UpPCs)
      BY DEF MakePCs, PortPCs, Landing, UpPCs
    <2> QED BY <2>1, <2>2, <2>3, MakePlain
  <1>10. CASE CleanRows(j)
    <2>1. Moves(j, {"cleanPod"})
      BY <1>10, CleanRowsOK
    <2>2. loc[j].pc = "cleanRows" /\ UNCHANGED pods /\ KeysStay /\ rows' \subseteq rows
      BY <1>10 DEF CleanRows, At, ports, krb, KeysStay
    <2>3. /\ {"cleanPod"} \subseteq MakePCs \cup {"fail"} /\ "cleanRows" \in MakePCs \ PortPCs
          /\ ({"cleanPod"} \cap Landing = {} \/ "cleanRows" \in Landing)
          /\ ({"cleanPod"} \cap UpPCs = {} \/ "cleanRows" \in UpPCs)
      BY DEF MakePCs, PortPCs, Landing, UpPCs
    <2> QED BY <2>1, <2>2, <2>3, MakePlain
  <1>11. CASE CleanBlind(j)
    <2>1. Moves(j, {"build", "fail"})
      BY <1>11, CleanBlindOK
    <2>2. loc[j].pc = "cleanBlind" /\ UNCHANGED pods /\ KeysStay /\ rows' \subseteq rows
      BY <1>11 DEF CleanBlind, At, krb, KeysStay
    <2>3. /\ {"build", "fail"} \subseteq MakePCs \cup {"fail"} /\ "cleanBlind" \in MakePCs \ PortPCs
          /\ ({"build", "fail"} \cap Landing = {} \/ "cleanBlind" \in Landing)
          /\ ({"build", "fail"} \cap UpPCs = {} \/ "cleanBlind" \in UpPCs)
      BY DEF MakePCs, PortPCs, Landing, UpPCs
    <2> QED BY <2>1, <2>2, <2>3, MakePlain
  <1> QED BY <1>1, <1>2, <1>4, <1>5, <1>6, <1>7, <1>8, <1>9, <1>10, <1>11

\* the keytab is deployed, unseen by a removal that is under way
LEMMA DeployKey ==
  ASSUME ConstantsOK, TypeInv, TypeInv', HomeInv, KeyInv, NEW j \in Jobs, DeployKeytab(j)
  PROVE  KeyInv'
  <1>1. /\ loc[j].pc = "deploy" /\ UNCHANGED <<pods, rows, cron>> /\ keytabs \subseteq keytabs'
        /\ \A p \in PodNames \ {j} : <<p, "keytab">> \in unseen => <<p, "keytab">> \in unseen'
        /\ unseen' = IF Removing(UserOf[j], loc[j].node)
                     THEN unseen \cup {<<j, "keytab">>} ELSE unseen \ {<<j, "keytab">>}
    BY DEF DeployKeytab, At, ports
  <1>2. Moves(j, {"clear", "undo"})
    BY DeployKeytabOK
  <1>3. /\ loc'[j].pc \in {"clear", "undo"} /\ loc'[j].node = loc[j].node
        /\ \A i \in Jobs \ {j} : loc'[i] = loc[i]
    BY <1>2 DEF Moves, Final
  <1>4. KindOf[j] \in Creating /\ KindOf[j] # "port" /\ loc[j].pc \in MakePCs
    BY <1>1, MakePlaces, Making DEF Creating
  <1>5. KeyMove(j)
    <2>1. loc'[j].pc \notin Early \cup UpPCs \cup Done \cup {"keys", "remove"}
      BY <1>3 DEF Early, UpPCs, Done, Handing
    <2> QED BY <1>3, <1>4, <2>1 DEF KeyMove, Reach
  <1>6. PodsLess(j) /\ RowsLess(j)
    BY <1>1 DEF PodsLess, RowsLess
  <1>7. \A u, n : Removing(u, n)' => Removing(u, n)
    BY <1>1, <1>3, RemovingBefore
  <1>8. ASSUME NEW p \in PodNames, p # j PROVE Guarded(p)'
    <2>1. SUFFICES ASSUME Keyed(p)', <<p, "keytab">> \notin unseen'
                   PROVE  /\ <<UserOf[p], KeyNode(p)'>> \in keytabs'
                          /\ ~Removing(UserOf[p], KeyNode(p))'
      BY DEF Guarded
    <2>2. Keyed(p) /\ KeyNode(p)' = KeyNode(p)
      BY <1>3, <1>5, <1>6, <1>8, <2>1, KeyedBefore
    <2>3. /\ <<UserOf[p], KeyNode(p)>> \in keytabs
          /\ ~Removing(UserOf[p], KeyNode(p))
      BY <1>1, <1>8, <2>1, <2>2 DEF KeyInv, Guarded
    <2>4. ~Removing(UserOf[p], KeyNode(p))'
      <3>1. ASSUME NEW n, n = KeyNode(p), Removing(UserOf[p], n)' PROVE FALSE
        BY <1>7, <2>3, <3>1
      <3>2. PICK n : n = KeyNode(p)
        OBVIOUS
      <3> QED BY <2>2, <3>1, <3>2 DEF Removing
    <2> QED BY <1>1, <2>2, <2>3, <2>4
  <1>9. Guarded(j)'
    <2>1. CASE loc'[j].pc = "undo"
      BY <2>1 DEF Guarded, Keyed, Landing, UpPCs, Done, Handing
    <2>2. CASE loc'[j].pc = "clear"
      <3>1. KeyNode(j)' = loc[j].node
        BY <1>3, <2>2 DEF KeyNode, Landing
      <3>2. <<UserOf[j], loc[j].node>> \in keytabs'
        <4>1. ASSUME Go(j, "undo") PROVE FALSE
          <5>1. Moves(j, {"undo"})
            BY <1>4, <4>1, MakePlaces, MakeGoes
          <5> QED BY <2>2, <5>1 DEF Moves
        <4> QED BY <4>1 DEF DeployKeytab
      <3>3. CASE Removing(UserOf[j], loc[j].node)
        BY <1>1, <3>3 DEF Guarded
      <3>4. CASE ~Removing(UserOf[j], loc[j].node)
        <4>1. ~Removing(UserOf[j], KeyNode(j))'
          <5>1. ASSUME NEW n, n = loc[j].node, Removing(UserOf[j], n)' PROVE FALSE
            BY <1>7, <3>4, <5>1
          <5>2. PICK n : n = loc[j].node
            OBVIOUS
          <5> QED BY <3>1, <5>1, <5>2 DEF Removing
        <4> QED BY <3>1, <3>2, <4>1 DEF Guarded
      <3> QED BY <3>3, <3>4
    <2> QED BY <1>3, <2>1, <2>2
  <1> QED BY <1>1, <1>3, <1>5, <1>6, <1>8, <1>9, KeyRest

LEMMA NotCleaned ==
  ASSUME TypeInv, NEW j \in Jobs, loc'[j].pc = "made",
         NEW pc \in {"cleanServices", "cleanRows", "cleanBlind"},
         NEW then \in {"build", "fail"}
  PROVE  ~Clean(j, pc, then)
  <1>1. SUFFICES ASSUME Clean(j, pc, then) PROVE FALSE
    OBVIOUS
  <1>2. loc[j] \in Local /\ loc \in [Jobs -> Local]
    BY DEF TypeInv, TypeOK
  <1>3. loc'[j] = [loc[j] EXCEPT !.pc = pc, !.then = then]
    BY <1>1, <1>2 DEF Clean, Set
  <1>4. loc'[j].pc = pc
    BY <1>2, <1>3 DEF Local
  <1> QED BY <1>4

LEMMA MadeNew ==
  ASSUME ConstantsOK, TypeInv, NEW j \in Jobs, CreatePod(j), loc'[j].pc = "made"
  PROVE  pods[j].st = "none"
  <1>1. \A q \in {"cleanServices", "cleanRows", "cleanBlind"}, t \in {"build", "fail"} :
          ~Clean(j, q, t)
    BY NotCleaned
  <1> QED BY <1>1 DEF CreatePod

\* the Pod is created where its rows are
LEMMA PodKey ==
  ASSUME ConstantsOK, TypeInv, TypeInv', HomeInv, KeyInv, NEW j \in Jobs,
         CreatePod(j) \/ CleanPod(j)
  PROVE  KeyInv'
  <1>1. /\ UNCHANGED rows /\ KeysStay /\ loc[j].pc \in {"pod", "cleanPod"}
        /\ \E S : Moves(j, S)
        /\ loc'[j].pc \in {"made", "cleanRows", "cleanBlind", "build", "fail"}
    BY CreatePodOK, CleanPodOK DEF CreatePod, CleanPod, At, ports, krb, Moves, KeysStay
  <1>2. KindOf[j] \in Creating /\ j \in PodNames /\ KindOf[j] # "port"
    BY <1>1, MakePlaces, Making
  <1>3. PodsLess(j)
    <2>1. CASE CreatePod(j)
      <3>1. pods' \in {pods, [pods EXCEPT ![j] = [st |-> "up", node |-> loc[j].node]]}
            /\ loc[j].pc = "pod"
        BY <2>1 DEF CreatePod, At
      <3> QED BY <1>2, <3>1 DEF PodsLess, TypeInv, TypeOK
    <2>2. CASE CleanPod(j)
      BY <1>2, <2>2, PodsEnd DEF CleanPod
    <2> QED BY <2>1, <2>2
  <1>4. loc'[j].pc = "made" => loc[j].pc = "pod" /\ pods'[j].node = loc[j].node
    <2>1. CASE CleanPod(j)
      <3>1. loc'[j].pc \in {"build", "fail"}
        BY <2>1, CleanPodOK DEF Moves
      <3> QED BY <3>1
    <2>2. CASE CreatePod(j)
      <3>1. SUFFICES ASSUME loc'[j].pc = "made"
                     PROVE  pods'[j].node = loc[j].node /\ loc[j].pc = "pod"
        OBVIOUS
      <3>2. loc[j].pc = "pod" /\ pods'[j].st = "up" /\ HomeInv'
        BY <1>2, <2>2, <3>1, CreatePodHome DEF CreatePod, At, HomeInv, PodLate, UpPCs
      <3>3. pods[j].st # "up"
        BY <2>2, <3>1, MadeNew
      <3> QED BY <1>2, <1>3, <3>2, <3>3 DEF PodsLess
    <2> QED BY <2>1, <2>2
  <1>5. /\ loc'[j].pc \notin Early \cup Landing \cup Done \cup {"keys", "remove"}
        /\ loc'[j].pc \in UpPCs => loc'[j].pc = "made"
    BY <1>1 DEF Early, Landing, Done, Handing, UpPCs
  <1>6. loc[j].pc \in Reach
    BY <1>1 DEF Reach, MakePCs
  <1> QED BY <1>1, <1>2, <1>3, <1>4, <1>5, <1>6, PlainKeeps

\* the steps that allocate, open and close ports, but for new rows
LEMMA OpenKey ==
  ASSUME ConstantsOK, TypeInv, TypeInv', HomeInv, KeyInv, NEW j \in Jobs, NEW S, Moves(j, S),
         UNCHANGED pods, KeysStay, rows' \subseteq rows,
         loc[j].pc \in {"reconcile", "stale", "alloc", "service", "list", "dropPort", "fill"},
         S \cap (Landing \cup Early \cup {"keys", "remove"}) = {},
         S \cap (UpPCs \cup Done) = {} \/ loc[j].pc \in {"service", "fill"},
         loc'[j].pc \in Asking => loc[j].pc \in Asking /\ loc'[j].add = loc[j].add
  PROVE  KeyInv'
  <1>1. PodsLess(j)
    BY PodsSame
  <1>2. loc'[j].pc \notin Landing \cup Early \cup {"keys", "remove"}
    BY DEF Moves
  <1>3. KindOf[j] \in Creating => loc[j].pc \in Reach
    <2>1. CASE loc[j].pc \in {"list", "dropPort", "fill"}
      BY <2>1, Changing DEF Creating
    <2>2. CASE loc[j].pc \in {"reconcile", "stale", "alloc", "service"}
      BY <2>2 DEF Reach, MakePCs
    <2> QED BY <2>1, <2>2
  <1>4. loc[j].pc \in Opening
    BY DEF Opening, PortPCs
  <1>5. KindOf[j] \in Creating /\ loc'[j].pc \in UpPCs \cup Done => loc[j].pc \in UpPCs
    <2>1. loc'[j].pc \in S
      BY DEF Moves
    <2>2. loc[j].pc = "fill" => KindOf[j] \notin Creating
      BY Changing DEF Creating
    <2> QED BY <2>1, <2>2 DEF UpPCs
  <1> QED BY <1>1, <1>2, <1>3, <1>4, <1>5, PlainKeeps

\* what is to be allocated stays in memory
LEMMA AddStays ==
  ASSUME TypeInv, NEW j \in Jobs, NEW m, Set(j, m), m.add = loc[j].add
  PROVE  loc'[j].add = loc[j].add
  <1>1. loc \in [Jobs -> Local] /\ loc' = [loc EXCEPT ![j] = m]
    BY DEF TypeInv, TypeOK, Set
  <1> QED BY <1>1

LEMMA GoAdd ==
  ASSUME TypeInv, NEW j \in Jobs, NEW q, Go(j, q) PROVE loc'[j].add = loc[j].add
  <1>1. PICK m : m = [loc[j] EXCEPT !.pc = q]
    OBVIOUS
  <1>2. loc[j] \in Local
    BY Memory
  <1>3. m.add = loc[j].add
    BY <1>1, <1>2 DEF Local
  <1> QED BY <1>1, <1>3, AddStays DEF Go

LEMMA AddKept ==
  ASSUME ConstantsOK, TypeInv, NEW j \in Jobs, loc'[j].pc \in Asking,
         \/ ReconcileSkip(j) \/ ReconcileList(j) \/ ReconcileDelete(j)
         \/ ListServices(j) \/ DropPort(j) \/ DropPortRow(j)
  PROVE  loc[j].pc \in Asking /\ loc'[j].add = loc[j].add
  <1>1. loc[j] \in Local
    BY Memory
  <1>2. CASE ReconcileSkip(j)
    BY <1>2, GoAdd DEF ReconcileSkip, At, Asking
  <1>3. CASE ReconcileList(j)
    <2>1. PICK m : m = [loc[j] EXCEPT !.pc = "stale", !.pods = {s.pod : s \in svcs}]
      OBVIOUS
    <2>2. m.add = loc[j].add
      BY <1>1, <2>1 DEF Local
    <2> QED BY <1>3, <2>1, <2>2, AddStays DEF ReconcileList, At, Asking
  <1>4. CASE ReconcileDelete(j)
    <2>1. PICK m : m = [loc[j] EXCEPT !.pc = "alloc", !.pods = {}]
      OBVIOUS
    <2>2. m.add = loc[j].add
      BY <1>1, <2>1 DEF Local
    <2> QED BY <1>4, <2>1, <2>2, AddStays DEF ReconcileDelete, At, Asking
  <1>5. CASE ListServices(j)
    <2>1. ASSUME NEW o, NEW q, Set(j, [loc[j] EXCEPT !.pc = "dropPort", !.open = o, !.ports = q])
          PROVE  loc'[j].add = loc[j].add
      <3>1. PICK m : m = [loc[j] EXCEPT !.pc = "dropPort", !.open = o, !.ports = q]
        OBVIOUS
      <3>2. m.add = loc[j].add
        BY <1>1, <3>1 DEF Local
      <3> QED BY <2>1, <3>1, <3>2, AddStays
    <2>2. PICK seen : Set(j, [loc[j] EXCEPT !.pc = "dropPort",
                                !.open = {s.iport : s \in seen},
                                !.ports = Pairs({s \in seen : s.iport \in loc[j].drop})])
      BY <1>5 DEF ListServices
    <2>3. loc'[j].add = loc[j].add
      <3>1. PICK o, q : o = {s.iport : s \in seen}
                        /\ q = Pairs({s \in seen : s.iport \in loc[j].drop})
        OBVIOUS
      <3>2. Set(j, [loc[j] EXCEPT !.pc = "dropPort", !.open = o, !.ports = q])
        BY <2>2, <3>1
      <3> QED BY <2>1, <3>2
    <2>4. loc[j].pc = "list"
      BY <1>5 DEF ListServices, At
    <2> QED BY <2>3, <2>4 DEF Asking
  <1>6. ASSUME Again(j, loc[j], "read"), KindOf[j] = "port", loc[j].pc = "dropPort" PROVE FALSE
    <2>1. NodeKnown(KindOf[j], loc[j].pc)
      BY <1>6, Changing
    <2>2. Moves(j, {"read", "fail"})
      BY <1>1, <1>6, <2>1, BackMoves
    <2> QED BY <2>2 DEF Moves, Asking
  <1>7. CASE DropPort(j)
    <2>1. loc[j].pc = "dropPort" /\ KindOf[j] = "port"
      BY <1>7, Changing DEF DropPort, At
    <2>2. ASSUME NEW x, Set(j, [loc[j] EXCEPT !.ports = @ \ {x}])
          PROVE  loc'[j].add = loc[j].add
      <3>1. PICK m : m = [loc[j] EXCEPT !.ports = @ \ {x}]
        OBVIOUS
      <3>2. m.add = loc[j].add
        BY <1>1, <3>1 DEF Local
      <3> QED BY <2>2, <3>1, <3>2, AddStays
    <2>3. \E x : Set(j, [loc[j] EXCEPT !.ports = @ \ {x}])
      BY <1>6, <1>7, <2>1 DEF DropPort
    <2> QED BY <2>1, <2>2, <2>3 DEF Asking
  <1>8. CASE DropPortRow(j)
    <2>1. loc[j].pc = "dropPort" /\ KindOf[j] = "port"
      BY <1>8, Changing DEF DropPortRow, At
    <2>2. Go(j, IF loc[j].add # {} THEN "reconcile" ELSE "fill")
      BY <1>6, <1>8, <2>1 DEF DropPortRow
    <2> QED BY <2>1, <2>2, GoAdd DEF Asking
  <1> QED BY <1>2, <1>3, <1>4, <1>5, <1>7, <1>8

LEMMA PortKey ==
  ASSUME ConstantsOK, TypeInv, TypeInv', HomeInv, KeyInv, NEW j \in Jobs,
         \/ ReconcileSkip(j) \/ ReconcileList(j) \/ ReconcileDelete(j) \/ CreateService(j)
         \/ Serving(j) \/ ListServices(j) \/ DropPort(j) \/ DropPortRow(j) \/ Fill(j)
  PROVE  KeyInv'
  <1> DEFINE Apart == Landing \cup Early \cup {"keys", "remove"}
             From == {"reconcile", "stale", "alloc", "service", "list", "dropPort", "fill"}
             Still == UNCHANGED pods /\ KeysStay /\ rows' \subseteq rows
             Far(S) == S \cap Apart = {} /\ S \cap (UpPCs \cup Done) = {}
  <1>1. CASE ReconcileSkip(j)
    <2>1. Moves(j, {"alloc"})
      BY <1>1, ReconcileSkipOK
    <2>2. loc[j].pc \in From /\ Still /\ Far({"alloc"})
      BY <1>1 DEF ReconcileSkip, At, ports, krb, KeysStay, Landing, Early, UpPCs, Done, Handing
    <2>3. loc'[j].pc \in Asking => loc[j].pc \in Asking /\ loc'[j].add = loc[j].add
      BY <1>1, AddKept
    <2> QED BY <2>1, <2>2, <2>3, OpenKey
  <1>2. CASE ReconcileList(j)
    <2>1. Moves(j, {"stale"})
      BY <1>2, ReconcileListOK
    <2>2. loc[j].pc \in From /\ Still /\ Far({"stale"})
      BY <1>2 DEF ReconcileList, At, ports, krb, KeysStay, Landing, Early, UpPCs, Done, Handing
    <2>3. loc'[j].pc \in Asking => loc[j].pc \in Asking /\ loc'[j].add = loc[j].add
      BY <1>2, AddKept
    <2> QED BY <2>1, <2>2, <2>3, OpenKey
  <1>3. CASE ReconcileDelete(j)
    <2>1. Moves(j, {"alloc"})
      BY <1>3, ReconcileDeleteOK
    <2>2. loc[j].pc \in From /\ Still /\ Far({"alloc"})
      BY <1>3 DEF ReconcileDelete, At, krb, KeysStay, Landing, Early, UpPCs, Done, Handing
    <2>3. loc'[j].pc \in Asking => loc[j].pc \in Asking /\ loc'[j].add = loc[j].add
      BY <1>3, AddKept
    <2> QED BY <2>1, <2>2, <2>3, OpenKey
  <1>4. CASE CreateService(j)
    <2>1. Moves(j, {"service", "read", "cleanServices", "fail"})
      BY <1>4, CreateServiceOK
    <2>2. loc[j].pc \in From /\ loc[j].pc \in {"service", "fill"} /\ Still
          /\ {"service", "read", "cleanServices", "fail"} \cap Apart = {}
      BY <1>4 DEF CreateService, At, krb, KeysStay, Landing, Early
    <2>3. loc'[j].pc \notin Asking
      BY <2>1 DEF Moves, Asking
    <2> QED BY <2>1, <2>2, <2>3, OpenKey
  <1>5. CASE Serving(j)
    <2>1. Moves(j, {"dropServices", "ok"})
      BY <1>5, ServingOK, MovesMore
    <2>2. loc[j].pc \in From /\ loc[j].pc \in {"service", "fill"} /\ Still /\ {"dropServices", "ok"} \cap Apart = {}
      BY <1>5 DEF Serving, At, ports, krb, KeysStay, Landing, Early
    <2>3. loc'[j].pc \notin Asking
      BY <2>1 DEF Moves, Asking
    <2> QED BY <2>1, <2>2, <2>3, OpenKey
  <1>6. CASE ListServices(j)
    <2>1. Moves(j, {"dropPort"})
      BY <1>6, ListServicesOK
    <2>2. loc[j].pc \in From /\ Still /\ Far({"dropPort"})
      BY <1>6 DEF ListServices, At, ports, krb, KeysStay, Landing, Early, UpPCs, Done, Handing
    <2>3. loc'[j].pc \in Asking => loc[j].pc \in Asking /\ loc'[j].add = loc[j].add
      BY <1>6, AddKept
    <2> QED BY <2>1, <2>2, <2>3, OpenKey
  <1>7. CASE DropPort(j)
    <2>1. Moves(j, {"dropPort", "read", "fail"})
      BY <1>7, DropPortOK
    <2>2. loc[j].pc \in From /\ Still /\ Far({"dropPort", "read", "fail"})
      BY <1>7 DEF DropPort, At, krb, KeysStay, Landing, Early, UpPCs, Done, Handing
    <2>3. loc'[j].pc \in Asking => loc[j].pc \in Asking /\ loc'[j].add = loc[j].add
      BY <1>7, AddKept
    <2> QED BY <2>1, <2>2, <2>3, OpenKey
  <1>8. CASE DropPortRow(j)
    <2>1. Moves(j, {"reconcile", "fill", "read", "fail"})
      BY <1>8, DropPortRowOK
    <2>2. loc[j].pc \in From /\ Still
          /\ Far({"reconcile", "fill", "read", "fail"})
      BY <1>8 DEF DropPortRow, At, krb, KeysStay, Landing, Early, UpPCs, Done, Handing
    <2>3. loc'[j].pc \in Asking => loc[j].pc \in Asking /\ loc'[j].add = loc[j].add
      BY <1>8, AddKept
    <2> QED BY <2>1, <2>2, <2>3, OpenKey
  <1>9. CASE Fill(j)
    <2>1. Moves(j, {"service"})
      BY <1>9, FillOK
    <2>2. loc[j].pc \in From /\ loc[j].pc \in {"service", "fill"} /\ Still /\ {"service"} \cap Apart = {}
      BY <1>9 DEF Fill, At, ports, krb, KeysStay, Landing, Early
    <2>3. loc'[j].pc \notin Asking
      BY <2>1 DEF Moves, Asking
    <2> QED BY <2>1, <2>2, <2>3, OpenKey
  <1> QED BY <1>1, <1>2, <1>3, <1>4, <1>5, <1>6, <1>7, <1>8, <1>9

\* a port job notes the node of the Pod that it reads
LEMMA ReadPodKey ==
  ASSUME ConstantsOK, TypeInv, TypeInv', HomeInv, KeyInv, NEW j \in Jobs, ReadPod(j)
  PROVE  KeyInv'
  <1>1. loc[j].pc = "read" /\ UNCHANGED <<pods, rows>> /\ KeysStay
    BY DEF ReadPod, At, ports, krb, KeysStay
  <1>2. KindOf[j] = "port" /\ Wanted[j] \cap Base = {}
    BY <1>1, Changing DEF ConstantsOK
  <1>3. loc'[j].pc \in {"list", "fail"} /\ \A i \in Jobs \ {j} : loc'[i] = loc[i]
    BY ReadPodOK
  <1>4. loc'[j].pc = "list" =>
          loc'[j].node = pods[Target(j)].node /\ loc'[j].add \cap Base = {}
    <2>1. loc \in [Jobs -> Local]
      BY DEF TypeInv, TypeOK
    <2>2. CASE End(j, "fail")
      <3>1. Moves(j, {"fail"})
        BY <2>2, MakePlaces, EndMoves
      <3> QED BY <3>1 DEF Moves
    <2>3. ASSUME NEW add, NEW drop, add \cap Base = {},
                 Set(j, [loc[j] EXCEPT !.pc = "list", !.node = pods[Target(j)].node,
                                       !.drop = drop, !.add = add])
          PROVE  loc'[j].node = pods[Target(j)].node /\ loc'[j].add \cap Base = {}
      <3>1. PICK m : m = [loc[j] EXCEPT !.pc = "list", !.node = pods[Target(j)].node,
                                        !.drop = drop, !.add = add]
        OBVIOUS
      <3>2. loc[j] \in Local
        BY <2>1
      <3>3. m.node = pods[Target(j)].node /\ m.add = add
        BY <3>1, <3>2 DEF Local
      <3>4. loc' = [loc EXCEPT ![j] = m]
        BY <2>3, <3>1 DEF Set
      <3> QED BY <2>1, <2>3, <3>3, <3>4
    <2> DEFINE extra == {r.iport : r \in RowsOf(Target(j))} \ Base
               drop == extra \ Wanted[j]
               add == Wanted[j] \ extra
    <2>4. \/ End(j, "fail")
          \/ Set(j, [loc[j] EXCEPT !.pc = "list", !.node = pods[Target(j)].node,
                                   !.drop = drop, !.add = add])
      BY DEF ReadPod
    <2>5. add \cap Base = {}
      BY <1>2
    <2> HIDE DEF extra, drop, add
    <2> QED BY <2>2, <2>3, <2>4, <2>5
  <1>5. KeyMove(j) /\ Landed(j) /\ loc'[j].pc # "remove"
    <2>1. KindOf[j] \notin Creating /\ "fail" \notin Asking \cup Opening
      BY <1>2 DEF Creating, Asking, Opening, PortPCs
    <2>2. loc'[j].pc \notin Landing \cup {"keys", "remove"}
      BY <1>3 DEF Landing
    <2> QED BY <1>2, <1>3, <1>4, <2>1, <2>2 DEF KeyMove, Landed
  <1>6. PodsLess(j) /\ RowsLess(j)
    BY <1>1 DEF PodsLess, RowsLess
  <1> QED BY <1>1, <1>3, <1>5, <1>6, KeySteps

\* the rows that a port job allocates are not those of base ports
LEMMA AllocateKey ==
  ASSUME ConstantsOK, TypeInv, TypeInv', HomeInv, KeyInv, NEW j \in Jobs, Allocate(j)
  PROVE  KeyInv'
  <1>1. loc[j].pc = "alloc" /\ UNCHANGED pods /\ KeysStay
    BY DEF Allocate, At, krb, KeysStay
  <1>2. Moves(j, {"read", "build", "fill", "deploy", "fail"})
    BY AllocateOK
  <1>3. loc'[j].pc \in {"read", "build", "fill", "deploy", "fail"}
        /\ \A i \in Jobs \ {j} : loc'[i] = loc[i]
    BY <1>2 DEF Moves
  <1>4. loc'[j].pc # "fail" => loc'[j].node = loc[j].node
    BY <1>2 DEF Moves, Final
  <1>5. RowsLess(j)
    <2>1. KindOf[j] = "port" => Asked(j) \cap Base = {}
      BY <1>1 DEF KeyInv, RowLate, Asking, Asked
    <2>2. ASSUME NEW f, NEW r \in {RowFor(j, x) : x \in {[iport |-> i, nport |-> f[i]] : i \in Asked(j)}}
          PROVE  r.pod = PodOf(j) /\ r.node = loc[j].node /\ r.iport \in Asked(j)
      BY DEF RowFor
    <2>3. \/ rows' = rows
          \/ \E f : rows' = rows \cup {RowFor(j, x) : x \in {[iport |-> i, nport |-> f[i]] :
                                                             i \in Asked(j)}}
      <3>1. PICK seen \in {{s.nport : s \in svcs}, {}} :
             LET free    == Free(seen)
                 n       == Cardinality(Asked(j))
                 Back(l) == Again(j, l, IF KindOf[j] = "port" THEN "read" ELSE "build")
                 Blind   == seen = {} /\ svcs # {}
             IN IF Cardinality(free) < n
                THEN /\ IF KindOf[j] = "port" THEN Back(loc[j]) ELSE End(j, "fail")
                     /\ IF Blind THEN Failing ELSE Well
                     /\ UNCHANGED <<rows, aged>>
                ELSE \E f \in Injection(Asked(j), Lowest(free, n)) :
                       LET got == {[iport |-> i, nport |-> f[i]] : i \in Asked(j)}
                           new == {RowFor(j, x) : x \in got}
                       IN \/ /\ rows' = rows \cup new /\ aged' = aged \ {PodOf(j)}
                             /\ IF Blind THEN Failing ELSE Well
                             /\ IF KindOf[j] = "port" THEN Go(j, "fill")
                                ELSE Set(j, [loc[j] EXCEPT !.pc = "deploy", !.ports = got])
                          \/ /\ ~Blind /\ Failing /\ UNCHANGED aged
                             /\ \/ rows' = rows /\ Back(loc[j])
                                \/ rows' = rows \cup new
                                   /\ Back([loc[j] EXCEPT !.hurt = TRUE])
        BY DEF Allocate
      <3>2. CASE Cardinality(Free(seen)) < Cardinality(Asked(j))
        BY <3>1, <3>2
      <3>3. CASE ~(Cardinality(Free(seen)) < Cardinality(Asked(j)))
        <4>1. PICK f \in Injection(Asked(j), Lowest(Free(seen), Cardinality(Asked(j)))) :
                LET new == {RowFor(j, x) : x \in {[iport |-> i, nport |-> f[i]] :
                                                   i \in Asked(j)}}
                IN rows' = rows \/ rows' = rows \cup new
          BY <3>1, <3>3, Zenon
        <4> QED BY <4>1
      <3> QED BY <3>2, <3>3
    <2> QED BY <1>1, <2>1, <2>2, <2>3 DEF RowsLess
  <1>6. KeyMove(j) /\ Landed(j) /\ loc'[j].pc # "remove"
    <2>1. "alloc" \in Reach /\ "alloc" \in Opening
      BY PlacesApart
    <2>2. {"read", "fill", "build", "deploy", "fail"} \cap
            (Early \cup UpPCs \cup Done \cup Asking \cup Landing \cup {"keys", "remove"}) = {}
      BY DEF Early, UpPCs, Done, Handing, Asking, Landing
    <2>3. "fail" \notin Reach \cup Opening
      BY DEF Reach, MakePCs, Handing, Opening, PortPCs
    <2> QED BY <1>1, <1>3, <1>4, <2>1, <2>2, <2>3 DEF KeyMove, Landed
  <1>7. PodsLess(j)
    BY <1>1, PodsSame
  <1> QED BY <1>1, <1>3, <1>5, <1>6, <1>7, KeySteps

\* the steps of a removal before it looks at the keytab, and after
LEMMA DropKey ==
  ASSUME ConstantsOK, TypeInv, TypeInv', HomeInv, KeyInv, NEW j \in Jobs, NEW S, Moves(j, S),
         KeysStay, PodsLess(j), rows' \subseteq rows,
         loc[j].pc \in Handing \cup {"gone"}, S \subseteq (Handing \ {"remove"}) \cup {"gone", "ok", "fail"},
         loc'[j].pc = "keys" => pods'[Target(j)].st # "up"
  PROVE  KeyInv'
  <1>1. /\ KindOf[j] # "port"
        /\ KindOf[j] \in Creating => KindOf[j] = "migrate" /\ loc[j].pc # "gone"
    BY Dropping DEF Creating
  <1>2. loc'[j].pc \in (Handing \ {"remove"}) \cup {"gone", "ok", "fail"}
    BY DEF Moves
  <1>3. loc'[j].pc \notin Early \cup Landing /\ loc'[j].pc # "remove"
    BY <1>2 DEF Early, Landing, Handing
  <1>4. KindOf[j] \in Creating => loc[j].pc \in Reach /\ loc[j].pc \in Done
    BY <1>1 DEF Reach, Done
  <1> QED BY <1>1, <1>3, <1>4, PlainKeeps

LEMMA RemoveKey ==
  ASSUME ConstantsOK, TypeInv, TypeInv', HomeInv, KeyInv, NEW j \in Jobs,
         DropServices(j) \/ DropRows(j) \/ DropPod(j) \/ Gone(j)
  PROVE  KeyInv'
  <1> DEFINE To == (Handing \ {"remove"}) \cup {"gone", "ok", "fail"}
  <1>1. CASE DropServices(j)
    <2>1. Moves(j, {"dropServices", "dropRows", "ok", "fail"})
      BY <1>1, DropServicesOK
    <2>2. loc[j].pc \in Handing /\ UNCHANGED pods /\ KeysStay /\ rows' \subseteq rows
      BY <1>1 DEF DropServices, At, krb, KeysStay, Handing
    <2>3. {"dropServices", "dropRows", "ok", "fail"} \subseteq To /\ loc'[j].pc # "keys"
      BY <2>1 DEF Moves, Handing
    <2>4. PodsLess(j)
      BY <2>2, PodsSame
    <2> QED BY <2>1, <2>2, <2>3, <2>4, DropKey
  <1>2. CASE DropRows(j)
    <2>1. Moves(j, {"dropRows", "dropPod", "ok", "fail"})
      BY <1>2, DropRowsOK
    <2>2. loc[j].pc \in Handing /\ UNCHANGED pods /\ KeysStay /\ rows' \subseteq rows
      BY <1>2 DEF DropRows, At, krb, KeysStay, Handing
    <2>3. {"dropRows", "dropPod", "ok", "fail"} \subseteq To /\ loc'[j].pc # "keys"
      BY <2>1 DEF Moves, Handing
    <2>4. PodsLess(j)
      BY <2>2, PodsSame
    <2> QED BY <2>1, <2>2, <2>3, <2>4, DropKey
  <1>3. CASE DropPod(j)
    <2>1. Moves(j, {"keys", "ok", "gone", "dropPod", "fail"})
      BY <1>3, DropPodOK
    <2>2. loc[j].pc = "dropPod" /\ KeysStay /\ rows' \subseteq rows
      BY <1>3 DEF DropPod, At, ports, krb, KeysStay
    <2>3. {"keys", "ok", "gone", "dropPod", "fail"} \subseteq To /\ loc[j].pc \in Handing
      BY <2>2 DEF Handing
    <2>4. Target(j) \in PodNames
      BY <2>3, Dropping
    <2>5. \/ pods[Target(j)].st = "up" /\ pods' = [pods EXCEPT ![Target(j)].st = "term"]
          \/ pods' = pods
      BY <1>3 DEF DropPod
    <2>6. PodsLess(j)
      BY <2>4, <2>5, PodsEnd
    <2>7. loc'[j].pc = "keys" => pods'[Target(j)].st # "up"
      <3>1. pods'[Target(j)].st # "up" \/ pods' = pods
        BY <2>4, <2>5 DEF TypeInv, TypeOK
      <3>2. CASE Trip(j, "dropPod")
        <4>1. Moves(j, IF KindOf[j] = "migrate" THEN {"ok"} ELSE {"dropPod", "fail"})
          BY <2>3, <3>2, DropPlaces, DropTrips
        <4>2. loc'[j].pc # "keys"
          BY <4>1 DEF Moves
        <4> QED BY <4>2
      <3>3. CASE \/ pods[Target(j)].st = "none" /\ UNCHANGED pods
                 \/ pods' = IF pods[Target(j)].st = "up"
                            THEN [pods EXCEPT ![Target(j)].st = "term"] ELSE pods
        BY <2>4, <3>3 DEF TypeInv, TypeOK
      <3> QED BY <1>3, <3>2, <3>3 DEF DropPod
    <2> QED BY <2>1, <2>2, <2>3, <2>6, <2>7, DropKey
  <1>4. CASE Gone(j)
    <2>1. Moves(j, {"keys", "ok", "dropPod", "fail"})
      BY <1>4, GoneOK
    <2>2. loc[j].pc = "gone" /\ UNCHANGED pods /\ KeysStay /\ rows' \subseteq rows
      BY <1>4 DEF Gone, At, ports, krb, KeysStay
    <2>3. {"keys", "ok", "dropPod", "fail"} \subseteq To
      BY DEF Handing
    <2>4. PodsLess(j)
      BY <2>2, PodsSame
    <2>5. loc'[j].pc = "keys" => pods'[Target(j)].st # "up"
      <3>1. CASE pods[Target(j)].st = "none"
        BY <2>2, <3>1
      <3>2. CASE Trip(j, "dropPod")
        <4>1. Moves(j, IF KindOf[j] = "migrate" THEN {"ok"} ELSE {"dropPod", "fail"})
          BY <2>2, <3>2, DropPlaces, DropTrips
        <4>2. loc'[j].pc # "keys"
          BY <4>1 DEF Moves
        <4> QED BY <4>2
      <3> QED BY <1>4, <3>1, <3>2 DEF Gone
    <2> QED BY <2>1, <2>2, <2>3, <2>4, <2>5, DropKey
  <1> QED BY <1>1, <1>2, <1>3, <1>4

\* the keytab that a job removes is that of no Pod that it saw
LEMMA RemoveKeytabKey ==
  ASSUME ConstantsOK, TypeInv, TypeInv', HomeInv, KeyInv, NEW j \in Jobs, RemoveKeytab(j)
  PROVE  KeyInv'
  <1> DEFINE k == <<UserOf[j], loc[j].from>>
  <1>1. /\ loc[j].pc = "remove" /\ UNCHANGED <<pods, rows, cron, unseen>>
        /\ keytabs \ {k} \subseteq keytabs'
    BY DEF RemoveKeytab, At, ports
  <1>2. loc'[j].pc = "ok" /\ \A i \in Jobs \ {j} : loc'[i] = loc[i]
    BY RemoveKeytabOK DEF Moves
  <1>3. KeyMove(j) /\ Landed(j)
    <2>1. loc[j].pc \in Done
      BY <1>1 DEF Done, Handing
    <2>2. "ok" \notin Early \cup Reach \cup Opening \cup Asking \cup Landing
      BY DEF Early, Reach, MakePCs, Handing, Opening, PortPCs, Asking, Landing
    <2> QED BY <1>2, <2>1, <2>2 DEF KeyMove, Landed
  <1>4. PodsLess(j) /\ RowsLess(j)
    BY <1>1 DEF PodsLess, RowsLess
  <1>5. ASSUME NEW p \in PodNames PROVE Guarded(p)'
    <2>1. SUFFICES ASSUME Keyed(p)', <<p, "keytab">> \notin unseen'
                   PROVE  /\ <<UserOf[p], KeyNode(p)'>> \in keytabs'
                          /\ ~Removing(UserOf[p], KeyNode(p))'
      BY DEF Guarded
    <2>2. Keyed(p) /\ KeyNode(p)' = KeyNode(p)
      BY <1>2, <1>3, <1>4, <2>1, KeyedBefore
    <2>3. /\ <<UserOf[p], KeyNode(p)>> \in keytabs
          /\ ~Removing(UserOf[p], KeyNode(p))
      BY <1>1, <2>1, <2>2 DEF KeyInv, Guarded
    <2>4. <<UserOf[p], KeyNode(p)>> # k
      BY <1>1, <2>3 DEF Removing
    <2>5. \A u, n : Removing(u, n)' => Removing(u, n)
      BY <1>1, <1>2, RemovingBefore
    <2>6. ~Removing(UserOf[p], KeyNode(p))'
      <3>1. ASSUME NEW n, n = KeyNode(p), Removing(UserOf[p], n)' PROVE FALSE
        BY <2>3, <2>5, <3>1
      <3>2. PICK n : n = KeyNode(p)
        OBVIOUS
      <3> QED BY <2>2, <3>1, <3>2 DEF Removing
    <2> QED BY <1>1, <2>2, <2>3, <2>4, <2>6
  <1> QED BY <1>1, <1>2, <1>3, <1>4, <1>5, KeyRest

\* the look at the user's Pods, which sees all but those that are on their way
\* to the node
LEMMA KeysKey ==
  ASSUME ConstantsOK, TypeInv, TypeInv', HomeInv, KeyInv, NEW j \in Jobs, Keys(j)
  PROVE  KeyInv'
  <1>1. /\ loc[j].pc = "keys" /\ UNCHANGED <<pods, rows, cron, keytabs>>
    BY DEF Keys, At, ports
  <1>2. PodsLess(j) /\ RowsLess(j)
    BY <1>1 DEF PodsLess, RowsLess
  <1>3. CASE End(j, "ok") /\ UNCHANGED unseen
    <2>1. Moves(j, {"ok"})
      BY <1>3, MakePlaces, EndMoves
    <2>2. loc'[j].pc # "keys" /\ loc[j].pc \in Handing /\ KeysStay
      BY <1>1, <1>3, <2>1 DEF Moves, Handing, KeysStay
    <2> QED BY <1>1, <1>2, <2>1, <2>2, DropKey
  <1>4. CASE /\ Go(j, "remove") /\ Others(j) = {}
             /\ unseen' = unseen \cup (Coming(UserOf[j], loc[j].from) \X {"keytab"})
    <2>1. loc \in [Jobs -> Local]
      BY DEF TypeInv, TypeOK
    <2>2. PICK m : m = [loc[j] EXCEPT !.pc = "remove"]
      OBVIOUS
    <2>3. loc[j] \in Local
      BY <2>1
    <2>4. m.pc = "remove" /\ m.node = loc[j].node /\ m.from = loc[j].from
      BY <2>2, <2>3 DEF Local
    <2>5. loc' = [loc EXCEPT ![j] = m]
      BY <1>4, <2>2 DEF Go, Set
    <2>6. loc'[j] = m /\ \A i \in Jobs \ {j} : loc'[i] = loc[i]
      BY <2>1, <2>5
    <2>7. pods[Target(j)].st # "up"
      BY <1>1 DEF KeyInv, RemoveSafe
    <2>8. /\ KindOf[j] # "port" /\ loc[j].pc \in Reach /\ loc[j].pc \in Done
          /\ "remove" \notin Early \cup Landing
      BY <1>1, Dropping, DropPlaces DEF Reach, Early, Landing, Done, Handing
    <2>9. KeyMove(j) /\ Landed(j)
      BY <1>1, <2>4, <2>6, <2>7, <2>8 DEF KeyMove, Landed
    <2>10. ASSUME NEW p \in PodNames PROVE Guarded(p)'
      <3>1. SUFFICES ASSUME Keyed(p)', <<p, "keytab">> \notin unseen'
                     PROVE  /\ <<UserOf[p], KeyNode(p)'>> \in keytabs'
                            /\ ~Removing(UserOf[p], KeyNode(p))'
        BY DEF Guarded
      <3>2. Keyed(p) /\ KeyNode(p)' = KeyNode(p) /\ <<p, "keytab">> \notin unseen
        BY <1>2, <1>4, <2>6, <2>9, <3>1, KeyedBefore
      <3>3. /\ <<UserOf[p], KeyNode(p)>> \in keytabs
            /\ ~Removing(UserOf[p], KeyNode(p))
        BY <3>2 DEF KeyInv, Guarded
      <3>4. ~(UserOf[p] = UserOf[j] /\ KeyNode(p) = loc[j].from)
        <4>1. SUFFICES ASSUME UserOf[p] = UserOf[j], KeyNode(p) = loc[j].from PROVE FALSE
          OBVIOUS
        <4>2. CASE p \in Jobs /\ loc[p].pc \in Landing
          <5>1. loc[p].node = loc[j].from /\ p \in Coming(UserOf[j], loc[j].from)
            BY <4>1, <4>2 DEF KeyNode, Coming, Landing
          <5> QED BY <1>4, <3>1, <5>1
        <4>3. CASE ~(p \in Jobs /\ loc[p].pc \in Landing)
          <5>1. pods[p].st = "up" /\ pods[p].node = loc[j].from
            BY <3>2, <4>1, <4>3 DEF Keyed, KeyNode
          <5>2. p \in Others(j)
            BY <2>7, <4>1, <5>1 DEF Others, PodsOf
          <5> QED BY <1>4, <5>2
        <4> QED BY <4>2, <4>3
      <3>5. ~Removing(UserOf[p], KeyNode(p))'
        <4>1. SUFFICES ASSUME NEW n, n = KeyNode(p), Removing(UserOf[p], n)' PROVE FALSE
          BY <3>2 DEF Removing
        <4> QED BY <1>1, <2>4, <2>6, <3>3, <3>4, <4>1 DEF Removing
      <3> QED BY <1>1, <3>2, <3>3, <3>5
    <2> QED BY <1>1, <1>2, <2>6, <2>9, <2>10, KeyRest
  <1> QED BY <1>3, <1>4 DEF Keys

LEMMA HomeKey ==
  ASSUME ConstantsOK, TypeInv, TypeInv', HomeInv, KeyInv, NEW j \in Jobs, Home(j)
  PROVE  KeyInv'
  <1>1. /\ loc[j].pc \in {"homePods", "homeJobs", "homeDelete"}
        /\ UNCHANGED <<pods, rows>>
    BY DEF Home, HomePods, HomeJobs, HomeDelete, At, ports
  <1>0. KeysStay
    BY DEF Home, HomePods, HomeJobs, HomeDelete, HomeUnused, krb, KeysStay
  <1>2. KindOf[j] = "home"
    BY <1>1, Deleting
  <1>3. Moves(j, {"homePods", "homeJobs", "homeDelete", "ok", "fail"})
    BY HomePodsOK, HomeJobsOK, HomeDeleteOK, MovesMore DEF Home
  <1>4. loc'[j].pc \notin Landing \cup {"keys", "remove"}
    BY <1>3 DEF Moves, Landing
  <1>5. PodsLess(j)
    BY <1>1, PodsSame
  <1> QED BY <1>0, <1>1, <1>2, <1>3, <1>4, <1>5, PlainKeeps DEF Creating

LEMMA EarlyFailureKey ==
  ASSUME ConstantsOK, TypeInv, TypeInv', HomeInv, KeyInv, NEW j \in Jobs, EarlyFailure(j)
  PROVE  KeyInv'
  <1> DEFINE q == CASE loc[j].pc = "list" -> "read"
                    [] loc[j].pc = "homeJobs" -> "homePods"
                    [] OTHER -> loc[j].pc
  <1>1. /\ loc[j].pc \in {"home", "node", "read", "list", "homePods", "homeJobs"}
        /\ UNCHANGED <<pods, rows>> /\ KeysStay
    BY DEF EarlyFailure, ports, krb, KeysStay
  <1>2. Moves(j, {q, "fail"})
    BY EarlyFailureOK
  <1>3. /\ q \in {"home", "node", "read", "homePods"}
        /\ q \in {"home", "node"} => loc[j].pc = q
    BY <1>1
  <1> HIDE DEF q
  <1>4. loc'[j].pc \in {q, "fail"}
    BY <1>2 DEF Moves
  <1>5. /\ loc'[j].pc \notin Landing \cup Reach \cup Opening \cup {"keys", "remove"}
        /\ loc'[j].pc \notin UpPCs \cup Done \cup Asking
        /\ loc'[j].pc \in Early => loc[j].pc \in Early
    BY <1>3, <1>4 DEF Landing, Reach, MakePCs, Handing, Opening, PortPCs, Early, UpPCs,
                      Done, Asking
  <1>6. PodsLess(j)
    BY <1>1, PodsSame
  <1> QED BY <1>1, <1>2, <1>5, <1>6, PlainKeeps

\* a resumed job looks again before it removes a keytab
LEMMA CrashKey ==
  ASSUME ConstantsOK, TypeInv, TypeInv', HomeInv, KeyInv, NEW j \in Jobs, Crash(j)
  PROVE  KeyInv'
  <1>1. Running(j) /\ UNCHANGED <<pods, rows>> /\ KeysStay
    BY DEF Crash, krb, KeysStay
  <1>2. Moves(j, {ResumeAt(j), "fail"})
    BY CrashOK
  <1>3. loc'[j].pc \in {ResumeAt(j), "fail"}
    BY <1>2 DEF Moves
  <1>4. /\ ResumeAt(j) \in PCsOf(KindOf[j])
        /\ ResumeAt(j) \in {"home", "node", "build", "read", "homePods", "dropServices",
                           "dropRows", "dropPod", "keys"}
        /\ ResumeAt(j) \in {"home", "node"} => loc[j].pc = ResumeAt(j)
        /\ ResumeAt(j) = "build" => loc[j].pc \in MakePCs
        /\ ResumeAt(j) \in Handing => loc[j].pc \in Handing \cup {"gone"}
    BY <1>1, ResumedAt
  <1>5. PodsLess(j)
    BY <1>1, PodsSame
  <1>6. /\ loc'[j].pc \notin Landing /\ loc'[j].pc # "remove"
        /\ loc'[j].pc \in Early => loc[j].pc \in Early
    BY <1>3, <1>4 DEF Landing, Early
  <1>7. KindOf[j] \in Creating =>
          /\ loc'[j].pc \in Reach => loc[j].pc \in Early \cup Reach
          /\ loc'[j].pc \in UpPCs \cup Done => loc[j].pc \in Done
    <2>1. KindOf[j] \in Creating => loc[j].pc # "gone"
      BY KindAt DEF Creating
    <2>2. loc'[j].pc \in Reach => ResumeAt(j) \in {"build"} \cup Handing
      BY <1>3, <1>4 DEF Reach, MakePCs, Handing
    <2>3. loc'[j].pc \in UpPCs \cup Done => ResumeAt(j) \in Handing
      BY <1>3, <1>4 DEF UpPCs, Done, Handing
    <2>4. KindOf[j] \in Creating /\ ResumeAt(j) \in Handing => loc[j].pc \in Done
      BY <1>4, <2>1 DEF Done
    <2> QED BY <1>4, <2>1, <2>2, <2>3, <2>4 DEF Reach
  <1>8. KindOf[j] = "port" => loc'[j].pc \notin Opening \cup Asking
    <2>1. KindOf[j] = "port" => ResumeAt(j) \notin Opening
      BY <1>4 DEF Opening, PortPCs
    <2>2. "fail" \notin Opening
      BY DEF Opening, PortPCs
    <2> QED BY <1>3, <2>1, <2>2, PlacesApart
  <1>9. loc'[j].pc = "keys" => pods'[Target(j)].st # "up"
    <2>1. SUFFICES ASSUME loc'[j].pc = "keys" PROVE pods[Target(j)].st # "up"
      BY <1>1
    <2>2. ResumeAt(j) = "keys"
      BY <1>3, <2>1
    <2>3. loc[j].pc \in {"keys", "remove"}
      BY <1>1, <2>2 DEF ResumeAt, First, Running, Final, Handing
    <2> QED BY <2>3 DEF KeyInv, RemoveSafe
  <1> QED BY <1>1, <1>2, <1>5, <1>6, <1>7, <1>8, <1>9, PlainKeeps

\* what the kubelet and the cron job do
LEMMA KeyedStill ==
  ASSUME ConstantsOK, UNCHANGED <<rows, loc>>, NEW p \in PodNames,
         pods'[p].st # "none" => pods'[p] = pods[p], Keyed(p)'
  PROVE  Keyed(p) /\ KeyNode(p)' = KeyNode(p)
  BY DEF Keyed, KeyNode

LEMMA KeyKept ==
  ASSUME ConstantsOK, TypeInv, TypeInv', KeyInv, UNCHANGED <<rows, loc>>, CronSafe',
         \A p \in PodNames : pods'[p].st # "none" => pods'[p] = pods[p],
         \A p \in PodNames : Guarded(p)'
  PROVE  KeyInv'
  <1>1. RowsPlaced'
    <2>1. \A r \in rows : r.pod \in PodNames
      BY DEF TypeInv, TypeOK, Row
    <2> QED BY <2>1 DEF KeyInv, RowsPlaced
  <1>2. ASSUME NEW j \in Jobs PROVE RowLate(j)'
    <2>1. RowLate(j) /\ j \in PodNames
      BY DEF KeyInv, PodNames
    <2>2. KindOf[j] = "port" => Target(j) \in PodNames
      BY DEF ConstantsOK, Targeting, Target, PodNames
    <2> QED BY <2>1, <2>2 DEF RowLate, Target
  <1>3. ASSUME NEW j \in Jobs PROVE RemoveSafe(j)'
    <2>1. RemoveSafe(j)
      BY DEF KeyInv
    <2>2. loc[j].pc \in {"keys", "remove"} => Target(j) \in PodNames
      BY Dropping, DropPlaces
    <2> QED BY <2>1, <2>2 DEF RemoveSafe, Target
  <1> QED BY <1>1, <1>2, <1>3 DEF KeyInv

LEMMA WorldKey ==
  ASSUME ConstantsOK, TypeInv, TypeInv', KeyInv, UNCHANGED <<rows, loc, krb>>,
         \A p \in PodNames : pods'[p].st # "none" => pods'[p] = pods[p]
  PROVE  KeyInv'
  <1>1. CronSafe'
    BY DEF KeyInv, CronSafe, krb
  <1>2. ASSUME NEW p \in PodNames PROVE Guarded(p)'
    <2>1. Keyed(p)' => Keyed(p) /\ KeyNode(p)' = KeyNode(p)
      BY KeyedStill
    <2>2. Guarded(p)
      BY DEF KeyInv
    <2> QED BY <2>1, <2>2 DEF Guarded, Removing, krb
  <1> QED BY <1>1, <1>2, KeyKept

LEMMA PodsGo ==
  ASSUME TypeInv, NEW p \in PodNames, PodGone(p) \/ AgeOut(p)
  PROVE  /\ UNCHANGED <<rows, loc, krb>>
         /\ \A q \in PodNames : pods'[q].st # "none" => pods'[q] = pods[q]
  <1>1. CASE PodGone(p)
    BY <1>1 DEF PodGone, NoPod, TypeInv, TypeOK, ports
  <1>2. CASE AgeOut(p)
    BY <1>2 DEF AgeOut
  <1> QED BY <1>1, <1>2

\* rows mean that the keytab is in use
LEMMA KeyedInUse ==
  ASSUME ConstantsOK, TypeInv, HomeInv, KeyInv, NEW p \in PodNames, Keyed(p)
  PROVE  InUse(UserOf[p], KeyNode(p))
  <1>1. PICK r \in rows : r.pod = p
    BY DEF Keyed
  <1>2. r.node = KeyNode(p)
    <2>1. CASE p \in Jobs /\ loc[p].pc \in Landing
      <3>1. RowLate(p) /\ KindOf[p] \in Creating
        BY <1>1, <2>1 DEF KeyInv, RowLate
      <3> QED BY <1>1, <2>1, <3>1, PlacesApart DEF RowLate, KeyNode
    <2>2. CASE ~(p \in Jobs /\ loc[p].pc \in Landing)
      BY <1>1, <2>2 DEF Keyed, KeyNode, KeyInv, RowsPlaced
    <2> QED BY <2>1, <2>2
  <1> QED BY <1>1, <1>2 DEF InUse

\* the cron job removes a keytab only when it found no rows
LEMMA CronKey ==
  ASSUME ConstantsOK, TypeInv, TypeInv', HomeInv, KeyInv, Cron \/ CronDies
  PROVE  KeyInv'
  <1>1. UNCHANGED <<pods, rows, loc, unseen>>
    BY DEF Cron, CronList, CronClaim, CronCheck, CronRemove, CronDone, CronDies, ports
  <1>2. cron \in [pc: {"idle", "next", "check", "remove"},
                  todo: SUBSET Where, of: SUBSET Where]
    BY DEF TypeInv, TypeOK
  <1>3. CronSafe'
    <2>1. CASE cron'.pc \notin {"check", "remove"}
      BY <2>1 DEF CronSafe
    <2>2. CASE CronClaim
      <3>1. PICK k : /\ k = (CHOOSE x \in cron.todo : TRUE)
                     /\ cron' = [cron EXCEPT !.todo = @ \ {k},
                                  !.pc = IF k \in pending THEN "check" ELSE "next",
                                  !.of = IF k \in pending THEN {k} ELSE {}]
        BY <2>2 DEF CronClaim
      <3>2. k \in Where
        BY <1>2, <2>2, <3>1 DEF CronClaim
      <3>3. cron'.pc \in {"check", "next"} /\ (cron'.pc = "check" => cron'.of = {k})
        BY <1>2, <3>1
      <3> QED BY <3>2, <3>3 DEF CronSafe
    <2>3. CASE CronCheck
      <3>1. PICK c \in Where : cron.of = {c}
        BY <2>3 DEF CronCheck, KeyInv, CronSafe
      <3>2. cron' = [cron EXCEPT !.pc = "next"] \/ cron' = [cron EXCEPT !.pc = "remove"]
        BY <2>3, <3>1 DEF CronCheck
      <3>3. cron'.of = {c}
        BY <1>2, <3>1, <3>2
      <3> QED BY <3>1, <3>3 DEF CronSafe
    <2>4. CASE CronList \/ CronRemove \/ CronDone \/ CronDies
      <3>1. cron'.pc \in {"next", "idle"}
        BY <1>2, <2>4 DEF CronList, CronRemove, CronDone, CronDies
      <3> QED BY <2>1, <3>1
    <2> QED BY <2>2, <2>3, <2>4 DEF Cron
  <1>4. ASSUME NEW p \in PodNames, <<p, "keytab">> \notin unseen, Keyed(p)
        PROVE  /\ <<UserOf[p], KeyNode(p)>> \in keytabs'
               /\ \A n : n = KeyNode(p) => ~Removing(UserOf[p], n)'
    <2>1. /\ <<UserOf[p], KeyNode(p)>> \in keytabs
          /\ ~Removing(UserOf[p], KeyNode(p))
      BY <1>4 DEF KeyInv, Guarded
    <2>2. CASE cron'.pc # "remove" /\ keytabs \subseteq keytabs'
      BY <1>1, <2>1, <2>2 DEF Removing
    <2>3. CASE CronCheck
      <3>1. PICK c \in Where : cron.of = {c}
        BY <2>3 DEF CronCheck, KeyInv, CronSafe
      <3>2. \/ cron' = [cron EXCEPT !.pc = "next"]
            \/ cron' = [cron EXCEPT !.pc = "remove"] /\ ~InUse(c[1], c[2])
        BY <2>3, <3>1 DEF CronCheck
      <3>3. cron'.of = {c} /\ (cron'.pc = "remove" => ~InUse(c[1], c[2]))
        BY <1>2, <3>1, <3>2
      <3>4. InUse(UserOf[p], KeyNode(p))
        BY <1>4, KeyedInUse
      <3>5. ASSUME NEW n, n = KeyNode(p), cron'.pc = "remove" PROVE cron'.of # {<<UserOf[p], n>>}
        BY <3>3, <3>4, <3>5
      <3>6. keytabs' = keytabs
        BY <2>3 DEF CronCheck
      <3> QED BY <1>1, <2>1, <3>5, <3>6 DEF Removing
    <2>4. CASE CronRemove
      <3>1. PICK c \in Where : cron.of = {c}
        BY <2>4 DEF CronRemove, KeyInv, CronSafe
      <3>2. keytabs \ {c} \subseteq keytabs' /\ cron'.pc = "next"
        BY <1>2, <2>4, <3>1 DEF CronRemove
      <3>3. <<UserOf[p], KeyNode(p)>> # c
        BY <2>1, <2>4, <3>1 DEF CronRemove, Removing
      <3> QED BY <1>1, <2>1, <3>2, <3>3 DEF Removing
    <2>5. CASE CronList \/ CronClaim \/ CronDone \/ CronDies
      <3>1. keytabs' = keytabs
        BY <2>5 DEF CronList, CronClaim, CronDone, CronDies
      <3>2. CASE CronClaim
        <4>1. PICK k : cron' = [cron EXCEPT !.todo = @ \ {k},
                                  !.pc = IF k \in pending THEN "check" ELSE "next",
                                  !.of = IF k \in pending THEN {k} ELSE {}]
          BY <3>2 DEF CronClaim
        <4>2. cron'.pc \in {"check", "next"}
          BY <1>2, <4>1
        <4> QED BY <2>2, <3>1, <4>2
      <3>3. CASE CronList \/ CronDone \/ CronDies
        <4>1. cron'.pc \in {"next", "idle"}
          BY <3>3 DEF CronList, CronDone, CronDies
        <4> QED BY <2>2, <3>1, <4>1
      <3> QED BY <2>5, <3>2, <3>3
    <2> QED BY <2>3, <2>4, <2>5 DEF Cron
  <1>5. ASSUME NEW p \in PodNames PROVE Guarded(p)'
    <2>1. KeyNode(p)' = KeyNode(p) /\ Keyed(p)' = Keyed(p)
      BY <1>1 DEF Keyed, KeyNode
    <2>2. PICK n : n = KeyNode(p)
      OBVIOUS
    <2>3. Removing(UserOf[p], KeyNode(p))' <=> Removing(UserOf[p], n)'
      BY <2>1, <2>2 DEF Removing
    <2> QED BY <1>1, <1>4, <2>1, <2>2, <2>3 DEF Guarded
  <1> QED BY <1>1, <1>3, <1>5, KeyKept

LEMMA InitKey == ASSUME ConstantsOK, Init PROVE KeyInv
  <1>1. /\ \A j \in Jobs : loc[j].pc = "new" /\ j \notin Old
        /\ cron.pc = "idle"
    BY DEF Init, Blank, ConstantsOK
  <1>2. \A r \in rows : r.pod \in Old /\ r.node = OldNode[r.pod]
    BY DEF Init
  <1>3. \A p \in Old : pods[p].node = OldNode[p]
    BY DEF Init, PodNames
  <1>4. RowsPlaced
    BY <1>2, <1>3 DEF RowsPlaced
  <1>5. ASSUME NEW j \in Jobs PROVE RowLate(j) /\ RemoveSafe(j)
    <2>1. \A r \in rows : r.pod # j
      BY <1>1, <1>2
    <2>2. "new" \notin Reach \cup Opening \cup Asking
      BY DEF Reach, MakePCs, Handing, Opening, PortPCs, Asking
    <2> QED BY <1>1, <2>1, <2>2 DEF RowLate, RemoveSafe
  <1>6. ASSUME NEW p \in PodNames, Keyed(p)
        PROVE  <<UserOf[p], KeyNode(p)>> \in keytabs /\ ~Removing(UserOf[p], KeyNode(p))
    <2>1. p \in Old /\ p \notin Jobs
      BY <1>1, <1>2, <1>6 DEF Keyed
    <2>2. KeyNode(p) = OldNode[p]
      BY <1>3, <2>1 DEF KeyNode
    <2>3. ~Removing(UserOf[p], KeyNode(p))
      BY <1>1 DEF Removing
    <2> QED BY <2>1, <2>2, <2>3 DEF Init
  <1> QED BY <1>1, <1>4, <1>5, <1>6 DEF KeyInv, CronSafe, Guarded

LEMMA NextKey ==
  ASSUME ConstantsOK, TypeInv, TypeInv', HomeInv, KeyInv, [Next]_vars
  PROVE  KeyInv'
  <1>1. CASE UNCHANGED vars
    <2>1. UNCHANGED <<rows, loc, krb, pods>>
      BY <1>1 DEF vars, ports
    <2> QED BY <2>1, WorldKey
  <1>2. ASSUME NEW j \in Jobs, Register(j) \/ Step(j) \/ Crash(j) PROVE KeyInv'
    <2>1. CASE Create(j)
      BY <2>1, NodeKey, MakeKey, DeployKey, PodKey DEF Create
    <2>2. CASE Ports(j) \/ Change(j)
      BY <2>2, PortKey, ReadPodKey, AllocateKey DEF Ports, Change
    <2>3. CASE Remove(j)
      BY <2>3, RemoveKey, KeysKey, RemoveKeytabKey DEF Remove
    <2>4. CASE Home(j)
      BY <2>4, HomeKey
    <2>5. CASE Register(j) \/ EarlyFailure(j) \/ Crash(j)
      BY <2>5, RegisterKey, EarlyFailureKey, CrashKey
    <2> QED BY <1>2, <2>1, <2>2, <2>3, <2>4, <2>5 DEF Step
  <1>3. CASE Cron \/ CronDies
    BY <1>3, CronKey
  <1>4. ASSUME NEW p \in PodNames, PodGone(p) \/ AgeOut(p) PROVE KeyInv'
    BY <1>4, PodsGo, WorldKey
  <1> QED BY <1>1, <1>2, <1>3, <1>4 DEF Next

\* The keytab is on the node of every Pod in use, whatever removals of the
\* user's other Pods, migrations, port changes, reconciliations and cron runs
\* overlap, fail, are retried or crash: a keytab goes only from under a
\* creation that had put it on the node when a removal looked at the user's
\* Pods and had no Pod there yet, or that put it there after the look at the
\* Pods or at the rows.  In every other order of the steps a look sees the Pod
\* or its rows, or the deployment comes after the removal.
THEOREM KeytabThere == Spec => []PodHasKeytab
  <1>1. Init => HomeInv /\ KeyInv
    BY ConstantsOK, InitHome, InitKey
  <1>2. TypeInv /\ TypeInv' /\ HomeInv /\ [Next]_vars => HomeInv'
    BY ConstantsOK, NextHome
  <1>3. TypeInv /\ TypeInv' /\ HomeInv /\ KeyInv /\ [Next]_vars => KeyInv'
    BY ConstantsOK, NextKey
  <1>4. TypeInv /\ KeyInv => PodHasKeytab
    BY ConstantsOK, KeyOfPod
  <1> QED BY <1>1, <1>2, <1>3, <1>4, Types, PTL DEF Spec

-----------------------------------------------------------------------------
(* A migration keeps the account reachable                                 *)

\* no other job of a behaviour removes the old Pod of a migration
SoleMover ==
  \A m \in Mixes : \A i, j \in m :
    i # j /\ KindOf[j] = "migrate" /\ KindOf[i] \in {"migrate", "revoke", "delete"}
      => TargetOf[i] # TargetOf[j]

Inner(T) == {x.iport : x \in T}
\* where a creation has its allocation and no Service yet
Packed == {"deploy", "clear", "pod", "made", "wait", "services"}

\* the old Pod serves until the new one does, and from then on the new one;
\* what of the base ports is not open yet is in the worker's hands
MoveInv(j) ==
  /\ loc[j].pc \in Done => Serves(j)
  /\ loc[j].pc = "fail" => Serves(j) \/ Serves(Target(j))
  /\ loc[j].pc \notin Done \cup {"fail"} => Serves(Target(j))
  /\ loc[j].pc \in UpPCs => pods[j].st = "up"
  /\ loc[j].pc \in Packed => Base \subseteq Inner(loc[j].ports)
  /\ loc[j].pc = "service" => Base \subseteq Inner(loc[j].ports) \cup Inner(SvcsOf(j))
\* a port job does not take a base port away
PortInv(j) ==
  /\ loc[j].pc \in {"list", "dropPort"} => loc[j].drop \cap Base = {}
  /\ loc[j].pc = "dropPort" => Inner(loc[j].ports) \cap Base = {}
ServeInv ==
  \A j \in mix : /\ KindOf[j] = "migrate" => MoveInv(j)
                 /\ KindOf[j] = "port" => PortInv(j)

\* what a step of job i takes away from whom: its own Pod and Services when it
\* cleans up, those of the Pod that it is to remove, and extra ports
Apart(i) ==
  /\ \A p \in PodNames : pods[p].st = "up" /\ pods'[p].st # "up" =>
       \/ p = i /\ loc[i].pc = "cleanPod"
       \/ p = Target(i) /\ loc[i].pc \in Handing
  /\ \A s \in svcs \ svcs' :
       \/ s.pod = i /\ loc[i].pc \notin Done
       \/ s.pod = Target(i) /\ loc[i].pc \in Handing
       \/ s.pod = Target(i) /\ loc[i].pc = "dropPort" /\ s.iport \notin Base

\* what a step of a migration must show to go on
Forward(j) ==
  /\ loc[j].pc # "fail"
  /\ loc[j].pc \in Done => loc'[j].pc \in Done \cup {"fail"}
  /\ loc'[j].pc \in Done => loc[j].pc \in Done \/ Serves(j)'
  /\ loc'[j].pc \in UpPCs => loc[j].pc \in UpPCs \/ pods'[j].st = "up"
  /\ loc'[j].pc \in Packed => \/ loc[j].pc \in Packed /\ loc'[j].ports = loc[j].ports
                              \/ Base \subseteq Inner(loc'[j].ports)
  /\ loc'[j].pc = "service" =>
       Base \subseteq Inner(loc'[j].ports) \cup Inner(SvcsOf(j)')

LEMMA KeepsServing ==
  ASSUME NEW p \in PodNames, Serves(p), pods'[p].st = "up",
         \A s \in svcs \ svcs' : s.pod = p => s.iport \notin Base
  PROVE  Serves(p)'
  <1>1. ASSUME NEW b \in Base PROVE b \in {s.iport : s \in SvcsOf(p)'}
    <2>1. PICK s \in SvcsOf(p) : s.iport = b
      BY DEF Serves
    <2>2. s \in svcs' /\ s.pod = p
      BY <2>1 DEF SvcsOf
    <2> QED BY <2>1, <2>2 DEF SvcsOf
  <1> QED BY <1>1 DEF Serves

\* the Pods that a migration and a job on a Pod work on
LEMMA MigrationPods ==
  ASSUME ConstantsOK, NEW j \in Jobs, KindOf[j] = "migrate"
  PROVE  j \in PodNames /\ Target(j) \in PodNames /\ Target(j) \in Old /\ Target(j) \notin Jobs
  BY DEF ConstantsOK, Targeting, Target, PodNames

LEMMA OthersKeepMove ==
  ASSUME ConstantsOK, SoleMover, TypeInv, mix' = mix, NEW i \in mix, NEW j \in mix, i # j,
         KindOf[j] = "migrate", MoveInv(j), Apart(i), loc'[j] = loc[j]
  PROVE  MoveInv(j)'
  <1>1. i \in Jobs /\ j \in Jobs /\ mix \in Mixes
    BY DEF TypeInv, TypeOK, ConstantsOK
  <1>2. loc[i].pc \in Handing => KindOf[i] \in {"migrate", "revoke", "delete"}
    BY <1>1, KindAt
  <1>3. loc[i].pc = "dropPort" => KindOf[i] = "port"
    BY <1>1, KindAt
  <1>4. j \in PodNames /\ Target(j) \in PodNames /\ Target(j) \in Old /\ Target(j) \notin Jobs
    BY <1>1, MigrationPods
  <1>5. loc[i].pc \in Handing => Target(i) # Target(j) /\ Target(i) \in Old
    <2>1. SUFFICES ASSUME loc[i].pc \in Handing
                   PROVE  Target(i) # Target(j) /\ Target(i) \in Old
      OBVIOUS
    <2>2. KindOf[i] \in {"migrate", "revoke", "delete"}
      BY <1>2, <2>1
    <2>3. Target(i) # Target(j)
      BY <1>1, <2>2 DEF SoleMover, Target
    <2> QED BY <1>1, <2>2, <2>3 DEF ConstantsOK, Targeting, Target
  <1>6. loc[i].pc = "dropPort" => Target(i) \in Old
    BY <1>1, <1>3 DEF ConstantsOK, Targeting, Target
  <1>7. Old \cap Jobs = {}
    BY DEF ConstantsOK
  <1>8. \A p \in {j, Target(j)} : pods[p].st = "up" => pods'[p].st = "up"
    BY <1>1, <1>4, <1>5, <1>7 DEF Apart
  <1>9. \A s \in svcs \ svcs' : s.pod # j
    BY <1>1, <1>5, <1>6, <1>7 DEF Apart
  <1>10. \A s \in svcs \ svcs' : s.pod = Target(j) => s.iport \notin Base
    BY <1>1, <1>4, <1>5, <1>7 DEF Apart
  <1>11. Serves(j) => Serves(j)'
    BY <1>4, <1>8, <1>9, KeepsServing DEF Serves
  <1>12. Serves(Target(j)) => Serves(Target(j))'
    BY <1>4, <1>8, <1>10, KeepsServing DEF Serves
  <1>13. Inner(SvcsOf(j)) \subseteq Inner(SvcsOf(j)')
    BY <1>9 DEF SvcsOf, Inner
  <1> QED BY <1>8, <1>11, <1>12, <1>13 DEF MoveInv, Target

LEMMA OwnKeepsMove ==
  ASSUME ConstantsOK, TypeInv, NEW j \in Jobs, KindOf[j] = "migrate",
         MoveInv(j), Apart(j), Forward(j)
  PROVE  MoveInv(j)'
  <1>1. j \in PodNames /\ Target(j) \in PodNames /\ Target(j) \notin Jobs
    BY MigrationPods
  <1>2. loc[j].pc # "dropPort"
    BY KindAt
  <1>3. ASSUME loc[j].pc \in Done PROVE Serves(j)'
    <2>1. loc[j].pc # "cleanPod"
      BY <1>3 DEF Done, Handing
    <2>2. Serves(j) /\ pods[j].st = "up"
      BY <1>3 DEF MoveInv, Serves
    <2>3. pods'[j].st = "up"
      BY <1>1, <2>1, <2>2 DEF Apart
    <2>4. \A s \in svcs \ svcs' : s.pod # j
      BY <1>1, <1>2, <1>3 DEF Apart
    <2> QED BY <1>1, <2>2, <2>3, <2>4, KeepsServing
  <1>4. ASSUME loc[j].pc \notin Done PROVE Serves(Target(j))'
    <2>1. loc[j].pc \notin Handing
      BY <1>4 DEF Done
    <2>2. Serves(Target(j)) /\ pods[Target(j)].st = "up"
      BY <1>4 DEF MoveInv, Forward, Serves
    <2>3. pods'[Target(j)].st = "up"
      BY <1>1, <2>1, <2>2 DEF Apart
    <2>4. \A s \in svcs \ svcs' : s.pod # Target(j)
      BY <1>1, <1>2, <2>1 DEF Apart
    <2> QED BY <1>1, <2>2, <2>3, <2>4, KeepsServing
  <1>5. ASSUME loc'[j].pc \in UpPCs PROVE pods'[j].st = "up"
    <2>1. CASE loc[j].pc \in UpPCs
      BY <1>1, <2>1 DEF MoveInv, Apart, UpPCs, Handing
    <2> QED BY <1>5, <2>1 DEF Forward
  <1>6. loc'[j].pc \in Packed => Base \subseteq Inner(loc'[j].ports)
    BY DEF MoveInv, Forward
  <1>7. loc'[j].pc = "service" =>
          Base \subseteq Inner(loc'[j].ports) \cup Inner(SvcsOf(j)')
    BY DEF Forward
  <1>8. loc'[j].pc \in Done => Serves(j)'
    BY <1>3 DEF Forward
  <1>9. loc'[j].pc \notin Done \cup {"fail"} => Serves(Target(j))'
    BY <1>4 DEF Forward
  <1>10. Serves(j)' \/ Serves(Target(j))'
    BY <1>3, <1>4
  <1> QED BY <1>5, <1>6, <1>7, <1>8, <1>9, <1>10 DEF MoveInv, Target

\* what has to be shown of a step of a job
Fine(j) ==
  /\ Apart(j)
  /\ KindOf[j] = "migrate" => Forward(j)
  /\ KindOf[j] = "port" => PortInv(j)'
Resting == PCs \ (Packed \cup UpPCs \cup Done \cup {"list", "dropPort"})

LEMMA SamePods == ASSUME NEW j, UNCHANGED <<pods, svcs>> PROVE Apart(j)
  BY DEF Apart

\* a step before the allocation, of a clean-up or to the end of a failed job
LEMMA RestFine ==
  ASSUME NEW j \in Jobs, Apart(j), loc[j].pc \notin Done \cup {"fail"},
         loc'[j].pc \in Resting
  PROVE  Fine(j)
  BY DEF Fine, Resting, Forward, PortInv, UpPCs

LEMMA WentTo ==
  ASSUME TypeInv, NEW j \in Jobs, NEW pc, Go(j, pc)
  PROVE  loc'[j].pc = pc /\ loc'[j].ports = loc[j].ports
  <1>1. loc \in [Jobs -> Local] /\ loc[j] \in Local
    BY DEF TypeInv, TypeOK
  <1>2. loc'[j] = [loc[j] EXCEPT !.pc = pc]
    BY <1>1 DEF Go, Set
  <1> QED BY <1>1, <1>2 DEF Local

LEMMA AgainAt ==
  ASSUME ConstantsOK, TypeInv, NEW j \in Jobs, NEW l \in Local, NEW pc, Again(j, l, pc)
  PROVE  loc'[j].pc \in {pc, "fail"}
  <1>1. loc \in [Jobs -> Local]
    BY DEF TypeInv, TypeOK
  <1>2. Blank \in Local
    BY BlankLocal
  <1>3. \/ loc'[j] = [Blank EXCEPT !.pc = pc, !.tries = l.tries + 1, !.node = l.node,
                                   !.from = l.from, !.hurt = l.hurt]
        \/ loc'[j] = Over(l, "fail")
    BY <1>1 DEF Again, Set
  <1>4. [Blank EXCEPT !.pc = pc, !.tries = l.tries + 1, !.node = l.node,
                      !.from = l.from, !.hurt = l.hurt].pc = pc
    BY DEF Blank
  <1>5. Over(l, "fail").pc = "fail"
    BY DEF Over, Blank
  <1> QED BY <1>3, <1>4, <1>5

LEMMA EndAt ==
  ASSUME ConstantsOK, TypeInv, NEW j \in Jobs, NEW pc \in Final, End(j, pc)
  PROVE  loc'[j].pc = pc
  BY EndMoves DEF Moves

LEMMA EarlyFine ==
  ASSUME ConstantsOK, TypeInv, NEW j \in Jobs,
         \/ Register(j) \/ RestoreHome(j) \/ ProvisionNode(j) \/ MigrateNode(j)
         \/ EarlyFailure(j) \/ Home(j)
  PROVE  Fine(j)
  <1>1. UNCHANGED <<pods, svcs>>
    BY DEF Register, RestoreHome, ProvisionNode, MigrateNode, EarlyFailure, Home,
           HomePods, HomeJobs, HomeDelete, ports
  <1>2. Apart(j)
    BY <1>1, SamePods
  <1>3. CASE Register(j)
    <2>1. loc[j].pc = "new" /\ loc'[j].pc = First(KindOf[j])
      BY <1>3, WentTo DEF Register, At
    <2>2. KindOf[j] = "migrate" => First(KindOf[j]) = "node"
      BY DEF First
    <2>3. KindOf[j] = "port" => First(KindOf[j]) = "read"
      BY DEF First
    <2> QED BY <1>2, <2>1, <2>2, <2>3
            DEF Fine, Forward, PortInv, Done, Handing, UpPCs, Packed
  <1>4. CASE RestoreHome(j)
    <2>1. loc[j].pc = "home" /\ loc'[j].pc = "node"
      BY <1>4, WentTo DEF RestoreHome, At
    <2> QED BY <1>2, <2>1, RestFine DEF Resting, PCs, Done, Handing, UpPCs, Packed
  <1>5. CASE ProvisionNode(j) \/ MigrateNode(j)
    <2>1. loc[j].pc = "node" /\ loc'[j].pc \in {"build", "fail"}
      BY <1>5, NodeOK DEF ProvisionNode, MigrateNode, At, Moves
    <2> QED BY <1>2, <2>1, RestFine DEF Resting, PCs, Final, Done, Handing, UpPCs, Packed
  <1>6. CASE EarlyFailure(j)
    <2>1. /\ loc[j].pc \in {"home", "node", "read", "list", "homePods", "homeJobs"}
          /\ loc'[j].pc \in {IF loc[j].pc = "list" THEN "read" ELSE
                             IF loc[j].pc = "homeJobs" THEN "homePods" ELSE loc[j].pc,
                             "fail"}
      BY <1>6, EarlyFailureOK DEF EarlyFailure, Moves
    <2> QED BY <1>2, <2>1, RestFine DEF Resting, PCs, Final, Done, Handing, UpPCs, Packed
  <1>7. CASE Home(j)
    <2>1. KindOf[j] = "home"
      BY <1>7, KindAt DEF Home, HomePods, HomeJobs, HomeDelete, At
    <2> QED BY <1>2, <2>1 DEF Fine
  <1> QED BY <1>3, <1>4, <1>5, <1>6, <1>7

LEMMA BuildFine ==
  ASSUME ConstantsOK, TypeInv, NEW j \in Jobs,
         \/ BuildStart(j) \/ ReconcileSkip(j) \/ ReconcileList(j) \/ ReconcileDelete(j)
         \/ UndoBuild(j) \/ CleanServices(j) \/ CleanRows(j) \/ CleanPod(j)
         \/ CleanBlind(j)
  PROVE  Fine(j)
  <1>1. CASE BuildStart(j) \/ ReconcileSkip(j) \/ ReconcileList(j) \/ ReconcileDelete(j)
             \/ UndoBuild(j) \/ CleanRows(j) \/ CleanBlind(j)
    <2>1. UNCHANGED <<pods, svcs>>
      BY <1>1 DEF BuildStart, ReconcileSkip, ReconcileList, ReconcileDelete, UndoBuild,
                  CleanRows, CleanBlind, ports
    <2>2. loc[j].pc \in {"build", "reconcile", "stale", "undo", "cleanRows", "cleanBlind"}
      BY <1>1 DEF BuildStart, ReconcileSkip, ReconcileList, ReconcileDelete, UndoBuild,
                  CleanRows, CleanBlind, At
    <2>3. loc'[j].pc \in {"reconcile", "alloc", "stale", "build", "cleanPod", "fail"}
      BY <1>1, BuildStartOK, ReconcileSkipOK, ReconcileListOK, ReconcileDeleteOK,
         UndoBuildOK, CleanRowsOK, CleanBlindOK DEF Moves
    <2> QED BY <2>1, <2>2, <2>3, SamePods, RestFine
            DEF Resting, PCs, Final, Done, Handing, UpPCs, Packed
  <1>2. CASE CleanServices(j)
    <2>1. loc[j].pc = "cleanServices" /\ loc'[j].pc = "cleanRows" /\ pods' = pods
      BY <1>2, CleanServicesOK DEF CleanServices, At, Moves
    <2>2. \A s \in svcs \ svcs' : s.pod = j
      BY <1>2 DEF CleanServices, SvcsOf
    <2>3. Apart(j)
      BY <2>1, <2>2 DEF Apart, Done, Handing
    <2> QED BY <2>1, <2>3, RestFine DEF Resting, PCs, Final, Done, Handing, UpPCs, Packed
  <1>3. CASE CleanPod(j)
    <2>1. loc[j].pc = "cleanPod" /\ loc'[j].pc \in {"build", "fail"} /\ svcs' = svcs
      BY <1>3, CleanPodOK DEF CleanPod, At, Moves, ports
    <2>2. \A p \in PodNames : p # j => pods'[p] = pods[p]
      <3>1. pods' = [pods EXCEPT ![j].st = "term"] \/ pods' = pods
        BY <1>3 DEF CleanPod
      <3> QED BY <3>1 DEF TypeInv, TypeOK
    <2>3. Apart(j)
      BY <2>1, <2>2 DEF Apart
    <2> QED BY <2>1, <2>3, RestFine DEF Resting, PCs, Final, Done, Handing, UpPCs, Packed
  <1> QED BY <1>1, <1>2, <1>3

\* a new allocation has every base port
LEMMA AllocateFine ==
  ASSUME ConstantsOK, TypeInv, NEW j \in Jobs, Allocate(j)
  PROVE  Fine(j)
  <1>1. loc[j].pc = "alloc" /\ UNCHANGED <<pods, svcs>>
        /\ loc'[j].pc \in {"read", "build", "fill", "deploy", "fail"}
    BY AllocateOK DEF Allocate, At, Moves
  <1>2. Apart(j)
    BY <1>1, SamePods
  <1>3. CASE loc'[j].pc # "deploy"
    BY <1>1, <1>2, <1>3, RestFine DEF Resting, PCs, Final, Done, Handing, UpPCs, Packed
  <1>4. CASE loc'[j].pc = "deploy"
    <2>1. CASE KindOf[j] = "migrate"
      <3> DEFINE Packs == \E f \in [Base -> Nat] :
                   Set(j, [loc[j] EXCEPT !.pc = "deploy",
                             !.ports = {[iport |-> i, nport |-> f[i]] : i \in Base}])
      <3>1. CASE Packs
        <4>1. PICK f \in [Base -> Nat] :
                     Set(j, [loc[j] EXCEPT !.pc = "deploy",
                               !.ports = {[iport |-> i, nport |-> f[i]] : i \in Base}])
          BY <3>1
        <4>2. loc'[j].ports = {[iport |-> i, nport |-> f[i]] : i \in Base}
          BY <4>1 DEF Set, TypeInv, TypeOK, Local
        <4>3. ASSUME NEW b \in Base PROVE b \in Inner(loc'[j].ports)
          <5>1. [iport |-> b, nport |-> f[b]] \in loc'[j].ports
            BY <4>2
          <5> QED BY <5>1 DEF Inner
        <4> QED BY <1>1, <1>2, <1>4, <2>1, <4>3
                DEF Fine, Forward, Done, Handing, UpPCs
      <3>2. CASE ~Packs
        <4>1. ASSUME NEW l \in Local, Again(j, l, "build") PROVE FALSE
          <5>1. loc'[j].pc \in {"build", "fail"}
            BY <4>1, AgainAt
          <5> QED BY <1>4, <5>1
        <4>2. ~End(j, "fail")
          BY <1>4, EndAt DEF Final
        <4>3. ~Again(j, loc[j], "build") /\ ~Again(j, [loc[j] EXCEPT !.hurt = TRUE], "build")
          <5>1. loc[j] \in Local
            BY Memory
          <5>2. PICK h \in Local : h = [loc[j] EXCEPT !.hurt = TRUE]
            BY <5>1, Hurt
          <5> QED BY <4>1, <5>1, <5>2
        <4> DEFINE Gets(f) == Set(j, [loc[j] EXCEPT !.pc = "deploy",
                                !.ports = {[iport |-> i, nport |-> f[i]] : i \in Asked(j)}])
        <4>4. PICK seen \in {{s.nport : s \in svcs}, {}} :
                LET free    == Free(seen)
                    n       == Cardinality(Asked(j))
                    Back(l) == Again(j, l, IF KindOf[j] = "port" THEN "read" ELSE "build")
                    Blind   == seen = {} /\ svcs # {}
                IN IF Cardinality(free) < n
                   THEN /\ IF KindOf[j] = "port" THEN Back(loc[j]) ELSE End(j, "fail")
                        /\ IF Blind THEN Failing ELSE Well
                        /\ UNCHANGED <<rows, aged>>
                   ELSE \E f \in Injection(Asked(j), Lowest(free, n)) :
                          LET got == {[iport |-> i, nport |-> f[i]] : i \in Asked(j)}
                              new == {RowFor(j, x) : x \in got}
                          IN \/ /\ rows' = rows \cup new /\ aged' = aged \ {PodOf(j)}
                                /\ IF Blind THEN Failing ELSE Well
                                /\ IF KindOf[j] = "port" THEN Go(j, "fill") ELSE Gets(f)
                             \/ /\ ~Blind /\ Failing /\ UNCHANGED aged
                                /\ \/ rows' = rows /\ Back(loc[j])
                                   \/ rows' = rows \cup new
                                      /\ Back([loc[j] EXCEPT !.hurt = TRUE])
          BY DEF Allocate
        <4>5. Asked(j) = Base
          BY <2>1 DEF Asked
        <4>6. Lowest(Free(seen), Cardinality(Asked(j))) \subseteq Nat
          BY DEF Lowest, Free, NodePorts
        <4>7. PICK f \in Injection(Asked(j), Lowest(Free(seen), Cardinality(Asked(j)))) : Gets(f)
          <5> HIDE DEF Gets
          <5> QED BY <2>1, <4>2, <4>3, <4>4
        <4>8. f \in [Base -> Nat]
          <5>1. f \in [Base -> Lowest(Free(seen), Cardinality(Asked(j)))]
            BY <4>5 DEF Injection, IsInjective
          <5> QED BY <4>6, <5>1
        <4>9. Packs
          BY <4>5, <4>7, <4>8
        <4> QED BY <3>2, <4>9
      <3> QED BY <3>1, <3>2
    <2>2. CASE KindOf[j] # "migrate"
      BY <1>2, <1>4, <2>2 DEF Fine, PortInv
    <2> QED BY <2>1, <2>2
  <1> QED BY <1>3, <1>4

LEMMA DeployFine ==
  ASSUME ConstantsOK, TypeInv, NEW j \in Jobs,
         \/ DeployKeytab(j) \/ ClearPending(j) \/ CreatePod(j) \/ PodMade(j) \/ WaitReady(j)
  PROVE  Fine(j)
  <1>1. svcs' = svcs
    BY DEF DeployKeytab, ClearPending, CreatePod, PodMade, WaitReady, ports
  <1>2. loc[j].pc \in {"deploy", "clear", "pod", "made", "wait"}
    BY DEF DeployKeytab, ClearPending, CreatePod, PodMade, WaitReady, At
  <1>3. \A p \in PodNames : pods[p].st = "up" => pods'[p].st = "up"
    <2>1. \/ pods' = pods
          \/ pods' = [pods EXCEPT ![j] = [st |-> "up", node |-> loc[j].node]]
      <3>1. CASE CreatePod(j)
        BY <3>1 DEF CreatePod
      <3>2. CASE DeployKeytab(j) \/ ClearPending(j) \/ PodMade(j) \/ WaitReady(j)
        BY <3>2 DEF DeployKeytab, ClearPending, PodMade, WaitReady
      <3> QED BY <3>1, <3>2
    <2>2. pods \in [PodNames -> [st: {"none", "up", "term"}, node: Nodes \cup {"none"}]]
      BY DEF TypeInv, TypeOK
    <2> QED BY <2>1, <2>2
  <1>4. Apart(j)
    BY <1>1, <1>3 DEF Apart
  <1>5. KindOf[j] # "port"
    BY <1>2, KindAt DEF MakePCs, PortPCs, Creating
  <1>6. CASE loc'[j].pc \in Resting
    BY <1>2, <1>4, <1>6, RestFine DEF Done, Handing
  <1>7. CASE loc'[j].pc \notin Resting
    <2>1. loc'[j].pc \in {"clear", "pod", "made", "wait", "services"}
      <3>1. loc'[j].pc \in {"clear", "undo", "pod", "made", "cleanRows", "cleanBlind",
                             "wait", "services"}
        BY DeployKeytabOK, ClearPendingOK, CreatePodOK, PodMadeOK, WaitReadyOK DEF Moves
      <3>2. {"undo", "cleanRows", "cleanBlind"} \subseteq Resting
        BY DEF Resting, PCs, Done, Handing, UpPCs, Packed
      <3> QED BY <1>7, <3>1, <3>2
    <2>2. loc'[j].ports = loc[j].ports
      <3>1. CASE DeployKeytab(j)
        BY <1>7, <3>1, WentTo DEF DeployKeytab
      <3>2. CASE ClearPending(j)
        BY <3>2, WentTo DEF ClearPending
      <3>3. ASSUME NEW q \in {"cleanRows", "cleanBlind"}, NEW t, Clean(j, q, t)
            PROVE  FALSE
        <4>1. loc[j] \in Local /\ loc \in [Jobs -> Local]
          BY DEF TypeInv, TypeOK
        <4>2. loc'[j] = [loc[j] EXCEPT !.pc = q, !.then = t]
          BY <3>3, <4>1 DEF Clean, Set
        <4>3. loc'[j].pc = q
          BY <4>1, <4>2 DEF Local
        <4> QED BY <1>7, <4>3 DEF Resting, PCs, Done, Handing, UpPCs, Packed
      <3>4. CASE CreatePod(j)
        <4>1. \/ Clean(j, "cleanBlind", "build") \/ Clean(j, "cleanBlind", "fail")
              \/ Clean(j, "cleanRows", "build") \/ Go(j, "made")
          BY <3>4 DEF CreatePod
        <4>2. Go(j, "made")
          BY <3>3, <4>1
        <4> QED BY <4>2, WentTo
      <3>5. CASE PodMade(j)
        <4>1. loc[j] \in Local /\ loc \in [Jobs -> Local]
          BY DEF TypeInv, TypeOK
        <4>2. loc'[j] = [loc[j] EXCEPT !.pc = "wait", !.made = TRUE]
          BY <3>5, <4>1 DEF PodMade, Set
        <4> QED BY <4>1, <4>2 DEF Local
      <3>6. CASE WaitReady(j)
        BY <3>3, <3>6, WentTo DEF WaitReady
      <3> QED BY <3>1, <3>2, <3>4, <3>5, <3>6
    <2>3. loc'[j].pc \in UpPCs => loc[j].pc \in UpPCs \/ pods'[j].st = "up"
      <3>1. CASE CreatePod(j)
        <4>1. loc'[j].pc = "made" => pods' = [pods EXCEPT ![j] = [st |-> "up", node |-> loc[j].node]]
          <5>1. SUFFICES ASSUME loc'[j].pc = "made"
                         PROVE  pods' = [pods EXCEPT ![j] = [st |-> "up",
                                                             node |-> loc[j].node]]
            OBVIOUS
          <5>2. \A q \in {"cleanServices", "cleanRows", "cleanBlind"}, h \in {"build", "fail"} :
                  ~Clean(j, q, h)
            BY <5>1, NotCleaned
          <5> QED BY <3>1, <5>2 DEF CreatePod
        <4>2. j \in PodNames
          BY DEF PodNames
        <4>3. loc'[j].pc = "made" => pods'[j].st = "up"
          BY <4>1, <4>2 DEF TypeInv, TypeOK
        <4>4. loc'[j].pc \in {"made", "cleanRows", "cleanBlind"}
          BY <3>1, CreatePodOK DEF Moves
        <4> QED BY <4>3, <4>4 DEF UpPCs
      <3>2. CASE PodMade(j) \/ WaitReady(j)
        BY <3>2 DEF PodMade, WaitReady, At, UpPCs
      <3>3. CASE DeployKeytab(j) \/ ClearPending(j)
        BY <3>3, DeployKeytabOK, ClearPendingOK DEF Moves, UpPCs
      <3> QED BY <3>1, <3>2, <3>3
    <2>4. loc[j].pc \in Packed
      BY <1>2 DEF Packed
    <2>5. Forward(j)
      BY <1>2, <2>1, <2>2, <2>3, <2>4 DEF Forward, Done, Handing
    <2> QED BY <1>4, <1>5, <2>5 DEF Fine
  <1> QED BY <1>6, <1>7

\* the ports that are not open yet are opened one by one
LEMMA ServicesStartFine ==
  ASSUME ConstantsOK, TypeInv, NEW j \in Jobs, ServicesStart(j),
         KindOf[j] = "migrate" => MoveInv(j)
  PROVE  Fine(j)
  <1>1. loc[j].pc = "services" /\ loc'[j].pc = "service" /\ loc'[j].ports = loc[j].ports
        /\ pods' = pods
    BY WentTo DEF ServicesStart, At
  <1>2. \A s \in svcs \ svcs' : s.pod = j
    BY DEF ServicesStart, SvcsOf
  <1>3. Apart(j)
    BY <1>1, <1>2 DEF Apart, Done, Handing
  <1>4. KindOf[j] = "migrate" => Base \subseteq Inner(loc[j].ports)
    BY <1>1 DEF MoveInv, Packed
  <1>5. "service" \notin Done \cup Packed \cup UpPCs \/ "services" \in UpPCs
    BY DEF Done, Handing, UpPCs, Packed
  <1>6. "services" \notin Done /\ "service" \notin Done \cup Packed
    BY DEF Done, Handing, Packed
  <1>7. KindOf[j] = "migrate" => Forward(j)
    BY <1>1, <1>4, <1>5, <1>6 DEF Forward
  <1>8. PortInv(j)'
    BY <1>1 DEF PortInv
  <1> QED BY <1>3, <1>7, <1>8 DEF Fine

LEMMA CreateServiceFine ==
  ASSUME ConstantsOK, TypeInv, NEW j \in Jobs, CreateService(j),
         KindOf[j] = "migrate" => MoveInv(j)
  PROVE  Fine(j)
  <1>1. /\ loc[j].pc = "service" /\ pods' = pods /\ svcs \subseteq svcs'
        /\ loc'[j].pc \in {"service", "read", "cleanServices", "fail"}
    BY CreateServiceOK DEF CreateService, At, Moves
  <1>2. Apart(j)
    BY <1>1 DEF Apart
  <1>3. CASE loc'[j].pc # "service"
    BY <1>1, <1>2, <1>3, RestFine DEF Resting, PCs, Final, Done, Handing, UpPCs, Packed
  <1>4. CASE loc'[j].pc = "service" /\ KindOf[j] = "migrate"
    <2>1. loc[j] \in Local /\ loc \in [Jobs -> Local]
      BY DEF TypeInv, TypeOK
    <2>2. PICK x \in loc[j].ports :
            \/ Clean(j, "cleanServices", "build")
            \/ /\ svcs' = svcs \cup {[pod |-> j, iport |-> x.iport, nport |-> x.nport]}
               /\ Set(j, [loc[j] EXCEPT !.ports = @ \ {x}])
      BY <1>4 DEF CreateService, PodOf
    <2>3. ~Clean(j, "cleanServices", "build")
      <3>1. ASSUME Clean(j, "cleanServices", "build") PROVE FALSE
        <4>1. loc'[j] = [loc[j] EXCEPT !.pc = "cleanServices", !.then = "build"]
          BY <2>1, <3>1 DEF Clean, Set
        <4> QED BY <1>4, <2>1, <4>1 DEF Local
      <3> QED BY <3>1
    <2>4. loc'[j].ports = loc[j].ports \ {x}
      BY <2>1, <2>2, <2>3 DEF Set, Local
    <2>5. ASSUME NEW b \in Base
          PROVE  b \in Inner(loc'[j].ports) \cup Inner(SvcsOf(j)')
      <3>1. b \in Inner(loc[j].ports) \cup Inner(SvcsOf(j))
        BY <1>1, <1>4 DEF MoveInv
      <3>2. CASE b \in Inner(SvcsOf(j))
        BY <1>1, <3>2 DEF Inner, SvcsOf
      <3>3. CASE b = x.iport
        <4>1. [pod |-> j, iport |-> x.iport, nport |-> x.nport] \in SvcsOf(j)'
          BY <2>2, <2>3 DEF SvcsOf
        <4> QED BY <3>3, <4>1 DEF Inner
      <3>4. CASE b \in Inner(loc[j].ports) /\ b # x.iport
        BY <2>4, <3>4 DEF Inner
      <3> QED BY <3>1, <3>2, <3>3, <3>4
    <2>6. Forward(j)
      BY <1>1, <1>4, <2>5 DEF Forward, Done, Handing, UpPCs, Packed
    <2> QED BY <1>2, <1>4, <2>6 DEF Fine
  <1>5. CASE loc'[j].pc = "service" /\ KindOf[j] # "migrate"
    BY <1>2, <1>5 DEF Fine, PortInv
  <1> QED BY <1>3, <1>4, <1>5

LEMMA ServingFine ==
  ASSUME ConstantsOK, TypeInv, NEW j \in Jobs, Serving(j),
         KindOf[j] = "migrate" => MoveInv(j)
  PROVE  Fine(j)
  <1>1. /\ loc[j].pc = "service" /\ loc[j].ports = {} /\ UNCHANGED <<pods, svcs>>
        /\ loc'[j].pc = IF KindOf[j] = "migrate" THEN "dropServices" ELSE "ok"
    BY ServingOK DEF Serving, At, Moves, ports
  <1>2. Apart(j)
    BY <1>1, SamePods
  <1>3. CASE KindOf[j] = "migrate"
    <2>1. pods[j].st = "up" /\ Base \subseteq Inner(SvcsOf(j))
      BY <1>1, <1>3 DEF MoveInv, UpPCs, Inner
    <2>2. Serves(j)'
      BY <1>1, <2>1 DEF Serves, SvcsOf, Inner
    <2> QED BY <1>1, <1>2, <1>3, <2>2 DEF Fine, Forward, Done, Handing, UpPCs, Packed
  <1>4. CASE KindOf[j] # "migrate"
    BY <1>1, <1>2, <1>4 DEF Fine, PortInv
  <1> QED BY <1>3, <1>4

\* a migration that removes the old Pod does not go back
LEMMA RemoveFine ==
  ASSUME ConstantsOK, TypeInv, NEW j \in Jobs, Remove(j)
  PROVE  Fine(j)
  <1>1. /\ loc[j].pc \in Handing \cup {"gone"}
        /\ loc'[j].pc \in Handing \cup {"gone", "ok", "fail"}
    <2>1. CASE DropServices(j)
      BY <2>1, DropServicesOK DEF DropServices, At, Moves, Handing
    <2>2. CASE DropRows(j)
      BY <2>2, DropRowsOK DEF DropRows, At, Moves, Handing
    <2>3. CASE DropPod(j)
      BY <2>3, DropPodOK DEF DropPod, At, Moves, Handing
    <2>4. CASE Gone(j)
      BY <2>4, GoneOK DEF Gone, At, Moves, Handing
    <2>5. CASE Keys(j)
      BY <2>5, KeysOK DEF Keys, At, Moves, Handing
    <2>6. CASE RemoveKeytab(j)
      BY <2>6, RemoveKeytabOK DEF RemoveKeytab, At, Moves, Handing
    <2> QED BY <2>1, <2>2, <2>3, <2>4, <2>5, <2>6 DEF Remove
  <1>2. /\ KindOf[j] \in {"migrate", "revoke", "delete"}
        /\ loc[j].pc = "gone" => KindOf[j] # "migrate"
    BY <1>1, Dropping
  <1>3. Apart(j)
    <2>1. CASE DropServices(j)
      <3>1. loc[j].pc \in Handing /\ pods' = pods /\ \A s \in svcs \ svcs' : s.pod = Target(j)
        BY <2>1 DEF DropServices, At, Handing, SvcsOf
      <3> QED BY <3>1 DEF Apart
    <2>2. CASE DropPod(j)
      <3>1. loc[j].pc \in Handing /\ svcs' = svcs
        BY <2>2 DEF DropPod, At, Handing, ports
      <3>2. pods' = pods \/ pods' = [pods EXCEPT ![Target(j)].st = "term"]
        BY <2>2 DEF DropPod
      <3>3. \A p \in PodNames : p # Target(j) => pods'[p] = pods[p]
        BY <3>2 DEF TypeInv, TypeOK
      <3> QED BY <3>1, <3>3 DEF Apart
    <2>3. CASE DropRows(j) \/ Gone(j) \/ Keys(j) \/ RemoveKeytab(j)
      BY <2>3, SamePods DEF DropRows, Gone, Keys, RemoveKeytab, ports
    <2> QED BY <2>1, <2>2, <2>3 DEF Remove
  <1>4. CASE KindOf[j] = "migrate"
    <2>1. loc[j].pc \in Done
      BY <1>1, <1>2, <1>4 DEF Done
    <2>2. ASSUME NEW q, Trip(j, q) PROVE loc'[j].pc \in Done
      <3>1. "ok" \in Final /\ "ok" \in Done /\ End(j, "ok")
        BY <1>4, <2>2 DEF Trip, Final, Done
      <3> QED BY <3>1, EndAt
    <2>3. ASSUME NEW q \in Handing, Go(j, q) PROVE loc'[j].pc \in Done
      BY <2>3, WentTo DEF Done
    <2>4. ASSUME End(j, "ok") PROVE loc'[j].pc \in Done
      <3>1. "ok" \in Final /\ "ok" \in Done
        BY DEF Final, Done
      <3> QED BY <2>4, <3>1, EndAt
    <2>5. loc'[j].pc \in Done
      <3>1. CASE DropServices(j)
        BY <2>2, <2>3, <3>1, DropPlaces DEF DropServices
      <3>2. CASE DropRows(j)
        BY <2>2, <2>3, <3>2, DropPlaces DEF DropRows
      <3>3. CASE DropPod(j)
        BY <1>4, <2>2, <2>3, <2>4, <3>3, DropPlaces DEF DropPod
      <3>4. CASE Gone(j)
        BY <1>2, <1>4, <3>4 DEF Gone, At
      <3>5. CASE Keys(j)
        BY <2>3, <2>4, <3>5, DropPlaces DEF Keys
      <3>6. CASE RemoveKeytab(j)
        BY <2>4, <3>6 DEF RemoveKeytab
      <3> QED BY <3>1, <3>2, <3>3, <3>4, <3>5, <3>6 DEF Remove
    <2>6. Forward(j)
      BY <2>1, <2>5 DEF Forward, Done, Handing, UpPCs, Packed
    <2> QED BY <1>3, <1>4, <2>6 DEF Fine
  <1>5. CASE KindOf[j] # "migrate"
    BY <1>2, <1>3, <1>5 DEF Fine
  <1> QED BY <1>4, <1>5

\* a port job opens and closes extra ports
LEMMA ChangeFine ==
  ASSUME ConstantsOK, TypeInv, NEW j \in Jobs, Change(j), KindOf[j] = "port" => PortInv(j)
  PROVE  Fine(j)
  <1>1. KindOf[j] = "port" /\ PortInv(j)
    BY KindAt DEF Change, ReadPod, ListServices, DropPort, DropPortRow, Fill, At
  <1>2. loc[j] \in Local /\ loc \in [Jobs -> Local] /\ Blank \in Local
    BY BlankLocal DEF TypeInv, TypeOK
  <1>3. CASE ReadPod(j)
    <2>1. Apart(j)
      BY <1>3, SamePods DEF ReadPod, ports
    <2>2. CASE End(j, "fail")
      BY <1>1, <2>1, <2>2, EndAt DEF Final, Fine, PortInv
    <2>3. CASE ~End(j, "fail")
      <3> DEFINE extra == {r.iport : r \in RowsOf(Target(j))} \ Base
      <3>1. Set(j, [loc[j] EXCEPT !.pc = "list", !.node = pods[Target(j)].node,
                                  !.drop = extra \ Wanted[j],
                                  !.add = Wanted[j] \ extra])
        BY <1>3, <2>3 DEF ReadPod
      <3>2. loc'[j].pc = "list" /\ loc'[j].drop = extra \ Wanted[j]
        BY <1>2, <3>1 DEF Set, Local
      <3> QED BY <1>1, <2>1, <3>2 DEF Fine, PortInv
    <2> QED BY <2>2, <2>3
  <1>4. CASE ListServices(j)
    <2>1. Apart(j)
      BY <1>4, SamePods DEF ListServices, ports
    <2> DEFINE seen == SvcsOf(Target(j))
    <2>2. /\ loc[j].pc = "list"
          /\ Set(j, [loc[j] EXCEPT !.pc = "dropPort",
                       !.open = {s.iport : s \in seen},
                       !.ports = Pairs({s \in seen : s.iport \in loc[j].drop})])
      BY <1>4 DEF ListServices, At
    <2>3. /\ loc'[j].pc = "dropPort" /\ loc'[j].drop = loc[j].drop
          /\ loc'[j].ports = Pairs({s \in seen : s.iport \in loc[j].drop})
      BY <1>2, <2>2 DEF Set, Local
    <2>4. loc[j].drop \cap Base = {}
      BY <1>1, <2>2 DEF PortInv
    <2>5. \A x \in loc'[j].ports : x.iport \in loc[j].drop
      BY <2>3 DEF Pairs
    <2> QED BY <1>1, <2>1, <2>3, <2>4, <2>5 DEF Fine, PortInv, Inner
  <1>5. CASE DropPort(j)
    <2>1. PICK x \in loc[j].ports :
            /\ svcs' \in {svcs, svcs \ {[pod |-> Target(j), iport |-> x.iport,
                                         nport |-> x.nport]}}
            /\ \/ Again(j, loc[j], "read")
               \/ Set(j, [loc[j] EXCEPT !.ports = @ \ {x}])
      BY <1>5 DEF DropPort
    <2>2. loc[j].pc = "dropPort" /\ pods' = pods
      BY <1>5 DEF DropPort, At
    <2>3. x.iport \notin Base
      BY <1>1, <2>2 DEF PortInv, Inner
    <2>4. Apart(j)
      BY <2>1, <2>2, <2>3 DEF Apart
    <2>5. CASE Again(j, loc[j], "read")
      BY <1>1, <1>2, <2>4, <2>5, AgainAt DEF Fine, PortInv
    <2>6. CASE Set(j, [loc[j] EXCEPT !.ports = @ \ {x}])
      <3>1. loc'[j].drop = loc[j].drop /\ loc'[j].ports = loc[j].ports \ {x}
        BY <1>2, <2>6 DEF Set, Local
      <3> QED BY <1>1, <2>2, <2>4, <3>1 DEF Fine, PortInv, Inner
    <2> QED BY <2>1, <2>5, <2>6
  <1>6. CASE DropPortRow(j) \/ Fill(j)
    <2>1. Apart(j)
      BY <1>6, SamePods DEF DropPortRow, Fill, ports
    <2>2. loc'[j].pc \in {"reconcile", "fill", "read", "fail", "service"}
      BY <1>6, DropPortRowOK, FillOK DEF Moves
    <2> QED BY <1>1, <2>1, <2>2 DEF Fine, PortInv
  <1> QED BY <1>3, <1>4, <1>5, <1>6 DEF Change

\* a migration that was cut off while it removed the old Pod resumes there or
\* fails, and one that cannot go on takes its own Services away at most
LEMMA CrashFine ==
  ASSUME ConstantsOK, TypeInv, NEW j \in Jobs, Crash(j)
  PROVE  Fine(j)
  <1>1. /\ pods' = pods /\ loc'[j].pc \in {ResumeAt(j), "fail"}
        /\ loc[j].pc \notin Final
    BY CrashOK DEF Crash, Moves, Running
  <1>2. Apart(j)
    <2>1. CASE svcs' = svcs
      BY <1>1, <2>1 DEF Apart
    <2>2. CASE Stuck(j) /\ svcs' = svcs \ SvcsOf(j)
      <3>1. loc[j].pc \notin Done
        BY <1>1, <2>2 DEF Stuck, Done, Final
      <3> QED BY <1>1, <2>2, <3>1 DEF Apart, SvcsOf
    <2> QED BY <2>1, <2>2 DEF Crash, CannotGoOn, Resumed
  <1>3. /\ ResumeAt(j) \in {"home", "node", "build", "read", "homePods", "dropServices",
                           "dropRows", "dropPod", "keys"}
        /\ ResumeAt(j) \in Handing => loc[j].pc \in Handing \cup {"gone"}
    <2>1. Running(j)
      BY DEF Crash
    <2> QED BY <2>1, ResumedAt
  <1>4. CASE KindOf[j] = "migrate" /\ loc[j].pc \in Handing
    <2>1. ResumeAt(j) \in Handing
      BY <1>4 DEF ResumeAt, Handing
    <2> QED BY <1>1, <1>2, <1>4, <2>1 DEF Fine, Forward, Done, Handing, UpPCs, Packed
  <1>5. CASE KindOf[j] = "migrate" /\ loc[j].pc \notin Handing
    <2>1. loc[j].pc # "gone"
      BY <1>5, KindAt
    <2>2. loc[j].pc \notin Done \cup {"fail"}
      BY <1>1, <1>5 DEF Done, Final
    <2>3. loc'[j].pc \in {"home", "node", "build", "read", "homePods", "fail"}
      BY <1>1, <1>3, <1>5, <2>1 DEF Handing
    <2> QED BY <1>2, <2>2, <2>3, RestFine
            DEF Resting, PCs, Final, Done, Handing, UpPCs, Packed
  <1>6. CASE KindOf[j] # "migrate"
    BY <1>1, <1>2, <1>3, <1>6 DEF Fine, PortInv
  <1> QED BY <1>4, <1>5, <1>6

LEMMA EveryStepFine ==
  ASSUME ConstantsOK, TypeInv, ServeInv, NEW j \in mix, Register(j) \/ Step(j) \/ Crash(j)
  PROVE  Fine(j)
  <1>1. j \in Jobs
    BY DEF TypeInv, TypeOK, ConstantsOK
  <1>2. /\ KindOf[j] = "migrate" => MoveInv(j)
        /\ KindOf[j] = "port" => PortInv(j)
    BY DEF ServeInv
  <1>3. CASE Create(j)
    BY <1>1, <1>2, <1>3, EarlyFine, BuildFine, DeployFine, ServicesStartFine DEF Create
  <1>4. CASE Ports(j)
    BY <1>1, <1>2, <1>4, BuildFine, AllocateFine, CreateServiceFine, ServingFine DEF Ports
  <1>5. CASE Remove(j) \/ Change(j)
    BY <1>1, <1>2, <1>5, RemoveFine, ChangeFine
  <1>6. CASE Register(j) \/ Home(j) \/ EarlyFailure(j) \/ Crash(j)
    BY <1>1, <1>6, EarlyFine, CrashFine
  <1> QED BY <1>3, <1>4, <1>5, <1>6 DEF Step

\* a step of a job moves no other job's worker
LEMMA StepMoves ==
  ASSUME ConstantsOK, TypeInv, NEW j \in Jobs, Register(j) \/ Step(j) \/ Crash(j)
  PROVE  \A i \in Jobs \ {j} : loc'[i] = loc[i]
  <1>1. CASE Register(j) \/ Crash(j) \/ EarlyFailure(j)
    BY <1>1, RegisterOK, CrashOK, EarlyFailureOK DEF Moves
  <1>2. CASE Create(j)
    <2>1. CASE RestoreHome(j) \/ ProvisionNode(j) \/ MigrateNode(j) \/ BuildStart(j)
               \/ DeployKeytab(j) \/ ClearPending(j) \/ UndoBuild(j)
      BY <2>1, RestoreHomeOK, NodeOK, BuildStartOK, DeployKeytabOK, ClearPendingOK,
         UndoBuildOK DEF Moves
    <2>2. CASE CreatePod(j) \/ PodMade(j) \/ WaitReady(j) \/ ServicesStart(j)
               \/ CleanServices(j) \/ CleanRows(j) \/ CleanPod(j) \/ CleanBlind(j)
      BY <2>2, CreatePodOK, PodMadeOK, WaitReadyOK, ServicesStartOK, CleanServicesOK,
         CleanRowsOK, CleanPodOK, CleanBlindOK DEF Moves
    <2> QED BY <1>2, <2>1, <2>2 DEF Create
  <1>3. CASE Ports(j)
    BY <1>3, ReconcileSkipOK, ReconcileListOK, ReconcileDeleteOK, AllocateOK,
       CreateServiceOK, ServingOK DEF Ports, Moves
  <1>4. CASE Remove(j)
    BY <1>4, DropServicesOK, DropRowsOK, DropPodOK, GoneOK, KeysOK, RemoveKeytabOK
       DEF Remove, Moves
  <1>5. CASE Change(j)
    BY <1>5, ReadPodOK, ListServicesOK, DropPortOK, DropPortRowOK, FillOK DEF Change, Moves
  <1>6. CASE Home(j)
    BY <1>6, HomePodsOK, HomeJobsOK, HomeDeleteOK DEF Home, Moves
  <1> QED BY <1>1, <1>2, <1>3, <1>4, <1>5, <1>6 DEF Step

\* a job that is not of this behaviour takes no step
LEMMA OfThisMix ==
  ASSUME NEW j \in Jobs, Register(j) \/ Step(j) \/ Crash(j)
  PROVE  j \in mix /\ mix' = mix
  <1>1. CASE Register(j) \/ Crash(j) \/ EarlyFailure(j)
    BY <1>1 DEF Register, Crash, EarlyFailure, At
  <1>2. CASE Create(j)
    BY <1>2 DEF Create, RestoreHome, ProvisionNode, MigrateNode, BuildStart, DeployKeytab,
                ClearPending, UndoBuild, CreatePod, PodMade, WaitReady, ServicesStart,
                CleanServices, CleanRows, CleanPod, CleanBlind, At
  <1>3. CASE Ports(j)
    BY <1>3 DEF Ports, ReconcileSkip, ReconcileList, ReconcileDelete, Allocate,
                CreateService, Serving, At
  <1>4. CASE Remove(j)
    BY <1>4 DEF Remove, DropServices, DropRows, DropPod, Gone, Keys, RemoveKeytab, At
  <1>5. CASE Change(j) \/ Home(j)
    BY <1>5 DEF Change, ReadPod, ListServices, DropPort, DropPortRow, Fill, Home,
                HomePods, HomeJobs, HomeDelete, At
  <1> QED BY <1>1, <1>2, <1>3, <1>4, <1>5 DEF Step

LEMMA WorldServe ==
  ASSUME ConstantsOK, TypeInv, ServeInv, UNCHANGED <<mix, svcs, loc>>,
         \A p \in PodNames : pods[p].st = "up" => pods'[p].st = "up"
  PROVE  ServeInv'
  <1>1. ASSUME NEW j \in mix, KindOf[j] = "migrate" PROVE MoveInv(j)'
    <2>1. j \in Jobs /\ MoveInv(j)
      BY <1>1 DEF ServeInv, TypeInv, TypeOK, ConstantsOK
    <2>2. j \in PodNames /\ Target(j) \in PodNames
      BY <1>1, <2>1, MigrationPods
    <2>3. Serves(j) => Serves(j)'
      BY <2>2 DEF Serves, SvcsOf
    <2>4. Serves(Target(j)) => Serves(Target(j))'
      BY <2>2 DEF Serves, SvcsOf
    <2> QED BY <2>1, <2>2, <2>3, <2>4 DEF MoveInv, Target, SvcsOf
  <1>2. ASSUME NEW j \in mix, KindOf[j] = "port" PROVE PortInv(j)'
    BY <1>2 DEF ServeInv, PortInv
  <1> QED BY <1>1, <1>2 DEF ServeInv

LEMMA InitServe == ASSUME ConstantsOK, Init PROVE ServeInv
  <1>1. \A j \in Jobs : loc[j].pc = "new"
    BY DEF Init, Blank
  <1>2. ASSUME NEW p \in Old PROVE Serves(p)
    <2>1. pods[p].st = "up" /\ p \in PodNames
      BY DEF Init, PodNames
    <2>2. ASSUME NEW b \in Base PROVE b \in {s.iport : s \in SvcsOf(p)}
      <3>1. b \in DOMAIN OldPorts[p] /\ OldPorts[p][b] \in NodePorts /\ OldNode[p] \in Nodes
            /\ b \in InPorts
        BY DEF ConstantsOK, InPorts
      <3>2. PICK r \in rows : r.pod = p /\ r.iport = b /\ r.nport = OldPorts[p][b]
        <4> DEFINE r == [pod |-> p, iport |-> b, nport |-> OldPorts[p][b],
                         node |-> OldNode[p]]
        <4>1. r \in Row
          BY <2>1, <3>1 DEF Row
        <4>2. r \in rows
          BY <3>1, <4>1 DEF Init
        <4> QED BY <4>2
      <3>3. [pod |-> r.pod, iport |-> r.iport, nport |-> r.nport] \in svcs
        BY <3>2 DEF Init
      <3> QED BY <3>2, <3>3 DEF SvcsOf
    <2> QED BY <2>1, <2>2 DEF Serves
  <1>3. mix \subseteq Jobs
    BY DEF Init, ConstantsOK
  <1>4. ASSUME NEW j \in mix, KindOf[j] = "migrate" PROVE MoveInv(j)
    <2>1. Serves(Target(j))
      BY <1>2, <1>3, <1>4, MigrationPods
    <2> QED BY <1>1, <1>3, <2>1 DEF MoveInv, Done, Handing, UpPCs, Packed
  <1>5. ASSUME NEW j \in mix PROVE PortInv(j)
    BY <1>1, <1>3 DEF PortInv
  <1> QED BY <1>4, <1>5 DEF ServeInv

LEMMA NextServe ==
  ASSUME ConstantsOK, SoleMover, TypeInv, TypeInv', ServeInv, [Next]_vars PROVE ServeInv'
  <1>1. CASE UNCHANGED vars
    BY <1>1, WorldServe DEF vars, ports
  <1>2. ASSUME NEW i \in Jobs, Register(i) \/ Step(i) \/ Crash(i) PROVE ServeInv'
    <2>1. i \in mix /\ mix' = mix
      BY <1>2, OfThisMix
    <2>2. Fine(i)
      BY <1>2, <2>1, EveryStepFine
    <2>3. \A j \in Jobs \ {i} : loc'[j] = loc[j]
      BY <1>2, StepMoves
    <2>4. ASSUME NEW j \in mix PROVE /\ KindOf[j] = "migrate" => MoveInv(j)'
                                     /\ KindOf[j] = "port" => PortInv(j)'
      <3>1. j \in Jobs
        BY DEF TypeInv, TypeOK, ConstantsOK
      <3>2. CASE j = i
        <4>1. KindOf[i] = "migrate" => MoveInv(i)'
          BY <2>1, <2>2, OwnKeepsMove DEF Fine, ServeInv
        <4> QED BY <2>2, <3>2, <4>1 DEF Fine
      <3>3. CASE j # i
        <4>1. loc'[j] = loc[j] /\ Apart(i)
          BY <2>2, <2>3, <3>1, <3>3 DEF Fine
        <4>2. KindOf[j] = "migrate" => MoveInv(j)'
          BY <2>1, <3>3, <4>1, OthersKeepMove DEF ServeInv
        <4>3. KindOf[j] = "port" => PortInv(j)'
          BY <4>1 DEF ServeInv, PortInv
        <4> QED BY <4>2, <4>3
      <3> QED BY <3>2, <3>3
    <2> QED BY <2>1, <2>4 DEF ServeInv
  <1>3. CASE Cron \/ CronDies
    <2>1. UNCHANGED <<mix, svcs, pods, loc>>
      BY <1>3 DEF Cron, CronList, CronClaim, CronCheck, CronRemove, CronDone, CronDies, ports
    <2> QED BY <2>1, WorldServe
  <1>4. ASSUME NEW p \in PodNames, PodGone(p) \/ AgeOut(p) PROVE ServeInv'
    <2>1. UNCHANGED <<mix, svcs, loc>>
      BY <1>4 DEF PodGone, AgeOut, ports
    <2>2. \A q \in PodNames : pods[q].st = "up" => pods'[q].st = "up"
      <3>1. pods' = pods \/ (pods[p].st = "term" /\ pods' = [pods EXCEPT ![p] = NoPod])
        BY <1>4 DEF PodGone, AgeOut
      <3> QED BY <3>1 DEF TypeInv, TypeOK
    <2> QED BY <2>1, <2>2, WorldServe
  <1> QED BY <1>1, <1>2, <1>3, <1>4 DEF Next

\* Whatever fails, is retried or crashes, and whatever port changes, other
\* creations and reconciliations happen beside it, a migration never leaves
\* the account without a Pod that serves every base port, provided that no
\* other job was told to remove the old Pod: step_migrate_cleanup_old starts
\* only when every Service of the new Pod is there, no step goes back from it,
\* and a resumed migration goes on with it.
THEOREM MigrationServes ==
  ASSUME SoleMover PROVE Spec => []MigrationKeepsServing
  <1>1. Init => ServeInv
    BY ConstantsOK, InitServe
  <1>2. TypeInv /\ TypeInv' /\ ServeInv /\ [Next]_vars => ServeInv'
    BY ConstantsOK, NextServe
  <1>3. ServeInv => MigrationKeepsServing
    BY DEF ServeInv, MoveInv, MigrationKeepsServing
  <1> QED BY <1>1, <1>2, <1>3, Types, PTL DEF Spec
=============================================================================
