----------------------- MODULE ContainerRecordsProofs -----------------------
(***************************************************************************)
(* Proofs about the rows of nodeport_allocations, for every value of the   *)
(* constants of Containers, with ~Overlap:                                 *)
(*   RecordedIsServed   Spec => []ServedAsRecorded                         *)
(*   EndsClean          Spec => []NothingLeft                              *)
(*   PortsLeadToOwners  Spec /\ Listed, Untried => []PortLeadsToOwner      *)
(* all but EndsClean with GraceCovers and Base # {}; the hypotheses beside *)
(* Spec are of steps, each excludes one kind of failure or of request.     *)
(* TableInv relates rows and Services at every step of every job.  On top  *)
(* of it, OwnerInv follows a node port from the allocation to the Service; *)
(* LeftInv says what a creation or a removal holds at each of its steps.   *)
(***************************************************************************)
EXTENDS ContainersProofs

-----------------------------------------------------------------------------
(* The table and the Services agree                                        *)

Removers == {"migrate", "revoke", "delete"}
\* a job that removes the Pod has begun
Touched(p) == \E i \in mix : KindOf[i] \in Removers /\ Target(i) = p /\ loc[i].pc # "new"

Shut  == {"new", "home", "node", "build", "reconcile", "stale", "alloc", "undo",
          "cleanRows", "cleanPod", "cleanBlind"} \cup Packed
Freed == {"reconcile", "stale", "alloc"}

RecordOK(l, R, S) ==
  /\ l.pc \in Shut     => S = {}
  /\ l.pc \in Freed    => R = {}
  /\ l.pc \in Packed   => Pairs(R) = l.ports
  /\ l.pc = "service"  => Pairs(R) = l.ports \cup Pairs(S)
  /\ l.pc \in Done     => Pairs(R) = Pairs(S)

MadeInv(j) ==
  IF KindOf[j] \in Creating
  THEN /\ ~loc[j].hurt => RecordOK(loc[j], RowsOf(j), SvcsOf(j))
       /\ InFlight(j) => j \notin aged
       /\ loc[j].pc \in {"wait", "services", "service", "cleanServices"} => loc[j].made
  ELSE RowsOf(j) = {} /\ SvcsOf(j) = {}

ListInv(k) == loc[k].pc = "stale" =>
  \A p \in aged \ loc[k].pods : IF p \in Jobs THEN SvcsOf(p) = {} ELSE Touched(p)

Quiet(p) == \A j \in mix : KindOf[j] = "port" /\ Target(j) = p => loc[j].pc \in {"new", "ok"}
OldInv(p) == ~Touched(p) =>
  /\ Base \subseteq Inner(SvcsOf(p))
  /\ Pairs(SvcsOf(p)) \subseteq Pairs(RowsOf(p))
  /\ \A r, t \in RowsOf(p) : r.iport = t.iport => r.nport = t.nport
  /\ Quiet(p) => Pairs(RowsOf(p)) \subseteq Pairs(SvcsOf(p))

ChangeOK(l, w, R, S) ==
  /\ l.pc \in {"list", "dropPort", "reconcile", "stale", "alloc", "fill"} =>
       l.drop \cap (Base \cup w) = {}
  /\ l.pc \in {"list", "dropPort"} => Inner(R) \subseteq Base \cup w \cup l.drop
  /\ l.pc \in {"list", "dropPort", "reconcile", "stale", "alloc"} =>
       l.add \subseteq w /\ l.add \cap Inner(R) = {}
  /\ l.pc \in {"dropPort", "reconcile", "stale", "alloc", "fill"} =>
       l.open \ l.drop \subseteq Inner(S)
  /\ l.pc = "dropPort" => /\ Inner(l.ports) \subseteq l.drop
                          /\ \A s \in S : s.iport \in l.drop =>
                                [iport |-> s.iport, nport |-> s.nport] \in l.ports
  /\ l.pc \in {"reconcile", "stale", "alloc", "fill"} => Inner(R) \subseteq Base \cup w
  /\ l.pc = "service" => /\ l.ports \subseteq Pairs(R)
                         /\ Pairs(R) \subseteq l.ports \cup Pairs(S)
ChangeInv(j) == KindOf[j] = "port" /\ ~Touched(Target(j)) =>
  ChangeOK(loc[j], Wanted[j], RowsOf(Target(j)), SvcsOf(Target(j)))

\* two jobs on one Pod are not at work at one time
TurnInv == \A i, j \in mix :
  i # j /\ KindOf[i] \in Targeting /\ KindOf[j] \in Targeting /\ Target(i) = Target(j)
    => ~(Running(i) /\ Running(j))

TableInv ==
  /\ \A j \in Jobs : MadeInv(j)
  /\ \A k \in mix : ListInv(k)
  /\ \A p \in Old : OldInv(p)
  /\ \A j \in mix : ChangeInv(j)
  /\ TurnInv

-----------------------------------------------------------------------------
(* What a worker keeps in memory *)

LEMMA SetAt ==
  ASSUME TypeInv, NEW j \in Jobs, NEW m, Set(j, m)
  PROVE  loc'[j] = m /\ \A i \in Jobs \ {j} : loc'[i] = loc[i]
  BY DEF Set, TypeInv, TypeOK

LEMMA GoAt ==
  ASSUME TypeInv, NEW j \in Jobs, NEW pc, Go(j, pc)
  PROVE  /\ loc'[j].pc = pc /\ loc'[j].ports = loc[j].ports
         /\ loc'[j].hurt = loc[j].hurt /\ loc'[j].made = loc[j].made
         /\ loc'[j].open = loc[j].open /\ loc'[j].add = loc[j].add
         /\ loc'[j].drop = loc[j].drop
  <1>1. loc'[j] = [loc[j] EXCEPT !.pc = pc]
    BY SetAt DEF Go
  <1> QED BY <1>1, Memory DEF Local

LEMMA OverHurt ==
  ASSUME ConstantsOK, NEW l \in Local, NEW pc
  PROVE  Over(l, pc).hurt = l.hurt /\ Over(l, pc).pc = pc
  BY BlankLocal DEF Over, Local

LEMMA EndHurt ==
  ASSUME ConstantsOK, TypeInv, NEW j \in Jobs, NEW pc, End(j, pc)
  PROVE  loc'[j].hurt = loc[j].hurt /\ loc'[j].pc = pc
  <1>1. loc'[j] = Over(loc[j], pc)
    BY SetAt DEF End
  <1> QED BY <1>1, Memory, OverHurt

LEMMA AgainHurt ==
  ASSUME ConstantsOK, TypeInv, NEW j \in Jobs, NEW l \in Local, NEW pc, Again(j, l, pc)
  PROVE  loc'[j].hurt = l.hurt /\ loc'[j].pc \in {pc, "fail"}
  <1>1. \/ loc'[j] = [Blank EXCEPT !.pc = pc, !.tries = l.tries + 1, !.node = l.node,
                                   !.from = l.from, !.hurt = l.hurt]
        \/ loc'[j] = Over(l, "fail")
    BY SetAt DEF Again
  <1>2. Blank \in Local
    BY BlankLocal
  <1>3. CASE loc'[j] = Over(l, "fail")
    BY <1>3, OverHurt
  <1>4. CASE loc'[j] = [Blank EXCEPT !.pc = pc, !.tries = l.tries + 1, !.node = l.node,
                                     !.from = l.from, !.hurt = l.hurt]
    <2>1. PICK t : t = l.tries + 1
      OBVIOUS
    <2>2. loc'[j] = [Blank EXCEPT !.pc = pc, !.tries = t, !.node = l.node,
                                  !.from = l.from, !.hurt = l.hurt]
      BY <1>4, <2>1
    <2> QED BY <1>2, <2>2 DEF Local
  <1> QED BY <1>1, <1>3, <1>4

LEMMA TripHurt ==
  ASSUME ConstantsOK, TypeInv, NEW j \in Jobs, NEW pc, Trip(j, pc)
  PROVE  loc'[j].hurt = loc[j].hurt
  BY Memory, EndHurt, AgainHurt DEF Trip

LEMMA CleanHurt ==
  ASSUME TypeInv, NEW j \in Jobs, NEW pc, NEW t, Clean(j, pc, t)
  PROVE  loc'[j].hurt = loc[j].hurt /\ loc'[j].made = loc[j].made /\ loc'[j].pc = pc
  <1>1. loc'[j] = [loc[j] EXCEPT !.pc = pc, !.then = t]
    BY SetAt DEF Clean
  <1> QED BY <1>1, Memory DEF Local

LEMMA SwallowHurt ==
  ASSUME TypeInv, NEW j \in Jobs, NEW pc, Swallow(j, pc)
  PROVE  loc'[j].hurt /\ loc'[j].made = loc[j].made
  <1>1. loc'[j] = [loc[j] EXCEPT !.pc = pc, !.hurt = TRUE]
    BY SetAt DEF Swallow
  <1> QED BY <1>1, Memory DEF Local
\* a failed clean-up is not forgotten
LEMMA MakeHurt ==
  ASSUME ConstantsOK, TypeInv, NEW j \in Jobs, loc[j].hurt,
         \/ RestoreHome(j) \/ ProvisionNode(j) \/ MigrateNode(j) \/ BuildStart(j)
         \/ DeployKeytab(j) \/ ClearPending(j) \/ UndoBuild(j) \/ CreatePod(j)
         \/ PodMade(j) \/ WaitReady(j) \/ ServicesStart(j) \/ CleanServices(j)
         \/ CleanRows(j) \/ CleanPod(j) \/ CleanBlind(j)
  PROVE  loc'[j].hurt
  <1>1. loc[j] \in Local
    BY Memory
  <1>2. PICK h \in Local : h = [loc[j] EXCEPT !.hurt = TRUE]
    BY <1>1, Hurt
  <1>3. h.hurt
    BY <1>1, <1>2 DEF Local
  <1>4. ASSUME NEW q, Again(j, loc[j], q) \/ Again(j, h, q) PROVE loc'[j].hurt
    BY <1>1, <1>3, <1>4, AgainHurt
  <1>5. ASSUME NEW l \in Local, l.hurt, Set(j, Over(l, "fail")) PROVE loc'[j].hurt
    BY <1>5, SetAt, OverHurt
  <1>6. CASE RestoreHome(j) \/ ClearPending(j) \/ ServicesStart(j) \/ WaitReady(j) \/ CreatePod(j)
    BY <1>6, GoAt, CleanHurt DEF RestoreHome, ClearPending, ServicesStart, WaitReady, CreatePod
  <1>7. CASE ProvisionNode(j)
    <2>1. PICK n : Set(j, [loc[j] EXCEPT !.pc = "build", !.node = n])
      BY <1>7 DEF ProvisionNode
    <2>2. loc'[j] = [loc[j] EXCEPT !.pc = "build", !.node = n]
      BY <2>1, SetAt
    <2> QED BY <1>1, <2>2 DEF Local
  <1>8. CASE MigrateNode(j)
    <2>1. CASE End(j, "fail")
      BY <2>1, EndHurt
    <2>2. CASE ~End(j, "fail")
      <3>1. PICK n : Set(j, [loc[j] EXCEPT !.pc = "build", !.node = n,
                                           !.from = pods[TargetOf[j]].node])
        BY <1>8, <2>2 DEF MigrateNode
      <3>2. loc'[j] = [loc[j] EXCEPT !.pc = "build", !.node = n,
                                     !.from = pods[TargetOf[j]].node]
        BY <3>1, SetAt
      <3> QED BY <1>1, <3>2 DEF Local
    <2> QED BY <2>1, <2>2
  <1>9. CASE BuildStart(j)
    <2>1. CASE Go(j, "reconcile")
      BY <2>1, GoAt
    <2>2. CASE Set(j, [loc[j] EXCEPT !.pc = "reconcile", !.hurt = @ \/ RowsOf(j) # {}])
      <3>1. loc'[j] = [loc[j] EXCEPT !.pc = "reconcile", !.hurt = @ \/ RowsOf(j) # {}]
        BY <2>2, SetAt
      <3>2. loc'[j].hurt = (loc[j].hurt \/ RowsOf(j) # {})
        BY <1>1, <3>1 DEF Local
      <3> QED BY <3>2
    <2> QED BY <1>9, <2>1, <2>2 DEF BuildStart
  <1>10. CASE DeployKeytab(j)
    BY <1>10, GoAt DEF DeployKeytab
  <1>11. CASE UndoBuild(j)
    BY <1>2, <1>4, <1>11 DEF UndoBuild
  <1>12. CASE PodMade(j)
    <2>1. loc'[j] = [loc[j] EXCEPT !.pc = "wait", !.made = TRUE]
      BY <1>12, SetAt DEF PodMade
    <2> QED BY <1>1, <2>1 DEF Local
  <1>13. CASE CleanServices(j) \/ CleanRows(j)
    BY <1>13, GoAt, SwallowHurt DEF CleanServices, CleanRows
  <1>14. CASE CleanPod(j) \/ CleanBlind(j)
    <2>1. \E l \in {loc[j], h} : Again(j, l, "build") \/ Set(j, Over(l, "fail"))
      BY <1>2, <1>14 DEF CleanPod, CleanBlind, Onward
    <2> QED BY <1>1, <1>3, <1>4, <1>5, <2>1
  <1> QED BY <1>6, <1>7, <1>8, <1>9, <1>10, <1>11, <1>12, <1>13, <1>14

LEMMA PortsHurt ==
  ASSUME ConstantsOK, TypeInv, NEW j \in Jobs, loc[j].hurt,
         \/ ReconcileSkip(j) \/ ReconcileList(j) \/ ReconcileDelete(j) \/ Allocate(j)
         \/ CreateService(j) \/ Serving(j)
  PROVE  loc'[j].hurt
  <1>1. loc[j] \in Local
    BY Memory
  <1>2. CASE ReconcileSkip(j) \/ Serving(j)
    BY <1>2, GoAt, EndHurt DEF ReconcileSkip, Serving
  <1>3. CASE ReconcileList(j) \/ ReconcileDelete(j)
    <2>1. \/ loc'[j] = [loc[j] EXCEPT !.pc = "stale", !.pods = {s.pod : s \in svcs}]
          \/ loc'[j] = [loc[j] EXCEPT !.pc = "alloc", !.pods = {}]
      BY <1>3, SetAt DEF ReconcileList, ReconcileDelete
    <2>2. CASE loc'[j] = [loc[j] EXCEPT !.pc = "alloc", !.pods = {}]
      BY <1>1, <2>2 DEF Local
    <2>3. CASE loc'[j] = [loc[j] EXCEPT !.pc = "stale", !.pods = {s.pod : s \in svcs}]
      BY <1>1, <2>3 DEF Local
    <2> QED BY <2>1, <2>2, <2>3
  <1>4. CASE Allocate(j)
    <2>1. PICK h \in Local : h = [loc[j] EXCEPT !.hurt = TRUE]
      BY <1>1, Hurt
    <2>2. h.hurt
      BY <1>1, <2>1 DEF Local
    <2>3. \/ \E l \in {loc[j], h} : \E q : Again(j, l, q)
          \/ End(j, "fail") \/ Go(j, "fill")
          \/ \E g : Set(j, [loc[j] EXCEPT !.pc = "deploy", !.ports = g])
      BY <1>4, <2>1 DEF Allocate
    <2>4. ASSUME NEW g, Set(j, [loc[j] EXCEPT !.pc = "deploy", !.ports = g])
          PROVE  loc'[j].hurt
      <3>1. loc'[j] = [loc[j] EXCEPT !.pc = "deploy", !.ports = g]
        BY <2>4, SetAt
      <3> QED BY <1>1, <3>1 DEF Local
    <2>5. ASSUME NEW l \in {loc[j], h}, NEW q, Again(j, l, q) PROVE loc'[j].hurt
      <3>1. l \in Local /\ l.hurt
        BY <1>1, <2>2
      <3> QED BY <2>5, <3>1, AgainHurt
    <2> QED BY <2>3, <2>4, <2>5, EndHurt, GoAt
  <1>5. CASE CreateService(j)
    <2>1. \/ Again(j, loc[j], "read") \/ Clean(j, "cleanServices", "build")
          \/ \E x : Set(j, [loc[j] EXCEPT !.ports = @ \ {x}])
      BY <1>5 DEF CreateService
    <2>2. ASSUME NEW x, Set(j, [loc[j] EXCEPT !.ports = @ \ {x}]) PROVE loc'[j].hurt
      <3>1. loc'[j] = [loc[j] EXCEPT !.ports = @ \ {x}]
        BY <2>2, SetAt
      <3> QED BY <1>1, <3>1 DEF Local
    <2> QED BY <1>1, <2>1, <2>2, AgainHurt, CleanHurt
  <1> QED BY <1>2, <1>3, <1>4, <1>5

LEMMA RemoveHurt ==
  ASSUME ConstantsOK, TypeInv, NEW j \in Jobs, loc[j].hurt, Remove(j)
  PROVE  loc'[j].hurt
  <1>1. loc[j] \in Local
    BY Memory
  <1>2. CASE DropServices(j) \/ DropRows(j) \/ Gone(j) \/ Keys(j) \/ RemoveKeytab(j)
    BY <1>2, GoAt, TripHurt, EndHurt DEF DropServices, DropRows, Gone, Keys, RemoveKeytab
  <1>3. CASE DropPod(j)
    <2>1. \/ Go(j, "keys") \/ End(j, "ok") \/ Trip(j, "dropPod")
          \/ \E f : Set(j, [loc[j] EXCEPT !.pc = "gone", !.from = f])
      BY <1>3 DEF DropPod
    <2>2. ASSUME NEW f, Set(j, [loc[j] EXCEPT !.pc = "gone", !.from = f]) PROVE loc'[j].hurt
      <3>1. loc'[j] = [loc[j] EXCEPT !.pc = "gone", !.from = f]
        BY <2>2, SetAt
      <3> QED BY <1>1, <3>1 DEF Local
    <2> QED BY <2>1, <2>2, GoAt, TripHurt, EndHurt
  <1> QED BY <1>2, <1>3 DEF Remove

LEMMA CrashHurt ==
  ASSUME ConstantsOK, TypeInv, NEW j \in Jobs, Crash(j)
  PROVE  /\ loc[j].hurt => loc'[j].hurt
         /\ KindOf[j] \notin Creating => svcs' = svcs
         /\ \/ /\ loc'[j].pc = "fail" /\ loc'[j].hurt
               /\ svcs' = svcs \/ svcs' = svcs \ SvcsOf(j)
            \/ /\ loc'[j].pc = ResumeAt(j) /\ loc'[j].made = loc[j].made /\ svcs' = svcs
               /\ KindOf[j] \in Creating /\ loc[j].made => loc[j].pc \in Handing
               /\ pods[j].st = "up" /\ ~loc[j].made => loc'[j].hurt
  <1>1. loc[j] \in Local /\ Blank \in Local /\ loc[j].hurt \in BOOLEAN
    BY Memory, BlankLocal DEF Local
  <1>2. CASE CannotGoOn(j)
    <2>1. loc'[j] = [Over(loc[j], "fail") EXCEPT !.hurt = TRUE]
      BY <1>2, SetAt DEF CannotGoOn
    <2>2. Over(loc[j], "fail") \in Local /\ Over(loc[j], "fail").pc = "fail"
      BY <1>1, OverOK DEF Final
    <2>3. loc'[j].pc = "fail" /\ loc'[j].hurt
      BY <2>1, <2>2 DEF Local
    <2>4. \/ svcs' = svcs
          \/ KindOf[j] \in Creating /\ svcs' = svcs \ SvcsOf(j)
      BY <1>2 DEF CannotGoOn, Stuck
    <2> QED BY <2>3, <2>4
  <1>3. CASE Resumed(j)
    <2>1. PICK h : h = (loc[j].hurt \/ Unrecorded(j))
      OBVIOUS
    <2>2. loc'[j] = [Blank EXCEPT !.pc = ResumeAt(j), !.node = loc[j].node,
                       !.from = loc[j].from, !.made = loc[j].made, !.hurt = h]
      BY <1>3, <2>1, SetAt DEF Resumed
    <2>3. loc'[j].pc = ResumeAt(j) /\ loc'[j].made = loc[j].made /\ loc'[j].hurt = h
      BY <1>1, <2>2 DEF Local
    <2>4. svcs' = svcs /\ ~Stuck(j)
      BY <1>3 DEF Resumed
    <2> QED BY <1>1, <2>1, <2>3, <2>4 DEF Stuck, Unrecorded
  <1> QED BY <1>2, <1>3 DEF Crash

-----------------------------------------------------------------------------
(* An allocation *)

Grant(j, f)   == {[iport |-> i, nport |-> f[i]] : i \in Asked(j)}
Granted(j, f) == {RowFor(j, x) : x \in Grant(j, f)}
Back(j)       == IF KindOf[j] = "port" THEN "read" ELSE "build"

\* what an allocation does: nothing, or rows with free node ports for what was
\* asked, which the job knows of or, when the answer is lost, does not
LEMMA AllocateCases ==
  ASSUME ConstantsOK, TypeInv, NEW j \in Jobs, Allocate(j)
  PROVE  \/ /\ UNCHANGED <<rows, aged>>
            /\ loc'[j].pc \in {Back(j), "fail"} /\ loc'[j].hurt = loc[j].hurt
         \/ \E f \in [Asked(j) -> NodePorts] :
              /\ \A i \in Asked(j) : \A r \in rows : r.nport # f[i]
              /\ \A i, k \in Asked(j) : f[i] = f[k] => i = k
              /\ rows' = rows \cup Granted(j, f)
              /\ \/ /\ aged' = aged \ {PodOf(j)}
                    /\ IF KindOf[j] = "port" THEN Go(j, "fill")
                       ELSE /\ loc'[j].pc = "deploy" /\ loc'[j].ports = Grant(j, f)
                            /\ loc'[j].hurt = loc[j].hurt
                 \/ aged' = aged /\ loc'[j].hurt /\ loc'[j].pc \in {Back(j), "fail"}
  <1>1. loc[j] \in Local
    BY Memory
  <1>2. PICK h \in Local : h = [loc[j] EXCEPT !.hurt = TRUE]
    BY <1>1, Hurt
  <1>3. h.hurt
    BY <1>1, <1>2 DEF Local
  <1> DEFINE Gets(g) == Set(j, [loc[j] EXCEPT !.pc = "deploy", !.ports = g])
             Good(f, seen) == f \in Injection(Asked(j), Lowest(Free(seen), Cardinality(Asked(j))))
             Told(f)  == /\ rows' = rows \cup Granted(j, f) /\ aged' = aged \ {PodOf(j)}
                         /\ IF KindOf[j] = "port" THEN Go(j, "fill") ELSE Gets(Grant(j, f))
             Unheard(f)  == /\ rows' = rows \cup Granted(j, f) /\ aged' = aged
                         /\ Again(j, h, Back(j))
             None1 == UNCHANGED <<rows, aged>> /\ (Again(j, loc[j], Back(j)) \/ End(j, "fail"))
  <1>4. None1 \/ \E seen : \E f : Good(f, seen) /\ (Told(f) \/ Unheard(f))
    <2> DEFINE Gets1(f) == Set(j, [loc[j] EXCEPT !.pc = "deploy",
                              !.ports = {[iport |-> i, nport |-> f[i]] : i \in Asked(j)}])
    <2>1. PICK seen \in {{s.nport : s \in svcs}, {}} :
            LET free    == Free(seen)
                n       == Cardinality(Asked(j))
                Back1(l) == Again(j, l, IF KindOf[j] = "port" THEN "read" ELSE "build")
                Blind   == seen = {} /\ svcs # {}
            IN IF Cardinality(free) < n
               THEN /\ IF KindOf[j] = "port" THEN Back1(loc[j]) ELSE End(j, "fail")
                    /\ IF Blind THEN Failing ELSE Well
                    /\ UNCHANGED <<rows, aged>>
               ELSE \E f \in Injection(Asked(j), Lowest(free, n)) :
                      LET got == {[iport |-> i, nport |-> f[i]] : i \in Asked(j)}
                          new == {RowFor(j, x) : x \in got}
                      IN \/ /\ rows' = rows \cup new /\ aged' = aged \ {PodOf(j)}
                            /\ IF Blind THEN Failing ELSE Well
                            /\ IF KindOf[j] = "port" THEN Go(j, "fill") ELSE Gets1(f)
                         \/ /\ ~Blind /\ Failing /\ UNCHANGED aged
                            /\ \/ rows' = rows /\ Back1(loc[j])
                               \/ rows' = rows \cup new
                                  /\ Back1([loc[j] EXCEPT !.hurt = TRUE])
      BY DEF Allocate
    <2>0. \A f : Gets1(f) => Gets(Grant(j, f))
      BY DEF Grant
    <2>3. Again(j, [loc[j] EXCEPT !.hurt = TRUE], Back(j)) => Again(j, h, Back(j))
      BY <1>2
    <2> HIDE DEF Gets, Gets1
    <2>4. CASE Cardinality(Free(seen)) < Cardinality(Asked(j))
      BY <2>1, <2>4 DEF Back
    <2>5. CASE ~(Cardinality(Free(seen)) < Cardinality(Asked(j)))
      <3>1. PICK f \in Injection(Asked(j), Lowest(Free(seen), Cardinality(Asked(j)))) :
              \/ /\ rows' = rows \cup Granted(j, f) /\ aged' = aged \ {PodOf(j)}
                 /\ IF KindOf[j] = "port" THEN Go(j, "fill") ELSE Gets1(f)
              \/ /\ UNCHANGED aged
                 /\ \/ rows' = rows /\ Again(j, loc[j], Back(j))
                    \/ rows' = rows \cup Granted(j, f)
                       /\ Again(j, [loc[j] EXCEPT !.hurt = TRUE], Back(j))
        BY <2>1, <2>5 DEF Back, Granted, Grant
      <3>2. None1 \/ Told(f) \/ Unheard(f)
        BY <2>0, <2>3, <3>1
      <3> QED BY <3>1, <3>2
    <2> QED BY <2>4, <2>5
  <1>5. CASE None1
    BY <1>1, <1>5, AgainHurt, EndHurt
  <1>6. ASSUME NEW seen, NEW f, Good(f, seen), Told(f) \/ Unheard(f)
        PROVE  /\ f \in [Asked(j) -> NodePorts]
               /\ \A i \in Asked(j) : \A r \in rows : r.nport # f[i]
               /\ \A i, k \in Asked(j) : f[i] = f[k] => i = k
               /\ rows' = rows \cup Granted(j, f)
               /\ \/ /\ aged' = aged \ {PodOf(j)}
                     /\ IF KindOf[j] = "port" THEN Go(j, "fill")
                        ELSE /\ loc'[j].pc = "deploy" /\ loc'[j].ports = Grant(j, f)
                             /\ loc'[j].hurt = loc[j].hurt
                  \/ aged' = aged /\ loc'[j].hurt /\ loc'[j].pc \in {Back(j), "fail"}
    <2>1. /\ f \in [Asked(j) -> Lowest(Free(seen), Cardinality(Asked(j)))]
          /\ \A i, k \in Asked(j) : f[i] = f[k] => i = k
      BY <1>6 DEF Injection, IsInjective
    <2>2. Lowest(Free(seen), Cardinality(Asked(j))) \subseteq Free(seen)
      BY DEF Lowest
    <2>3. f \in [Asked(j) -> Free(seen)]
      BY <2>1, <2>2
    <2>4. Free(seen) \subseteq NodePorts /\ \A r \in rows : r.nport \notin Free(seen)
      BY DEF Free
    <2>5. f \in [Asked(j) -> NodePorts] /\ \A i \in Asked(j) : \A r \in rows : r.nport # f[i]
      BY <2>3, <2>4
    <2>6. CASE Told(f) /\ KindOf[j] # "port"
      <3>1. loc'[j] = [loc[j] EXCEPT !.pc = "deploy", !.ports = Grant(j, f)]
        BY <2>6, SetAt
      <3>2. loc'[j].pc = "deploy" /\ loc'[j].ports = Grant(j, f) /\ loc'[j].hurt = loc[j].hurt
        BY <1>1, <3>1 DEF Local
      <3> QED BY <2>1, <2>5, <2>6, <3>2
    <2>7. CASE Unheard(f)
      BY <1>3, <2>1, <2>5, <2>7, AgainHurt
    <2> HIDE DEF Gets
    <2> QED BY <1>6, <2>1, <2>5, <2>6, <2>7
  <1> HIDE DEF Told, Unheard, Good, None1
  <1>7. CASE \E seen : \E f : Good(f, seen) /\ (Told(f) \/ Unheard(f))
    <2>1. PICK seen, f : Good(f, seen) /\ (Told(f) \/ Unheard(f))
      BY <1>7
    <2> QED BY <1>6, <2>1
  <1> QED BY <1>4, <1>5, <1>7

-----------------------------------------------------------------------------
(* What a step does to the table and the Services *)

Same(p) == RowsOf(p)' = RowsOf(p) /\ SvcsOf(p)' = SvcsOf(p)
\* the Pod whose ports a creation or a port change writes
Own(i) == {p \in PodNames : p = PodOf(i) /\ KindOf[i] \in Creating \cup {"port"}}

\* A step of job i leaves the rows and Services of other Pods alone, but for a
\* Pod that is being removed and one that has no Services and loses its old rows
\* to a reconciliation; and a Pod whose rows are old gets no new Services.
Mild(i) ==
  /\ aged' \subseteq aged
  /\ loc'[i].pc # "new"
  /\ loc'[i].pc = "stale" => ListInv(i)'
  /\ KindOf[i] \in Creating /\ i \in aged => SvcsOf(i)' \subseteq SvcsOf(i)
  /\ \A p \in PodNames \ Own(i) :
       \/ Same(p)
       \/ p \in Old /\ Touched(p)
       \/ p \in Jobs \cap aged /\ SvcsOf(p) = {} /\ SvcsOf(p)' = {} /\ RowsOf(p)' = {}

\* What it does to its own: what is written about the Pod it creates or re-ports.
Fit(i) ==
  /\ KindOf[i] \in Creating => MadeInv(i)'
  /\ KindOf[i] = "port" /\ ~Touched(Target(i)) => OldInv(Target(i))' /\ ChangeInv(i)'

LEMMA SameWhen ==
  ASSUME NEW q, NEW p, p # q,
         \A r \in rows \cup rows' : r.pod # q => (r \in rows <=> r \in rows'),
         \A s \in svcs \cup svcs' : s.pod # q => (s \in svcs <=> s \in svcs')
  PROVE  Same(p)
  <1>1. RowsOf(p)' = RowsOf(p)
    BY DEF RowsOf
  <1>2. SvcsOf(p)' = SvcsOf(p)
    BY DEF SvcsOf
  <1> QED BY <1>1, <1>2 DEF Same

LEMMA SameAll == ASSUME NEW p, UNCHANGED <<rows, svcs>> PROVE Same(p)
  BY DEF Same, RowsOf, SvcsOf

LEMMA MildStill ==
  ASSUME NEW i, UNCHANGED <<rows, svcs, aged>>, loc'[i].pc \notin {"new", "stale"}
  PROVE  Mild(i)
  BY SameAll DEF Mild, SvcsOf

LEMMA MildOwn ==
  ASSUME ConstantsOK, NEW i \in Jobs, KindOf[i] \in Creating \cup {"port"},
         aged' \subseteq aged, loc'[i].pc \notin {"new", "stale"},
         \A r \in rows \cup rows' : r.pod # PodOf(i) => (r \in rows <=> r \in rows'),
         \A s \in svcs \cup svcs' : s.pod # PodOf(i) => (s \in svcs <=> s \in svcs'),
         KindOf[i] \in Creating /\ i \in aged => SvcsOf(i)' \subseteq SvcsOf(i)
  PROVE  Mild(i)
  <1>1. ASSUME NEW p \in PodNames \ Own(i) PROVE Same(p)
    <2>1. p # PodOf(i)
      BY DEF Own
    <2> QED BY <2>1, SameWhen
  <1> QED BY <1>1 DEF Mild

\* a removal is at a Pod that is being removed
LEMMA MildDrop ==
  ASSUME ConstantsOK, TypeInv, NEW i \in mix, loc[i].pc \in Handing \cup {"gone"},
         UNCHANGED aged, loc'[i].pc \notin {"new", "stale"},
         \A r \in rows \cup rows' : r.pod # Target(i) => (r \in rows <=> r \in rows'),
         \A s \in svcs \cup svcs' : s.pod # Target(i) => (s \in svcs <=> s \in svcs')
  PROVE  Mild(i) /\ (KindOf[i] \in Creating => Same(i))
  <1>1. i \in Jobs /\ KindOf[i] \in Removers
    <2>1. i \in Jobs
      BY DEF TypeInv, TypeOK, ConstantsOK
    <2> QED BY <2>1, Dropping DEF Removers
  <1>2. Target(i) \in Old /\ Target(i) \notin Jobs
    BY <1>1 DEF ConstantsOK, Targeting, Removers, Target
  <1>3. Touched(Target(i))
    BY <1>1 DEF Touched, Handing
  <1>4. \A p : p # Target(i) => Same(p)
    BY SameWhen
  <1>5. SvcsOf(i)' = SvcsOf(i)
    BY <1>1, <1>2, <1>4 DEF Same
  <1> QED BY <1>1, <1>2, <1>3, <1>4, <1>5 DEF Mild

-----------------------------------------------------------------------------
(* The other jobs and Pods *)

LEMMA TouchedStays ==
  ASSUME TypeInv, ConstantsOK, mix' = mix, NEW i \in mix, loc'[i].pc # "new",
         \A k \in Jobs \ {i} : loc'[k] = loc[k], NEW p, Touched(p)
  PROVE  Touched(p)'
  <1>1. mix \subseteq Jobs
    BY DEF TypeInv, TypeOK, ConstantsOK
  <1>2. PICK k \in mix : KindOf[k] \in Removers /\ Target(k) = p /\ loc[k].pc # "new"
    BY DEF Touched
  <1>3. loc'[k].pc # "new"
    BY <1>1, <1>2
  <1> QED BY <1>2, <1>3 DEF Touched, Target

LEMMA OthersMade ==
  ASSUME ConstantsOK, NEW i \in Jobs, NEW j \in Jobs, MadeInv(j), Mild(i),
         j = i => KindOf[i] \notin Creating, loc'[j] = loc[j] \/ KindOf[j] \notin Creating
  PROVE  MadeInv(j)'
  <1>1. j \in PodNames /\ j \notin Old
    BY DEF PodNames, ConstantsOK
  <1>2. j \notin Own(i)
    BY <1>1 DEF Own, PodOf, ConstantsOK, Targeting, Creating
  <1>3. \/ Same(j)
        \/ j \in aged /\ SvcsOf(j) = {} /\ SvcsOf(j)' = {} /\ RowsOf(j)' = {}
    BY <1>1, <1>2 DEF Mild
  <1>4. CASE KindOf[j] \notin Creating
    BY <1>3, <1>4 DEF MadeInv, Same
  <1>5. CASE KindOf[j] \in Creating /\ Same(j)
    BY <1>5 DEF MadeInv, Same, InFlight, Mild
  <1>6. CASE KindOf[j] \in Creating /\ j \in aged /\ SvcsOf(j) = {} /\ SvcsOf(j)' = {} /\ RowsOf(j)' = {}
    <2>1. ~InFlight(j) /\ loc'[j] = loc[j]
      BY <1>6 DEF MadeInv
    <2>2. ~InFlight(j)'
      BY <2>1 DEF InFlight
    <2>3. loc[j].pc \notin Packed \cup {"service"}
      BY <2>1 DEF InFlight, Packed
    <2>4. RecordOK(loc[j], RowsOf(j), SvcsOf(j)) => RecordOK(loc'[j], RowsOf(j)', SvcsOf(j)')
      BY <1>6, <2>1, <2>3 DEF RecordOK, Pairs
    <2> QED BY <1>6, <2>1, <2>2, <2>4 DEF MadeInv
  <1> QED BY <1>3, <1>4, <1>5, <1>6

LEMMA OthersList ==
  ASSUME ConstantsOK, TypeInv, mix' = mix, NEW i \in mix, NEW k \in mix, k # i, ListInv(k), Mild(i),
         \A n \in Jobs \ {i} : loc'[n] = loc[n]
  PROVE  ListInv(k)'
  <1>1. mix \subseteq Jobs /\ i \in Jobs /\ k \in Jobs /\ aged \subseteq PodNames
    BY DEF TypeInv, TypeOK, ConstantsOK
  <1>2. SUFFICES ASSUME loc[k].pc = "stale", NEW p \in aged' \ loc[k].pods
                 PROVE  IF p \in Jobs THEN SvcsOf(p)' = {} ELSE Touched(p)'
    BY <1>1 DEF ListInv
  <1>3. p \in aged \ loc[k].pods /\ p \in PodNames /\ aged' \subseteq aged
    BY <1>1, <1>2 DEF Mild
  <1>4. IF p \in Jobs THEN SvcsOf(p) = {} ELSE Touched(p)
    BY <1>2, <1>3 DEF ListInv
  <1>5. CASE p \notin Jobs
    BY <1>4, <1>5, TouchedStays DEF Mild
  <1>6. CASE p \in Jobs /\ p \notin Own(i)
    BY <1>3, <1>4, <1>6 DEF Mild, Same, ConstantsOK
  <1>7. CASE p \in Jobs /\ p \in Own(i)
    <2>1. p = i /\ KindOf[i] \in Creating
      BY <1>1, <1>7 DEF Own, PodOf, ConstantsOK, Targeting, Creating
    <2> QED BY <1>3, <1>4, <1>7, <2>1 DEF Mild
  <1> QED BY <1>5, <1>6, <1>7

LEMMA OthersOld ==
  ASSUME ConstantsOK, TypeInv, mix' = mix, NEW i \in mix, NEW p \in Old, p \notin Own(i), OldInv(p),
         Mild(i), \A n \in Jobs \ {i} : loc'[n] = loc[n]
  PROVE  OldInv(p)'
  <1>1. mix \subseteq Jobs /\ i \in Jobs /\ p \in PodNames /\ p \notin Jobs
    BY DEF TypeInv, TypeOK, ConstantsOK, PodNames
  <1>2. CASE Touched(p)
    BY <1>2, TouchedStays DEF Mild, OldInv
  <1>3. CASE ~Touched(p)
    <2>1. Same(p)
      BY <1>1, <1>3 DEF Mild
    <2>2. ~(KindOf[i] = "port" /\ Target(i) = p)
      BY <1>1 DEF Own, PodOf, Target, PodNames
    <2>3. Quiet(p)' => Quiet(p)
      BY <1>1, <2>2 DEF Quiet, Target
    <2> QED BY <1>3, <2>1, <2>3 DEF OldInv, Same
  <1> QED BY <1>2, <1>3

LEMMA OthersTurn ==
  ASSUME ConstantsOK, TypeInv, TurnInv, mix' = mix, NEW i \in mix,
         \A n \in Jobs \ {i} : loc'[n] = loc[n],
         \/ Running(i)
         \/ \A j \in Jobs \ {i} : Running(j) /\ KindOf[i] \in Targeting /\ KindOf[j] \in Targeting
                                    => TargetOf[i] # TargetOf[j]
  PROVE  TurnInv'
  <1>1. mix \subseteq Jobs
    BY DEF TypeInv, TypeOK, ConstantsOK
  <1>2. SUFFICES ASSUME NEW a \in mix, NEW b \in mix, a # b, KindOf[a] \in Targeting,
                        KindOf[b] \in Targeting, Target(a) = Target(b),
                        Running(a)', Running(b)'
                 PROVE  FALSE
    BY DEF TurnInv, Target
  <1>3. \A k \in mix \ {i} : Running(k)' = Running(k)
    BY <1>1 DEF Running
  <1>4. ASSUME NEW k \in mix \ {i}, KindOf[k] \in Targeting, KindOf[i] \in Targeting,
               Target(k) = Target(i), Running(k)
        PROVE  FALSE
    BY <1>1, <1>4 DEF TurnInv, Target
  <1>5. CASE a # i /\ b # i
    BY <1>2, <1>3, <1>5 DEF TurnInv
  <1>6. CASE a = i
    BY <1>2, <1>3, <1>4, <1>6
  <1>7. CASE b = i
    BY <1>2, <1>3, <1>4, <1>7
  <1> QED BY <1>5, <1>6, <1>7

\* of two jobs on one Pod the other is not at work while one is
LEMMA OthersChange ==
  ASSUME ConstantsOK, TypeInv, TurnInv, mix' = mix, NEW i \in mix, NEW j \in mix, j # i,
         KindOf[j] = "port", ChangeInv(j), Mild(i),
         \A n \in Jobs \ {i} : loc'[n] = loc[n],
         Running(i) \/ UNCHANGED <<rows, svcs>>
  PROVE  ChangeInv(j)'
  <1>1. mix \subseteq Jobs /\ i \in Jobs /\ j \in Jobs
    BY DEF TypeInv, TypeOK, ConstantsOK
  <1>2. Target(j) \in Old /\ Target(j) \in PodNames /\ Target(j) \notin Jobs /\ loc'[j] = loc[j]
    BY <1>1 DEF Target, ConstantsOK, Targeting, PodNames
  <1>3. CASE Touched(Target(j))
    BY <1>3, TouchedStays DEF Mild, ChangeInv, Target
  <1>4. CASE ~Touched(Target(j)) /\ Same(Target(j))
    BY <1>2, <1>4 DEF ChangeInv, Same, Target
  <1>5. CASE ~Touched(Target(j)) /\ ~Same(Target(j))
    <2>1. Target(j) \in Own(i) /\ Running(i)
      BY <1>2, <1>5, SameAll DEF Mild
    <2>2. KindOf[i] = "port" /\ Target(i) = Target(j)
      BY <1>1, <1>2, <2>1 DEF Own, PodOf, Target, Creating
    <2>3. ~Running(j)
      BY <2>1, <2>2 DEF TurnInv, Targeting
    <2>4. loc'[j].pc \in {"new", "ok", "fail"}
      BY <1>2, <2>3 DEF Running, Final
    <2> QED BY <2>4 DEF ChangeInv, ChangeOK
  <1> QED BY <1>3, <1>4, <1>5

-----------------------------------------------------------------------------
(* A creation *)

\* where a creation has no Services and nothing is said of its rows
Loose == {"home", "node", "build", "undo", "cleanRows", "cleanPod", "cleanBlind", "fail"}

LEMMA FitMade == ASSUME NEW i, KindOf[i] \in Creating, MadeInv(i)' PROVE Fit(i)
  BY DEF Fit, Creating

LEMMA LooseMade ==
  ASSUME NEW i, KindOf[i] \in Creating, MadeInv(i), loc[i].pc \in Shut, loc'[i].pc \in Loose,
         SvcsOf(i)' \subseteq SvcsOf(i), loc[i].hurt => loc'[i].hurt
  PROVE  Fit(i)
  <1>1. ~InFlight(i)'
    BY DEF InFlight, Loose
  <1>2. ~loc'[i].hurt => RecordOK(loc'[i], RowsOf(i)', SvcsOf(i)')
    BY DEF MadeInv, RecordOK, Loose, Shut, Freed, Packed, Done, Handing
  <1>3. loc'[i].pc \notin {"wait", "services", "service", "cleanServices"}
    BY DEF Loose
  <1>4. MadeInv(i)'
    BY <1>1, <1>2, <1>3 DEF MadeInv
  <1> QED BY <1>4, FitMade

LEMMA PackedMade ==
  ASSUME NEW i \in Jobs, KindOf[i] \in Creating, MadeInv(i), loc[i].pc \in Packed, loc'[i].pc \in Packed,
         Same(i), aged' = aged, loc'[i].ports = loc[i].ports, loc[i].hurt => loc'[i].hurt,
         loc'[i].pc \in {"wait", "services"} => loc'[i].made
  PROVE  Fit(i)
  <1>0. i \in Jobs /\ loc[i].pc \in Shut
    BY DEF Shut
  <1>1. InFlight(i) /\ loc[i].pc \in Shut
    BY <1>0 DEF InFlight, Packed
  <1>2. ~loc'[i].hurt => RecordOK(loc'[i], RowsOf(i)', SvcsOf(i)')
    BY <1>1 DEF MadeInv, RecordOK, Same, Freed, Packed, Done, Handing
  <1>3. loc'[i].pc \notin {"service", "cleanServices"}
    BY DEF Packed
  <1>4. MadeInv(i)'
    BY <1>1, <1>2, <1>3 DEF MadeInv
  <1> QED BY <1>4, FitMade

LEMMA AtHome == ASSUME NEW i, KindOf[i] \in Creating PROVE PodOf(i) = i
  BY DEF PodOf, Creating

LEMMA StillSame == ASSUME NEW i, UNCHANGED <<rows, svcs>>
                   PROVE  Same(i) /\ SvcsOf(i)' \subseteq SvcsOf(i)
  BY DEF Same, RowsOf, SvcsOf

LEMMA ShutPlaces ==
  /\ {"home", "node", "build", "undo", "cleanRows", "cleanPod", "cleanBlind"}
       \cup Packed \cup Freed \subseteq Shut
  /\ \A pc \in Loose \cup Packed : pc \notin {"new", "stale"}
  BY DEF Shut, Packed, Freed, Loose

LEMMA EarlyFits ==
  ASSUME ConstantsOK, TypeInv, NEW i \in mix, KindOf[i] \in Creating, MadeInv(i),
         RestoreHome(i) \/ ProvisionNode(i) \/ MigrateNode(i)
  PROVE  Mild(i) /\ Fit(i)
  <1>1. i \in Jobs /\ UNCHANGED <<rows, svcs, aged>> /\ loc[i].pc \in {"home", "node"}
    BY DEF TypeInv, TypeOK, ConstantsOK, RestoreHome, ProvisionNode, MigrateNode, ports, At
  <1>2. loc'[i].pc \in {"node", "build", "fail"}
    BY <1>1, RestoreHomeOK, NodeOK DEF Moves
  <1>3. loc[i].hurt => loc'[i].hurt
    BY <1>1, MakeHurt
  <1>4. loc'[i].pc \in Loose /\ loc[i].pc \in Shut
    BY <1>1, <1>2 DEF Loose, Shut
  <1> QED BY <1>1, <1>3, <1>4, LooseMade, MildStill, StillSame, ShutPlaces

LEMMA BuildFits ==
  ASSUME ConstantsOK, TypeInv, NEW i \in mix, KindOf[i] \in Creating, MadeInv(i),
         BuildStart(i)
  PROVE  Mild(i) /\ Fit(i)
  <1>1. i \in Jobs /\ UNCHANGED <<svcs, aged>> /\ loc[i].pc = "build"
    BY DEF TypeInv, TypeOK, ConstantsOK, BuildStart, At
  <1>2. loc'[i].pc = "reconcile"
    BY <1>1, BuildStartOK DEF Moves
  <1>3. loc[i].hurt => loc'[i].hurt
    BY <1>1, MakeHurt
  <1>4. rows' = rows \ RowsOf(i) \/ rows' = rows
    BY DEF BuildStart
  <1>5. ~loc'[i].hurt => RowsOf(i)' = {}
    <2>1. CASE rows' = rows \ RowsOf(i)
      BY <2>1 DEF RowsOf
    <2>2. CASE rows' # rows \ RowsOf(i)
      <3>1. loc'[i] = [loc[i] EXCEPT !.pc = "reconcile", !.hurt = @ \/ RowsOf(i) # {}]
        BY <1>1, <2>2, SetAt DEF BuildStart
      <3>2. loc'[i].hurt = (loc[i].hurt \/ RowsOf(i) # {})
        BY <1>1, <3>1, Memory DEF Local
      <3> QED BY <1>4, <2>2, <3>2 DEF RowsOf
    <2> QED BY <2>1, <2>2
  <1>6. SvcsOf(i)' = SvcsOf(i)
    BY <1>1 DEF SvcsOf
  <1>7. ~loc'[i].hurt => RecordOK(loc'[i], RowsOf(i)', SvcsOf(i)')
    BY <1>1, <1>2, <1>3, <1>5, <1>6
    DEF MadeInv, RecordOK, Shut, Freed, Packed, Done, Handing
  <1>8. MadeInv(i)'
    BY <1>2, <1>7 DEF MadeInv, InFlight
  <1>9. Mild(i)
    <2>1. \A r \in rows \cup rows' : r.pod # PodOf(i) => (r \in rows <=> r \in rows')
      BY <1>4, AtHome DEF RowsOf
    <2> QED BY <1>1, <1>2, <1>6, <2>1, MildOwn
  <1> QED BY <1>8, <1>9, FitMade

LEMMA PodFits ==
  ASSUME ConstantsOK, TypeInv, NEW i \in mix, KindOf[i] \in Creating, MadeInv(i),
         DeployKeytab(i) \/ ClearPending(i) \/ CreatePod(i) \/ PodMade(i) \/ WaitReady(i)
  PROVE  Mild(i) /\ Fit(i)
  <1>1. i \in Jobs /\ UNCHANGED <<rows, svcs, aged>>
    BY DEF TypeInv, TypeOK, ConstantsOK, DeployKeytab, ClearPending, CreatePod, PodMade,
           WaitReady, ports
  <1>2. loc[i].pc \in Packed
    BY DEF DeployKeytab, ClearPending, CreatePod, PodMade, WaitReady, At, Packed
  <1>3. loc'[i].pc \in {"undo", "clear", "pod", "made", "cleanRows", "cleanBlind",
                         "wait", "services"}
    BY <1>1, DeployKeytabOK, ClearPendingOK, CreatePodOK, PodMadeOK, WaitReadyOK DEF Moves
  <1>4. loc[i].hurt => loc'[i].hurt
    BY <1>1, MakeHurt
  <1>5. loc[i].pc \in Shut /\ loc'[i].pc \in Loose \cup Packed
    BY <1>2, <1>3 DEF Shut, Loose, Packed
  <1>6. Mild(i)
    BY <1>1, <1>5, MildStill, ShutPlaces
  <1>7. CASE loc'[i].pc \in Loose
    BY <1>1, <1>4, <1>5, <1>6, <1>7, LooseMade, StillSame
  <1>8. CASE loc'[i].pc \notin Loose
    <2>1. /\ loc'[i].ports = loc[i].ports
          /\ loc'[i].pc \in {"wait", "services"} => loc'[i].made
      <3>1. CASE DeployKeytab(i)
        BY <1>1, <1>8, <3>1, GoAt DEF DeployKeytab
      <3>2. CASE ClearPending(i)
        BY <1>1, <3>2, GoAt DEF ClearPending
      <3>3. CASE CreatePod(i)
        <4>1. \/ Clean(i, "cleanBlind", "build") \/ Clean(i, "cleanBlind", "fail")
              \/ Clean(i, "cleanRows", "build") \/ Go(i, "made")
          BY <3>3 DEF CreatePod
        <4>2. ASSUME NEW q \in {"cleanBlind", "cleanRows"}, NEW h, Clean(i, q, h) PROVE FALSE
          <5>1. loc'[i].pc = q
            BY <1>1, <4>2, CleanHurt
          <5> QED BY <1>8, <5>1 DEF Loose
        <4>3. Go(i, "made")
          BY <4>1, <4>2
        <4> QED BY <1>1, <4>3, GoAt
      <3>4. CASE PodMade(i)
        <4>1. loc'[i] = [loc[i] EXCEPT !.pc = "wait", !.made = TRUE]
          BY <1>1, <3>4, SetAt DEF PodMade
        <4> QED BY <1>1, <4>1, Memory DEF Local
      <3>5. CASE WaitReady(i)
        <4>1. loc[i].made
          BY <3>5 DEF MadeInv, WaitReady, At
        <4> QED BY <1>1, <1>8, <3>5, <4>1, GoAt, CleanHurt DEF WaitReady, Loose
      <3> QED BY <3>1, <3>2, <3>3, <3>4, <3>5
    <2>2. loc'[i].pc \in Packed
      BY <1>5, <1>8
    <2> QED BY <1>1, <1>2, <1>4, <1>6, <2>1, <2>2, PackedMade, StillSame
  <1> QED BY <1>7, <1>8

LEMMA UndoFits ==
  ASSUME ConstantsOK, TypeInv, NEW i \in mix, KindOf[i] \in Creating, MadeInv(i),
         UndoBuild(i) \/ CleanRows(i) \/ CleanPod(i) \/ CleanBlind(i)
  PROVE  Mild(i) /\ Fit(i)
  <1>1. /\ i \in Jobs /\ UNCHANGED <<svcs, aged>>
        /\ loc[i].pc \in {"undo", "cleanRows", "cleanPod", "cleanBlind"}
    BY DEF TypeInv, TypeOK, ConstantsOK, UndoBuild, CleanRows, CleanPod, CleanBlind, ports, At
  <1>2. loc'[i].pc \in {"build", "fail", "cleanPod"}
    BY <1>1, UndoBuildOK, CleanRowsOK, CleanPodOK, CleanBlindOK DEF Moves
  <1>3. loc[i].hurt => loc'[i].hurt
    BY <1>1, MakeHurt
  <1>4. loc'[i].pc \in Loose /\ loc[i].pc \in Shut
    BY <1>1, <1>2 DEF Loose, Shut
  <1>5. SvcsOf(i)' = SvcsOf(i)
    BY <1>1 DEF SvcsOf
  <1>6. rows' = rows \ RowsOf(i) \/ rows' = rows
    BY DEF UndoBuild, CleanRows, CleanPod, CleanBlind, ports
  <1>7. \A r \in rows \cup rows' : r.pod # PodOf(i) => (r \in rows <=> r \in rows')
    BY <1>6, AtHome DEF RowsOf
  <1> QED BY <1>1, <1>3, <1>4, <1>5, <1>7, MildOwn, LooseMade, ShutPlaces

LEMMA ServicesStartFits ==
  ASSUME ConstantsOK, TypeInv, NEW i \in mix, KindOf[i] \in Creating, MadeInv(i),
         ServicesStart(i)
  PROVE  Mild(i) /\ Fit(i)
  <1>1. i \in Jobs /\ UNCHANGED <<rows, aged>> /\ loc[i].pc = "services"
    BY DEF TypeInv, TypeOK, ConstantsOK, ServicesStart, At
  <1>2. /\ loc'[i].pc = "service" /\ loc'[i].ports = loc[i].ports
        /\ loc'[i].hurt = loc[i].hurt /\ loc'[i].made = loc[i].made
    BY <1>1, GoAt DEF ServicesStart
  <1>3. svcs' = svcs \ SvcsOf(i) \/ svcs' = svcs
    BY DEF ServicesStart
  <1>4. RowsOf(i)' = RowsOf(i) /\ SvcsOf(i)' \subseteq SvcsOf(i)
    BY <1>1, <1>3 DEF RowsOf, SvcsOf
  <1>5. ~loc'[i].hurt => RecordOK(loc'[i], RowsOf(i)', SvcsOf(i)')
    <2>1. SUFFICES ASSUME ~loc[i].hurt PROVE RecordOK(loc'[i], RowsOf(i)', SvcsOf(i)')
      BY <1>2
    <2>2. SvcsOf(i) = {} /\ Pairs(RowsOf(i)) = loc[i].ports
      BY <1>1, <2>1 DEF MadeInv, RecordOK, Shut, Packed
    <2>3. SvcsOf(i)' = {} /\ Pairs(SvcsOf(i)') = {}
      BY <1>4, <2>2 DEF Pairs
    <2> QED BY <1>2, <1>4, <2>2, <2>3 DEF RecordOK, Shut, Freed, Packed, Done, Handing
  <1>6. InFlight(i)' => i \notin aged'
    BY <1>1 DEF InFlight, MadeInv
  <1>7. MadeInv(i)'
    BY <1>1, <1>2, <1>5, <1>6 DEF MadeInv
  <1>8. \A s \in svcs \cup svcs' : s.pod # PodOf(i) => (s \in svcs <=> s \in svcs')
    BY <1>3, AtHome DEF SvcsOf
  <1> QED BY <1>1, <1>2, <1>4, <1>7, <1>8, MildOwn, FitMade

LEMMA CleanServicesFits ==
  ASSUME ConstantsOK, TypeInv, NEW i \in mix, KindOf[i] \in Creating, MadeInv(i),
         CleanServices(i)
  PROVE  Mild(i) /\ Fit(i)
  <1>1. i \in Jobs /\ UNCHANGED <<rows, aged>> /\ loc[i].pc = "cleanServices"
    BY DEF TypeInv, TypeOK, ConstantsOK, CleanServices, At
  <1>2. loc'[i].pc = "cleanRows"
    BY <1>1, CleanServicesOK DEF Moves
  <1>3. svcs' = svcs \ SvcsOf(i) \/ (loc'[i].hurt /\ \E gone \in SUBSET SvcsOf(i) : svcs' = svcs \ gone)
    BY <1>1, SwallowHurt DEF CleanServices
  <1>4. SvcsOf(i)' \subseteq SvcsOf(i)
    BY <1>3 DEF SvcsOf
  <1>5. ~loc'[i].hurt => SvcsOf(i)' = {}
    BY <1>3 DEF SvcsOf
  <1>6. ~loc'[i].hurt => RecordOK(loc'[i], RowsOf(i)', SvcsOf(i)')
    BY <1>2, <1>5 DEF RecordOK, Shut, Freed, Packed, Done, Handing
  <1>7. MadeInv(i)'
    BY <1>2, <1>6 DEF MadeInv, InFlight
  <1>8. \A s \in svcs \cup svcs' : s.pod # PodOf(i) => (s \in svcs <=> s \in svcs')
    BY <1>3, AtHome DEF SvcsOf
  <1> QED BY <1>1, <1>2, <1>4, <1>7, <1>8, MildOwn, FitMade
LEMMA CrashFits ==
  ASSUME ConstantsOK, TypeInv, NEW i \in mix, KindOf[i] \in Creating, MadeInv(i), Crash(i)
  PROVE  Mild(i) /\ Fit(i)
  <1>1. i \in Jobs /\ UNCHANGED <<rows, aged>> /\ Running(i)
    BY DEF TypeInv, TypeOK, ConstantsOK, Crash, ports
  <1>2. loc[i].pc \in PCsOf(KindOf[i]) /\ loc[i].pc \notin {"new", "ok", "fail"}
    BY <1>1, Memory DEF MemoryOK, Running, Final
  <1>3. loc[i].hurt => loc'[i].hurt
    BY <1>1, CrashHurt
  <1>4. CASE loc'[i].pc = "fail" /\ loc'[i].hurt /\ (svcs' = svcs \/ svcs' = svcs \ SvcsOf(i))
    <2>1. MadeInv(i)'
      BY <1>4 DEF MadeInv, InFlight
    <2>2. \A s \in svcs \cup svcs' : s.pod # PodOf(i) => (s \in svcs <=> s \in svcs')
      BY <1>4, AtHome DEF SvcsOf
    <2>3. SvcsOf(i)' \subseteq SvcsOf(i)
      BY <1>4 DEF SvcsOf
    <2> QED BY <1>1, <1>4, <2>1, <2>2, <2>3, MildOwn, FitMade
  <1>5. CASE /\ loc'[i].pc = ResumeAt(i) /\ loc'[i].made = loc[i].made /\ svcs' = svcs
             /\ loc[i].made => loc[i].pc \in Handing
    <2>1. loc'[i].pc \in {"home", "node", "build"} \cup Handing
      <3>1. PICK r : r = ResumeAt(i)
        OBVIOUS
      <3>2. r \in PCsOf(KindOf[i])
        BY <1>1, <3>1, ResumedAt
      <3>3. r \notin {"read", "homePods"}
        BY <3>2 DEF PCsOf, Creating, MakePCs, Handing
      <3> QED BY <1>1, <1>5, <3>1, <3>3, ResumedAt DEF Handing
    <2>2. Mild(i)
      BY <1>1, <1>5, <2>1, MildStill DEF Handing
    <2>3. CASE loc[i].pc \in Handing
      <3>1. loc'[i].pc \in Handing
        BY <1>1, <1>5, <2>1, <2>3, ResumedAt DEF Handing, MakePCs
      <3>2. ~loc'[i].hurt => Pairs(RowsOf(i)) = Pairs(SvcsOf(i))
        BY <1>3, <2>3 DEF MadeInv, RecordOK, Done
      <3>3. loc'[i].pc \notin Shut /\ loc'[i].pc \notin Freed \cup Packed
            /\ loc'[i].pc \notin {"service", "wait", "services", "cleanServices"}
        BY <3>1 DEF Handing, Shut, Freed, Packed
      <3>4. ~loc'[i].hurt => RecordOK(loc'[i], RowsOf(i)', SvcsOf(i)')
        BY <1>1, <1>5, <3>2, <3>3, StillSame DEF RecordOK, Same
      <3>5. MadeInv(i)'
        BY <3>3, <3>4 DEF MadeInv, InFlight, Packed
      <3> QED BY <2>2, <3>5, FitMade
    <2>4. CASE loc[i].pc \notin Handing
      <3>1. loc'[i].pc \in Loose
        <4>1. loc[i].pc # "gone"
          BY <1>1, KindAt DEF Creating
        <4>2. loc'[i].pc \notin Handing
          BY <1>1, <1>5, <2>4, <4>1, ResumedAt DEF Handing
        <4> QED BY <2>1, <4>2 DEF Loose
      <3>2. loc[i].pc \in Shut
        <4>1. loc[i].pc \notin {"service", "cleanServices"}
          BY <1>5, <2>4 DEF MadeInv
        <4> QED BY <1>2, <2>4, <4>1 DEF PCsOf, MakePCs, Creating, Shut, Packed
      <3> QED BY <1>1, <1>3, <1>5, <2>2, <3>1, <3>2, LooseMade, StillSame
    <2> QED BY <2>3, <2>4
  <1> QED BY <1>1, <1>4, <1>5, CrashHurt

LEMMA EarlyHurt ==
  ASSUME ConstantsOK, TypeInv, NEW j \in Jobs, Register(j) \/ EarlyFailure(j)
  PROVE  loc[j].hurt => loc'[j].hurt
  <1>1. loc[j] \in Local
    BY Memory
  <1>2. CASE Register(j)
    BY <1>2, GoAt DEF Register
  <1>3. CASE EarlyFailure(j)
    <2>1. \E pc : Again(j, loc[j], pc)
      BY <1>3 DEF EarlyFailure
    <2> QED BY <1>1, <2>1, AgainHurt
  <1> QED BY <1>2, <1>3

LEMMA BeginFits ==
  ASSUME ConstantsOK, TypeInv, NEW i \in mix, KindOf[i] \in Creating, MadeInv(i),
         Register(i) \/ EarlyFailure(i)
  PROVE  Mild(i) /\ Fit(i)
  <1>1. i \in Jobs /\ UNCHANGED <<rows, svcs, aged>>
    BY DEF TypeInv, TypeOK, ConstantsOK, Register, EarlyFailure, ports
  <1>2. loc[i].pc \in PCsOf(KindOf[i])
    BY <1>1, Memory DEF MemoryOK
  <1>3. loc[i].pc \in {"new", "home", "node"} /\ loc'[i].pc \in {"home", "node", "fail"}
    <2>1. CASE Register(i)
      <3>1. loc'[i].pc = First(KindOf[i]) /\ loc[i].pc = "new"
        BY <1>1, <2>1, RegisterOK DEF Moves, Register, At
      <3> QED BY <3>1 DEF First, Creating
    <2>2. CASE EarlyFailure(i)
      <3>1. loc[i].pc \in {"home", "node"}
        BY <1>2, <2>2 DEF EarlyFailure, PCsOf, Creating, MakePCs, Handing
      <3>2. loc'[i].pc \in {loc[i].pc, "fail"}
        BY <1>1, <2>2, <3>1, EarlyFailureOK DEF Moves
      <3> QED BY <3>1, <3>2
    <2> QED BY <2>1, <2>2
  <1>4. loc[i].hurt => loc'[i].hurt
    BY <1>1, EarlyHurt
  <1>5. loc'[i].pc \in Loose /\ loc[i].pc \in Shut
    BY <1>3 DEF Loose, Shut
  <1> QED BY <1>1, <1>4, <1>5, LooseMade, MildStill, StillSame, ShutPlaces

\* a migration at the old Pod, and every removal
LEMMA DropFits ==
  ASSUME ConstantsOK, TypeInv, NEW i \in mix, Remove(i), KindOf[i] \in Creating => MadeInv(i)
  PROVE  Mild(i) /\ Fit(i)
  <1>1. i \in Jobs /\ aged' = aged /\ loc[i].pc \in Handing \cup {"gone"}
    BY DEF TypeInv, TypeOK, ConstantsOK, Remove, DropServices, DropRows, DropPod, Gone, Keys,
           RemoveKeytab, ports, At, Handing
  <1>2. loc'[i].pc \in Handing \cup {"gone", "ok", "fail"}
    BY <1>1, DropServicesOK, DropRowsOK, DropPodOK, GoneOK, KeysOK, RemoveKeytabOK
    DEF Moves, Remove, Handing
  <1>3. rows' = rows \ RowsOf(Target(i)) \/ rows' = rows
    BY DEF Remove, DropServices, DropRows, DropPod, Gone, Keys, RemoveKeytab, ports
  <1>4. svcs' = svcs \/ \E gone \in SUBSET SvcsOf(Target(i)) : svcs' = svcs \ gone
    BY DEF Remove, DropServices, DropRows, DropPod, Gone, Keys, RemoveKeytab, ports
  <1>5. /\ \A r \in rows \cup rows' : r.pod # Target(i) => (r \in rows <=> r \in rows')
        /\ \A s \in svcs \cup svcs' : s.pod # Target(i) => (s \in svcs <=> s \in svcs')
    BY <1>3, <1>4 DEF RowsOf, SvcsOf
  <1>6. Mild(i) /\ (KindOf[i] \in Creating => Same(i))
    BY <1>1, <1>2, <1>5, MildDrop DEF Handing
  <1>7. KindOf[i] \in Removers
    BY <1>1, Dropping DEF Removers
  <1>8. CASE KindOf[i] \in Creating
    <2>1. KindOf[i] = "migrate" /\ loc[i].pc \in Handing
      BY <1>1, <1>7, <1>8, Dropping DEF Removers, Creating
    <2>2. loc[i].hurt => loc'[i].hurt
      BY <1>1, RemoveHurt
    <2>3. ~loc'[i].hurt => Pairs(RowsOf(i)') = Pairs(SvcsOf(i)')
      BY <1>6, <1>8, <2>1, <2>2 DEF MadeInv, RecordOK, Done, Same
    <2>4. loc'[i].pc \notin Shut /\ loc'[i].pc \notin Freed \cup Packed
          /\ loc'[i].pc \notin {"service", "wait", "services", "cleanServices"}
      BY <1>2 DEF Handing, Shut, Freed, Packed
    <2>5. ~loc'[i].hurt => RecordOK(loc'[i], RowsOf(i)', SvcsOf(i)')
      BY <2>3, <2>4 DEF RecordOK
    <2>6. MadeInv(i)'
      BY <1>8, <2>4, <2>5 DEF MadeInv, InFlight, Packed
    <2> QED BY <1>6, <1>8, <2>6, FitMade
  <1>9. CASE KindOf[i] \notin Creating
    BY <1>6, <1>7, <1>9 DEF Fit, Removers
  <1> QED BY <1>8, <1>9

-----------------------------------------------------------------------------
(* A port change, and what it has in common with a creation *)

LEMMA NotQuiet ==
  ASSUME NEW i \in mix, mix' = mix, KindOf[i] = "port", loc'[i].pc \notin {"new", "ok"}
  PROVE  ~Quiet(Target(i))'
  BY DEF Quiet, Target

LEMMA PortTarget ==
  ASSUME ConstantsOK, NEW i \in Jobs, KindOf[i] = "port"
  PROVE  /\ Target(i) \in Old /\ Target(i) \in PodNames /\ Target(i) \notin Jobs
         /\ PodOf(i) = Target(i) /\ Wanted[i] \cap Base = {} /\ KindOf[i] \notin Creating
  BY DEF ConstantsOK, Targeting, Target, PodNames, PodOf, Creating

LEMMA OldSame ==
  ASSUME NEW i, OldInv(Target(i)), Same(Target(i)), ~Touched(Target(i)), ~Quiet(Target(i))'
  PROVE  OldInv(Target(i))'
  BY DEF OldInv, Same, Target

\* at its start and when it has failed a port change has nothing in hand
LEMMA IdleFits ==
  ASSUME ConstantsOK, NEW i \in mix, i \in Jobs, mix' = mix, KindOf[i] = "port",
         OldInv(Target(i)), ~Touched(Target(i)) => Same(Target(i)),
         loc'[i].pc \in {"read", "fail"}
  PROVE  Fit(i)
  <1>1. ~Quiet(Target(i))'
    BY NotQuiet
  <1>2. ~Touched(Target(i)) => OldInv(Target(i))'
    BY <1>1, OldSame
  <1>3. ChangeInv(i)'
    BY DEF ChangeInv, ChangeOK
  <1> QED BY <1>2, <1>3, PortTarget DEF Fit

LEMMA ReconcileMemory ==
  ASSUME ConstantsOK, TypeInv, NEW i \in Jobs,
         ReconcileSkip(i) \/ ReconcileList(i) \/ ReconcileDelete(i)
  PROVE  /\ loc[i].pc \in Freed /\ loc'[i].pc \in Freed
         /\ loc'[i].hurt = loc[i].hurt /\ loc'[i].add = loc[i].add
         /\ loc'[i].drop = loc[i].drop /\ loc'[i].open = loc[i].open
         /\ ReconcileList(i) => loc'[i].pods = {s.pod : s \in svcs}
         /\ loc'[i].pc = "stale" => ReconcileList(i)
  <1>1. loc[i] \in Local
    BY Memory
  <1>2. CASE ReconcileSkip(i) \/ ReconcileDelete(i)
    <2>1. /\ \/ loc'[i] = [loc[i] EXCEPT !.pc = "alloc"]
             \/ loc'[i] = [loc[i] EXCEPT !.pc = "alloc", !.pods = {}]
          /\ loc[i].pc \in {"reconcile", "stale"}
      BY <1>2, SetAt DEF ReconcileSkip, ReconcileDelete, Go, At
    <2>2. /\ loc'[i].pc = "alloc"
          /\ loc'[i].hurt = loc[i].hurt /\ loc'[i].add = loc[i].add
          /\ loc'[i].drop = loc[i].drop /\ loc'[i].open = loc[i].open
      <3>1. CASE loc'[i] = [loc[i] EXCEPT !.pc = "alloc"]
        BY <1>1, <3>1 DEF Local
      <3>2. CASE loc'[i] = [loc[i] EXCEPT !.pc = "alloc", !.pods = {}]
        BY <1>1, <3>2 DEF Local
      <3> QED BY <2>1, <3>1, <3>2
    <2>3. ~ReconcileList(i)
      <3>1. ASSUME ReconcileList(i) PROVE FALSE
        <4>1. loc'[i] = [loc[i] EXCEPT !.pc = "stale", !.pods = {s.pod : s \in svcs}]
          BY <3>1, SetAt DEF ReconcileList
        <4> QED BY <1>1, <2>2, <4>1 DEF Local
      <3> QED BY <3>1
    <2>5. loc[i].pc \in Freed /\ loc'[i].pc \in Freed /\ loc'[i].pc # "stale"
      BY <2>1, <2>2 DEF Freed
    <2> QED BY <2>2, <2>3, <2>5
  <1>3. CASE ReconcileList(i)
    <2>1. loc'[i] = [loc[i] EXCEPT !.pc = "stale", !.pods = {s.pod : s \in svcs}]
          /\ loc[i].pc = "reconcile"
      BY <1>3, SetAt DEF ReconcileList, At
    <2> QED BY <1>1, <1>3, <2>1 DEF Local, Freed
  <1> QED BY <1>2, <1>3

\* who has no Service when the Services are listed: a Pod that is removed, or
\* one that a creation has not opened yet
LEMMA ListedOnce ==
  ASSUME ConstantsOK, TypeInv, Base # {}, NEW i \in Jobs, ReconcileList(i),
         \A p \in Old : OldInv(p), loc'[i].pc # "new",
         \A p : Touched(p) => Touched(p)'
  PROVE  ListInv(i)'
  <1>1. loc'[i].pods = {s.pod : s \in svcs} /\ UNCHANGED <<svcs, aged>>
    BY ReconcileMemory DEF ReconcileList, ports
  <1>2. ASSUME NEW p \in aged' \ loc'[i].pods
        PROVE  IF p \in Jobs THEN SvcsOf(p)' = {} ELSE Touched(p)'
    <2>1. SvcsOf(p) = {} /\ SvcsOf(p)' = {}
      BY <1>1, <1>2 DEF SvcsOf
    <2>2. CASE p \notin Jobs
      <3>1. p \in Old
        BY <1>1, <1>2, <2>2 DEF TypeInv, TypeOK, PodNames
      <3>2. Inner(SvcsOf(p)) = {}
        BY <2>1 DEF Inner
      <3>3. Touched(p)
        BY <3>1, <3>2 DEF OldInv
      <3> QED BY <2>2, <3>3
    <2> QED BY <2>1, <2>2
  <1> QED BY <1>2 DEF ListInv

\* a reconciliation takes rows of no Pod that has Services to stay
LEMMA TakenRows ==
  ASSUME ConstantsOK, TypeInv, NEW i \in Jobs, ReconcileDelete(i), ListInv(i), NEW p \in PodNames
  PROVE  \/ Same(p)
         \/ p \in Old /\ Touched(p)
         \/ p \in Jobs \cap aged /\ SvcsOf(p) = {} /\ SvcsOf(p)' = {} /\ RowsOf(p)' = {}
  <1>1. /\ rows' = {r \in rows : r.pod \notin Stale(i)} /\ UNCHANGED svcs
        /\ loc[i].pc = "stale"
    BY DEF ReconcileDelete, At
  <1>2. SvcsOf(p)' = SvcsOf(p)
    BY <1>1 DEF SvcsOf
  <1>3. CASE p \notin Stale(i)
    <2>1. RowsOf(p)' = RowsOf(p)
      BY <1>1, <1>3 DEF RowsOf
    <2> QED BY <1>2, <2>1 DEF Same
  <1>4. CASE p \in Stale(i)
    <2>1. RowsOf(p)' = {}
      BY <1>1, <1>4 DEF RowsOf
    <2>2. p \in aged \ loc[i].pods
      BY <1>4 DEF Stale
    <2>3. IF p \in Jobs THEN SvcsOf(p) = {} ELSE Touched(p)
      BY <1>1, <2>2 DEF ListInv
    <2> QED BY <1>2, <2>1, <2>2, <2>3 DEF PodNames
  <1> QED BY <1>3, <1>4

LEMMA ReconcileFits ==
  ASSUME ConstantsOK, TypeInv, Base # {}, NEW i \in mix, mix' = mix,
         ReconcileSkip(i) \/ ReconcileList(i) \/ ReconcileDelete(i),
         KindOf[i] \in Creating => MadeInv(i),
         KindOf[i] = "port" => ChangeInv(i),
         \A p \in Old : OldInv(p), ListInv(i), \A p : Touched(p) => Touched(p)'
  PROVE  Mild(i) /\ Fit(i)
  <1>1. i \in Jobs /\ UNCHANGED svcs
    BY DEF TypeInv, TypeOK, ConstantsOK, ReconcileSkip, ReconcileList, ReconcileDelete, ports
  <1>2. /\ loc[i].pc \in Freed /\ loc'[i].pc \in Freed
        /\ loc'[i].hurt = loc[i].hurt /\ loc'[i].add = loc[i].add
        /\ loc'[i].drop = loc[i].drop /\ loc'[i].open = loc[i].open
        /\ loc'[i].pc = "stale" => ReconcileList(i)
    BY <1>1, ReconcileMemory
  <1>3. KindOf[i] \in Creating \cup {"port"}
    BY <1>1, <1>2, AllocKnown DEF Freed
  <1>4. \A p \in PodNames :
          \/ Same(p)
          \/ p \in Old /\ Touched(p)
          \/ p \in Jobs \cap aged /\ SvcsOf(p) = {} /\ SvcsOf(p)' = {} /\ RowsOf(p)' = {}
    <2>1. CASE ReconcileDelete(i)
      BY <1>1, <2>1, TakenRows
    <2>2. CASE ReconcileSkip(i) \/ ReconcileList(i)
      <3>1. UNCHANGED <<rows, svcs>>
        BY <2>2 DEF ReconcileSkip, ReconcileList, ports
      <3> QED BY <3>1, SameAll
    <2> QED BY <2>1, <2>2
  <1>5. aged' \subseteq aged /\ SvcsOf(i)' = SvcsOf(i)
    BY <1>1 DEF ReconcileSkip, ReconcileList, ReconcileDelete, ports, SvcsOf
  <1>6. loc'[i].pc # "new"
    BY <1>2 DEF Freed
  <1>7. loc'[i].pc = "stale" => ListInv(i)'
    BY <1>1, <1>2, <1>6, ListedOnce
  <1>8. Mild(i)
    BY <1>4, <1>5, <1>6, <1>7 DEF Mild
  <1>9. CASE KindOf[i] \in Creating
    <2>1. i \in PodNames /\ i \notin Old
      BY <1>1 DEF PodNames, ConstantsOK
    <2>2. RowsOf(i)' = RowsOf(i) \/ RowsOf(i)' = {}
      BY <1>4, <2>1 DEF Same
    <2>3. ~loc'[i].hurt => RecordOK(loc'[i], RowsOf(i)', SvcsOf(i)')
      BY <1>2, <1>5, <1>9, <2>2 DEF MadeInv, RecordOK, Shut, Freed, Packed, Done, Handing
    <2>4. MadeInv(i)'
      BY <1>2, <1>9, <2>3 DEF MadeInv, InFlight, Freed
    <2> QED BY <1>8, <1>9, <2>4, FitMade
  <1>10. CASE KindOf[i] = "port"
    <2>1. SUFFICES ASSUME ~Touched(Target(i)) PROVE OldInv(Target(i))' /\ ChangeInv(i)'
      BY <1>1, <1>8, <1>10, PortTarget DEF Fit
    <2>2. Same(Target(i))
      BY <1>1, <1>4, <1>10, <2>1, PortTarget
    <2>3. ~Quiet(Target(i))'
      BY <1>2, <1>10, NotQuiet DEF Freed
    <2>4. OldInv(Target(i))'
      BY <1>1, <1>10, <2>1, <2>2, <2>3, OldSame, PortTarget
    <2>5. ChangeOK(loc[i], Wanted[i], RowsOf(Target(i)), SvcsOf(Target(i)))
      BY <1>10, <2>1 DEF ChangeInv
    <2>6. ChangeOK(loc'[i], Wanted[i], RowsOf(Target(i))', SvcsOf(Target(i))')
      BY <1>2, <2>2, <2>5 DEF ChangeOK, Same, Freed
    <2> QED BY <2>4, <2>6 DEF ChangeInv, Target
  <1> QED BY <1>3, <1>9, <1>10

LEMMA PairsOf ==
  ASSUME NEW T PROVE /\ \A x \in T : [iport |-> x.iport, nport |-> x.nport] \in Pairs(T)
                     /\ \A y \in Pairs(T) : \E x \in T : y = [iport |-> x.iport, nport |-> x.nport]
  BY DEF Pairs

LEMMA GrantRows ==
  ASSUME NEW i, NEW f
  PROVE  /\ Pairs(Granted(i, f)) = Grant(i, f)
         /\ \A r \in Granted(i, f) : /\ r.pod = PodOf(i) /\ r.iport \in Asked(i)
                                     /\ r.nport = f[r.iport]
  <1>1. ASSUME NEW x \in Grant(i, f)
        PROVE  /\ RowFor(i, x).pod = PodOf(i) /\ RowFor(i, x).iport = x.iport
               /\ RowFor(i, x).nport = x.nport /\ x.iport \in Asked(i) /\ x.nport = f[x.iport]
               /\ [iport |-> x.iport, nport |-> x.nport] = x
    BY <1>1 DEF Grant, RowFor
  <1>2. ASSUME NEW y \in Pairs(Granted(i, f)) PROVE y \in Grant(i, f)
    <2>1. PICK r \in Granted(i, f) : y = [iport |-> r.iport, nport |-> r.nport]
      BY PairsOf
    <2>2. PICK x \in Grant(i, f) : r = RowFor(i, x)
      BY DEF Granted
    <2> QED BY <1>1, <2>1, <2>2
  <1>3. ASSUME NEW x \in Grant(i, f) PROVE x \in Pairs(Granted(i, f))
    <2>1. RowFor(i, x) \in Granted(i, f)
      BY DEF Granted
    <2>2. [iport |-> RowFor(i, x).iport, nport |-> RowFor(i, x).nport] = x
      BY <1>1
    <2> QED BY <2>1, <2>2, PairsOf
  <1>4. ASSUME NEW r \in Granted(i, f)
        PROVE  r.pod = PodOf(i) /\ r.iport \in Asked(i) /\ r.nport = f[r.iport]
    <2>1. PICK x \in Grant(i, f) : r = RowFor(i, x)
      BY DEF Granted
    <2> QED BY <1>1, <2>1
  <1> QED BY <1>2, <1>3, <1>4

\* what the rows of the Pod are after an allocation
LEMMA RowsGranted ==
  ASSUME NEW i, NEW f, rows' = rows \cup Granted(i, f)
  PROVE  /\ RowsOf(PodOf(i))' = RowsOf(PodOf(i)) \cup Granted(i, f)
         /\ \A r \in rows \cup rows' : r.pod # PodOf(i) => (r \in rows <=> r \in rows')
  <1>1. PICK p : p = PodOf(i)
    OBVIOUS
  <1>2. \A r \in Granted(i, f) : r.pod = p
    BY <1>1, GrantRows
  <1>3. RowsOf(p)' = RowsOf(p) \cup Granted(i, f)
    BY <1>2 DEF RowsOf
  <1>4. PodOf(i)' = PodOf(i)
    BY DEF PodOf
  <1> QED BY <1>1, <1>2, <1>3, <1>4

LEMMA AllocateMade ==
  ASSUME ConstantsOK, TypeInv, NEW i \in mix, KindOf[i] \in Creating, MadeInv(i), Allocate(i)
  PROVE  Mild(i) /\ Fit(i)
  <1>1. i \in Jobs /\ UNCHANGED svcs /\ loc[i].pc = "alloc" /\ PodOf(i) = i
    BY AtHome DEF TypeInv, TypeOK, ConstantsOK, Allocate, At
  <1>2. SvcsOf(i)' = SvcsOf(i) /\ KindOf[i] # "port" /\ Back(i) = "build"
    BY <1>1 DEF SvcsOf, Creating, Back
  <1>3. loc[i].hurt => loc'[i].hurt
    BY <1>1, PortsHurt
  <1>4. loc[i].pc \in Shut
    BY <1>1 DEF Shut
  <1>5. CASE UNCHANGED <<rows, aged>> /\ loc'[i].pc \in {Back(i), "fail"}
    <2>1. loc'[i].pc \in Loose
      BY <1>2, <1>5 DEF Loose
    <2> QED BY <1>1, <1>2, <1>3, <1>4, <1>5, <2>1, LooseMade, MildStill, ShutPlaces
  <1>6. CASE \E f \in [Asked(i) -> NodePorts] :
               /\ rows' = rows \cup Granted(i, f)
               /\ \/ /\ aged' = aged \ {PodOf(i)}
                     /\ loc'[i].pc = "deploy" /\ loc'[i].ports = Grant(i, f)
                     /\ loc'[i].hurt = loc[i].hurt
                  \/ aged' = aged /\ loc'[i].hurt /\ loc'[i].pc \in {Back(i), "fail"}
    <2>1. PICK f \in [Asked(i) -> NodePorts] :
               /\ rows' = rows \cup Granted(i, f)
               /\ \/ /\ aged' = aged \ {PodOf(i)}
                     /\ loc'[i].pc = "deploy" /\ loc'[i].ports = Grant(i, f)
                     /\ loc'[i].hurt = loc[i].hurt
                  \/ aged' = aged /\ loc'[i].hurt /\ loc'[i].pc \in {Back(i), "fail"}
      BY <1>6
    <2>2. /\ RowsOf(i)' = RowsOf(i) \cup Granted(i, f)
          /\ \A r \in rows \cup rows' : r.pod # PodOf(i) => (r \in rows <=> r \in rows')
      BY <1>1, <2>1, RowsGranted
    <2>3. Mild(i)
      <3>1. aged' \subseteq aged /\ loc'[i].pc \notin {"new", "stale"}
        BY <1>2, <2>1
      <3> QED BY <1>1, <1>2, <2>2, <3>1, MildOwn
    <2>4. CASE loc'[i].pc \in {Back(i), "fail"}
      <3>1. loc'[i].pc \in Loose
        BY <1>2, <2>4 DEF Loose
      <3> QED BY <1>2, <1>3, <1>4, <2>3, <3>1, LooseMade
    <2>5. CASE loc'[i].pc \notin {Back(i), "fail"}
      <3>1. /\ aged' = aged \ {i} /\ loc'[i].pc = "deploy"
            /\ loc'[i].ports = Grant(i, f) /\ loc'[i].hurt = loc[i].hurt
        BY <1>1, <2>1, <2>5
      <3>2. ~loc'[i].hurt => RecordOK(loc'[i], RowsOf(i)', SvcsOf(i)')
        <4>1. SUFFICES ASSUME ~loc[i].hurt PROVE RecordOK(loc'[i], RowsOf(i)', SvcsOf(i)')
          BY <3>1
        <4>2. RowsOf(i) = {} /\ SvcsOf(i) = {}
          BY <1>1, <4>1 DEF MadeInv, RecordOK, Freed, Shut
        <4>3. RowsOf(i)' = Granted(i, f)
          BY <2>2, <4>2
        <4>4. Pairs(RowsOf(i)') = Grant(i, f)
          BY <4>3, GrantRows
        <4> QED BY <1>2, <3>1, <4>2, <4>4 DEF RecordOK, Freed, Done, Handing
      <3>3. MadeInv(i)'
        BY <3>1, <3>2 DEF MadeInv
      <3> QED BY <2>3, <3>3, FitMade
    <2> QED BY <2>4, <2>5
  <1>7. \/ UNCHANGED <<rows, aged>> /\ loc'[i].pc \in {Back(i), "fail"}
        \/ \E f \in [Asked(i) -> NodePorts] :
               /\ rows' = rows \cup Granted(i, f)
               /\ \/ /\ aged' = aged \ {PodOf(i)}
                     /\ loc'[i].pc = "deploy" /\ loc'[i].ports = Grant(i, f)
                     /\ loc'[i].hurt = loc[i].hurt
                  \/ aged' = aged /\ loc'[i].hurt /\ loc'[i].pc \in {Back(i), "fail"}
    BY <1>1, <1>2, AllocateCases
  <1> QED BY <1>5, <1>6, <1>7

-----------------------------------------------------------------------------
(* The Services *)

SvcFor(i, x) == [pod |-> PodOf(i), iport |-> x.iport, nport |-> x.nport]

LEMMA CreateServiceCases ==
  ASSUME ConstantsOK, TypeInv, NEW i \in Jobs, CreateService(i)
  PROVE  /\ loc[i].pc = "service" /\ UNCHANGED <<rows, aged>>
         /\ \E x \in loc[i].ports :
              \/ /\ svcs' = svcs \cup {SvcFor(i, x)}
                 /\ loc'[i].pc = "service" /\ loc'[i].ports = loc[i].ports \ {x}
                 /\ loc'[i].hurt = loc[i].hurt /\ loc'[i].made = loc[i].made
              \/ /\ svcs' \in {svcs, svcs \cup {SvcFor(i, x)}}
                 /\ IF KindOf[i] = "port" THEN loc'[i].pc \in {"read", "fail"}
                    ELSE /\ loc'[i].pc = "cleanServices"
                         /\ loc'[i].hurt = loc[i].hurt /\ loc'[i].made = loc[i].made
  <1>1. loc[i].pc = "service" /\ loc[i] \in Local /\ UNCHANGED <<rows, aged>>
    BY Memory DEF CreateService, At
  <1>2. PICK x \in loc[i].ports :
          LET s == SvcFor(i, x)
              Failed == IF KindOf[i] = "port" THEN Again(i, loc[i], "read")
                        ELSE Clean(i, "cleanServices", "build")
          IN IF \E t \in svcs : t.nport = x.nport
             THEN Failed /\ UNCHANGED svcs /\ Well
             ELSE \/ /\ svcs' = svcs \cup {s} /\ Well
                     /\ Set(i, [loc[i] EXCEPT !.ports = @ \ {x}])
                  \/ svcs' \in {svcs, svcs \cup {s}} /\ Failed /\ Failing
    BY DEF CreateService, SvcFor
  <1>3. CASE /\ svcs' = svcs \cup {SvcFor(i, x)}
             /\ Set(i, [loc[i] EXCEPT !.ports = @ \ {x}])
    <2>1. loc'[i] = [loc[i] EXCEPT !.ports = @ \ {x}]
      BY <1>3, SetAt
    <2>2. /\ loc'[i].pc = "service" /\ loc'[i].ports = loc[i].ports \ {x}
          /\ loc'[i].hurt = loc[i].hurt /\ loc'[i].made = loc[i].made
      BY <1>1, <2>1 DEF Local
    <2> QED BY <1>1, <1>3, <2>2
  <1>4. CASE /\ svcs' \in {svcs, svcs \cup {SvcFor(i, x)}}
             /\ IF KindOf[i] = "port" THEN Again(i, loc[i], "read")
                ELSE Clean(i, "cleanServices", "build")
    <2>1. CASE KindOf[i] = "port"
      <3>1. loc'[i].pc \in {"read", "fail"}
        BY <1>1, <1>4, <2>1, AgainHurt
      <3> QED BY <1>1, <1>4, <2>1, <3>1
    <2>2. CASE KindOf[i] # "port"
      <3>1. /\ loc'[i].pc = "cleanServices"
            /\ loc'[i].hurt = loc[i].hurt /\ loc'[i].made = loc[i].made
        BY <1>4, <2>2, CleanHurt
      <3> QED BY <1>1, <1>4, <2>2, <3>1
    <2> QED BY <2>1, <2>2
  <1> QED BY <1>2, <1>3, <1>4

\* the Services of the Pod when one is made
LEMMA SvcsMade ==
  ASSUME NEW i, NEW x, svcs' = svcs \cup {SvcFor(i, x)}
  PROVE  /\ SvcsOf(PodOf(i))' = SvcsOf(PodOf(i)) \cup {SvcFor(i, x)}
         /\ \A s \in svcs \cup svcs' : s.pod # PodOf(i) => (s \in svcs <=> s \in svcs')
         /\ Pairs(SvcsOf(PodOf(i)))' =
              Pairs(SvcsOf(PodOf(i))) \cup {[iport |-> x.iport, nport |-> x.nport]}
  <1>1. SvcFor(i, x).pod = PodOf(i) /\ SvcFor(i, x).iport = x.iport /\ SvcFor(i, x).nport = x.nport
    BY DEF SvcFor
  <1>2. PodOf(i)' = PodOf(i)
    BY DEF PodOf
  <1>3. PICK p : p = PodOf(i)
    OBVIOUS
  <1>4. SvcsOf(p)' = SvcsOf(p) \cup {SvcFor(i, x)}
    BY <1>1, <1>3 DEF SvcsOf
  <1>5. Pairs(SvcsOf(p) \cup {SvcFor(i, x)}) =
          Pairs(SvcsOf(p)) \cup {[iport |-> x.iport, nport |-> x.nport]}
    BY <1>1 DEF Pairs
  <1> QED BY <1>1, <1>2, <1>3, <1>4, <1>5 DEF Pairs

LEMMA ServiceMade ==
  ASSUME ConstantsOK, TypeInv, NEW i \in mix, KindOf[i] \in Creating, MadeInv(i),
         CreateService(i)
  PROVE  Mild(i) /\ Fit(i)
  <1>1. i \in Jobs /\ PodOf(i) = i /\ KindOf[i] # "port"
    BY AtHome DEF TypeInv, TypeOK, ConstantsOK, Creating
  <1>2. PICK x \in loc[i].ports :
              \/ /\ svcs' = svcs \cup {SvcFor(i, x)}
                 /\ loc'[i].pc = "service" /\ loc'[i].ports = loc[i].ports \ {x}
                 /\ loc'[i].hurt = loc[i].hurt /\ loc'[i].made = loc[i].made
              \/ /\ svcs' \in {svcs, svcs \cup {SvcFor(i, x)}}
                 /\ loc'[i].pc = "cleanServices"
                 /\ loc'[i].hurt = loc[i].hurt /\ loc'[i].made = loc[i].made
    BY <1>1, CreateServiceCases
  <1>3. loc[i].pc = "service" /\ UNCHANGED <<rows, aged>>
    BY <1>1, CreateServiceCases
  <1>4. i \notin aged /\ loc[i].made
    BY <1>1, <1>3 DEF MadeInv, InFlight
  <1>5. \A s \in svcs \cup svcs' : s.pod # PodOf(i) => (s \in svcs <=> s \in svcs')
    BY <1>2, SvcsMade
  <1>6. Mild(i)
    BY <1>1, <1>2, <1>3, <1>4, <1>5, MildOwn
  <1>7. ~loc'[i].hurt => RecordOK(loc'[i], RowsOf(i)', SvcsOf(i)')
    <2>1. CASE loc'[i].pc = "cleanServices"
      BY <2>1 DEF RecordOK, Shut, Freed, Packed, Done, Handing
    <2>2. CASE loc'[i].pc = "service"
      <3>1. SUFFICES ASSUME ~loc[i].hurt PROVE RecordOK(loc'[i], RowsOf(i)', SvcsOf(i)')
        BY <1>2
      <3>2. /\ svcs' = svcs \cup {SvcFor(i, x)}
            /\ loc'[i].ports = loc[i].ports \ {x}
        BY <1>2, <2>2
      <3>3. Pairs(RowsOf(i)) = loc[i].ports \cup Pairs(SvcsOf(i))
        BY <1>3, <3>1 DEF MadeInv, RecordOK
      <3>4. Pairs(SvcsOf(i)') = Pairs(SvcsOf(i)) \cup {[iport |-> x.iport, nport |-> x.nport]}
        BY <1>1, <3>2, SvcsMade DEF Pairs
      <3>5. x \in Pair
        BY <1>1, Memory DEF Local
      <3>6. [iport |-> x.iport, nport |-> x.nport] = x
        BY <3>5 DEF Pair
      <3>7. RowsOf(i)' = RowsOf(i)
        BY <1>3 DEF RowsOf
      <3>8. Pairs(RowsOf(i)') = loc'[i].ports \cup Pairs(SvcsOf(i)')
        BY <3>2, <3>3, <3>4, <3>6, <3>7
      <3> QED BY <2>2, <3>8 DEF RecordOK, Shut, Freed, Packed, Done, Handing
    <2> QED BY <1>2, <2>1, <2>2
  <1>8. MadeInv(i)'
    BY <1>2, <1>3, <1>4, <1>7 DEF MadeInv
  <1> QED BY <1>6, <1>8, FitMade

LEMMA ServingMade ==
  ASSUME ConstantsOK, TypeInv, NEW i \in mix, KindOf[i] \in Creating, MadeInv(i), Serving(i)
  PROVE  Mild(i) /\ Fit(i)
  <1>1. /\ i \in Jobs /\ UNCHANGED <<rows, svcs, aged>>
        /\ loc[i].pc = "service" /\ loc[i].ports = {}
    BY DEF TypeInv, TypeOK, ConstantsOK, Serving, At, ports
  <1>2. loc'[i].pc \in {"dropServices", "ok"}
    BY <1>1, ServingOK DEF Moves
  <1>3. loc[i].hurt => loc'[i].hurt
    BY <1>1, PortsHurt
  <1>4. ~loc'[i].hurt => Pairs(RowsOf(i)) = Pairs(SvcsOf(i))
    BY <1>1, <1>3 DEF MadeInv, RecordOK
  <1>5. ~loc'[i].hurt => RecordOK(loc'[i], RowsOf(i)', SvcsOf(i)')
    BY <1>1, <1>2, <1>4, StillSame DEF RecordOK, Same, Shut, Freed, Packed
  <1>6. MadeInv(i)'
    BY <1>2, <1>5 DEF MadeInv, InFlight
  <1> QED BY <1>1, <1>2, <1>6, MildStill, FitMade

LEMMA CreationFits ==
  ASSUME ConstantsOK, TypeInv, Base # {}, NEW i \in mix, mix' = mix, KindOf[i] \in Creating,
         MadeInv(i), Register(i) \/ Step(i) \/ Crash(i),
         \A p \in Old : OldInv(p), ListInv(i), \A p : Touched(p) => Touched(p)'
  PROVE  Mild(i) /\ Fit(i)
  <1>1. i \in Jobs
    BY DEF TypeInv, TypeOK, ConstantsOK
  <1>2. CASE Register(i) \/ Crash(i) \/ EarlyFailure(i)
    BY <1>2, BeginFits, CrashFits
  <1>3. CASE Create(i)
    BY <1>3, EarlyFits, BuildFits, PodFits, UndoFits, ServicesStartFits, CleanServicesFits
    DEF Create
  <1>4. CASE Ports(i)
    <2>1. KindOf[i] # "port"
      BY DEF Creating
    <2>2. CASE ReconcileSkip(i) \/ ReconcileList(i) \/ ReconcileDelete(i)
      BY <2>1, <2>2, ReconcileFits
    <2> QED BY <1>4, <2>2, AllocateMade, ServiceMade, ServingMade DEF Ports
  <1>5. CASE Remove(i)
    BY <1>5, DropFits
  <1>6. CASE Change(i) \/ Home(i)
    <2>1. loc[i].pc \in {"read", "list", "dropPort", "fill", "homePods", "homeJobs", "homeDelete"}
      BY <1>6 DEF Change, ReadPod, ListServices, DropPort, DropPortRow, Fill, Home, HomePods,
                  HomeJobs, HomeDelete, At
    <2> QED BY <1>1, <2>1, KindAt DEF Creating
  <1> QED BY <1>2, <1>3, <1>4, <1>5, <1>6 DEF Step

-----------------------------------------------------------------------------
(* The steps of a port change *)

\* what OldInv says while a port change is at work on the Pod
OldOK(R, S) ==
  /\ Base \subseteq Inner(S) /\ Pairs(S) \subseteq Pairs(R)
  /\ \A r, t \in R : r.iport = t.iport => r.nport = t.nport

LEMMA OldGives ==
  ASSUME NEW i, OldInv(Target(i)), ~Touched(Target(i))
  PROVE  OldOK(RowsOf(Target(i)), SvcsOf(Target(i)))
  BY DEF OldInv, OldOK

LEMMA ChangeFits ==
  ASSUME ConstantsOK, NEW i \in mix, i \in Jobs, mix' = mix, KindOf[i] = "port",
         OldInv(Target(i)), ChangeInv(i), loc'[i].pc \notin {"new", "ok"},
         NEW R, NEW S, R = RowsOf(Target(i))', S = SvcsOf(Target(i))',
         /\ ~Touched(Target(i))
         /\ OldOK(RowsOf(Target(i)), SvcsOf(Target(i)))
         /\ ChangeOK(loc[i], Wanted[i], RowsOf(Target(i)), SvcsOf(Target(i)))
         => OldOK(R, S) /\ ChangeOK(loc'[i], Wanted[i], R, S)
  PROVE  Fit(i)
  <1>1. SUFFICES ASSUME ~Touched(Target(i)) PROVE OldInv(Target(i))' /\ ChangeInv(i)'
    BY PortTarget DEF Fit
  <1>2. OldOK(R, S) /\ ChangeOK(loc'[i], Wanted[i], R, S)
    BY <1>1, OldGives DEF ChangeInv
  <1>3. ~Quiet(Target(i))'
    BY NotQuiet
  <1>4. OldInv(Target(i))'
    BY <1>2, <1>3 DEF OldInv, OldOK, Target
  <1>5. ChangeInv(i)'
    BY <1>2 DEF ChangeInv, Target
  <1> QED BY <1>4, <1>5

LEMMA PortBegins ==
  ASSUME ConstantsOK, TypeInv, NEW i \in mix, mix' = mix, KindOf[i] = "port",
         OldInv(Target(i)), Register(i) \/ EarlyFailure(i) \/ Crash(i)
  PROVE  Mild(i) /\ Fit(i)
  <1>0. i \in Jobs
    BY DEF TypeInv, TypeOK, ConstantsOK
  <1>1. i \in Jobs /\ UNCHANGED <<rows, svcs, aged>>
    BY <1>0, CrashHurt DEF Register, EarlyFailure, Crash, Creating, ports
  <1>2. loc'[i].pc \in {"read", "fail"}
    <2>1. CASE Register(i)
      BY <1>1, <2>1, RegisterOK DEF Moves, First
    <2>2. CASE EarlyFailure(i)
      <3>1. loc[i].pc \in PCsOf("port") /\ loc[i].pc \in {"home", "node", "read", "list",
                                                          "homePods", "homeJobs"}
        BY <1>1, <2>2, Memory DEF MemoryOK, EarlyFailure
      <3>2. loc[i].pc \in {"read", "list"}
        BY <3>1 DEF PCsOf, Creating, PortPCs
      <3>3. loc'[i].pc \in {CASE loc[i].pc = "list" -> "read"
                              [] loc[i].pc = "homeJobs" -> "homePods"
                              [] OTHER -> loc[i].pc, "fail"}
        BY <1>1, <2>2, EarlyFailureOK DEF Moves
      <3> QED BY <3>2, <3>3
    <2>3. CASE Crash(i)
      <3>1. Running(i) /\ loc[i].pc \in PCsOf("port")
        BY <1>1, <2>3, Memory DEF MemoryOK, Crash
      <3>2. loc[i].pc \in PortPCs
        BY <3>1 DEF PCsOf, Creating, Running, Final
      <3>3. ResumeAt(i) = "read"
        BY <3>2 DEF ResumeAt, First, PortPCs
      <3> QED BY <1>1, <2>3, <3>3, CrashHurt
    <2> QED BY <2>1, <2>2, <2>3
  <1>3. Same(Target(i))
    BY <1>1, SameAll
  <1> QED BY <1>1, <1>2, <1>3, IdleFits, MildStill

LEMMA ReadFits ==
  ASSUME ConstantsOK, TypeInv, NEW i \in mix, mix' = mix, KindOf[i] = "port",
         OldInv(Target(i)), ChangeInv(i), ReadPod(i)
  PROVE  Mild(i) /\ Fit(i)
  <1>1. i \in Jobs /\ UNCHANGED <<rows, svcs, aged>> /\ loc[i] \in Local
    BY Memory DEF TypeInv, TypeOK, ConstantsOK, ReadPod, ports
  <1>2. Same(Target(i))
    BY <1>1, SameAll
  <1>3. CASE End(i, "fail")
    <2>1. loc'[i].pc = "fail"
      BY <1>1, <1>3, EndHurt
    <2> QED BY <1>1, <1>2, <2>1, IdleFits, MildStill
  <1>4. CASE ~End(i, "fail")
    <2> DEFINE extra == {r.iport : r \in RowsOf(Target(i))} \ Base
    <2>1. loc'[i] = [loc[i] EXCEPT !.pc = "list", !.node = pods[Target(i)].node,
                                   !.drop = extra \ Wanted[i], !.add = Wanted[i] \ extra]
      BY <1>1, <1>4, SetAt DEF ReadPod
    <2>2. extra = Inner(RowsOf(Target(i))) \ Base
      BY DEF Inner
    <2> HIDE DEF extra
    <2>3. /\ loc'[i].pc = "list" /\ loc'[i].drop = extra \ Wanted[i]
          /\ loc'[i].add = Wanted[i] \ extra
      BY <1>1, <2>1 DEF Local
    <2>4. Wanted[i] \cap Base = {}
      BY <1>1, PortTarget
    <2>5. ChangeOK(loc'[i], Wanted[i], RowsOf(Target(i)), SvcsOf(Target(i)))
      BY <2>2, <2>3, <2>4 DEF ChangeOK
    <2>6. Fit(i)
      BY <1>1, <1>2, <2>3, <2>5, ChangeFits DEF Same, Target
    <2> QED BY <1>1, <2>3, <2>6, MildStill
  <1> QED BY <1>3, <1>4

LEMMA ListFits ==
  ASSUME ConstantsOK, TypeInv, NEW i \in mix, mix' = mix, KindOf[i] = "port",
         OldInv(Target(i)), ChangeInv(i), ListServices(i)
  PROVE  Mild(i) /\ Fit(i)
  <1>1. i \in Jobs /\ UNCHANGED <<rows, svcs, aged>> /\ loc[i] \in Local /\ loc[i].pc = "list"
    BY Memory DEF TypeInv, TypeOK, ConstantsOK, ListServices, ports, At
  <1>2. Same(Target(i))
    BY <1>1, SameAll
  <1> DEFINE seen == SvcsOf(Target(i))
             gone == Pairs({s \in seen : s.iport \in loc[i].drop})
  <1>3. loc'[i] = [loc[i] EXCEPT !.pc = "dropPort", !.open = {s.iport : s \in seen},
                                 !.ports = gone]
    BY <1>1, SetAt DEF ListServices
  <1>4. {s.iport : s \in seen} = Inner(seen)
    BY DEF Inner
  <1>5. Inner(gone) \subseteq loc[i].drop
    BY DEF Inner, Pairs
  <1>6. \A s \in seen : s.iport \in loc[i].drop => [iport |-> s.iport, nport |-> s.nport] \in gone
    BY DEF Pairs
  <1> HIDE DEF seen, gone
  <1>7. /\ loc'[i].pc = "dropPort" /\ loc'[i].open = Inner(seen) /\ loc'[i].ports = gone
        /\ loc'[i].drop = loc[i].drop /\ loc'[i].add = loc[i].add
    BY <1>1, <1>3, <1>4 DEF Local
  <1>8. ChangeOK(loc[i], Wanted[i], RowsOf(Target(i)), seen)
        => ChangeOK(loc'[i], Wanted[i], RowsOf(Target(i)), seen)
    BY <1>1, <1>5, <1>6, <1>7 DEF ChangeOK
  <1>9. Fit(i)
    BY <1>1, <1>2, <1>7, <1>8, ChangeFits DEF Same, Target, seen
  <1> QED BY <1>1, <1>7, <1>9, MildStill

LEMMA FillFits ==
  ASSUME ConstantsOK, TypeInv, NEW i \in mix, mix' = mix, KindOf[i] = "port",
         OldInv(Target(i)), ChangeInv(i), Fill(i)
  PROVE  Mild(i) /\ Fit(i)
  <1>1. i \in Jobs /\ UNCHANGED <<rows, svcs, aged>> /\ loc[i] \in Local /\ loc[i].pc = "fill"
    BY Memory DEF TypeInv, TypeOK, ConstantsOK, Fill, ports, At
  <1>2. Same(Target(i))
    BY <1>1, SameAll
  <1> DEFINE R == RowsOf(Target(i))
             S == SvcsOf(Target(i))
             more == {r \in R : r.iport \in Wanted[i] \ loc[i].open}
  <1>3. loc'[i] = [loc[i] EXCEPT !.pc = "service", !.ports = Pairs(more)]
    BY <1>1, SetAt DEF Fill
  <1> HIDE DEF more
  <1>4. loc'[i].pc = "service" /\ loc'[i].ports = Pairs(more)
    BY <1>1, <1>3 DEF Local
  <1>5. ASSUME OldOK(R, S), ChangeOK(loc[i], Wanted[i], R, S)
        PROVE  ChangeOK(loc'[i], Wanted[i], R, S)
    <2>1. Pairs(more) \subseteq Pairs(R)
      BY DEF Pairs, more
    <2>2. ASSUME NEW r \in R, r \notin more
          PROVE  [iport |-> r.iport, nport |-> r.nport] \in Pairs(S)
      <3>1. r.iport \in Base \cup Wanted[i] /\ r.iport \in Inner(R)
        BY <1>1, <1>5 DEF ChangeOK, Inner
      <3>2. r.iport \in Inner(S)
        <4>1. CASE r.iport \in Base
          BY <1>5, <4>1 DEF OldOK
        <4>2. CASE r.iport \in Wanted[i]
          <5>1. r.iport \in loc[i].open
            BY <2>2, <4>2 DEF more
          <5>2. r.iport \notin loc[i].drop
            BY <1>1, <1>5, <4>2 DEF ChangeOK
          <5> QED BY <1>1, <1>5, <5>1, <5>2 DEF ChangeOK
        <4> QED BY <3>1, <4>1, <4>2
      <3>3. PICK s \in S : s.iport = r.iport
        BY <3>2 DEF Inner
      <3>4. [iport |-> s.iport, nport |-> s.nport] \in Pairs(S)
        BY PairsOf
      <3>5. [iport |-> s.iport, nport |-> s.nport] \in Pairs(R)
        BY <1>5, <3>4 DEF OldOK
      <3>6. PICK t \in R : t.iport = s.iport /\ t.nport = s.nport
        BY <3>5 DEF Pairs
      <3>7. r.nport = t.nport
        BY <1>5, <3>3, <3>6 DEF OldOK
      <3> QED BY <3>3, <3>4, <3>6, <3>7
    <2>3. Pairs(R) \subseteq Pairs(more) \cup Pairs(S)
      <3>1. ASSUME NEW y \in Pairs(R) PROVE y \in Pairs(more) \cup Pairs(S)
        <4>1. PICK r \in R : y = [iport |-> r.iport, nport |-> r.nport]
          BY DEF Pairs
        <4>2. r \in more => y \in Pairs(more)
          BY <4>1 DEF Pairs
        <4> QED BY <2>2, <4>1, <4>2
      <3> QED BY <3>1
    <2> QED BY <1>4, <2>1, <2>3 DEF ChangeOK
  <1>6. Fit(i)
    BY <1>1, <1>2, <1>4, <1>5, ChangeFits DEF Same, Target
  <1> QED BY <1>1, <1>4, <1>6, MildStill
\* new rows of the Pod, for ports that had none
LEMMA MoreRows ==
  ASSUME NEW i \in Jobs, KindOf[i] = "port", NEW f, NEW R, NEW S, OldOK(R, S),
         loc[i].pc = "alloc", ChangeOK(loc[i], Wanted[i], R, S)
  PROVE  LET Q == R \cup Granted(i, f)
         IN OldOK(Q, S) /\ Inner(Q) \subseteq Base \cup Wanted[i]
  <1> DEFINE Q == R \cup Granted(i, f)
  <1>1. \A r \in Granted(i, f) : r.iport \in loc[i].add /\ r.nport = f[r.iport]
    BY GrantRows DEF Asked
  <1>2. loc[i].add \subseteq Wanted[i] /\ loc[i].add \cap Inner(R) = {}
        /\ Inner(R) \subseteq Base \cup Wanted[i]
    BY DEF ChangeOK
  <1>3. \A r \in R : r.iport \in Inner(R)
    BY DEF Inner
  <1>4. Pairs(R) \subseteq Pairs(Q)
    BY DEF Pairs
  <1>5. ASSUME NEW r \in Q, NEW t \in Q, r.iport = t.iport PROVE r.nport = t.nport
    <2>1. CASE r \in R /\ t \in R
      BY <1>5, <2>1 DEF OldOK
    <2>2. CASE r \in Granted(i, f) /\ t \in Granted(i, f)
      BY <1>1, <1>5, <2>2
    <2>3. CASE ~(r \in R /\ t \in R) /\ ~(r \in Granted(i, f) /\ t \in Granted(i, f))
      BY <1>1, <1>2, <1>3, <1>5, <2>3
    <2> QED BY <2>1, <2>2, <2>3
  <1>6. Inner(Q) \subseteq Base \cup Wanted[i]
    <2>1. ASSUME NEW r \in Q PROVE r.iport \in Base \cup Wanted[i]
      BY <1>1, <1>2, <1>3
    <2> QED BY <2>1 DEF Inner
  <1> QED BY <1>4, <1>5, <1>6 DEF OldOK

LEMMA AllocatePort ==
  ASSUME ConstantsOK, TypeInv, NEW i \in mix, mix' = mix, KindOf[i] = "port",
         OldInv(Target(i)), ChangeInv(i), Allocate(i)
  PROVE  Mild(i) /\ Fit(i)
  <1>1. i \in Jobs /\ UNCHANGED svcs /\ loc[i].pc = "alloc" /\ loc[i] \in Local
    BY Memory DEF TypeInv, TypeOK, ConstantsOK, Allocate, At
  <1>2. PodOf(i) = Target(i) /\ Back(i) = "read"
    BY <1>1, PortTarget DEF Back
  <1>3. CASE UNCHANGED <<rows, aged>> /\ loc'[i].pc \in {Back(i), "fail"}
    BY <1>1, <1>2, <1>3, IdleFits, MildStill, SameAll
  <1>4. CASE \E f \in [Asked(i) -> NodePorts] :
               /\ rows' = rows \cup Granted(i, f)
               /\ \/ aged' = aged \ {PodOf(i)} /\ Go(i, "fill")
                  \/ aged' = aged /\ loc'[i].pc \in {Back(i), "fail"}
    <2>1. PICK f \in [Asked(i) -> NodePorts] :
               /\ rows' = rows \cup Granted(i, f)
               /\ \/ aged' = aged \ {PodOf(i)} /\ Go(i, "fill")
                  \/ aged' = aged /\ loc'[i].pc \in {Back(i), "fail"}
      BY <1>4
    <2> DEFINE T == Target(i)
               R == RowsOf(T)
               S == SvcsOf(T)
    <2>2. /\ RowsOf(T)' = R \cup Granted(i, f)
          /\ \A r \in rows \cup rows' : r.pod # PodOf(i) => (r \in rows <=> r \in rows')
      BY <1>2, <2>1, RowsGranted DEF Target
    <2>3. SvcsOf(T)' = S
      BY <1>1 DEF SvcsOf, Target
    <2>4. /\ loc'[i].pc \in {"fill", "read", "fail"}
          /\ loc'[i].pc = "fill" => loc'[i].drop = loc[i].drop /\ loc'[i].open = loc[i].open
      BY <1>1, <1>2, <2>1, GoAt
    <2>5. Mild(i)
      BY <1>1, <2>1, <2>2, <2>4, MildOwn DEF Creating
    <2>6. ASSUME OldOK(R, S), ChangeOK(loc[i], Wanted[i], R, S)
          PROVE  OldOK(R \cup Granted(i, f), S)
                 /\ ChangeOK(loc'[i], Wanted[i], R \cup Granted(i, f), S)
      <3>1. /\ OldOK(R \cup Granted(i, f), S)
            /\ Inner(R \cup Granted(i, f)) \subseteq Base \cup Wanted[i]
        BY <1>1, <2>6, MoreRows
      <3>2. ChangeOK(loc'[i], Wanted[i], R \cup Granted(i, f), S)
        BY <1>1, <2>4, <2>6, <3>1 DEF ChangeOK
      <3> QED BY <3>1, <3>2
    <2>7. Fit(i)
      <3> HIDE DEF R, S
      <3>1. PICK Q : Q = R \cup Granted(i, f)
        OBVIOUS
      <3> QED BY <1>1, <2>2, <2>3, <2>4, <2>6, <3>1, ChangeFits DEF R, S
    <2> QED BY <2>5, <2>7
  <1>5. \/ UNCHANGED <<rows, aged>> /\ loc'[i].pc \in {Back(i), "fail"}
        \/ \E f \in [Asked(i) -> NodePorts] :
               /\ rows' = rows \cup Granted(i, f)
               /\ \/ aged' = aged \ {PodOf(i)} /\ Go(i, "fill")
                  \/ aged' = aged /\ loc'[i].pc \in {Back(i), "fail"}
    BY <1>1, AllocateCases
  <1> QED BY <1>3, <1>4, <1>5

LEMMA DropPortFits ==
  ASSUME ConstantsOK, TypeInv, NEW i \in mix, mix' = mix, KindOf[i] = "port",
         OldInv(Target(i)), ChangeInv(i), DropPort(i)
  PROVE  Mild(i) /\ Fit(i)
  <1>1. /\ i \in Jobs /\ UNCHANGED <<rows, aged>> /\ loc[i].pc = "dropPort"
        /\ loc[i] \in Local
    BY Memory DEF TypeInv, TypeOK, ConstantsOK, DropPort, At
  <1>2. PodOf(i) = Target(i) /\ Target(i) \in PodNames
    BY <1>1, PortTarget
  <1> DEFINE T == Target(i)
             R == RowsOf(T)
             S == SvcsOf(T)
             s(x) == [pod |-> T, iport |-> x.iport, nport |-> x.nport]
  <1>3. PICK x \in loc[i].ports :
          \/ svcs' \in {svcs, svcs \ {s(x)}} /\ Again(i, loc[i], "read")
          \/ svcs' = svcs \ {s(x)} /\ Set(i, [loc[i] EXCEPT !.ports = @ \ {x}])
    BY DEF DropPort
  <1>4. /\ loc'[i].pc \in {"read", "fail", "dropPort"}
        /\ loc'[i].pc = "dropPort" =>
             /\ svcs' = svcs \ {s(x)} /\ loc'[i].ports = loc[i].ports \ {x}
             /\ loc'[i].drop = loc[i].drop /\ loc'[i].open = loc[i].open
             /\ loc'[i].add = loc[i].add
    <2>1. CASE Again(i, loc[i], "read")
      BY <1>1, <2>1, AgainHurt
    <2>2. CASE svcs' = svcs \ {s(x)} /\ Set(i, [loc[i] EXCEPT !.ports = @ \ {x}])
      <3>1. loc'[i] = [loc[i] EXCEPT !.ports = @ \ {x}]
        BY <1>1, <2>2, SetAt
      <3> QED BY <1>1, <2>2, <3>1 DEF Local
    <2> QED BY <1>3, <2>1, <2>2
  <1>5. \A y \in svcs \cup svcs' : y.pod # PodOf(i) => (y \in svcs <=> y \in svcs')
    BY <1>2, <1>3
  <1>6. Mild(i)
    BY <1>1, <1>4, <1>5, MildOwn DEF Creating
  <1>7. RowsOf(T)' = R
    BY <1>1 DEF RowsOf, Target
  <1>8. PICK Z : Z = SvcsOf(T)'
    OBVIOUS
  <1>9. Z = S \/ Z = S \ {s(x)}
    BY <1>3, <1>8 DEF SvcsOf, Target
  <1>10. loc'[i].pc = "dropPort" => Z = S \ {s(x)}
    BY <1>4, <1>8 DEF SvcsOf, Target
  <1>11. ASSUME OldOK(R, S), ChangeOK(loc[i], Wanted[i], R, S)
         PROVE  OldOK(R, Z) /\ ChangeOK(loc'[i], Wanted[i], R, Z)
    <2>1. x.iport \in loc[i].drop /\ loc[i].drop \cap (Base \cup Wanted[i]) = {}
      BY <1>1, <1>11 DEF ChangeOK, Inner
    <2>2. \A p \in Inner(S) : p # x.iport => p \in Inner(Z)
      BY <1>9 DEF Inner
    <2>3. Pairs(Z) \subseteq Pairs(S)
      BY <1>9 DEF Pairs
    <2>4. OldOK(R, Z)
      BY <1>11, <2>1, <2>2, <2>3 DEF OldOK
    <2>5. CASE loc'[i].pc # "dropPort"
      BY <1>4, <2>4, <2>5 DEF ChangeOK
    <2>6. CASE loc'[i].pc = "dropPort"
      <3>1. loc[i].open \ loc[i].drop \subseteq Inner(Z)
        BY <1>1, <1>11, <2>1, <2>2 DEF ChangeOK
      <3>2. Inner(loc'[i].ports) \subseteq loc[i].drop
        BY <1>1, <1>4, <1>11, <2>6 DEF ChangeOK, Inner
      <3>3. ASSUME NEW z \in Z, z.iport \in loc[i].drop
            PROVE  [iport |-> z.iport, nport |-> z.nport] \in loc'[i].ports
        <4>1. z \in S /\ z # s(x)
          BY <1>10, <2>6, <3>3
        <4>2. z \in Svc /\ z.pod = T
          BY <4>1, Tables DEF SvcsOf
        <4>3. ~(z.iport = x.iport /\ z.nport = x.nport)
          BY <4>1, <4>2 DEF Svc
        <4>4. [iport |-> z.iport, nport |-> z.nport] # x
          BY <4>3
        <4>5. [iport |-> z.iport, nport |-> z.nport] \in loc[i].ports
          BY <1>1, <1>11, <3>3, <4>1 DEF ChangeOK
        <4> QED BY <1>4, <2>6, <4>4, <4>5
      <3>4. ChangeOK(loc'[i], Wanted[i], R, Z)
        BY <1>1, <1>4, <1>11, <2>6, <3>1, <3>2, <3>3 DEF ChangeOK
      <3> QED BY <2>4, <3>4
    <2> QED BY <2>5, <2>6
  <1>12. Fit(i)
    <2>1. loc'[i].pc \notin {"new", "ok"}
      BY <1>4
    <2> HIDE DEF R, S, s
    <2> QED BY <1>1, <1>7, <1>8, <1>11, <2>1, ChangeFits DEF R, S
  <1> QED BY <1>6, <1>12

LEMMA DropRowFits ==
  ASSUME ConstantsOK, TypeInv, NEW i \in mix, mix' = mix, KindOf[i] = "port",
         OldInv(Target(i)), ChangeInv(i), DropPortRow(i)
  PROVE  Mild(i) /\ Fit(i)
  <1>1. /\ i \in Jobs /\ UNCHANGED <<svcs, aged>> /\ loc[i].pc = "dropPort"
        /\ loc[i] \in Local /\ loc[i].ports = {}
    BY Memory DEF TypeInv, TypeOK, ConstantsOK, DropPortRow, At
  <1>2. PodOf(i) = Target(i)
    BY <1>1, PortTarget
  <1>3. CASE UNCHANGED rows /\ Again(i, loc[i], "read")
    <2>1. loc'[i].pc \in {"read", "fail"}
      BY <1>1, <1>3, AgainHurt
    <2> QED BY <1>1, <1>3, <2>1, IdleFits, MildStill, SameAll
  <1>4. CASE /\ rows' = {r \in rows : ~(r.pod = Target(i) /\ r.iport \in loc[i].drop)}
             /\ Go(i, IF loc[i].add # {} THEN "reconcile" ELSE "fill")
    <2> DEFINE T == Target(i)
               R == RowsOf(T)
               S == SvcsOf(T)
    <2>1. /\ loc'[i].pc \in {"reconcile", "fill"}
          /\ loc'[i].drop = loc[i].drop /\ loc'[i].open = loc[i].open
          /\ loc'[i].add = loc[i].add
      BY <1>1, <1>4, GoAt
    <2>2. PICK Q : Q = RowsOf(T)'
      OBVIOUS
    <2>3. Q = {r \in R : r.iport \notin loc[i].drop}
      BY <1>4, <2>2 DEF RowsOf, Target
    <2>4. SvcsOf(T)' = S
      BY <1>1 DEF SvcsOf, Target
    <2>5. Mild(i)
      <3>1. \A r \in rows \cup rows' : r.pod # PodOf(i) => (r \in rows <=> r \in rows')
        BY <1>2, <1>4
      <3> QED BY <1>1, <2>1, <3>1, MildOwn DEF Creating
    <2>6. ASSUME OldOK(R, S), ChangeOK(loc[i], Wanted[i], R, S)
          PROVE  OldOK(Q, S) /\ ChangeOK(loc'[i], Wanted[i], Q, S)
      <3>1. \A s \in S : s.iport \notin loc[i].drop
        BY <1>1, <2>6 DEF ChangeOK
      <3>2. Pairs(S) \subseteq Pairs(Q)
        <4>1. ASSUME NEW s \in S PROVE [iport |-> s.iport, nport |-> s.nport] \in Pairs(Q)
          <5>1. [iport |-> s.iport, nport |-> s.nport] \in Pairs(R)
            BY <2>6, PairsOf DEF OldOK
          <5>2. PICK r \in R : r.iport = s.iport /\ r.nport = s.nport
            BY <5>1 DEF Pairs
          <5>3. r \in Q
            BY <2>3, <3>1, <5>2
          <5>4. [iport |-> r.iport, nport |-> r.nport] \in Pairs(Q)
            BY <5>3, PairsOf
          <5> QED BY <5>2, <5>4
        <4>2. \A y \in Pairs(S) : \E s \in S : y = [iport |-> s.iport, nport |-> s.nport]
          BY PairsOf
        <4> HIDE DEF R, S
        <4> QED BY <4>1, <4>2
      <3>3. OldOK(Q, S)
        BY <2>3, <2>6, <3>2 DEF OldOK
      <3>4. /\ Inner(R) \subseteq Base \cup Wanted[i] \cup loc[i].drop
            /\ loc[i].add \subseteq Wanted[i] /\ loc[i].add \cap Inner(R) = {}
            /\ loc[i].open \ loc[i].drop \subseteq Inner(S)
            /\ loc[i].drop \cap (Base \cup Wanted[i]) = {}
        BY <1>1, <2>6 DEF ChangeOK
      <3>5. Inner(Q) \subseteq Inner(R) \ loc[i].drop
        BY <2>3 DEF Inner
      <3>6. ChangeOK(loc'[i], Wanted[i], Q, S)
        BY <2>1, <3>4, <3>5 DEF ChangeOK
      <3> QED BY <3>3, <3>6
    <2>7. Fit(i)
      <3>1. loc'[i].pc \notin {"new", "ok"}
        BY <2>1
      <3> HIDE DEF R, S
      <3> QED BY <1>1, <2>2, <2>4, <2>6, <3>1, ChangeFits DEF R, S
    <2> QED BY <2>5, <2>7
  <1> QED BY <1>3, <1>4 DEF DropPortRow

LEMMA ServicePort ==
  ASSUME ConstantsOK, TypeInv, NEW i \in mix, mix' = mix, KindOf[i] = "port",
         OldInv(Target(i)), ChangeInv(i), CreateService(i)
  PROVE  Mild(i) /\ Fit(i)
  <1>1. i \in Jobs /\ loc[i] \in Local
    BY Memory DEF TypeInv, TypeOK, ConstantsOK
  <1>2. PodOf(i) = Target(i)
    BY <1>1, PortTarget
  <1>3. loc[i].pc = "service" /\ UNCHANGED <<rows, aged>>
    BY <1>1, CreateServiceCases
  <1>4. PICK x \in loc[i].ports :
              \/ /\ svcs' = svcs \cup {SvcFor(i, x)}
                 /\ loc'[i].pc = "service" /\ loc'[i].ports = loc[i].ports \ {x}
              \/ /\ svcs' \in {svcs, svcs \cup {SvcFor(i, x)}}
                 /\ loc'[i].pc \in {"read", "fail"}
    BY <1>1, CreateServiceCases
  <1> DEFINE T == Target(i)
             R == RowsOf(T)
             S == SvcsOf(T)
  <1>5. \A s \in svcs \cup svcs' : s.pod # PodOf(i) => (s \in svcs <=> s \in svcs')
    BY <1>4, SvcsMade
  <1>6. Mild(i)
    BY <1>1, <1>3, <1>4, <1>5, MildOwn DEF Creating
  <1>7. RowsOf(T)' = R
    BY <1>3 DEF RowsOf, Target
  <1>8. PICK Z : Z = SvcsOf(T)'
    OBVIOUS
  <1>9. [iport |-> x.iport, nport |-> x.nport] = x
    <2>1. x \in Pair
      BY <1>1 DEF Local
    <2> QED BY <2>1 DEF Pair
  <1>10. svcs' = svcs \cup {SvcFor(i, x)}
           => Z = S \cup {SvcFor(i, x)} /\ Pairs(Z) = Pairs(S) \cup {x}
    BY <1>2, <1>8, <1>9, SvcsMade DEF Target, Pairs
  <1>11. svcs' = svcs => Z = S
    BY <1>8 DEF SvcsOf, Target
  <1>12. ASSUME OldOK(R, S), ChangeOK(loc[i], Wanted[i], R, S)
         PROVE  OldOK(R, Z) /\ ChangeOK(loc'[i], Wanted[i], R, Z)
    <2>1. loc[i].ports \subseteq Pairs(R) /\ Pairs(R) \subseteq loc[i].ports \cup Pairs(S)
      BY <1>3, <1>12 DEF ChangeOK
    <2>2. /\ S \subseteq Z
          /\ Pairs(Z) \subseteq Pairs(R)
      BY <1>4, <1>10, <1>11, <1>12, <2>1 DEF OldOK
    <2>3. Inner(S) \subseteq Inner(Z)
      BY <2>2 DEF Inner
    <2>4. OldOK(R, Z)
      BY <1>12, <2>2, <2>3 DEF OldOK
    <2>5. CASE loc'[i].pc = "service"
      BY <1>4, <1>10, <2>1, <2>4, <2>5 DEF ChangeOK
    <2>6. CASE loc'[i].pc # "service"
      BY <1>4, <2>4, <2>6 DEF ChangeOK
    <2> QED BY <2>5, <2>6
  <1>13. Fit(i)
    <2>1. loc'[i].pc \notin {"new", "ok"}
      BY <1>4
    <2> HIDE DEF R, S
    <2> QED BY <1>1, <1>7, <1>8, <1>12, <2>1, ChangeFits DEF R, S
  <1> QED BY <1>6, <1>13

LEMMA ServingPort ==
  ASSUME ConstantsOK, TypeInv, NEW i \in mix, mix' = mix, KindOf[i] = "port",
         OldInv(Target(i)), ChangeInv(i), Serving(i)
  PROVE  Mild(i) /\ Fit(i)
  <1>1. /\ i \in Jobs /\ UNCHANGED <<rows, svcs, aged>>
        /\ loc[i].pc = "service" /\ loc[i].ports = {}
    BY DEF TypeInv, TypeOK, ConstantsOK, Serving, At, ports
  <1>2. loc'[i].pc = "ok"
    BY <1>1, ServingOK DEF Moves
  <1>3. Same(Target(i))
    BY <1>1, SameAll
  <1>4. ASSUME ~Touched(Target(i)) PROVE OldInv(Target(i))' /\ ChangeInv(i)'
    <2>1. OldOK(RowsOf(Target(i)), SvcsOf(Target(i)))
      BY <1>4, OldGives
    <2>2. Pairs(RowsOf(Target(i))) \subseteq Pairs(SvcsOf(Target(i)))
      BY <1>1, <1>4 DEF ChangeInv, ChangeOK
    <2>3. OldInv(Target(i))'
      BY <1>3, <2>1, <2>2 DEF OldInv, OldOK, Same, Target
    <2>4. ChangeInv(i)'
      BY <1>2 DEF ChangeInv, ChangeOK
    <2> QED BY <2>3, <2>4
  <1>5. Fit(i)
    BY <1>1, <1>4, PortTarget DEF Fit
  <1> QED BY <1>1, <1>2, <1>5, MildStill
LEMMA PortFits ==
  ASSUME ConstantsOK, TypeInv, Base # {}, NEW i \in mix, mix' = mix, KindOf[i] = "port",
         ChangeInv(i), Register(i) \/ Step(i) \/ Crash(i),
         \A p \in Old : OldInv(p), ListInv(i), \A p : Touched(p) => Touched(p)'
  PROVE  Mild(i) /\ Fit(i)
  <1>1. i \in Jobs
    BY DEF TypeInv, TypeOK, ConstantsOK
  <1>2. OldInv(Target(i)) /\ KindOf[i] \notin Creating
    BY <1>1, PortTarget
  <1>3. CASE Register(i) \/ Crash(i) \/ EarlyFailure(i)
    BY <1>2, <1>3, PortBegins
  <1>4. CASE Change(i)
    BY <1>2, <1>4, ReadFits, ListFits, DropPortFits, DropRowFits, FillFits DEF Change
  <1>5. CASE Ports(i)
    <2>1. CASE ReconcileSkip(i) \/ ReconcileList(i) \/ ReconcileDelete(i)
      BY <1>2, <2>1, ReconcileFits
    <2> QED BY <1>2, <1>5, <2>1, AllocatePort, ServicePort, ServingPort DEF Ports
  <1>6. CASE Create(i) \/ Remove(i) \/ Home(i)
    <2>1. \/ loc[i].pc \in {"home", "node"} \cup (MakePCs \ PortPCs)
          \/ loc[i].pc \in Handing \cup {"gone", "homePods", "homeJobs", "homeDelete"}
      BY <1>6 DEF Create, RestoreHome, ProvisionNode, MigrateNode, BuildStart, DeployKeytab,
                  ClearPending, UndoBuild, CreatePod, PodMade, WaitReady, ServicesStart,
                  CleanServices, CleanRows, CleanPod, CleanBlind, Remove, DropServices, DropRows, DropPod,
                  Gone, Keys, RemoveKeytab, Home, HomePods, HomeJobs, HomeDelete, At,
                  MakePCs, PortPCs, Handing
    <2> QED BY <1>1, <2>1, KindAt DEF Creating
  <1> QED BY <1>3, <1>4, <1>5, <1>6 DEF Step

LEMMA RestFits ==
  ASSUME ConstantsOK, TypeInv, NEW i \in mix, KindOf[i] \notin Creating \cup {"port"},
         Register(i) \/ Step(i) \/ Crash(i)
  PROVE  Mild(i) /\ Fit(i)
  <1>1. i \in Jobs
    BY DEF TypeInv, TypeOK, ConstantsOK
  <1>2. Fit(i)
    BY DEF Fit
  <1>3. CASE Remove(i)
    BY <1>3, DropFits
  <1>4. CASE Register(i) \/ Crash(i) \/ EarlyFailure(i) \/ Home(i)
    <2>1. UNCHANGED <<rows, svcs, aged>>
      <3>1. CASE Crash(i)
        BY <1>1, <3>1, CrashHurt DEF Crash
      <3> QED BY <1>4, <3>1
              DEF Register, EarlyFailure, Home, HomePods, HomeJobs, HomeDelete, ports
    <2>2. loc'[i].pc \notin {"new", "stale"}
      <3>1. CASE Register(i)
        <4>1. KindOf[i] \in Kinds
          BY <1>1 DEF ConstantsOK
        <4>2. loc'[i].pc = First(KindOf[i])
          BY <1>1, <3>1, RegisterOK DEF Moves
        <4> QED BY <4>1, <4>2 DEF First, Kinds
      <3>2. CASE Crash(i)
        <4>1. Running(i)
          BY <3>2 DEF Crash
        <4> QED BY <1>1, <3>2, <4>1, ResumedAt, CrashHurt
      <3>3. CASE EarlyFailure(i)
        <4>1. loc[i].pc \in {"home", "node", "read", "list", "homePods", "homeJobs"}
          BY <3>3 DEF EarlyFailure
        <4>2. \E pc \in {"read", "homePods", loc[i].pc} : Again(i, loc[i], pc)
          BY <3>3 DEF EarlyFailure
        <4> QED BY <1>1, <4>1, <4>2, AgainHurt, Memory
      <3>4. CASE Home(i)
        <4>1. \/ End(i, "fail") \/ End(i, "ok") \/ Go(i, "homeJobs") \/ Go(i, "homeDelete")
              \/ Again(i, loc[i], "homePods")
          BY <3>4 DEF Home, HomePods, HomeJobs, HomeUnused, HomeDelete
        <4> QED BY <1>1, <4>1, EndHurt, GoAt, AgainHurt, Memory
      <3> QED BY <1>4, <3>1, <3>2, <3>3, <3>4
    <2> QED BY <1>2, <2>1, <2>2, MildStill
  <1>5. CASE Create(i) \/ Ports(i) \/ Change(i)
    <2>1. loc[i].pc \in {"home", "node", "read", "list", "dropPort", "fill"} \cup MakePCs
      BY <1>5 DEF Create, RestoreHome, ProvisionNode, MigrateNode, BuildStart, DeployKeytab,
                  ClearPending, UndoBuild, CreatePod, PodMade, WaitReady, ServicesStart,
                  CleanServices, CleanRows, CleanPod, CleanBlind, Ports, ReconcileSkip,
                  ReconcileList, ReconcileDelete, Allocate, CreateService, Serving, Change, ReadPod,
                  ListServices, DropPort, DropPortRow, Fill, At, MakePCs
    <2> QED BY <1>1, <2>1, KindAt DEF Creating
  <1> QED BY <1>2, <1>3, <1>4, <1>5 DEF Step

\* no step of a job leads back to the state before its registration
LEMMA Begun ==
  ASSUME ConstantsOK, TypeInv, NEW i \in Jobs, Register(i) \/ Step(i) \/ Crash(i)
  PROVE  loc'[i].pc # "new"
  <1>1. loc[i] \in Local
    BY Memory
  <1>2. CASE Register(i)
    <2>1. KindOf[i] \in Kinds
      BY DEF ConstantsOK
    <2>2. loc'[i].pc = First(KindOf[i])
      BY <1>2, RegisterOK DEF Moves
    <2> QED BY <2>1, <2>2 DEF First, Kinds
  <1>3. CASE Crash(i)
    <2>1. Running(i)
      BY <1>3 DEF Crash
    <2> QED BY <1>3, <2>1, ResumedAt, CrashHurt
  <1>4. CASE EarlyFailure(i)
    <2>1. loc[i].pc \in {"home", "node", "read", "list", "homePods", "homeJobs"}
      BY <1>4 DEF EarlyFailure
    <2>2. \E pc \in {"read", "homePods", loc[i].pc} : Again(i, loc[i], pc)
      BY <1>4 DEF EarlyFailure
    <2> QED BY <1>1, <2>1, <2>2, AgainHurt
  <1>5. CASE Create(i)
    <2>1. loc'[i].pc \in {"node", "build", "reconcile", "clear", "undo", "pod", "made", "cleanRows",
                          "wait", "services", "service", "cleanPod", "cleanBlind", "fail"}
      BY <1>5, RestoreHomeOK, NodeOK, BuildStartOK, DeployKeytabOK, ClearPendingOK, UndoBuildOK,
         CreatePodOK, PodMadeOK, WaitReadyOK, ServicesStartOK, CleanServicesOK, CleanRowsOK,
         CleanPodOK, CleanBlindOK DEF Create, Moves
    <2> QED BY <2>1
  <1>6. CASE Ports(i)
    <2>1. loc'[i].pc \in {"alloc", "stale", "read", "build", "fill", "deploy", "fail", "service",
                          "cleanServices", "dropServices", "ok"}
      BY <1>6, ReconcileSkipOK, ReconcileListOK, ReconcileDeleteOK, AllocateOK, CreateServiceOK,
         ServingOK DEF Ports, Moves
    <2> QED BY <2>1
  <1>7. CASE Remove(i)
    <2>1. loc'[i].pc \in Handing \cup {"gone", "ok", "fail"}
      BY <1>7, DropServicesOK, DropRowsOK, DropPodOK, GoneOK, KeysOK, RemoveKeytabOK
      DEF Moves, Remove, Handing
    <2> QED BY <2>1 DEF Handing
  <1>8. CASE Home(i)
    <2>1. \/ End(i, "fail") \/ End(i, "ok") \/ Go(i, "homeJobs") \/ Go(i, "homeDelete")
          \/ Again(i, loc[i], "homePods")
      BY <1>8 DEF Home, HomePods, HomeJobs, HomeUnused, HomeDelete
    <2> QED BY <1>1, <2>1, EndHurt, GoAt, AgainHurt
  <1>9. CASE Change(i)
    <2>1. loc'[i].pc \in PortPCs \cup {"fail"}
      <3>1. CASE ReadPod(i)
        BY <3>1, ReadPodOK DEF Moves, PortPCs
      <3>2. CASE ListServices(i)
        BY <3>2, ListServicesOK DEF Moves, PortPCs
      <3>3. CASE DropPort(i)
        BY <3>3, DropPortOK DEF Moves, PortPCs
      <3>4. CASE DropPortRow(i)
        BY <3>4, DropPortRowOK DEF Moves, PortPCs
      <3>5. CASE Fill(i)
        BY <3>5, FillOK DEF Moves, PortPCs
      <3> QED BY <1>9, <3>1, <3>2, <3>3, <3>4, <3>5 DEF Change
    <2> QED BY <2>1 DEF PortPCs
  <1> QED BY <1>2, <1>3, <1>4, <1>5, <1>6, <1>7, <1>8, <1>9 DEF Step

-----------------------------------------------------------------------------
(* The invariant *)

LEMMA TableStep ==
  ASSUME ConstantsOK, Base # {}, TypeInv, TableInv,
         NEW i \in Jobs, Register(i) \/ Step(i) \/ Crash(i)
  PROVE  /\ Mild(i) /\ Fit(i)
         /\ \A p : Touched(p) => Touched(p)'
  <1>1. i \in mix /\ mix' = mix /\ mix \subseteq Jobs
    BY OfThisMix DEF TypeInv, TypeOK, ConstantsOK
  <1>2. \A k \in Jobs \ {i} : loc'[k] = loc[k]
    BY StepMoves
  <1>3. loc'[i].pc # "new"
    BY Begun
  <1>4. \A p : Touched(p) => Touched(p)'
    BY <1>1, <1>2, <1>3, TouchedStays
  <1>5. /\ MadeInv(i) /\ ListInv(i) /\ (KindOf[i] = "port" => ChangeInv(i))
        /\ \A p \in Old : OldInv(p)
    BY <1>1 DEF TableInv
  <1>6. Mild(i) /\ Fit(i)
    <2>1. CASE KindOf[i] \in Creating
      BY <1>1, <1>4, <1>5, <2>1, CreationFits
    <2>2. CASE KindOf[i] = "port"
      BY <1>1, <1>4, <1>5, <2>2, PortFits
    <2>3. CASE KindOf[i] \notin Creating \cup {"port"}
      BY <1>1, <2>3, RestFits
    <2> QED BY <2>1, <2>2, <2>3
  <1> QED BY <1>4, <1>6

\* who takes a step is at work, or begins
LEMMA AtWork ==
  ASSUME NEW i \in Jobs, Step(i) \/ Crash(i) PROVE Running(i)
  <1>1. CASE Crash(i)
    BY <1>1 DEF Crash
  <1>2. CASE Step(i)
    <2>1. loc[i].pc \notin Final \cup {"new"}
      BY <1>2 DEF Step, Create, RestoreHome, ProvisionNode, MigrateNode, BuildStart,
                  DeployKeytab, ClearPending, UndoBuild, CreatePod, PodMade, WaitReady,
                  ServicesStart, CleanServices, CleanRows, CleanPod, CleanBlind, Ports,
                  ReconcileSkip, ReconcileList, ReconcileDelete, Allocate, CreateService, Serving, Remove,
                  DropServices, DropRows, DropPod, Gone, Keys, RemoveKeytab, Change, ReadPod,
                  ListServices, DropPort, DropPortRow, Fill, Home, HomePods, HomeJobs,
                  HomeDelete, EarlyFailure, At, Final
    <2> QED BY <2>1 DEF Running
  <1> QED BY <1>1, <1>2

LEMMA TableByJob ==
  ASSUME ConstantsOK, ~Overlap, Base # {}, TypeInv, TableInv,
         NEW i \in Jobs, Register(i) \/ Step(i) \/ Crash(i)
  PROVE  TableInv'
  <1>1. i \in mix /\ mix' = mix /\ mix \subseteq Jobs
    BY OfThisMix DEF TypeInv, TypeOK, ConstantsOK
  <1>2. \A k \in Jobs \ {i} : loc'[k] = loc[k]
    BY StepMoves
  <1>4. \A p : Touched(p) => Touched(p)'
    BY TableStep
  <1>5. \A p \in Old : OldInv(p)
    BY DEF TableInv
  <1>6. Mild(i) /\ Fit(i)
    BY TableStep
  <1>7. Running(i) \/ Register(i)
    BY AtWork
  <1>8. ASSUME NEW j \in Jobs PROVE MadeInv(j)'
    <2>1. CASE j = i /\ KindOf[i] \in Creating
      BY <1>6, <2>1 DEF Fit
    <2>2. CASE ~(j = i /\ KindOf[i] \in Creating)
      <3>1. MadeInv(j) /\ (loc'[j] = loc[j] \/ KindOf[j] \notin Creating)
        BY <1>2, <2>2 DEF TableInv
      <3> QED BY <1>6, <2>2, <3>1, OthersMade
    <2> QED BY <2>1, <2>2
  <1>9. ASSUME NEW k \in mix PROVE ListInv(k)'
    <2>1. CASE k = i
      <3>1. loc'[i].pc = "stale" => ListInv(i)'
        BY <1>6 DEF Mild
      <3>2. loc'[i].pc # "stale" => ListInv(i)'
        BY DEF ListInv
      <3> QED BY <2>1, <3>1, <3>2
    <2>2. CASE k # i
      BY <1>1, <1>2, <1>6, <2>2, OthersList DEF TableInv
    <2> QED BY <2>1, <2>2
  <1>10. ASSUME NEW p \in Old PROVE OldInv(p)'
    <2>1. CASE p \notin Own(i)
      BY <1>1, <1>2, <1>5, <1>6, <2>1, OthersOld
    <2>2. CASE p \in Own(i)
      <3>1. KindOf[i] = "port" /\ p = Target(i)
        BY <2>2 DEF Own, PodOf, Target, Creating, ConstantsOK
      <3>2. CASE Touched(p)
        <4>1. Touched(p)'
          BY <1>4, <3>2
        <4> QED BY <4>1 DEF OldInv
      <3>3. CASE ~Touched(p)
        BY <1>6, <3>1, <3>3 DEF Fit, Target, OldInv
      <3> QED BY <3>2, <3>3
    <2> QED BY <2>1, <2>2
  <1>11. TurnInv'
    <2>1. \/ Running(i)
          \/ \A j \in Jobs \ {i} : Running(j) /\ KindOf[i] \in Targeting
                                    /\ KindOf[j] \in Targeting => TargetOf[i] # TargetOf[j]
      <3>1. CASE Running(i)
        BY <3>1
      <3>2. CASE Register(i)
        BY <3>2 DEF Register
      <3> QED BY <1>7, <3>1, <3>2
    <2> QED BY <1>1, <1>2, <2>1, OthersTurn DEF TableInv
  <1>12. ASSUME NEW j \in mix PROVE ChangeInv(j)'
    <2>1. CASE KindOf[j] # "port"
      BY <2>1 DEF ChangeInv
    <2>2. CASE KindOf[j] = "port" /\ j = i
      <3>1. CASE Touched(Target(i))
        <4>1. Touched(Target(i))'
          BY <1>4, <3>1 DEF Target
        <4> QED BY <2>2, <4>1 DEF ChangeInv
      <3>2. CASE ~Touched(Target(i))
        BY <1>6, <2>2, <3>2 DEF Fit
      <3> QED BY <3>1, <3>2
    <2>3. CASE KindOf[j] = "port" /\ j # i
      <3>1. Running(i) \/ UNCHANGED <<rows, svcs>>
        BY <1>7 DEF Register, ports
      <3> QED BY <1>1, <1>2, <1>6, <2>3, <3>1, OthersChange DEF TableInv
    <2> QED BY <2>1, <2>2, <2>3
  <1> QED BY <1>1, <1>8, <1>9, <1>10, <1>11, <1>12 DEF TableInv

LEMMA TableByWorld ==
  ASSUME TableInv, UNCHANGED <<mix, rows, svcs, loc>>,
         \A p \in aged' \ aged : /\ ~InFlight(p)
                                 /\ \A j \in mix : loc[j].pc = "stale" => p \in loc[j].pods
  PROVE  TableInv'
  <1>1. /\ \A p : RowsOf(p)' = RowsOf(p) /\ SvcsOf(p)' = SvcsOf(p)
        /\ \A p : Touched(p)' = Touched(p)
        /\ \A p : Quiet(p)' = Quiet(p)
        /\ \A j : Running(j)' = Running(j) /\ InFlight(j)' = InFlight(j)
    BY DEF RowsOf, SvcsOf, Touched, Quiet, Running, InFlight, Target
  <1>2. ASSUME NEW j \in Jobs PROVE MadeInv(j)'
    BY <1>1 DEF TableInv, MadeInv
  <1>3. ASSUME NEW k \in mix PROVE ListInv(k)'
    <2>1. SUFFICES ASSUME loc[k].pc = "stale", NEW p \in aged' \ loc[k].pods
                   PROVE  IF p \in Jobs THEN SvcsOf(p)' = {} ELSE Touched(p)'
      BY DEF ListInv
    <2>2. p \in aged \ loc[k].pods
      BY <2>1
    <2>3. IF p \in Jobs THEN SvcsOf(p) = {} ELSE Touched(p)
      BY <2>1, <2>2 DEF TableInv, ListInv
    <2> QED BY <1>1, <2>3
  <1>4. ASSUME NEW p \in Old PROVE OldInv(p)'
    BY <1>1 DEF TableInv, OldInv
  <1>5. ASSUME NEW j \in mix PROVE ChangeInv(j)'
    BY <1>1 DEF TableInv, ChangeInv, Target
  <1>6. TurnInv'
    BY <1>1 DEF TableInv, TurnInv, Target
  <1> QED BY <1>2, <1>3, <1>4, <1>5, <1>6 DEF TableInv

LEMMA TableStart == ASSUME ConstantsOK, Init PROVE TableInv
  <1>1. /\ \A j \in Jobs : loc[j].pc = "new" /\ ~loc[j].made
        /\ mix \subseteq Jobs /\ Jobs \cap Old = {}
    BY DEF Init, Blank, ConstantsOK
  <1>2. rows = {r \in Row : r.pod \in Old /\ r.iport \in DOMAIN OldPorts[r.pod]
                            /\ r.nport = OldPorts[r.pod][r.iport] /\ r.node = OldNode[r.pod]}
        /\ svcs = {[pod |-> r.pod, iport |-> r.iport, nport |-> r.nport] : r \in rows}
    BY DEF Init
  <1>3. ASSUME NEW p, p \notin Old PROVE RowsOf(p) = {} /\ SvcsOf(p) = {}
    BY <1>2, <1>3 DEF RowsOf, SvcsOf
  <1>4. ASSUME NEW j \in Jobs PROVE MadeInv(j)
    <2>1. RowsOf(j) = {} /\ SvcsOf(j) = {}
      BY <1>1, <1>3
    <2>2. RecordOK(loc[j], RowsOf(j), SvcsOf(j)) /\ ~InFlight(j)
      BY <1>1, <2>1 DEF RecordOK, Freed, Packed, Done, Handing, InFlight
    <2> QED BY <1>1, <2>1, <2>2 DEF MadeInv
  <1>5. ASSUME NEW p \in Old PROVE OldInv(p)
    <2>1. p \in PodNames /\ OldNode[p] \in Nodes
      BY DEF PodNames, ConstantsOK
    <2>2. Base \subseteq Inner(SvcsOf(p))
      <3>1. ASSUME NEW b \in Base PROVE b \in Inner(SvcsOf(p))
        <4>1. b \in DOMAIN OldPorts[p] /\ OldPorts[p][b] \in NodePorts /\ b \in InPorts
          BY DEF ConstantsOK, InPorts
        <4>2. PICK r : r = [pod |-> p, iport |-> b, nport |-> OldPorts[p][b], node |-> OldNode[p]]
          OBVIOUS
        <4>3. r \in Row
          BY <2>1, <4>1, <4>2 DEF Row
        <4>4. r \in rows
          BY <1>2, <4>1, <4>2, <4>3
        <4>5. PICK s : s = [pod |-> r.pod, iport |-> r.iport, nport |-> r.nport]
          OBVIOUS
        <4>6. s \in SvcsOf(p) /\ s.iport = b
          BY <1>2, <4>2, <4>4, <4>5 DEF SvcsOf
        <4> QED BY <4>6 DEF Inner
      <3> QED BY <3>1
    <2>3. ASSUME NEW r \in RowsOf(p)
          PROVE  [iport |-> r.iport, nport |-> r.nport] \in Pairs(SvcsOf(p))
      <3>1. PICK s : s = [pod |-> r.pod, iport |-> r.iport, nport |-> r.nport]
        OBVIOUS
      <3>2. s \in SvcsOf(p) /\ s.iport = r.iport /\ s.nport = r.nport
        BY <1>2, <2>3, <3>1 DEF SvcsOf, RowsOf
      <3> QED BY <3>2, PairsOf
    <2>4. ASSUME NEW s \in SvcsOf(p)
          PROVE  [iport |-> s.iport, nport |-> s.nport] \in Pairs(RowsOf(p))
      <3>1. PICK r \in rows : s = [pod |-> r.pod, iport |-> r.iport, nport |-> r.nport]
        BY <1>2, <2>4 DEF SvcsOf
      <3>2. r \in RowsOf(p) /\ s.iport = r.iport /\ s.nport = r.nport
        BY <2>4, <3>1 DEF SvcsOf, RowsOf
      <3> QED BY <3>2, PairsOf
    <2>5. Pairs(RowsOf(p)) \subseteq Pairs(SvcsOf(p)) /\ Pairs(SvcsOf(p)) \subseteq Pairs(RowsOf(p))
      BY <2>3, <2>4, PairsOf
    <2>6. \A r, t \in RowsOf(p) : r.iport = t.iport => r.nport = t.nport
      BY <1>2 DEF RowsOf
    <2> QED BY <2>2, <2>5, <2>6 DEF OldInv
  <1>6. \A k \in mix : ListInv(k)
    BY <1>1 DEF ListInv
  <1>7. \A j \in mix : ChangeInv(j)
    BY <1>1 DEF ChangeInv, ChangeOK
  <1>8. TurnInv
    BY <1>1 DEF TurnInv, Running
  <1> QED BY <1>4, <1>5, <1>6, <1>7, <1>8 DEF TableInv

LEMMA NextTable ==
  ASSUME ConstantsOK, ~Overlap, GraceCovers, Base # {}, TypeInv, TableInv, [Next]_vars
  PROVE  TableInv'
  <1>1. CASE UNCHANGED vars
    BY <1>1, TableByWorld DEF vars, ports
  <1>2. ASSUME NEW i \in Jobs, Register(i) \/ Step(i) \/ Crash(i) PROVE TableInv'
    BY <1>2, TableByJob
  <1>3. CASE Cron \/ CronDies
    <2>1. UNCHANGED <<mix, ports, loc>>
      BY <1>3 DEF Cron, CronList, CronClaim, CronCheck, CronRemove, CronDone, CronDies
    <2> QED BY <2>1, TableByWorld DEF ports
  <1>4. ASSUME NEW p \in PodNames, PodGone(p) PROVE TableInv'
    BY <1>4, TableByWorld DEF PodGone, ports
  <1>5. ASSUME NEW p \in PodNames, AgeOut(p) PROVE TableInv'
    BY <1>5, TableByWorld DEF AgeOut
  <1> QED BY <1>1, <1>2, <1>3, <1>4, <1>5 DEF Next

\* When the jobs on a Pod are over, the table and the Services name the same
\* ports, however many calls failed, controllers died and jobs of other Pods
\* reconciled the table meanwhile: a creation records all its ports before it
\* opens one, a clean-up takes both away or is known to have failed, a port
\* change closes before it releases and opens what the table has, and
\* _NODEPORT_STALE_GRACE_SEC keeps a reconciliation from the rows of a Pod
\* that is coming.
THEOREM RecordedIsServed ==
  ASSUME ~Overlap, GraceCovers, Base # {} PROVE Spec => []ServedAsRecorded
  <1>1. Init => TableInv
    BY ConstantsOK, TableStart
  <1>2. TypeInv /\ TableInv /\ [Next]_vars => TableInv'
    BY ConstantsOK, NextTable
  <1>3. TypeInv /\ TableInv => ServedAsRecorded
    <2>1. ASSUME TypeInv, TableInv, NEW p \in PodNames, Settled(p)
          PROVE  Pairs(RowsOf(p)) = Pairs(SvcsOf(p))
      <3>1. CASE p \in Jobs
        <4>1. MadeInv(p) /\ loc[p].pc = "ok" /\ ~loc[p].hurt
          BY <2>1, <3>1 DEF TableInv, Settled
        <4>2. CASE KindOf[p] \in Creating
          BY <4>1, <4>2 DEF MadeInv, RecordOK, Done
        <4>3. CASE KindOf[p] \notin Creating
          BY <4>1, <4>3 DEF MadeInv, Pairs
        <4> QED BY <4>2, <4>3
      <3>2. CASE p \in Old
        <4>1. ~Touched(p) /\ Quiet(p)
          BY <2>1 DEF Settled, Touched, Quiet, Removers, Targeting
        <4> QED BY <2>1, <3>2, <4>1 DEF TableInv, OldInv
      <3> QED BY <3>1, <3>2 DEF PodNames
    <2> QED BY <2>1 DEF ServedAsRecorded
  <1> QED BY <1>1, <1>2, <1>3, Types, PTL DEF Spec

-----------------------------------------------------------------------------
(* What failed creations and removals leave                                *)

\* where a creation has no Pod up, and where it has no rows
Podless == {"new", "home", "node", "build", "undo", "deploy", "clear", "pod", "cleanBlind",
            "fail"} \cup Freed
Rowless == {"new", "home", "node", "cleanPod", "fail"} \cup Freed
Opened  == {"wait", "services", "service", "cleanServices"}

MakeLeft(j) ==
  /\ loc[j].pc \in Opened => loc[j].made
  /\ ~loc[j].hurt =>
       /\ loc[j].pc \in Podless          => pods[j].st # "up"
       /\ loc[j].pc \in Rowless          => RowsOf(j) = {}
       /\ loc[j].pc \in Shut \cup {"fail"} => SvcsOf(j) = {}

DropLeft(j) ==
  /\ loc[j].pc \in {"dropRows", "dropPod", "gone", "keys", "remove", "ok"} =>
       SvcsOf(Target(j)) = {}
  /\ loc[j].pc \in {"dropPod", "gone", "keys", "remove", "ok"} =>
       RowsOf(Target(j)) = {}
  /\ loc[j].pc \in {"keys", "remove", "ok"} => pods[Target(j)].st # "up"

\* after a removal a port change of the Pod gets no further than its first read
ChangeIdle(j, i) ==
  KindOf[i] = "port" /\ Target(i) = Target(j) /\ loc[j].pc = "ok" =>
    loc[i].pc \in {"new", "read", "ok", "fail"}

LeftInv ==
  /\ TurnInv
  /\ \A j \in mix : /\ KindOf[j] \in Creating => MakeLeft(j)
                    /\ KindOf[j] \in {"revoke", "delete"} =>
                         DropLeft(j) /\ \A i \in mix : ChangeIdle(j, i)

-----------------------------------------------------------------------------
(* What a step takes and gives                                             *)

\* Pod p gets no row, no Service, and does not come up
Wanes(p) ==
  /\ RowsOf(p)' \subseteq RowsOf(p) /\ SvcsOf(p)' \subseteq SvcsOf(p)
  /\ pods'[p].st = "up" => pods[p].st = "up"

\* what a step of job i makes: rows in an allocation, a Service, or its Pod
Gives(i) ==
  /\ rows' \subseteq rows \/ loc[i].pc = "alloc"
  /\ svcs' \subseteq svcs \/ loc[i].pc = "service"
  /\ \A r \in rows' \ rows : r.pod = PodOf(i)
  /\ \A s \in svcs' \ svcs : s.pod = PodOf(i)
  /\ \A p \in PodNames : pods'[p].st = "up" => pods[p].st = "up" \/ (p = i /\ loc[i].pc = "pod")

LEMMA GivesNothing ==
  ASSUME NEW i, rows' \subseteq rows, svcs' \subseteq svcs, pods' = pods PROVE Gives(i)
  BY DEF Gives

LEMMA TermOnly ==
  ASSUME TypeInv, NEW q \in PodNames, NEW p \in PodNames,
         pods' = [pods EXCEPT ![q].st = "term"] \/ pods' = pods,
         pods'[p].st = "up"
  PROVE  pods[p].st = "up"
  <1>1. pods \in [PodNames -> [st: {"none", "up", "term"}, node: Nodes \cup {"none"}]]
    BY DEF TypeInv, TypeOK
  <1>2. CASE pods' = pods
    BY <1>2
  <1>3. CASE pods' = [pods EXCEPT ![q].st = "term"]
    <2>1. p # q
      BY <1>1, <1>3
    <2> QED BY <1>1, <1>3, <2>1
  <1> QED BY <1>2, <1>3

LEMMA StepGives ==
  ASSUME ConstantsOK, TypeInv, NEW i \in Jobs, Register(i) \/ Step(i) \/ Crash(i)
  PROVE  Gives(i)
  <1>0. i \in PodNames
    BY DEF PodNames
  <1>1. CASE Register(i) \/ Crash(i) \/ EarlyFailure(i) \/ Home(i)
    <2>1. CASE Crash(i)
      <3>1. svcs' \subseteq svcs /\ UNCHANGED <<rows, pods>>
        BY <2>1, CrashHurt DEF Crash
      <3> QED BY <3>1, GivesNothing
    <2>2. CASE ~Crash(i)
      <3>1. UNCHANGED <<rows, svcs, pods>>
        BY <1>1, <2>2 DEF Register, EarlyFailure, Home, HomePods, HomeJobs, HomeDelete, ports
      <3> QED BY <3>1, GivesNothing
    <2> QED BY <2>1, <2>2
  <1>2. CASE Change(i)
    <2>1. pods' = pods /\ rows' \subseteq rows /\ svcs' \subseteq svcs
      BY <1>2 DEF Change, ReadPod, ListServices, DropPort, DropPortRow, Fill, ports
    <2> QED BY <2>1, GivesNothing
  <1>3. CASE Remove(i)
    <2>1. rows' \subseteq rows /\ svcs' \subseteq svcs
      BY <1>3 DEF Remove, DropServices, DropRows, DropPod, Gone, Keys, RemoveKeytab, ports
    <2>2. pods' = pods \/ pods' = [pods EXCEPT ![Target(i)].st = "term"]
      BY <1>3 DEF Remove, DropServices, DropRows, DropPod, Gone, Keys, RemoveKeytab
    <2>3. Target(i) \in PodNames
      <3>1. loc[i].pc \in Handing \cup {"gone"}
        BY <1>3 DEF Remove, DropServices, DropRows, DropPod, Gone, Keys, RemoveKeytab, At, Handing
      <3> QED BY <3>1, Dropping
    <2>4. \A p \in PodNames : pods'[p].st = "up" => pods[p].st = "up"
      BY <2>2, <2>3, TermOnly
    <2> QED BY <2>1, <2>4 DEF Gives
  <1>4. CASE Create(i)
    <2>1. CASE \/ RestoreHome(i) \/ ProvisionNode(i) \/ MigrateNode(i) \/ BuildStart(i)
               \/ DeployKeytab(i) \/ ClearPending(i) \/ UndoBuild(i) \/ PodMade(i)
               \/ WaitReady(i) \/ ServicesStart(i) \/ CleanServices(i) \/ CleanRows(i)
               \/ CleanBlind(i)
      <3>1. pods' = pods /\ rows' \subseteq rows /\ svcs' \subseteq svcs
        BY <2>1 DEF RestoreHome, ProvisionNode, MigrateNode, BuildStart, DeployKeytab,
                    ClearPending, UndoBuild, PodMade, WaitReady, ServicesStart,
                    CleanServices, CleanRows, CleanBlind, ports
      <3> QED BY <3>1, GivesNothing
    <2>2. CASE CleanPod(i)
      <3>1. UNCHANGED <<rows, svcs>>
            /\ (pods' = pods \/ pods' = [pods EXCEPT ![i].st = "term"])
        BY <2>2 DEF CleanPod, ports
      <3>2. \A p \in PodNames : pods'[p].st = "up" => pods[p].st = "up"
        BY <1>0, <3>1, TermOnly
      <3> QED BY <3>1, <3>2 DEF Gives
    <2>3. CASE CreatePod(i)
      <3>1. /\ UNCHANGED <<rows, svcs>> /\ loc[i].pc = "pod"
            /\ \/ pods' = pods
               \/ pods' = [pods EXCEPT ![i] = [st |-> "up", node |-> loc[i].node]]
        BY <2>3 DEF CreatePod, ports, At
      <3>2. \A p \in PodNames \ {i} : pods'[p] = pods[p]
        BY <3>1 DEF TypeInv, TypeOK
      <3> QED BY <3>1, <3>2 DEF Gives
    <2> QED BY <1>4, <2>1, <2>2, <2>3 DEF Create
  <1>5. CASE Ports(i)
    <2>1. CASE ReconcileSkip(i) \/ ReconcileList(i) \/ ReconcileDelete(i) \/ Serving(i)
      <3>1. pods' = pods /\ rows' \subseteq rows /\ svcs' \subseteq svcs
        BY <2>1 DEF ReconcileSkip, ReconcileList, ReconcileDelete, Serving, ports
      <3> QED BY <3>1, GivesNothing
    <2>2. CASE Allocate(i)
      <3>1. UNCHANGED <<svcs, pods>> /\ loc[i].pc = "alloc"
        BY <2>2 DEF Allocate, At
      <3>2. rows' = rows \/ \E f : rows' = rows \cup Granted(i, f)
        BY <2>2, AllocateCases
      <3>3. \A r \in rows' \ rows : r.pod = PodOf(i)
        BY <3>2, GrantRows
      <3> QED BY <3>1, <3>3 DEF Gives
    <2>3. CASE CreateService(i)
      <3>1. UNCHANGED <<rows, pods>> /\ loc[i].pc = "service"
        BY <2>3 DEF CreateService, At
      <3>2. svcs' = svcs \/ \E x : svcs' = svcs \cup {SvcFor(i, x)}
        BY <2>3, CreateServiceCases
      <3>3. \A s \in svcs' \ svcs : s.pod = PodOf(i)
        BY <3>2 DEF SvcFor
      <3> QED BY <3>1, <3>3 DEF Gives
    <2> QED BY <1>5, <2>1, <2>2, <2>3 DEF Ports
  <1> QED BY <1>1, <1>2, <1>3, <1>4, <1>5 DEF Step

\* the other Pods wane
LEMMA OthersWane ==
  ASSUME NEW i, Gives(i), NEW p \in PodNames, p # i \/ loc[i].pc # "pod",
         p # PodOf(i) \/ loc[i].pc \notin {"alloc", "service"}
  PROVE  Wanes(p)
  BY DEF Gives, Wanes, RowsOf, SvcsOf

LEMMA OthersMakeLeft ==
  ASSUME ConstantsOK, TypeInv, NEW i \in Jobs, NEW j \in Jobs, j # i, Gives(i), loc'[j] = loc[j],
         KindOf[j] \in Creating, MakeLeft(j)
  PROVE  MakeLeft(j)'
  <1>1. j \in PodNames /\ j # PodOf(i)
    BY DEF PodNames, PodOf, ConstantsOK, Targeting
  <1>2. Wanes(j)
    BY <1>1, OthersWane
  <1> QED BY <1>2 DEF Wanes, MakeLeft

LEMMA OthersDropLeft ==
  ASSUME ConstantsOK, TypeInv, TurnInv, NEW i \in mix, NEW j \in mix, j # i, Gives(i),
         loc'[j] = loc[j], KindOf[j] \in {"revoke", "delete"}, DropLeft(j), ChangeIdle(j, i)
  PROVE  DropLeft(j)'
  <1>1. i \in Jobs /\ j \in Jobs
    BY DEF TypeInv, TypeOK, ConstantsOK
  <1>2. TargetOf[j] \in Old /\ TargetOf[j] \in PodNames /\ TargetOf[j] # i
    BY <1>1 DEF ConstantsOK, Targeting, PodNames
  <1>3. CASE TargetOf[j] # PodOf(i) \/ loc[i].pc \notin {"alloc", "service"}
    <2>1. Wanes(TargetOf[j])
      BY <1>2, <1>3, OthersWane
    <2> QED BY <2>1 DEF Wanes, DropLeft, Target
  <1>4. CASE TargetOf[j] = PodOf(i) /\ loc[i].pc \in {"alloc", "service"}
    <2>1. KindOf[i] = "port" /\ Target(i) = Target(j)
      BY <1>2, <1>4 DEF PodOf, Target
    <2>2. ~Running(j)
      BY <1>4, <2>1 DEF TurnInv, Targeting, Running, Final
    <2>3. loc[j].pc # "ok"
      BY <1>4, <2>1 DEF ChangeIdle
    <2> QED BY <2>2, <2>3 DEF DropLeft, Running, Final
  <1> QED BY <1>3, <1>4

\* a port change that begins when the Pod is not up ends at its first read
LEMMA IdleStays ==
  ASSUME ConstantsOK, TypeInv, NEW i \in Jobs, KindOf[i] = "port", pods[Target(i)].st # "up",
         loc[i].pc \in {"new", "read", "ok", "fail"}, Register(i) \/ Step(i) \/ Crash(i)
  PROVE  loc'[i].pc \in {"read", "fail"}
  <1>1. CASE Register(i)
    BY <1>1, RegisterOK DEF Moves, First
  <1>2. CASE Crash(i)
    <2>1. loc'[i].pc = "fail" \/ loc'[i].pc = ResumeAt(i)
      BY <1>2, CrashHurt
    <2>2. loc[i].pc = "read"
      BY <1>2 DEF Crash, Running, Final
    <2> QED BY <2>1, <2>2 DEF ResumeAt, First
  <1>3. CASE EarlyFailure(i)
    BY <1>3, EarlyFailureOK DEF Moves, EarlyFailure
  <1>4. CASE Step(i) /\ ~EarlyFailure(i)
    <2>1. loc[i].pc \in {"read", "fail", "ok", "new"}
      OBVIOUS
    <2>2. ReadPod(i)
      BY <1>4, <2>1
      DEF Step, Create, RestoreHome, ProvisionNode, MigrateNode, BuildStart,
          DeployKeytab, ClearPending, UndoBuild, CreatePod, PodMade, WaitReady,
          ServicesStart, CleanServices, CleanRows, CleanPod, CleanBlind, Ports,
          ReconcileSkip, ReconcileList, ReconcileDelete, Allocate, CreateService, Serving, Remove,
          DropServices, DropRows, DropPod, Gone, Keys, RemoveKeytab, Change, ReadPod,
          ListServices, DropPort, DropPortRow, Fill, Home, HomePods, HomeJobs,
          HomeDelete, At
    <2>3. End(i, "fail")
      BY <2>2 DEF ReadPod, Target
    <2> QED BY <2>3, EndHurt
  <1> QED BY <1>1, <1>2, <1>3, <1>4

-----------------------------------------------------------------------------
(* The steps of a creation                                                 *)

\* a step that changes nothing outside and leads where no more is said
LEMMA LeftStill ==
  ASSUME NEW i, MakeLeft(i), UNCHANGED <<rows, svcs, pods>>, loc[i].hurt => loc'[i].hurt,
         loc'[i].pc \in Opened => loc'[i].made,
         loc'[i].pc \in Podless => loc[i].pc \in Podless,
         loc'[i].pc \in Rowless => loc[i].pc \in Rowless,
         loc'[i].pc \in Shut \cup {"fail"} => loc[i].pc \in Shut \cup {"fail"}
  PROVE  MakeLeft(i)'
  BY DEF MakeLeft, RowsOf, SvcsOf

LEMMA LeftEarly ==
  ASSUME ConstantsOK, TypeInv, NEW i \in Jobs, KindOf[i] \in Creating, MakeLeft(i),
         \/ Register(i) \/ EarlyFailure(i)
         \/ RestoreHome(i) \/ ProvisionNode(i) \/ MigrateNode(i)
  PROVE  MakeLeft(i)'
  <1>1. UNCHANGED <<rows, svcs, pods>>
    BY DEF Register, EarlyFailure, RestoreHome, ProvisionNode, MigrateNode, ports
  <1>2. loc[i].hurt => loc'[i].hurt
    BY EarlyHurt, MakeHurt
  <1>3. loc[i].pc \in {"new", "home", "node"}
    <2>1. loc[i].pc \in PCsOf(KindOf[i])
      BY Memory DEF MemoryOK
    <2> QED BY <2>1 DEF Register, EarlyFailure, RestoreHome, ProvisionNode, MigrateNode, At,
                        PCsOf, Creating, MakePCs, Handing
  <1>4. loc'[i].pc \in {"home", "node", "build", "fail"}
    <2>1. CASE Register(i)
      <3>1. loc'[i].pc = First(KindOf[i])
        BY <2>1, RegisterOK DEF Moves
      <3> QED BY <3>1 DEF First, Creating
    <2>2. CASE EarlyFailure(i)
      <3>1. loc[i].pc \in {"home", "node"}
        BY <1>3, <2>2 DEF EarlyFailure
      <3>2. loc'[i].pc \in {loc[i].pc, "fail"}
        BY <2>2, <3>1, EarlyFailureOK DEF Moves
      <3> QED BY <3>1, <3>2
    <2>3. CASE RestoreHome(i) \/ ProvisionNode(i) \/ MigrateNode(i)
      BY <2>3, RestoreHomeOK, NodeOK DEF Moves
    <2> QED BY <2>1, <2>2, <2>3
  <1>5. loc[i].pc \in Podless \cap Rowless \cap Shut /\ loc'[i].pc \notin Opened
    BY <1>3, <1>4 DEF Podless, Rowless, Shut, Opened
  <1> QED BY <1>1, <1>2, <1>5, LeftStill

LEMMA LeftBuild ==
  ASSUME ConstantsOK, TypeInv, NEW i \in Jobs, KindOf[i] \in Creating, MakeLeft(i),
         BuildStart(i)
  PROVE  MakeLeft(i)'
  <1>1. UNCHANGED <<svcs, pods>> /\ loc[i].pc = "build"
    BY DEF BuildStart, At
  <1>2. loc'[i].pc = "reconcile"
    BY BuildStartOK DEF Moves
  <1>3. loc[i].hurt => loc'[i].hurt
    BY MakeHurt
  <1>4. ~loc'[i].hurt => RowsOf(i)' = {}
    <2>1. CASE rows' = rows \ RowsOf(i)
      BY <2>1 DEF RowsOf
    <2>2. CASE rows' # rows \ RowsOf(i)
      <3>1. loc'[i] = [loc[i] EXCEPT !.pc = "reconcile", !.hurt = @ \/ RowsOf(i) # {}]
            /\ rows' = rows
        BY <2>2, SetAt DEF BuildStart
      <3>2. loc'[i].hurt = (loc[i].hurt \/ RowsOf(i) # {})
        BY <3>1, Memory DEF Local
      <3> QED BY <3>1, <3>2 DEF RowsOf
    <2> QED BY <2>1, <2>2
  <1>5. loc[i].pc \in Podless \cap Shut /\ loc'[i].pc \notin Opened
    BY <1>1, <1>2 DEF Podless, Shut, Opened
  <1> QED BY <1>1, <1>3, <1>4, <1>5 DEF MakeLeft, SvcsOf

LEMMA LeftReconcile ==
  ASSUME ConstantsOK, TypeInv, NEW i \in Jobs, KindOf[i] \in Creating, MakeLeft(i),
         ReconcileSkip(i) \/ ReconcileList(i) \/ ReconcileDelete(i)
  PROVE  MakeLeft(i)'
  <1>1. UNCHANGED <<svcs, pods>> /\ rows' \subseteq rows
    BY DEF ReconcileSkip, ReconcileList, ReconcileDelete, ports
  <1>2. loc[i].pc \in Freed /\ loc'[i].pc \in Freed /\ loc'[i].hurt = loc[i].hurt
    BY ReconcileMemory
  <1>3. loc[i].pc \in Podless \cap Rowless \cap Shut /\ loc'[i].pc \notin Opened
    BY <1>2 DEF Podless, Rowless, Shut, Opened, Freed
  <1> QED BY <1>1, <1>2, <1>3 DEF MakeLeft, SvcsOf, RowsOf

LEMMA LeftAllocate ==
  ASSUME ConstantsOK, TypeInv, NEW i \in Jobs, KindOf[i] \in Creating, MakeLeft(i), Allocate(i)
  PROVE  MakeLeft(i)'
  <1>1. UNCHANGED <<svcs, pods>> /\ loc[i].pc = "alloc"
    BY DEF Allocate, At
  <1>2. KindOf[i] # "port" /\ Back(i) = "build"
    BY DEF Creating, Back
  <1>3. loc[i].hurt => loc'[i].hurt
    BY PortsHurt
  <1>4. \/ rows' = rows /\ loc'[i].pc \in {"build", "fail"}
        \/ loc'[i].pc = "deploy"
        \/ loc'[i].hurt /\ loc'[i].pc \in {"build", "fail"}
    BY <1>2, AllocateCases
  <1>5. loc[i].pc \in Podless \cap Rowless \cap Shut /\ loc'[i].pc \notin Opened
    BY <1>1, <1>4 DEF Podless, Rowless, Shut, Opened, Freed
  <1>6. "deploy" \notin Rowless
    BY DEF Rowless, Freed
  <1> QED BY <1>1, <1>3, <1>4, <1>5, <1>6 DEF MakeLeft, SvcsOf, RowsOf

LEMMA LeftPod ==
  ASSUME ConstantsOK, TypeInv, NEW i \in Jobs, KindOf[i] \in Creating, MakeLeft(i),
         DeployKeytab(i) \/ ClearPending(i) \/ CreatePod(i) \/ PodMade(i) \/ WaitReady(i)
  PROVE  MakeLeft(i)'
  <1>1. UNCHANGED <<rows, svcs>>
    BY DEF DeployKeytab, ClearPending, CreatePod, PodMade, WaitReady, ports
  <1>2. loc[i].pc \in {"deploy", "clear", "pod", "made", "wait"}
        /\ (pods' = pods \/ CreatePod(i))
    BY DEF DeployKeytab, ClearPending, CreatePod, PodMade, WaitReady, At
  <1>3. loc[i].hurt => loc'[i].hurt
    BY MakeHurt
  <1>4. CASE DeployKeytab(i) \/ ClearPending(i)
    <2>1. loc[i].pc \in {"deploy", "clear"} /\ pods' = pods
      BY <1>4 DEF DeployKeytab, ClearPending, At
    <2>2. loc'[i].pc \in {"undo", "clear", "pod"}
      BY <1>4, DeployKeytabOK, ClearPendingOK DEF Moves
    <2>3. /\ loc[i].pc \in Podless \cap Shut
          /\ loc'[i].pc \notin Opened /\ loc'[i].pc \notin Rowless
      BY <2>1, <2>2 DEF Podless, Rowless, Shut, Opened, Freed, Packed
    <2> QED BY <1>1, <1>3, <2>1, <2>3, LeftStill
  <1>5. CASE CreatePod(i)
    <2>1. loc'[i].pc \in {"made", "cleanRows", "cleanBlind"} /\ loc[i].pc = "pod"
      BY <1>5, CreatePodOK DEF Moves, CreatePod, At
    <2>2. loc'[i].pc \notin Rowless \cup Opened /\ loc[i].pc \in Podless \cap Shut
      BY <2>1 DEF Podless, Rowless, Opened, Freed, Shut, Packed
    <2>3. CASE loc'[i].pc # "cleanBlind"
      <3>1. loc'[i].pc \notin Podless
        BY <2>1, <2>3 DEF Podless, Freed
      <3> QED BY <1>1, <1>3, <2>2, <3>1 DEF MakeLeft, SvcsOf
    <2>4. CASE loc'[i].pc = "cleanBlind"
      <3>1. pods' = pods
        <4>1. \/ pods' = pods
              \/ \E q \in {"cleanRows"} : Clean(i, q, "build")
              \/ Go(i, "made")
          BY <1>5 DEF CreatePod
        <4>2. ASSUME NEW q \in {"cleanRows"}, Clean(i, q, "build") PROVE FALSE
          <5>1. loc'[i].pc = q
            BY <4>2, CleanHurt
          <5> QED BY <2>4, <5>1
        <4>3. ~Go(i, "made")
          BY <2>4, GoAt
        <4> QED BY <4>1, <4>2, <4>3
      <3> QED BY <1>1, <1>3, <2>2, <3>1, LeftStill
    <2> QED BY <2>3, <2>4
  <1>6. CASE PodMade(i)
    <2>1. loc'[i] = [loc[i] EXCEPT !.pc = "wait", !.made = TRUE] /\ pods' = pods
      BY <1>6, SetAt DEF PodMade
    <2>2. loc'[i].pc = "wait" /\ loc'[i].made
      BY <2>1, Memory DEF Local
    <2>3. loc[i].pc \in Shut /\ loc'[i].pc \notin Podless \cup Rowless
      BY <1>2, <2>2 DEF Podless, Rowless, Freed, Shut, Packed
    <2> QED BY <1>1, <1>3, <2>1, <2>2, <2>3, LeftStill
  <1>7. CASE WaitReady(i)
    <2>1. loc[i].pc = "wait" /\ loc[i].made /\ pods' = pods
      BY <1>7 DEF WaitReady, At, MakeLeft, Opened
    <2>2. loc'[i].pc \in {"services", "cleanRows"} /\ (loc'[i].made = loc[i].made)
      BY <1>7, GoAt, CleanHurt DEF WaitReady
    <2>3. loc[i].pc \in Shut /\ loc'[i].pc \notin Podless \cup Rowless
      BY <2>1, <2>2 DEF Podless, Rowless, Freed, Shut, Packed
    <2> QED BY <1>1, <1>3, <2>1, <2>2, <2>3, LeftStill
  <1> QED BY <1>4, <1>5, <1>6, <1>7

LEMMA LeftServices ==
  ASSUME ConstantsOK, TypeInv, NEW i \in Jobs, KindOf[i] \in Creating, MakeLeft(i),
         ServicesStart(i) \/ CreateService(i) \/ Serving(i)
  PROVE  MakeLeft(i)'
  <1>1. loc[i].made
    BY DEF ServicesStart, CreateService, Serving, At, MakeLeft, Opened
  <1>2. CASE Serving(i)
    <2>1. loc'[i].pc \in {"dropServices", "ok"}
      BY <1>2, ServingOK DEF Moves
    <2> QED BY <2>1 DEF MakeLeft, Podless, Rowless, Opened, Freed, Shut, Packed
  <1>3. CASE ServicesStart(i) \/ CreateService(i)
    <2>1. loc'[i].pc \in {"service", "cleanServices"} /\ loc'[i].made = loc[i].made
      <3>1. CASE ServicesStart(i)
        BY <3>1, GoAt DEF ServicesStart
      <3>2. CASE CreateService(i)
        BY <3>2, CreateServiceCases DEF Creating
      <3> QED BY <1>3, <3>1, <3>2
    <2> QED BY <1>1, <2>1 DEF MakeLeft, Podless, Rowless, Opened, Freed, Shut, Packed
  <1> QED BY <1>2, <1>3

\* a swallowed failure stays noted
LEMMA OnwardHurt ==
  ASSUME ConstantsOK, TypeInv, NEW i \in Jobs, NEW h \in Local, h.hurt, Onward(i, h)
  PROVE  loc'[i].hurt
  <1>1. CASE Again(i, h, "build")
    BY <1>1, AgainHurt
  <1>2. CASE Set(i, Over(h, "fail"))
    <2>1. loc'[i] = Over(h, "fail")
      BY <1>2, SetAt
    <2> QED BY <2>1, OverHurt
  <1> QED BY <1>1, <1>2 DEF Onward

LEMMA LeftClean ==
  ASSUME ConstantsOK, TypeInv, NEW i \in Jobs, KindOf[i] \in Creating, MakeLeft(i),
         CleanServices(i) \/ CleanRows(i) \/ UndoBuild(i) \/ CleanBlind(i)
  PROVE  MakeLeft(i)'
  <1>1. pods' = pods
    BY DEF CleanServices, CleanRows, UndoBuild, CleanBlind
  <1>2. loc[i].hurt => loc'[i].hurt
    BY MakeHurt
  <1>3. CASE CleanServices(i)
    <2>1. loc'[i].pc = "cleanRows"
      BY <1>3, CleanServicesOK DEF Moves
    <2>2. loc'[i].hurt \/ SvcsOf(i)' = {}
      <3>1. svcs' = svcs \ SvcsOf(i) \/ loc'[i].hurt
        BY <1>3, SwallowHurt DEF CleanServices
      <3> QED BY <3>1 DEF SvcsOf
    <2> QED BY <2>1, <2>2 DEF MakeLeft, Podless, Rowless, Opened, Freed
  <1>4. CASE CleanRows(i)
    <2>1. loc'[i].pc = "cleanPod" /\ svcs' = svcs /\ loc[i].pc = "cleanRows"
      BY <1>4, CleanRowsOK DEF Moves, CleanRows, At
    <2>2. loc'[i].hurt \/ RowsOf(i)' = {}
      <3>1. rows' = rows \ RowsOf(i) \/ loc'[i].hurt
        BY <1>4, SwallowHurt DEF CleanRows
      <3> QED BY <3>1 DEF RowsOf
    <2> QED BY <1>2, <2>1, <2>2 DEF MakeLeft, Podless, Opened, Freed, Shut, SvcsOf
  <1>5. CASE UndoBuild(i)
    <2>1. loc'[i].pc \in {"build", "fail"} /\ svcs' = svcs /\ loc[i].pc = "undo"
      BY <1>5, UndoBuildOK DEF Moves, UndoBuild, At
    <2>2. loc'[i].hurt \/ RowsOf(i)' = {}
      <3>1. PICK h \in Local : h = [loc[i] EXCEPT !.hurt = TRUE]
        BY Memory, Hurt
      <3>2. h.hurt
        BY <3>1, Memory DEF Local
      <3>3. rows' = rows \ RowsOf(i) \/ Again(i, h, "build")
        BY <1>5, <3>1 DEF UndoBuild
      <3>4. rows' = rows \ RowsOf(i) \/ loc'[i].hurt
        BY <3>2, <3>3, AgainHurt
      <3> QED BY <3>4 DEF RowsOf
    <2>3. loc[i].pc \in Podless \cap Shut /\ loc'[i].pc \notin Opened
      BY <2>1 DEF Podless, Opened, Shut
    <2> QED BY <1>1, <1>2, <2>1, <2>2, <2>3 DEF MakeLeft, SvcsOf
  <1>6. CASE CleanBlind(i)
    <2>1. loc'[i].pc \in {"build", "fail"} /\ svcs' = svcs /\ loc[i].pc = "cleanBlind"
      BY <1>6, CleanBlindOK DEF Moves, CleanBlind, At
    <2>2. loc'[i].hurt \/ RowsOf(i)' = {}
      <3>1. PICK h \in Local : h = [loc[i] EXCEPT !.hurt = TRUE]
        BY Memory, Hurt
      <3>2. h.hurt
        BY <3>1, Memory DEF Local
      <3>3. rows' = rows \ RowsOf(i) \/ Onward(i, h)
        BY <1>6, <3>1 DEF CleanBlind
      <3>4. rows' = rows \ RowsOf(i) \/ loc'[i].hurt
        BY <3>2, <3>3, OnwardHurt
      <3> QED BY <3>4 DEF RowsOf
    <2>3. loc[i].pc \in Podless \cap Shut /\ loc'[i].pc \notin Opened
      BY <2>1 DEF Podless, Opened, Shut
    <2> QED BY <1>1, <1>2, <2>1, <2>2, <2>3 DEF MakeLeft, SvcsOf
  <1> QED BY <1>3, <1>4, <1>5, <1>6

LEMMA LeftCleanPod ==
  ASSUME ConstantsOK, TypeInv, NEW i \in Jobs, KindOf[i] \in Creating, MakeLeft(i), CleanPod(i)
  PROVE  MakeLeft(i)'
  <1>1. UNCHANGED <<rows, svcs>> /\ loc[i].pc = "cleanPod" /\ i \in PodNames
    BY DEF CleanPod, ports, At, PodNames
  <1>2. loc'[i].pc \in {"build", "fail"}
    BY CleanPodOK DEF Moves
  <1>3. loc[i].hurt => loc'[i].hurt
    BY MakeHurt
  <1>4. loc'[i].hurt \/ pods'[i].st # "up"
    <2>1. PICK h \in Local : h = [loc[i] EXCEPT !.hurt = TRUE]
      BY Memory, Hurt
    <2>2. \/ pods' = IF pods[i].st = "up" THEN [pods EXCEPT ![i].st = "term"] ELSE pods
          \/ Onward(i, h)
      BY <2>1 DEF CleanPod
    <2>4. h.hurt
      BY <2>1, Memory DEF Local
    <2>3. CASE pods' = IF pods[i].st = "up" THEN [pods EXCEPT ![i].st = "term"] ELSE pods
      <3>1. pods \in [PodNames -> [st: {"none", "up", "term"}, node: Nodes \cup {"none"}]]
        BY DEF TypeInv, TypeOK
      <3> QED BY <1>1, <2>3, <3>1
    <2> QED BY <2>2, <2>3, <2>4, OnwardHurt
  <1>5. loc[i].pc \in Rowless \cap Shut /\ loc'[i].pc \notin Opened
    BY <1>1, <1>2 DEF Rowless, Opened, Shut
  <1> QED BY <1>1, <1>3, <1>4, <1>5 DEF MakeLeft, SvcsOf, RowsOf

LEMMA LeftCrash ==
  ASSUME ConstantsOK, TypeInv, NEW i \in Jobs, KindOf[i] \in Creating, MakeLeft(i), Crash(i)
  PROVE  MakeLeft(i)'
  <1>1. UNCHANGED <<rows, pods>> /\ Running(i)
    BY DEF Crash
  <1>2. loc[i].hurt => loc'[i].hurt
    BY CrashHurt
  <1>3. CASE loc'[i].pc = "fail" /\ loc'[i].hurt
    BY <1>3 DEF MakeLeft, Opened
  <1>4. CASE /\ loc'[i].pc = ResumeAt(i) /\ svcs' = svcs
             /\ loc[i].made => loc[i].pc \in Handing
             /\ pods[i].st = "up" /\ ~loc[i].made => loc'[i].hurt
    <2>1. CASE loc'[i].pc \in Handing
      BY <2>1 DEF MakeLeft, Podless, Rowless, Opened, Freed, Shut, Packed, Handing
    <2>2. CASE loc'[i].pc \in {"home", "node"}
      <3>1. loc'[i].pc = loc[i].pc
        BY <1>1, <1>4, <2>2, ResumedAt
      <3> QED BY <1>1, <1>2, <1>4, <2>2, <3>1, LeftStill DEF Opened
    <2>3. CASE loc'[i].pc = "build"
      <3>1. loc[i].pc \in MakePCs
        BY <1>1, <1>4, <2>3, ResumedAt
      <3>2. ~loc[i].made
        BY <1>4, <3>1 DEF MakePCs, Handing
      <3>3. ~loc'[i].hurt => pods[i].st # "up"
        BY <1>4, <3>2
      <3>4. loc[i].pc \in Shut
        BY <3>1, <3>2 DEF MakeLeft, Opened, MakePCs, Shut, Packed
      <3>5. "build" \notin Rowless \cup Opened
        BY DEF Rowless, Opened, Freed
      <3> QED BY <1>1, <1>2, <1>4, <2>3, <3>3, <3>4, <3>5 DEF MakeLeft, SvcsOf
    <2>4. loc'[i].pc \in {"home", "node", "build"} \cup Handing
      <3>1. PICK r : r = ResumeAt(i)
        OBVIOUS
      <3>2. r \in PCsOf(KindOf[i]) /\ r \in {"home", "node", "build", "read", "homePods",
                                  "dropServices", "dropRows", "dropPod", "keys"}
        BY <1>1, <3>1, ResumedAt
      <3>3. r \notin {"read", "homePods"}
        BY <3>2 DEF PCsOf, Creating, MakePCs, Handing
      <3> QED BY <1>4, <3>1, <3>2, <3>3 DEF Handing
    <2> QED BY <2>1, <2>2, <2>3, <2>4
  <1> QED BY <1>3, <1>4, CrashHurt

\* a step of a migration at its old Pod leads to the next, or to the end
LEMMA DropToOK ==
  ASSUME ConstantsOK, TypeInv, NEW i \in Jobs, KindOf[i] = "migrate", Remove(i)
  PROVE  loc'[i].pc \in Handing \cup {"ok"}
  <1>1. ASSUME NEW pc, Trip(i, pc) PROVE loc'[i].pc = "ok"
    <2>1. End(i, "ok")
      BY <1>1 DEF Trip
    <2> QED BY <2>1, EndHurt
  <1>2. CASE DropServices(i) \/ DropRows(i) \/ Gone(i) \/ Keys(i) \/ RemoveKeytab(i)
    BY <1>1, <1>2, GoAt, EndHurt DEF DropServices, DropRows, Gone, Keys, RemoveKeytab, Handing
  <1>3. CASE DropPod(i)
    <2>1. Go(i, "keys") \/ Trip(i, "dropPod")
      BY <1>3 DEF DropPod
    <2> QED BY <1>1, <2>1, GoAt DEF Handing
  <1> QED BY <1>2, <1>3 DEF Remove

LEMMA CreationLeft ==
  ASSUME ConstantsOK, TypeInv, NEW i \in Jobs, KindOf[i] \in Creating, MakeLeft(i),
         Register(i) \/ Step(i) \/ Crash(i)
  PROVE  MakeLeft(i)'
  <1>1. CASE Register(i) \/ EarlyFailure(i)
    BY <1>1, LeftEarly
  <1>2. CASE Crash(i)
    BY <1>2, LeftCrash
  <1>3. CASE Create(i)
    BY <1>3, LeftEarly, LeftBuild, LeftPod, LeftServices, LeftClean, LeftCleanPod DEF Create
  <1>4. CASE Ports(i)
    BY <1>4, LeftReconcile, LeftAllocate, LeftServices DEF Ports
  <1>5. CASE Remove(i)
    <2>1. KindOf[i] = "migrate"
      <3>1. loc[i].pc \in Handing \cup {"gone"}
        BY <1>5 DEF Remove, DropServices, DropRows, DropPod, Gone, Keys, RemoveKeytab, At, Handing
      <3> QED BY <3>1, Dropping DEF Creating
    <2>2. loc'[i].pc \in Handing \cup {"ok"}
      BY <1>5, <2>1, DropToOK
    <2> QED BY <2>2 DEF MakeLeft, Podless, Rowless, Opened, Freed, Shut, Packed, Handing
  <1>6. CASE Change(i) \/ Home(i)
    <2>1. loc[i].pc \in {"read", "list", "dropPort", "fill", "homePods", "homeJobs", "homeDelete"}
      BY <1>6 DEF Change, ReadPod, ListServices, DropPort, DropPortRow, Fill, Home, HomePods,
                  HomeJobs, HomeDelete, At
    <2> QED BY <2>1, KindAt DEF Creating
  <1> QED BY <1>1, <1>2, <1>3, <1>4, <1>5, <1>6 DEF Step

-----------------------------------------------------------------------------
(* The steps of a removal                                                  *)

LEMMA RemovalLeft ==
  ASSUME ConstantsOK, TypeInv, NEW i \in Jobs, KindOf[i] \in {"revoke", "delete"}, DropLeft(i),
         Register(i) \/ Step(i) \/ Crash(i)
  PROVE  DropLeft(i)' /\ (Register(i) => loc'[i].pc # "ok")
  <1> DEFINE t == Target(i)
  <1>0. t \in PodNames
    BY DEF ConstantsOK, Targeting, PodNames, Target
  <1>1. CASE Register(i) \/ EarlyFailure(i)
    <2>1. Register(i)
      <3>1. loc[i].pc \in PCsOf(KindOf[i])
        BY Memory DEF MemoryOK
      <3> QED BY <1>1, <3>1 DEF EarlyFailure, PCsOf, Creating, MakePCs, Handing
    <2>2. loc'[i].pc = "dropServices"
      BY <2>1, RegisterOK DEF Moves, First
    <2> QED BY <2>2 DEF DropLeft
  <1>2. CASE Crash(i)
    <2>1. UNCHANGED <<rows, svcs, pods>> /\ Running(i) /\ ~Register(i)
      BY <1>2, CrashHurt DEF Crash, Creating, Register, At, Running
    <2>2. loc[i].pc \in {"gone"} \cup Handing
      BY <2>1, Memory DEF MemoryOK, PCsOf, Creating, Running, Final
    <2>3. loc'[i].pc = "fail" \/ loc'[i].pc = ResumeAt(i)
      BY <1>2, CrashHurt
    <2>4. \/ loc'[i].pc \in {"fail", "dropServices"}
          \/ loc'[i].pc = loc[i].pc
          \/ loc'[i].pc = "dropPod" /\ loc[i].pc = "gone"
          \/ loc'[i].pc = "keys" /\ loc[i].pc = "remove"
      BY <2>2, <2>3 DEF ResumeAt, Handing
    <2>5. SvcsOf(Target(i))' = SvcsOf(Target(i)) /\ RowsOf(Target(i))' = RowsOf(Target(i))
      BY <2>1 DEF SvcsOf, RowsOf, Target
    <2> QED BY <2>1, <2>4, <2>5 DEF DropLeft, Target
  <1>3. CASE Remove(i)
    <2>0. ~Register(i)
      BY <1>3 DEF Remove, DropServices, DropRows, DropPod, Gone, Keys, RemoveKeytab, Register, At
    <2>00. ASSUME NEW pc, Trip(i, pc) PROVE loc'[i].pc \in {pc, "fail"}
      <3>1. Again(i, loc[i], pc)
        BY <2>00 DEF Trip
      <3> QED BY <3>1, Memory, AgainHurt
    <2>000. Gives(i) /\ loc[i].pc \notin {"alloc", "service", "pod"}
      BY <1>3, StepGives
      DEF Remove, DropServices, DropRows, DropPod, Gone, Keys, RemoveKeytab, At
    <2>w. Wanes(Target(i))
      BY <1>0, <2>000, OthersWane
    <2>1. CASE DropServices(i)
      <3>1. \/ SvcsOf(Target(i))' = {} /\ loc'[i].pc = "dropRows"
            \/ loc'[i].pc \in {"dropServices", "fail"}
        <4>1. \/ svcs' = svcs \ SvcsOf(Target(i)) /\ Go(i, "dropRows")
              \/ Trip(i, "dropServices")
          BY <2>1 DEF DropServices
        <4>2. svcs' = svcs \ SvcsOf(Target(i)) => SvcsOf(Target(i))' = {}
          BY DEF SvcsOf, Target
        <4> QED BY <2>00, <4>1, <4>2, GoAt
      <3> QED BY <2>0, <3>1 DEF DropLeft, Target
    <2>2. CASE DropRows(i)
      <3>1. loc[i].pc = "dropRows"
        BY <2>2 DEF DropRows, At
      <3>2. \/ RowsOf(Target(i))' = {} /\ loc'[i].pc = "dropPod"
            \/ loc'[i].pc \in {"dropRows", "fail"}
        <4>1. \/ rows' = rows \ RowsOf(Target(i)) /\ Go(i, "dropPod")
              \/ Trip(i, "dropRows")
          BY <2>2 DEF DropRows
        <4>2. rows' = rows \ RowsOf(Target(i)) => RowsOf(Target(i))' = {}
          BY DEF RowsOf, Target
        <4> QED BY <2>00, <4>1, <4>2, GoAt
      <3> QED BY <2>0, <2>w, <3>1, <3>2 DEF DropLeft, Target, Wanes
    <2>3. CASE DropPod(i) \/ Gone(i)
      <3>1. loc[i].pc \in {"dropPod", "gone"}
        BY <2>3 DEF DropPod, Gone, At
      <3>2. \/ loc'[i].pc \in {"gone", "dropPod", "fail"}
            \/ pods[Target(i)].st = "none"
        <4>1. \/ pods[Target(i)].st = "none"
              \/ Trip(i, "dropPod")
              \/ \E f : Set(i, [loc[i] EXCEPT !.pc = "gone", !.from = f])
          BY <2>3 DEF DropPod, Gone
        <4>2. ASSUME NEW f, Set(i, [loc[i] EXCEPT !.pc = "gone", !.from = f])
              PROVE  loc'[i].pc = "gone"
          <5>1. loc'[i] = [loc[i] EXCEPT !.pc = "gone", !.from = f]
            BY <4>2, SetAt
          <5> QED BY <5>1, Memory DEF Local
        <4> QED BY <2>00, <4>1, <4>2
      <3> QED BY <2>0, <2>w, <3>1, <3>2 DEF DropLeft, Target, Wanes
    <2>4. CASE Keys(i) \/ RemoveKeytab(i)
      <3>1. loc[i].pc \in {"keys", "remove"}
        BY <2>4 DEF Keys, RemoveKeytab, At
      <3> QED BY <2>0, <2>w, <3>1 DEF DropLeft, Target, Wanes
    <2> QED BY <1>3, <2>1, <2>2, <2>3, <2>4 DEF Remove
  <1>4. CASE Create(i) \/ Ports(i) \/ Change(i) \/ Home(i)
    <2>1. loc[i].pc \in {"home", "node", "read", "list", "dropPort", "fill", "homePods",
                         "homeJobs", "homeDelete"} \cup MakePCs
      BY <1>4 DEF Create, RestoreHome, ProvisionNode, MigrateNode, BuildStart, DeployKeytab,
                  ClearPending, UndoBuild, CreatePod, PodMade, WaitReady, ServicesStart,
                  CleanServices, CleanRows, CleanPod, CleanBlind, Ports, ReconcileSkip,
                  ReconcileList, ReconcileDelete, Allocate, CreateService, Serving, Change, ReadPod,
                  ListServices, DropPort, DropPortRow, Fill, Home, HomePods, HomeJobs,
                  HomeDelete, At, MakePCs
    <2> QED BY <2>1, KindAt DEF Creating
  <1> QED BY <1>1, <1>2, <1>3, <1>4 DEF Step

-----------------------------------------------------------------------------
(* The invariant                                                           *)

LEMMA LeftByJob ==
  ASSUME ConstantsOK, ~Overlap, TypeInv, LeftInv, NEW i \in Jobs,
         Register(i) \/ Step(i) \/ Crash(i)
  PROVE  LeftInv'
  <1>1. i \in mix /\ mix' = mix /\ mix \subseteq Jobs
    BY OfThisMix DEF TypeInv, TypeOK, ConstantsOK
  <1>2. \A k \in Jobs \ {i} : loc'[k] = loc[k]
    BY StepMoves
  <1>3. Gives(i)
    BY StepGives
  <1>4. TurnInv'
    <2>1. \/ Running(i)
          \/ \A j \in Jobs \ {i} : Running(j) /\ KindOf[i] \in Targeting
                                    /\ KindOf[j] \in Targeting => TargetOf[i] # TargetOf[j]
      BY AtWork DEF Register
    <2> QED BY <1>1, <1>2, <2>1, OthersTurn DEF LeftInv
  <1>5. ASSUME NEW j \in mix, KindOf[j] \in Creating PROVE MakeLeft(j)'
    <2>1. MakeLeft(j) /\ j \in Jobs
      BY <1>1, <1>5 DEF LeftInv
    <2>2. CASE j = i
      BY <1>5, <2>1, <2>2, CreationLeft
    <2>3. CASE j # i
      BY <1>2, <1>3, <1>5, <2>1, <2>3, OthersMakeLeft
    <2> QED BY <2>2, <2>3
  <1>6. ASSUME NEW j \in mix, KindOf[j] \in {"revoke", "delete"} PROVE DropLeft(j)'
    <2>1. DropLeft(j) /\ j \in Jobs /\ ChangeIdle(j, i) /\ TurnInv
      BY <1>1, <1>6 DEF LeftInv
    <2>2. CASE j = i
      BY <1>6, <2>1, <2>2, RemovalLeft
    <2>3. CASE j # i
      BY <1>1, <1>2, <1>3, <1>6, <2>1, <2>3, OthersDropLeft
    <2> QED BY <2>2, <2>3
  <1>7. ASSUME NEW j \in mix, KindOf[j] \in {"revoke", "delete"}, NEW k \in mix PROVE ChangeIdle(j, k)'
    <2>1. SUFFICES ASSUME KindOf[k] = "port", Target(k) = Target(j), loc'[j].pc = "ok"
                   PROVE  loc'[k].pc \in {"new", "read", "ok", "fail"}
      BY DEF ChangeIdle, Target
    <2>2. j # k /\ j \in Jobs /\ k \in Jobs /\ DropLeft(j) /\ ChangeIdle(j, k) /\ TurnInv
      BY <1>1, <1>7, <2>1 DEF LeftInv
    <2>3. CASE i = j
      <3>1. ~Register(j) /\ Running(j)
        BY <1>7, <2>2, <2>3, RemovalLeft, AtWork, <2>1
      <3>2. ~Running(k)
        BY <1>7, <2>1, <2>2, <3>1 DEF TurnInv, Targeting
      <3>3. loc'[k] = loc[k]
        BY <1>2, <2>2, <2>3
      <3> QED BY <3>2, <3>3 DEF Running, Final
    <2>4. CASE i = k
      <3>1. loc[j].pc = "ok"
        BY <1>2, <2>1, <2>2, <2>4
      <3>2. pods[Target(k)].st # "up" /\ loc[k].pc \in {"new", "read", "ok", "fail"}
        BY <2>1, <2>2, <3>1 DEF DropLeft, ChangeIdle
      <3> QED BY <2>1, <2>2, <2>4, <3>2, IdleStays
    <2>5. CASE i # j /\ i # k
      BY <1>2, <2>1, <2>2, <2>5 DEF ChangeIdle
    <2> QED BY <2>3, <2>4, <2>5
  <1> QED BY <1>1, <1>4, <1>5, <1>6, <1>7 DEF LeftInv

LEMMA LeftByWorld ==
  ASSUME ConstantsOK, TypeInv, LeftInv, UNCHANGED <<mix, rows, svcs, loc>>,
         \A p \in PodNames : pods'[p].st = "up" => pods[p].st = "up"
  PROVE  LeftInv'
  <1>1. mix \subseteq Jobs /\ \A p : RowsOf(p)' = RowsOf(p) /\ SvcsOf(p)' = SvcsOf(p)
    BY DEF RowsOf, SvcsOf, TypeInv, TypeOK, ConstantsOK
  <1>2. TurnInv'
    BY DEF LeftInv, TurnInv, Running, Target
  <1>3. ASSUME NEW j \in mix, KindOf[j] \in Creating PROVE MakeLeft(j)'
    <2>1. MakeLeft(j) /\ j \in PodNames
      BY <1>1, <1>3 DEF LeftInv, PodNames
    <2> QED BY <1>1, <2>1 DEF MakeLeft
  <1>4. ASSUME NEW j \in mix, KindOf[j] \in {"revoke", "delete"} PROVE DropLeft(j)'
    <2>1. DropLeft(j) /\ Target(j) \in PodNames
      BY <1>1, <1>4 DEF LeftInv, PodNames, Target, ConstantsOK, Targeting
    <2> QED BY <1>1, <2>1 DEF DropLeft, Target
  <1>5. \A j \in mix : KindOf[j] \in {"revoke", "delete"} => \A k \in mix : ChangeIdle(j, k)'
    BY DEF LeftInv, ChangeIdle, Target
  <1> QED BY <1>2, <1>3, <1>4, <1>5 DEF LeftInv

LEMMA NextLeft ==
  ASSUME ConstantsOK, ~Overlap, TypeInv, LeftInv, [Next]_vars
  PROVE  LeftInv'
  <1>1. CASE UNCHANGED vars
    BY <1>1, LeftByWorld DEF vars, ports
  <1>2. ASSUME NEW i \in Jobs, Register(i) \/ Step(i) \/ Crash(i) PROVE LeftInv'
    BY <1>2, LeftByJob
  <1>3. CASE Cron \/ CronDies
    <2>1. UNCHANGED <<mix, ports, pods, loc>>
      BY <1>3 DEF Cron, CronList, CronClaim, CronCheck, CronRemove, CronDone, CronDies
    <2> QED BY <2>1, LeftByWorld DEF ports
  <1>4. ASSUME NEW q \in PodNames, PodGone(q) PROVE LeftInv'
    <2>1. \A p \in PodNames : pods'[p].st = "up" => pods[p].st = "up"
      <3>1. pods \in [PodNames -> [st: {"none", "up", "term"}, node: Nodes \cup {"none"}]]
        BY DEF TypeInv, TypeOK
      <3>2. pods' = [pods EXCEPT ![q] = NoPod]
        BY <1>4 DEF PodGone
      <3> QED BY <3>1, <3>2 DEF NoPod
    <2> QED BY <1>4, <2>1, LeftByWorld DEF PodGone, ports
  <1>5. ASSUME NEW q \in PodNames, AgeOut(q) PROVE LeftInv'
    BY <1>5, LeftByWorld DEF AgeOut
  <1> QED BY <1>1, <1>2, <1>3, <1>4, <1>5 DEF Next

LEMMA LeftStart == ASSUME ConstantsOK, Init PROVE LeftInv
  <1>1. /\ \A j \in Jobs : loc[j].pc = "new"
        /\ mix \subseteq Jobs /\ Jobs \cap Old = {}
    BY DEF Init, Blank, ConstantsOK
  <1>2. /\ \A r \in rows : r.pod \in Old
        /\ \A s \in svcs : s.pod \in Old
        /\ \A j \in Jobs : pods[j].st = "none"
    BY <1>1 DEF Init, NoPod, PodNames
  <1>3. ASSUME NEW j \in Jobs PROVE MakeLeft(j)
    BY <1>1, <1>2 DEF MakeLeft, RowsOf, SvcsOf, Opened
  <1>4. TurnInv
    BY <1>1 DEF TurnInv, Running
  <1> QED BY <1>1, <1>3, <1>4 DEF LeftInv, DropLeft, ChangeIdle

\* A creation that failed, and a removal that ended well, leave no Pod up, no
\* row and no Service, in any behaviour with any failed calls and crashes,
\* except where NothingLeft says that they may: a failed step is followed by
\* its clean-up (provision.py), a creation that resumes finds no Pod that is
\* not in the journal, and a removal goes on only when what it released is
\* gone.
THEOREM EndsClean ==
  ASSUME ~Overlap PROVE Spec => []NothingLeft
  <1>1. Init => LeftInv
    BY ConstantsOK, LeftStart
  <1>2. TypeInv /\ LeftInv /\ [Next]_vars => LeftInv'
    BY ConstantsOK, NextLeft
  <1>3. LeftInv => NothingLeft
    BY DEF LeftInv, MakeLeft, DropLeft, NothingLeft, Podless, Rowless, Creating
  <1> QED BY <1>1, <1>2, <1>3, Types, PTL DEF Spec

-----------------------------------------------------------------------------
(* A node port leads to the Pod that it was given to                       *)

\* an allocation that succeeds has listed the Services
Listed == \A j \in Jobs : Allocate(j) /\ loc'[j].pc \in {"deploy", "fill"} => faults' = faults
\* nobody asks for other ports of a Pod whose removal has begun
Untried == \A j \in Jobs : Register(j) /\ KindOf[j] = "port" => ~Touched(Target(j))

\* where a creation has ports in its hands that are not open yet
HeldPCs == Packed \cup {"service"}

\* no node port is given twice
Unshared == \A r, t \in rows : r.nport = t.nport => r.pod = t.pod /\ r.iport = t.iport
\* what a creation is to open is in the table
HandIn(j) == KindOf[j] \in Creating /\ loc[j].pc \in HeldPCs =>
               loc[j].ports \subseteq Pairs(RowsOf(j))
\* a port change at work is of a Pod whose removal has not begun
FreshIn(j) == KindOf[j] = "port" /\ Running(j) => ~Touched(Target(j))
OwnerInv ==
  /\ PortLeadsToOwner /\ Unshared
  /\ \A j \in mix : HandIn(j) /\ FreshIn(j)

\* the rows of an allocation that has listed the Services have none of their ports
LEMMA AllocateSeen ==
  ASSUME ConstantsOK, TypeInv, NEW j \in Jobs, Allocate(j), Listed,
         NEW r \in rows' \ rows, NEW s \in svcs
  PROVE  r.nport # s.nport
  <1> DEFINE Used == {t.nport : t \in svcs}
             Good(f, seen) == f \in Injection(Asked(j), Lowest(Free(seen), Cardinality(Asked(j))))
             Told == IF KindOf[j] = "port" THEN Go(j, "fill")
                     ELSE \E g : Set(j, [loc[j] EXCEPT !.pc = "deploy", !.ports = g])
  <1>1. \E seen \in {Used, {}} : \E f :
          /\ Good(f, seen) /\ rows' = rows \cup Granted(j, f)
          /\ \/ Told /\ IF seen = {} /\ svcs # {} THEN Failing ELSE Well
             \/ ~(seen = {} /\ svcs # {})
    <2>1. PICK seen \in {Used, {}} :
            LET free    == Free(seen)
                n       == Cardinality(Asked(j))
                Back1(l) == Again(j, l, IF KindOf[j] = "port" THEN "read" ELSE "build")
                Blind   == seen = {} /\ svcs # {}
            IN IF Cardinality(free) < n
               THEN /\ IF KindOf[j] = "port" THEN Back1(loc[j]) ELSE End(j, "fail")
                    /\ IF Blind THEN Failing ELSE Well
                    /\ UNCHANGED <<rows, aged>>
               ELSE \E f \in Injection(Asked(j), Lowest(free, n)) :
                      LET got == {[iport |-> i, nport |-> f[i]] : i \in Asked(j)}
                          new == {RowFor(j, x) : x \in got}
                      IN \/ /\ rows' = rows \cup new /\ aged' = aged \ {PodOf(j)}
                            /\ IF Blind THEN Failing ELSE Well
                            /\ IF KindOf[j] = "port" THEN Go(j, "fill")
                               ELSE Set(j, [loc[j] EXCEPT !.pc = "deploy", !.ports = got])
                         \/ /\ ~Blind /\ Failing /\ UNCHANGED aged
                            /\ \/ rows' = rows /\ Back1(loc[j])
                               \/ rows' = rows \cup new
                                  /\ Back1([loc[j] EXCEPT !.hurt = TRUE])
      BY DEF Allocate
    <2>2. rows' # rows
      OBVIOUS
    <2>3. ~(Cardinality(Free(seen)) < Cardinality(Asked(j)))
      BY <2>1, <2>2
    <2>4. PICK f \in Injection(Asked(j), Lowest(Free(seen), Cardinality(Asked(j)))) :
            LET got == {[iport |-> i, nport |-> f[i]] : i \in Asked(j)}
                new == {RowFor(j, x) : x \in got}
                Blind == seen = {} /\ svcs # {}
            IN \/ /\ rows' = rows \cup new
                  /\ IF Blind THEN Failing ELSE Well
                  /\ IF KindOf[j] = "port" THEN Go(j, "fill")
                     ELSE Set(j, [loc[j] EXCEPT !.pc = "deploy", !.ports = got])
               \/ ~Blind /\ rows' = rows
               \/ ~Blind /\ rows' = rows \cup new
      BY <2>1, <2>3
    <2>5. Granted(j, f) = {RowFor(j, x) : x \in {[iport |-> i, nport |-> f[i]] : i \in Asked(j)}}
      BY DEF Granted, Grant
    <2> QED BY <2>2, <2>4, <2>5
  <1>2. PICK seen \in {Used, {}} : \E f :
          /\ Good(f, seen) /\ rows' = rows \cup Granted(j, f)
          /\ \/ Told /\ IF seen = {} /\ svcs # {} THEN Failing ELSE Well
             \/ ~(seen = {} /\ svcs # {})
    BY <1>1
  <1>21. PICK f : /\ Good(f, seen) /\ rows' = rows \cup Granted(j, f)
                  /\ \/ Told /\ IF seen = {} /\ svcs # {} THEN Failing ELSE Well
                     \/ ~(seen = {} /\ svcs # {})
    BY <1>2
  <1>3. seen = Used
    <2>1. SUFFICES ASSUME seen = {} PROVE FALSE
      OBVIOUS
    <2>2. Told /\ Failing
      BY <1>21, <2>1
    <2>3. loc'[j].pc \in {"deploy", "fill"}
      <3>1. CASE KindOf[j] = "port"
        BY <2>2, <3>1, GoAt
      <3>2. CASE KindOf[j] # "port"
        <4>1. PICK g : Set(j, [loc[j] EXCEPT !.pc = "deploy", !.ports = g])
          BY <2>2, <3>2
        <4>2. loc'[j] = [loc[j] EXCEPT !.pc = "deploy", !.ports = g]
          BY <4>1, SetAt
        <4> QED BY <4>2, Memory DEF Local
      <3> QED BY <3>1, <3>2
    <2>4. faults' = faults
      BY <2>3 DEF Listed
    <2>5. faults \in Nat
      BY DEF TypeInv, TypeOK, ConstantsOK
    <2>6. Failing
      BY <2>2
    <2>7. faults' = faults + 1
      BY <2>6 DEF Failing
    <2> QED BY <2>4, <2>5, <2>7
  <1>4. f \in [Asked(j) -> Lowest(Free(seen), Cardinality(Asked(j)))]
    BY <1>21 DEF Injection, IsInjective
  <1>5. Lowest(Free(seen), Cardinality(Asked(j))) \subseteq NodePorts \ Used
    BY <1>3 DEF Lowest, Free
  <1>6. r \in Granted(j, f)
    BY <1>21
  <1> HIDE DEF Told, Good
  <1>8. r.iport \in Asked(j) /\ r.nport = f[r.iport]
    BY <1>6, GrantRows
  <1>7. r.nport \notin Used
    BY <1>4, <1>5, <1>8
  <1> QED BY <1>7

-----------------------------------------------------------------------------
(* Who writes what                                                         *)

\* a new Service is of a port that the job had in hand, and the table stays
LEMMA NewService ==
  ASSUME ConstantsOK, TypeInv, NEW i \in Jobs, Register(i) \/ Step(i) \/ Crash(i),
         NEW s \in svcs' \ svcs
  PROVE  /\ loc[i].pc = "service" /\ rows' = rows
         /\ \E x \in loc[i].ports : s = SvcFor(i, x)
  <1>1. loc[i].pc = "service"
    BY StepGives DEF Gives
  <1>2. Step(i)
    <2>1. CASE Crash(i)
      BY <2>1, CrashHurt
    <2>2. ~Register(i)
      BY DEF Register, ports
    <2> QED BY <2>1, <2>2
  <1>3. CreateService(i)
    BY <1>1, <1>2
    DEF Step, Create, RestoreHome, ProvisionNode, MigrateNode, BuildStart,
        DeployKeytab, ClearPending, UndoBuild, CreatePod, PodMade, WaitReady,
        ServicesStart, CleanServices, CleanRows, CleanPod, CleanBlind, Ports, ReconcileSkip,
        ReconcileList, ReconcileDelete, Allocate, Serving, Remove,
        DropServices, DropRows, DropPod, Gone, Keys, RemoveKeytab, Change, ReadPod,
        ListServices, DropPort, DropPortRow, Fill, Home, HomePods, HomeJobs,
        HomeDelete, EarlyFailure, At, ports
  <1>4. UNCHANGED rows /\ \E x \in loc[i].ports : svcs' = svcs \/ svcs' = svcs \cup {SvcFor(i, x)}
    BY <1>3, CreateServiceCases
  <1> QED BY <1>1, <1>4

\* a new row is of an allocation
LEMMA NewRow ==
  ASSUME ConstantsOK, TypeInv, NEW i \in Jobs, Register(i) \/ Step(i) \/ Crash(i),
         NEW r \in rows' \ rows
  PROVE  Allocate(i) /\ svcs' = svcs
  <1>1. loc[i].pc = "alloc"
    BY StepGives DEF Gives
  <1>2. Step(i)
    BY DEF Register, Crash, ports
  <1>3. Allocate(i)
    BY <1>1, <1>2
    DEF Step, Create, RestoreHome, ProvisionNode, MigrateNode, BuildStart,
        DeployKeytab, ClearPending, UndoBuild, CreatePod, PodMade, WaitReady,
        ServicesStart, CleanServices, CleanRows, CleanPod, CleanBlind, Ports, ReconcileSkip,
        ReconcileList, ReconcileDelete, CreateService, Serving, Remove,
        DropServices, DropRows, DropPod, Gone, Keys, RemoveKeytab, Change, ReadPod,
        ListServices, DropPort, DropPortRow, Fill, Home, HomePods, HomeJobs,
        HomeDelete, EarlyFailure, At, ports
  <1> QED BY <1>3 DEF Allocate

\* a step of a creation that leaves it ports in hand is the allocation, or had them
LEMMA HandStep ==
  ASSUME ConstantsOK, TypeInv, NEW i \in Jobs, KindOf[i] \in Creating,
         Register(i) \/ Step(i) \/ Crash(i), ~Allocate(i), loc'[i].pc \in HeldPCs
  PROVE  rows' = rows /\ loc[i].pc \in HeldPCs /\ loc'[i].ports \subseteq loc[i].ports
  <1>0. /\ loc'[i].pc \notin {"home", "node", "build", "reconcile", "stale", "alloc", "undo",
                              "cleanServices", "cleanRows", "cleanPod", "cleanBlind", "ok",
                              "fail"}
        /\ loc'[i].pc \notin Handing /\ loc'[i].pc \notin Freed
    BY DEF HeldPCs, Packed, Handing, Freed
  <1>1. CASE Register(i) \/ EarlyFailure(i) \/ RestoreHome(i) \/ ProvisionNode(i) \/ MigrateNode(i)
    <2>1. loc[i].pc \in {"new", "home", "node"}
      <3>1. loc[i].pc \in PCsOf(KindOf[i])
        BY Memory DEF MemoryOK
      <3> QED BY <1>1, <3>1 DEF Register, EarlyFailure, RestoreHome, ProvisionNode, MigrateNode,
                                At, PCsOf, Creating, MakePCs, Handing
    <2>2. loc'[i].pc \in {"home", "node", "build", "fail"}
      <3>1. CASE Register(i)
        <4>1. loc'[i].pc = First(KindOf[i])
          BY <3>1, RegisterOK DEF Moves
        <4> QED BY <4>1 DEF First, Creating
      <3>2. CASE EarlyFailure(i)
        <4>1. loc[i].pc \in {"home", "node"}
          BY <2>1, <3>2 DEF EarlyFailure
        <4>2. loc'[i].pc \in {loc[i].pc, "fail"}
          BY <3>2, <4>1, EarlyFailureOK DEF Moves
        <4> QED BY <4>1, <4>2
      <3>3. CASE RestoreHome(i) \/ ProvisionNode(i) \/ MigrateNode(i)
        BY <3>3, RestoreHomeOK, NodeOK DEF Moves
      <3> QED BY <1>1, <3>1, <3>2, <3>3
    <2> QED BY <1>0, <2>2
  <1>2. CASE Crash(i)
    <2>1. loc'[i].pc = "fail" \/ loc'[i].pc = ResumeAt(i)
      BY <1>2, CrashHurt
    <2>2. PICK r : r = ResumeAt(i)
      OBVIOUS
    <2>3. r \in {"home", "node", "build", "read", "homePods", "dropServices",
                 "dropRows", "dropPod", "keys"}
      BY <1>2, <2>2, ResumedAt DEF Crash
    <2> QED BY <1>0, <2>1, <2>2, <2>3 DEF HeldPCs, Packed
  <1>3. CASE \/ BuildStart(i) \/ UndoBuild(i) \/ CleanServices(i) \/ CleanRows(i)
             \/ CleanPod(i) \/ CleanBlind(i)
    BY <1>0, <1>3, BuildStartOK, UndoBuildOK, CleanServicesOK, CleanRowsOK, CleanPodOK,
       CleanBlindOK DEF Moves
  <1>4. CASE \/ DeployKeytab(i) \/ ClearPending(i) \/ CreatePod(i) \/ PodMade(i) \/ WaitReady(i)
             \/ ServicesStart(i)
    <2>1. rows' = rows /\ loc[i].pc \in HeldPCs
      BY <1>4 DEF DeployKeytab, ClearPending, CreatePod, PodMade, WaitReady, ServicesStart,
                  ports, At, HeldPCs, Packed
    <2>2. CASE DeployKeytab(i)
      BY <1>0, <2>1, <2>2, GoAt DEF DeployKeytab
    <2>3. CASE ClearPending(i) \/ ServicesStart(i)
      BY <2>1, <2>3, GoAt DEF ClearPending, ServicesStart
    <2>4. CASE CreatePod(i) \/ WaitReady(i)
      <3>1. \/ Go(i, "made") \/ Go(i, "services")
            \/ \E q \in {"cleanBlind", "cleanRows"}, h \in {"build", "fail"} : Clean(i, q, h)
        BY <2>4 DEF CreatePod, WaitReady
      <3>2. ASSUME NEW q \in {"cleanBlind", "cleanRows"}, NEW h, Clean(i, q, h) PROVE FALSE
        <4>1. loc'[i].pc = q
          BY <3>2, CleanHurt
        <4> QED BY <1>0, <4>1
      <3> QED BY <2>1, <3>1, <3>2, GoAt
    <2>5. CASE PodMade(i)
      <3>1. loc'[i] = [loc[i] EXCEPT !.pc = "wait", !.made = TRUE]
        BY <2>5, SetAt DEF PodMade
      <3> QED BY <2>1, <3>1, Memory DEF Local
    <2> QED BY <1>4, <2>2, <2>3, <2>4, <2>5
  <1>5. CASE Ports(i)
    <2>1. CASE ReconcileSkip(i) \/ ReconcileList(i) \/ ReconcileDelete(i)
      BY <1>0, <2>1, ReconcileMemory
    <2>2. CASE CreateService(i)
      BY <1>0, <2>2, CreateServiceCases DEF Creating, HeldPCs
    <2>3. CASE Serving(i)
      <3>1. loc'[i].pc \in {"dropServices", "ok"}
        BY <2>3, ServingOK DEF Moves
      <3> QED BY <1>0, <3>1 DEF Handing
    <2> QED BY <1>5, <2>1, <2>2, <2>3 DEF Ports
  <1>6. CASE Remove(i)
    <2>1. KindOf[i] = "migrate"
      <3>1. loc[i].pc \in Handing \cup {"gone"}
        BY <1>6 DEF Remove, DropServices, DropRows, DropPod, Gone, Keys, RemoveKeytab, At, Handing
      <3> QED BY <3>1, Dropping DEF Creating
    <2> QED BY <1>0, <1>6, <2>1, DropToOK
  <1>7. CASE Change(i) \/ Home(i)
    <2>1. loc[i].pc \in {"read", "list", "dropPort", "fill", "homePods", "homeJobs", "homeDelete"}
      BY <1>7 DEF Change, ReadPod, ListServices, DropPort, DropPortRow, Fill, Home, HomePods,
                  HomeJobs, HomeDelete, At
    <2> QED BY <2>1, KindAt DEF Creating
  <1> QED BY <1>1, <1>2, <1>3, <1>4, <1>5, <1>6, <1>7 DEF Step, Create

\* what is in hand at an opening is in the table, for the Pod that is opened
LEMMA InHand ==
  ASSUME ConstantsOK, TypeInv, TableInv, OwnerInv, NEW i \in mix, loc[i].pc = "service",
         NEW x \in loc[i].ports
  PROVE  \E t \in rows : t.pod = PodOf(i) /\ t.iport = x.iport /\ t.nport = x.nport
  <1>1. i \in Jobs
    BY DEF TypeInv, TypeOK, ConstantsOK
  <1>2. KindOf[i] \in Creating \cup {"port"}
    BY <1>1, ServiceKnown
  <1>3. x \in Pairs(RowsOf(PodOf(i)))
    <2>1. CASE KindOf[i] \in Creating
      BY <2>1, AtHome DEF OwnerInv, HandIn, HeldPCs
    <2>2. CASE KindOf[i] = "port"
      <3>1. ~Touched(Target(i))
        BY <2>2 DEF OwnerInv, FreshIn, Running, Final
      <3>2. ChangeOK(loc[i], Wanted[i], RowsOf(Target(i)), SvcsOf(Target(i)))
        BY <2>2, <3>1 DEF TableInv, ChangeInv
      <3>3. loc[i].ports \subseteq Pairs(RowsOf(Target(i)))
        BY <3>2 DEF ChangeOK
      <3>4. PodOf(i) = Target(i)
        BY <2>2 DEF PodOf, Target
      <3> QED BY <3>3, <3>4
    <2> QED BY <1>2, <2>1, <2>2
  <1>4. PICK t \in RowsOf(PodOf(i)) : x = [iport |-> t.iport, nport |-> t.nport]
    BY <1>3, PairsOf
  <1> QED BY <1>4 DEF RowsOf

LEMMA OwnerLed ==
  ASSUME ConstantsOK, TypeInv, TableInv, OwnerInv, Listed,
         NEW i \in Jobs, Register(i) \/ Step(i) \/ Crash(i)
  PROVE  PortLeadsToOwner'
  <1>1. SUFFICES ASSUME NEW r \in rows', NEW s \in svcs', r.nport = s.nport
                 PROVE  r.pod = s.pod /\ r.iport = s.iport
    BY DEF PortLeadsToOwner
  <1>2. i \in mix
    BY OfThisMix
  <1>3. CASE r \in rows /\ s \in svcs
    BY <1>1, <1>3 DEF OwnerInv, PortLeadsToOwner
  <1>4. CASE r \notin rows
    <2>1. Allocate(i) /\ s \in svcs
      BY <1>4, NewRow
    <2> QED BY <1>1, <1>4, <2>1, AllocateSeen
  <1>5. CASE r \in rows /\ s \notin svcs
    <2>1. loc[i].pc = "service" /\ \E x \in loc[i].ports : s = SvcFor(i, x)
      BY <1>5, NewService
    <2>2. PICK x \in loc[i].ports : s = SvcFor(i, x)
      BY <2>1
    <2>3. PICK t \in rows : t.pod = PodOf(i) /\ t.iport = x.iport /\ t.nport = x.nport
      BY <1>2, <2>1, InHand
    <2>4. s.pod = PodOf(i) /\ s.iport = x.iport /\ s.nport = x.nport
      BY <2>2 DEF SvcFor
    <2>5. r.pod = t.pod /\ r.iport = t.iport
      BY <1>1, <1>5, <2>3, <2>4 DEF OwnerInv, Unshared
    <2> QED BY <2>3, <2>4, <2>5
  <1> QED BY <1>3, <1>4, <1>5

LEMMA OwnerUnshared ==
  ASSUME ConstantsOK, TypeInv, Unshared, NEW i \in Jobs, Register(i) \/ Step(i) \/ Crash(i)
  PROVE  Unshared'
  <1>1. SUFFICES ASSUME NEW r \in rows', NEW t \in rows', r.nport = t.nport
                 PROVE  r.pod = t.pod /\ r.iport = t.iport
    BY DEF Unshared
  <1>2. CASE r \in rows /\ t \in rows
    BY <1>1, <1>2 DEF Unshared
  <1>3. CASE ~(r \in rows /\ t \in rows)
    <2>1. Allocate(i)
      BY <1>3, NewRow
    <2>2. rows' # rows
      BY <1>3
    <2>3. PICK f \in [Asked(i) -> NodePorts] :
              /\ \A k \in Asked(i) : \A q \in rows : q.nport # f[k]
              /\ \A k, m \in Asked(i) : f[k] = f[m] => k = m
              /\ rows' = rows \cup Granted(i, f)
      BY <2>1, <2>2, AllocateCases
    <2>4. \A q \in Granted(i, f) : q.pod = PodOf(i) /\ q.iport \in Asked(i) /\ q.nport = f[q.iport]
      BY GrantRows
    <2>5. r \in Granted(i, f) /\ t \in Granted(i, f)
      BY <1>1, <1>3, <2>3, <2>4
    <2> QED BY <1>1, <2>3, <2>4, <2>5
  <1> QED BY <1>2, <1>3

LEMMA OwnHand ==
  ASSUME ConstantsOK, TypeInv, NEW i \in Jobs, HandIn(i), Register(i) \/ Step(i) \/ Crash(i)
  PROVE  HandIn(i)'
  <1>1. SUFFICES ASSUME KindOf[i] \in Creating, loc'[i].pc \in HeldPCs
                 PROVE  loc'[i].ports \subseteq Pairs(RowsOf(i)')
    BY DEF HandIn, Pairs
  <1>2. CASE Allocate(i)
    <2>1. PodOf(i) = i /\ KindOf[i] # "port" /\ Back(i) = "build"
      BY <1>1, AtHome DEF Creating, Back
    <2>2. loc'[i].pc \notin {Back(i), "fail"}
      BY <1>1, <2>1 DEF HeldPCs, Packed
    <2>3. PICK f : rows' = rows \cup Granted(i, f) /\ loc'[i].ports = Grant(i, f)
      BY <1>2, <2>1, <2>2, AllocateCases
    <2>4. RowsOf(i)' = RowsOf(i) \cup Granted(i, f)
      BY <2>1, <2>3, RowsGranted
    <2>5. Pairs(Granted(i, f)) \subseteq Pairs(RowsOf(i)')
      BY <2>4 DEF Pairs
    <2>6. Pairs(Granted(i, f)) = Grant(i, f)
      BY GrantRows
    <2> QED BY <2>3, <2>5, <2>6
  <1>3. CASE ~Allocate(i)
    <2>1. rows' = rows /\ loc[i].pc \in HeldPCs /\ loc'[i].ports \subseteq loc[i].ports
      BY <1>1, <1>3, HandStep
    <2>2. RowsOf(i)' = RowsOf(i)
      BY <2>1 DEF RowsOf
    <2> QED BY <1>1, <2>1, <2>2 DEF HandIn
  <1> QED BY <1>2, <1>3

\* a reconciliation leaves the rows of a Pod that is coming
LEMMA OthersHand ==
  ASSUME ConstantsOK, NEW i \in Jobs, Mild(i), NEW j \in Jobs, j # i, loc'[j] = loc[j],
         MadeInv(j), HandIn(j)
  PROVE  HandIn(j)'
  <1>1. SUFFICES ASSUME KindOf[j] \in Creating, loc[j].pc \in HeldPCs
                 PROVE  loc[j].ports \subseteq Pairs(RowsOf(j)')
    BY DEF HandIn, Pairs
  <1>2. j \notin aged
    BY <1>1 DEF MadeInv, InFlight, HeldPCs, Packed
  <1>3. j \in PodNames \ Own(i) /\ j \notin Old
    BY DEF PodNames, Own, PodOf, ConstantsOK, Targeting
  <1>4. Same(j)
    BY <1>2, <1>3 DEF Mild
  <1> QED BY <1>1, <1>4 DEF Same, HandIn

LEMMA FreshStays ==
  ASSUME ConstantsOK, ~Overlap, TypeInv, Untried, NEW i \in mix, mix' = mix,
         Register(i) \/ Step(i) \/ Crash(i), NEW j \in mix, FreshIn(j)
  PROVE  FreshIn(j)'
  <1>1. mix \subseteq Jobs
    BY DEF TypeInv, TypeOK, ConstantsOK
  <1>2. \A k \in Jobs \ {i} : loc'[k] = loc[k]
    BY <1>1, StepMoves
  <1>3. SUFFICES ASSUME KindOf[j] = "port", Running(j)', Touched(Target(j))' PROVE FALSE
    BY DEF FreshIn
  <1>4. PICK k \in mix : KindOf[k] \in Removers /\ Target(k) = Target(j) /\ loc'[k].pc # "new"
    BY <1>3 DEF Touched, Target
  <1>5. k # j
    BY <1>3, <1>4 DEF Removers
  <1>6. ~Touched(Target(j))
    <2>1. CASE j = i /\ Register(i)
      BY <1>1, <1>3, <2>1 DEF Untried
    <2>2. CASE j = i /\ ~Register(i)
      <3>1. Running(j)
        BY <1>1, <2>2, AtWork
      <3> QED BY <1>3, <3>1 DEF FreshIn
    <2>3. CASE j # i
      <3>1. Running(j)
        BY <1>1, <1>2, <1>3, <2>3 DEF Running
      <3> QED BY <1>3, <3>1 DEF FreshIn
    <2> QED BY <2>1, <2>2, <2>3
  <1>7. loc[k].pc = "new"
    BY <1>4, <1>6 DEF Touched
  <1>8. k = i
    BY <1>1, <1>2, <1>4, <1>7
  <1>9. Register(i)
    <2>1. ~Running(i)
      BY <1>7, <1>8 DEF Running
    <2> QED BY <1>1, <2>1, AtWork
  <1>10. Running(j) /\ j \in Jobs \ {i}
    BY <1>1, <1>2, <1>3, <1>5, <1>8 DEF Running
  <1>11. TargetOf[j] # TargetOf[i]
    BY <1>3, <1>4, <1>8, <1>9, <1>10 DEF Register, Targeting, Removers
  <1> QED BY <1>4, <1>8, <1>11 DEF Target

LEMMA OwnerByJob ==
  ASSUME ConstantsOK, ~Overlap, Base # {}, TypeInv, TableInv, OwnerInv, Listed, Untried,
         NEW i \in Jobs, Register(i) \/ Step(i) \/ Crash(i)
  PROVE  OwnerInv'
  <1>1. i \in mix /\ mix' = mix /\ mix \subseteq Jobs
    BY OfThisMix DEF TypeInv, TypeOK, ConstantsOK
  <1>2. \A k \in Jobs \ {i} : loc'[k] = loc[k]
    BY StepMoves
  <1>3. Mild(i)
    BY TableStep
  <1>4. PortLeadsToOwner'
    BY OwnerLed
  <1>5. Unshared'
    BY OwnerUnshared DEF OwnerInv
  <1>6. ASSUME NEW j \in mix PROVE HandIn(j)'
    <2>1. j \in Jobs /\ HandIn(j) /\ MadeInv(j)
      BY <1>1 DEF OwnerInv, TableInv
    <2>2. CASE j = i
      BY <2>1, <2>2, OwnHand
    <2>3. CASE j # i
      BY <1>2, <1>3, <2>1, <2>3, OthersHand
    <2> QED BY <2>2, <2>3
  <1>7. ASSUME NEW j \in mix PROVE FreshIn(j)'
    <2>1. FreshIn(j)
      BY DEF OwnerInv
    <2> QED BY <1>1, <2>1, FreshStays
  <1> QED BY <1>1, <1>4, <1>5, <1>6, <1>7 DEF OwnerInv

LEMMA OwnerByWorld ==
  ASSUME OwnerInv, UNCHANGED <<mix, rows, svcs, loc>>
  PROVE  OwnerInv'
  <1>1. PortLeadsToOwner' /\ Unshared'
    BY DEF OwnerInv, PortLeadsToOwner, Unshared
  <1>2. ASSUME NEW j \in mix PROVE HandIn(j)' /\ FreshIn(j)'
    BY DEF OwnerInv, HandIn, FreshIn, RowsOf, Running, Touched, Target
  <1> QED BY <1>1, <1>2 DEF OwnerInv

LEMMA NextOwner ==
  ASSUME ConstantsOK, ~Overlap, Base # {}, TypeInv, TableInv, OwnerInv, [Next]_vars,
         [Listed /\ Untried]_vars
  PROVE  OwnerInv'
  <1>1. CASE UNCHANGED vars
    BY <1>1, OwnerByWorld DEF vars, ports
  <1>2. ASSUME NEW i \in Jobs, Register(i) \/ Step(i) \/ Crash(i), ~UNCHANGED vars PROVE OwnerInv'
    <2>1. Listed /\ Untried
      BY <1>2
    <2> QED BY <1>2, <2>1, OwnerByJob
  <1>3. CASE Cron \/ CronDies
    <2>1. UNCHANGED <<mix, ports, loc>>
      BY <1>3 DEF Cron, CronList, CronClaim, CronCheck, CronRemove, CronDone, CronDies
    <2> QED BY <2>1, OwnerByWorld DEF ports
  <1>4. ASSUME NEW p \in PodNames, PodGone(p) \/ AgeOut(p) PROVE OwnerInv'
    BY <1>4, OwnerByWorld DEF PodGone, AgeOut, ports
  <1> QED BY <1>1, <1>2, <1>3, <1>4 DEF Next

LEMMA OwnerStart == ASSUME ConstantsOK, OldApart, Init PROVE OwnerInv
  <1>1. \A j \in Jobs : loc[j].pc = "new"
    BY DEF Init, Blank
  <1>2. mix \subseteq Jobs
    BY DEF Init, ConstantsOK
  <1>3. \A r \in rows : /\ r.pod \in Old /\ r.iport \in DOMAIN OldPorts[r.pod]
                        /\ r.nport = OldPorts[r.pod][r.iport]
    BY DEF Init
  <1>4. Unshared
    BY <1>3 DEF OldApart, Unshared
  <1>5. svcs = {[pod |-> r.pod, iport |-> r.iport, nport |-> r.nport] : r \in rows}
    BY DEF Init
  <1>6. PortLeadsToOwner
    <2>1. SUFFICES ASSUME NEW r \in rows, NEW s \in svcs, r.nport = s.nport
                   PROVE  r.pod = s.pod /\ r.iport = s.iport
      BY DEF PortLeadsToOwner
    <2>2. PICK t \in rows : s = [pod |-> t.pod, iport |-> t.iport, nport |-> t.nport]
      BY <1>5
    <2> QED BY <1>4, <2>1, <2>2 DEF Unshared
  <1>7. ASSUME NEW j \in mix PROVE HandIn(j) /\ FreshIn(j)
    BY <1>1, <1>2 DEF HandIn, FreshIn, HeldPCs, Packed, Running
  <1> QED BY <1>4, <1>6, <1>7 DEF OwnerInv

\* The node port that the table gives to a Pod leads to no other container and
\* to no other port, however many calls failed and controllers died, as long as
\* allocations that succeed have listed the Services (Listed) and no port change
\* is asked of a Pod whose removal has begun (Untried).  Both are needed: an
\* unrecorded Service of a clean-up that failed is seen by the listing alone,
\* and the rows of a Pod that lost its Services go to whoever reconciles next.
THEOREM PortsLeadToOwners ==
  ASSUME ~Overlap, GraceCovers, Base # {}
  PROVE  Spec /\ [][Listed /\ Untried]_vars => []PortLeadsToOwner
  <1>1. Init => TableInv /\ OwnerInv
    BY ConstantsOK, OldApart, TableStart, OwnerStart
  <1>2. TypeInv /\ TableInv /\ [Next]_vars => TableInv'
    BY ConstantsOK, NextTable
  <1>3. TypeInv /\ TableInv /\ OwnerInv /\ [Next]_vars /\ [Listed /\ Untried]_vars => OwnerInv'
    BY ConstantsOK, NextOwner
  <1>4. OwnerInv => PortLeadsToOwner
    BY DEF OwnerInv
  <1> QED BY <1>1, <1>2, <1>3, <1>4, Types, PTL DEF Spec
=============================================================================
