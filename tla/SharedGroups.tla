---------------------------- MODULE SharedGroups ----------------------------
(***************************************************************************)
(* The shared groups: the lines of the ledger's group file, the groups of  *)
(* the Active Directory that the NAS judges by, what the NAS has learned   *)
(* of them, and the GSS contexts in which it has frozen a user's groups.   *)
(* Group jobs and provision jobs write the ledger and the AD; the cron job *)
(* of reconcile_krb5.py and the loops that the jobs start compare the NAS  *)
(* with the ledger and flush the contexts, and register the names of the   *)
(* groups for the idmap of the nodes.                                      *)
(*                                                                         *)
(* A section under the ledger lock, a command on the AD's controller and a *)
(* session on the NAS are one action each.  The engine around the steps is *)
(* JobEngine's: a crashed job starts its step again, and a job fails when  *)
(* the attempts of a step are used up.  The mtimes of two writes are       *)
(* distinct.                                                               *)
(***************************************************************************)
EXTENDS Naturals, FiniteSets

CONSTANTS
  Jobs,
  KindOf,      \* "create", "add", "remove", or "join": a provision job of an
               \* existing account that asks for one shared group
  GroupOf,     \* the group of each job
  MembersOf,   \* create: the members; otherwise the user, as a set
  GidOf,       \* the gid that a request brings, or 0
  Users,
  Unknown,     \* users that the AD does not know (accounts of old)
  Names,       \* the names of shared groups
  Known,       \* groups at the start: name -> gid, the same in AD and ledger
  In,          \* their members
  SharedMax,   \* SHARED_GID_MAX; SHARED_GID_MIN is 1
  Loops,       \* retry loops that may live at one time
  Mixes,       \* the sets of jobs that are registered in one behaviour
  Overlap,     \* FALSE: two jobs about one group do not run at one time
  MaxTries,    \* STEP_MAX_ATTEMPTS - 1
  MaxCrashes, MaxFaults

Gids  == 1..SharedMax
Cron  == 0                \* the CronJob forbids a second run of itself
Final == {"ok", "fail"}
Kinds == {"create", "add", "remove", "join"}

ASSUME ConstantsOK ==
  /\ KindOf \in [Jobs -> Kinds] /\ GroupOf \in [Jobs -> Names]
  /\ MembersOf \in [Jobs -> SUBSET (Users \ Unknown)]
  /\ \A j \in Jobs : KindOf[j] # "create" => Cardinality(MembersOf[j]) = 1
  /\ GidOf \in [Jobs -> 0..SharedMax]
  /\ \A j \in Jobs : KindOf[j] \in {"add", "remove"} => GidOf[j] = 0
  /\ Unknown \subseteq Users
  /\ DOMAIN Known \subseteq Names
  /\ Known \in [DOMAIN Known -> Gids] /\ In \in [DOMAIN Known -> SUBSET Users]
  /\ Loops \subseteq Nat \ {0}
  /\ Mixes \subseteq SUBSET Jobs /\ Overlap \in BOOLEAN
  /\ SharedMax \in Nat /\ MaxTries \in Nat
  /\ MaxCrashes \in Nat /\ MaxFaults \in Nat

VARIABLES
  mix,      \* the jobs of this behaviour
  groups,   \* the lines of the group file; gid 0: no line
  mtime,    \* of the group file, as the number of its writes
  issued,   \* the largest shared gid that was ever given out
  ad,       \* the groups of the AD; gid 0: no group
  nas,      \* the gids that winbind on the NAS reports for each user
  ctx,      \* the groups frozen in a user's GSS context: {} or {a set}
  flushed,  \* .gss_flush_state: the mtime that a flush was recorded for
  lock,     \* nas_gss_flush:inflight: the loop that holds it, 0: free
  rec,      \* each run of reconcile_nas_gss_cache: the cron job's, the loops'
  idmap,    \* names registered on the nodes
  sending,  \* names handed to background threads that register them
  loc,      \* what each job's worker has in memory, and its verdict
  counts    \* crashes and faults so far

ledger == <<groups, mtime, issued>>
onNas  == <<nas, ctx>>
flush  == <<flushed, lock, rec>>
names  == <<idmap, sending>>
vars   == <<mix, ledger, ad, onNas, flush, names, loc, counts>>

Group == [gid: 0..SharedMax, members: SUBSET Users]
None  == [gid |-> 0, members |-> {}]
Local == [pc: {"new", "start", "line", "group", "members", "ledger", "trigger"}
              \cup Final,
          gid: 0..SharedMax, left: SUBSET Users, tries: 0..MaxTries,
          next: {"line", "group", "trigger"}]   \* of a join: the step to go on
                    \* with, as those before it are recorded as done
Run   == [pc: {"off", "idle", "want", "known", "ask", "flush", "write",
               "release", "idmap"},
          m: Nat, want: [Users -> SUBSET Gids], known: SUBSET Gids,
          late: BOOLEAN]    \* the lock expired under a living loop

TypeOK ==
  /\ mix \in Mixes
  /\ groups \in [Names -> Group] /\ ad \in [Names -> Group]
  /\ mtime \in Nat /\ flushed \in 0..mtime /\ issued \in 0..SharedMax
  /\ nas \in [Users -> SUBSET Gids]
  /\ \A u \in Users : \E S \in SUBSET Gids : ctx[u] \subseteq {S}
  /\ lock \in Loops \cup {0}
  /\ rec \in [Loops \cup {Cron} -> Run]
  /\ idmap \subseteq Names /\ sending \subseteq Names
  /\ loc \in [Jobs -> Local]
  /\ counts \in [crashes: 0..MaxCrashes, faults: 0..MaxFaults]

Blank == [pc |-> "new", gid |-> 0, left |-> {}, tries |-> 0, next |-> "line"]
Rest  == [pc |-> "off", m |-> 0, want |-> [u \in Users |-> {}], known |-> {},
          late |-> FALSE]
GidsIn(table, u) == {table[g].gid : g \in {n \in Names : u \in table[n].members}}

Init ==
  /\ mix \in Mixes
  /\ groups = [g \in Names |-> IF g \in DOMAIN Known
                 THEN [gid |-> Known[g], members |-> In[g]] ELSE None]
  /\ ad = groups /\ mtime = 1 /\ flushed = 1
  /\ issued \in {n \in 0..SharedMax : /\ \A g \in DOMAIN Known : Known[g] <= n
                                     /\ n \in {0} \cup {Known[g] : g \in DOMAIN Known}}
  /\ nas = [u \in Users |-> GidsIn(ad, u)]
  /\ ctx = [u \in Users |-> IF u \in Unknown THEN {} ELSE {nas[u]}]
  /\ lock = 0
  /\ rec = [r \in Loops \cup {Cron} |->
              IF r = Cron THEN [Rest EXCEPT !.pc = "idle"] ELSE Rest]
  /\ idmap = DOMAIN Known /\ sending = {}
  /\ loc = [j \in Jobs |-> Blank]
  /\ counts = [crashes |-> 0, faults |-> 0]

-----------------------------------------------------------------------------
(* Jobs.                                                                   *)

At(j, pc)  == j \in mix /\ loc[j].pc = pc
Running(j) == loc[j].pc \notin Final \cup {"new"}
Set(j, l)  == loc' = [loc EXCEPT ![j] = l]
Go(j, pc)  == Set(j, [loc[j] EXCEPT !.pc = pc])
End(j, v)  == Set(j, [Blank EXCEPT !.pc = v])
\* The start of the step that j is in.  Only a join has several.
Step(j)    == IF KindOf[j] = "join" /\ loc[j].pc # "start" THEN loc[j].next ELSE "start"
Again(j)   == IF loc[j].tries < MaxTries
              THEN Set(j, [loc[j] EXCEPT !.pc = Step(j), !.left = {}, !.tries = @ + 1])
              ELSE End(j, "fail")
Well       == UNCHANGED counts
Failing    == /\ counts.faults < MaxFaults
              /\ counts' = [counts EXCEPT !.faults = @ + 1]
Member(j)  == CHOOSE u \in MembersOf[j] : TRUE   \* of a job about one user

\* A write of the group file.
Write(g, gid, members) ==
  /\ groups' = [groups EXCEPT ![g] = [gid |-> gid, members |-> members]]
  /\ mtime' = mtime + 1

\* check_add, check_remove, check_create: once when the job is registered
\* and once more when it runs.
Accepted(j) == KindOf[j] \in {"add", "remove"} => groups[GroupOf[j]].gid # 0

\* POST /operations/group or /operations/provision
Register(j) ==
  /\ At(j, "new") /\ Accepted(j)
  /\ Overlap \/ \A i \in mix \ {j} : Running(i) => GroupOf[i] # GroupOf[j]
  /\ Go(j, "start") /\ Well
  /\ UNCHANGED <<mix, ledger, ad, onNas, flush, names>>

\* The gid of a line for the group: that of an existing line, the one that
\* the request brings, or the next after all that were ever given out.
LineGid(j) == IF groups[GroupOf[j]].gid # 0 THEN groups[GroupOf[j]].gid
              ELSE IF GidOf[j] # 0 THEN GidOf[j] ELSE issued + 1
\* Faulty: the end of the range is not looked at.
ClashOfNames(j) ==
  LET line == groups[GroupOf[j]]
  IN \/ /\ line.gid # 0 /\ KindOf[j] = "create"
        /\ GidOf[j] \notin {0, line.gid} \/ ~(line.members \subseteq MembersOf[j])
     \/ line.gid = 0 /\ GidOf[j] # 0 /\ \E g \in Names : groups[g].gid = GidOf[j]
Clash(j) ==
  LET line == groups[GroupOf[j]]
  IN \/ /\ line.gid # 0 /\ KindOf[j] = "create"
        /\ GidOf[j] \notin {0, line.gid} \/ ~(line.members \subseteq MembersOf[j])
     \/ line.gid = 0 /\ GidOf[j] # 0 /\ \E g \in Names : groups[g].gid = GidOf[j]
     \/ LineGid(j) \notin Gids
Issue(gid) == issued' = IF gid > issued THEN gid ELSE issued

\* step_group_create: _write_group_line.  The number is recorded before the
\* line is written.
CreateLine(j) ==
  /\ At(j, "start") /\ KindOf[j] = "create"
  /\ IF Clash(j)
     THEN End(j, "fail") /\ Well /\ UNCHANGED ledger
     ELSE LET gid == LineGid(j)
          IN \/ /\ Issue(gid) /\ Write(GroupOf[j], gid, MembersOf[j]) /\ Well
                /\ Set(j, [loc[j] EXCEPT !.pc = "group", !.gid = gid])
             \/ /\ Failing /\ Again(j) /\ UNCHANGED <<groups, mtime>>
                /\ issued' = issued \/ Issue(gid)
  /\ UNCHANGED <<mix, ad, onNas, flush, names>>

\* step_resolve_new_groups: a new group gets an empty line.  It hands the
\* name to a thread that registers it.  A job that is resumed does it again
\* (ALWAYS_RERUN) before the step that it was in; a request that brings the gid
\* has no such step.
JoinResolve(j) ==
  /\ At(j, "start") /\ KindOf[j] = "join"
  /\ LET g   == GroupOf[j]
         gid == IF GidOf[j] # 0 THEN GidOf[j] ELSE LineGid(j)
     IN IF gid \notin Gids
        THEN End(j, "fail") /\ Well /\ UNCHANGED <<ledger, sending>>
        ELSE \/ /\ IF groups[g].gid # 0 \/ GidOf[j] # 0 THEN UNCHANGED ledger
                   ELSE Issue(gid) /\ Write(g, gid, {})
                /\ sending' = IF GidOf[j] = 0 THEN sending \cup {g} ELSE sending
                /\ Set(j, [loc[j] EXCEPT !.pc = loc[j].next, !.gid = gid, !.tries = 0])
                /\ Well
             \/ /\ GidOf[j] = 0 /\ Failing /\ Again(j)
                /\ UNCHANGED <<groups, mtime, sending>>
                /\ issued' = issued \/ Issue(gid)
  /\ UNCHANGED <<mix, ad, onNas, flush, idmap>>

\* step_add_user_groups: the user joins the line with that gid; a line that
\* is missing from the ledger is written again.
JoinLine(j) ==
  /\ At(j, "line")
  /\ LET g   == GroupOf[j]
         gid == loc[j].gid
         of  == {n \in Names : groups[n].gid = gid}
     IN \/ /\ mtime' = mtime + 1
           /\ IF of # {}
              THEN /\ groups' = [n \in Names |-> IF n \in of
                        THEN [groups[n] EXCEPT !.members = @ \cup MembersOf[j]]
                        ELSE groups[n]]
                   /\ UNCHANGED issued
              ELSE /\ groups' = [groups EXCEPT ![g] =
                                   [gid |-> gid, members |-> MembersOf[j]]]
                   /\ Issue(gid)
           /\ Set(j, [loc[j] EXCEPT !.pc = "group", !.next = "group", !.tries = 0])
           /\ Well
        \/ /\ Failing /\ Again(j) /\ UNCHANGED <<groups, mtime>>
           /\ issued' = issued \/ (of = {} /\ Issue(gid))
  /\ UNCHANGED <<mix, ad, onNas, flush, names>>

\* _create_ad_group, for an existing group only its gid.  Of a join this and
\* the members are step_sync_ad_groups; the others are one step to the end.
AdGroup(j) ==
  /\ At(j, "group")
  /\ LET g    == GroupOf[j]
         Made == ad' = [ad EXCEPT ![g].gid = loc[j].gid]
     IN \/ /\ Made /\ Well
           /\ Set(j, [loc[j] EXCEPT !.pc = "members", !.left = MembersOf[j]])
        \/ (Made \/ UNCHANGED ad) /\ Again(j) /\ Failing
  /\ UNCHANGED <<mix, ledger, onNas, flush, names>>

\* check_add or check_remove again, with what is in the ledger now.
MemberStart(j) ==
  /\ At(j, "start") /\ KindOf[j] \in {"add", "remove"}
  /\ IF Accepted(j)
     THEN Set(j, [loc[j] EXCEPT !.pc = "members", !.left = MembersOf[j]])
     ELSE End(j, "fail")
  /\ Well /\ UNCHANGED <<mix, ledger, ad, onNas, flush, names>>

\* Faulty: a command that fails is logged, and the job goes on.
AdMemberSwallowed(j) ==
  /\ At(j, "members")
  /\ \E u \in loc[j].left :
       /\ Set(j, [loc[j] EXCEPT !.left = @ \ {u}])
       /\ \/ /\ ad' = [ad EXCEPT ![GroupOf[j]].members =
                          IF KindOf[j] = "remove" THEN @ \ {u} ELSE @ \cup {u}]
             /\ Well
          \/ UNCHANGED ad /\ Failing
  /\ UNCHANGED <<mix, ledger, onNas, flush, names>>
\* _add_ad_group_member, _remove_ad_group_member, a command for each member;
\* it fails when the AD has no such group.
AdMember(j) ==
  /\ At(j, "members")
  /\ \E u \in loc[j].left :
       LET g    == GroupOf[j]
           Done == ad' = [ad EXCEPT ![g].members =
                            IF KindOf[j] = "remove" THEN @ \ {u} ELSE @ \cup {u}]
       IN \/ /\ ad[g].gid # 0 /\ Done /\ Well
             /\ Set(j, [loc[j] EXCEPT !.left = @ \ {u}])
          \/ ad[g].gid = 0 /\ Again(j) /\ Well /\ UNCHANGED ad
          \/ ad[g].gid # 0 /\ (Done \/ UNCHANGED ad) /\ Again(j) /\ Failing
  /\ UNCHANGED <<mix, ledger, onNas, flush, names>>
\* A new group is handed to a thread that registers it.
AdMembersDone(j) ==
  /\ At(j, "members") /\ loc[j].left = {}
  /\ CASE KindOf[j] = "create" -> End(j, "ok")
       [] KindOf[j] = "join"   -> Set(j, [loc[j] EXCEPT !.pc = "trigger",
                                                        !.next = "trigger"])
       [] OTHER                -> Go(j, "ledger")
  /\ sending' = IF KindOf[j] = "create" THEN sending \cup {GroupOf[j]} ELSE sending
  /\ Well /\ UNCHANGED <<mix, ledger, ad, onNas, flush, idmap>>

\* _set_group_membership reads the file again within the lock and writes it
\* only when something changes.
LedgerMember(j) ==
  /\ At(j, "ledger")
  /\ LET g       == GroupOf[j]
         members == IF KindOf[j] = "remove" THEN groups[g].members \ MembersOf[j]
                                            ELSE groups[g].members \cup MembersOf[j]
     IN \/ /\ IF groups[g].gid = 0 \/ members = groups[g].members
              THEN UNCHANGED ledger
              ELSE Write(g, groups[g].gid, members) /\ UNCHANGED issued
           /\ Go(j, "trigger") /\ Well
        \/ UNCHANGED ledger /\ Again(j) /\ Failing
  /\ UNCHANGED <<mix, ad, onNas, flush, names>>

-----------------------------------------------------------------------------
(* The flush.                                                              *)

\* trigger_nas_gss_flush_ondemand: SET NX with a token of its own, then the
\* thread; without the lock, or when Redis fails, nothing happens.
Trigger(j) ==
  /\ At(j, "trigger") /\ End(j, "ok")
  /\ \/ /\ lock = 0 /\ \E l \in Loops : rec[l].pc = "off"
        /\ LET l == CHOOSE x \in Loops : rec[x].pc = "off"
           IN lock' = l /\ rec' = [rec EXCEPT ![l].pc = "idle"]
        /\ Well
     \/ lock # 0 /\ UNCHANGED <<lock, rec>> /\ Well
     \/ UNCHANGED <<lock, rec>> /\ Failing
  /\ UNCHANGED <<mix, ledger, ad, onNas, flushed, names>>

RunAt(r, pc) == rec[r].pc = pc
SetRun(r, x) == rec' = [rec EXCEPT ![r] = x]
\* reconcile_nas_gss_cache returns: False to a loop means another round, and
\* True its end; the cron job goes on to the idmap.
Back(r, result) ==
  SetRun(r, [Rest EXCEPT !.late = rec[r].late,
                         !.pc = IF r = Cron THEN "idmap"
                                ELSE IF result THEN "release" ELSE "idle"])
Still == UNCHANGED <<mix, ledger, ad, nas, lock, names, loc>>

\* The mtime comes first: what is read after it is at least as new.
Begin(r) ==
  /\ RunAt(r, "idle")
  /\ IF flushed >= mtime THEN Back(r, FALSE)
     ELSE SetRun(r, [rec[r] EXCEPT !.pc = "want", !.m = mtime])
  /\ Well /\ Still /\ UNCHANGED <<ctx, flushed>>
\* _ledger_shared_gids_by_user, _ledger_shared_gids
ReadWanted(r) ==
  /\ RunAt(r, "want")
  /\ SetRun(r, [rec[r] EXCEPT !.pc = "known",
                              !.want = [u \in Users |-> GidsIn(groups, u)]])
  /\ Well /\ Still /\ UNCHANGED <<ctx, flushed>>
ReadKnown(r) ==
  /\ RunAt(r, "known")
  /\ SetRun(r, [rec[r] EXCEPT !.pc = "ask",
                              !.known = {groups[g].gid : g \in Names} \ {0}])
  /\ Well /\ Still /\ UNCHANGED <<ctx, flushed>>

\* Faulty: who is unknown to the NAS has not been caught up with.
CaughtUpOnAll(r) ==
  \A u \in Users : u \notin Unknown /\ nas[u] \cap rec[r].known = rec[r].want[u]
\* The NAS agrees with what was read: same groups, for all who are known.
CaughtUp(r) ==
  \A u \in Users : IF u \in Unknown THEN rec[r].want[u] = {}
                   ELSE nas[u] \cap rec[r].known = rec[r].want[u]
\* nas_shared_gids_for_users, one session for all users.
AskNas(r) ==
  /\ RunAt(r, "ask")
  /\ \/ /\ Well
        /\ IF CaughtUp(r) THEN SetRun(r, [rec[r] EXCEPT !.pc = "flush"])
                          ELSE Back(r, FALSE)
     \/ Back(r, FALSE) /\ Failing
  /\ Still /\ UNCHANGED <<ctx, flushed>>
\* nas_flush_gss_cache
Flush(r) ==
  LET Empty == ctx' = [u \in Users |-> {}]
  IN /\ RunAt(r, "flush")
     /\ \/ Empty /\ SetRun(r, [rec[r] EXCEPT !.pc = "write"]) /\ Well
        \/ (Empty \/ UNCHANGED ctx) /\ Back(r, FALSE) /\ Failing
     /\ Still /\ UNCHANGED flushed
\* Faulty: the state is written with the mtime that the file has by now.
WriteCurrent(r) ==
  /\ RunAt(r, "write")
  /\ flushed' = mtime /\ Back(r, TRUE)
  /\ Well /\ Still /\ UNCHANGED ctx
\* _write_gss_state; an error ends the cron job and is logged by a loop.
WriteState(r) ==
  /\ RunAt(r, "write")
  /\ \/ flushed' = rec[r].m /\ Back(r, TRUE) /\ Well
     \/ /\ UNCHANGED flushed /\ Failing
        /\ IF r = Cron THEN SetRun(r, [Rest EXCEPT !.pc = "idle"])
                       ELSE Back(r, FALSE)
  /\ Still /\ UNCHANGED ctx

\* A loop gives up after NAS_GSS_ONDEMAND_TIMEOUT_SEC.
GiveUp(l) ==
  /\ RunAt(l, "idle") /\ l # Cron
  /\ SetRun(l, [rec[l] EXCEPT !.pc = "release"])
  /\ Well /\ Still /\ UNCHANGED <<ctx, flushed>>
\* Faulty: the lock is deleted whoever holds it.
ReleasedBy(l) == 0
\* release_flush_lock: only the owner's token deletes; an error is ignored.
Released(l) == IF lock = l THEN 0 ELSE lock
Release(l) ==
  /\ RunAt(l, "release")
  /\ SetRun(l, Rest)
  /\ \/ lock' = Released(l) /\ Well
     \/ UNCHANGED lock /\ Failing
  /\ UNCHANGED <<mix, ledger, ad, onNas, flushed, names, loc>>
\* The lock expires after the TTL: its loop is gone, or hangs in a session
\* on the NAS beyond its time.
Expire ==
  /\ lock # 0
  /\ lock' = 0
  /\ IF RunAt(lock, "off") THEN Well /\ UNCHANGED rec
     ELSE Failing /\ rec' = [rec EXCEPT ![lock].late = TRUE]
  /\ UNCHANGED <<mix, ledger, ad, onNas, flushed, names, loc>>

-----------------------------------------------------------------------------
(* The idmap, the NAS, and crashes.                                        *)

\* The thread of trigger_idmap_sync_ondemand; a node that fails is logged.
SendIdmap(g) ==
  /\ g \in sending /\ sending' = sending \ {g}
  /\ \/ idmap' = idmap \cup {g} /\ Well
     \/ UNCHANGED idmap /\ Failing
  /\ UNCHANGED <<mix, ledger, ad, onNas, flush, loc>>
\* reconcile_idmap_groups: all the groups of the ledger, last of the cron job.
CronIdmap ==
  /\ RunAt(Cron, "idmap") /\ SetRun(Cron, [Rest EXCEPT !.pc = "idle"])
  /\ \/ idmap' = idmap \cup {g \in Names : groups[g].gid # 0} /\ Well
     \/ UNCHANGED idmap /\ Failing
  /\ UNCHANGED <<mix, ledger, ad, onNas, flushed, lock, sending, loc>>

\* winbind on the NAS learns a user's groups, minutes after the AD has them.
Learn(u) ==
  /\ u \notin Unknown /\ nas[u] # GidsIn(ad, u)
  /\ nas' = [nas EXCEPT ![u] = GidsIn(ad, u)]
  /\ Well /\ UNCHANGED <<mix, ledger, ad, ctx, flush, names, loc>>
\* A session of the user gets a context, with what the NAS holds then.
Connect(u) ==
  /\ u \notin Unknown /\ ctx[u] = {} /\ ctx' = [ctx EXCEPT ![u] = {nas[u]}]
  /\ Well /\ UNCHANGED <<mix, ledger, ad, nas, flush, names, loc>>

\* A context lives no longer than the ticket it was made with.
Lapse(u) ==
  /\ ctx[u] # {} /\ ctx' = [ctx EXCEPT ![u] = {}]
  /\ Well /\ UNCHANGED <<mix, ledger, ad, nas, flush, names, loc>>

\* A process dies: a job is resumed by another controller at the start of the
\* step it was in, a join only after step_resolve_new_groups; a loop is gone
\* without releasing its lock, the cron job starts again at its next time.
Crash ==
  /\ counts.crashes < MaxCrashes
  /\ counts' = [counts EXCEPT !.crashes = @ + 1]
  /\ \/ \E j \in mix : /\ Running(j)
                       /\ Set(j, [Blank EXCEPT !.pc = "start", !.next = loc[j].next])
                       /\ UNCHANGED rec
     \/ \E r \in Loops \cup {Cron} :
          /\ rec[r].pc # "off" /\ (r = Cron => rec[r].pc # "idle")
          /\ SetRun(r, IF r = Cron THEN [Rest EXCEPT !.pc = "idle"] ELSE Rest)
          /\ UNCHANGED loc
  /\ UNCHANGED <<mix, ledger, ad, onNas, flushed, lock, names>>

Worker(j) == \/ CreateLine(j) \/ JoinResolve(j) \/ JoinLine(j) \/ AdGroup(j)
             \/ MemberStart(j) \/ AdMember(j) \/ AdMembersDone(j)
             \/ LedgerMember(j) \/ Trigger(j)
Reconcile(r) == \/ Begin(r) \/ ReadWanted(r) \/ ReadKnown(r) \/ AskNas(r)
                \/ Flush(r) \/ WriteState(r)
CronJob == Reconcile(Cron) \/ CronIdmap
Loop(l) == Reconcile(l) \/ GiveUp(l) \/ Release(l)

Next ==
  \/ \E j \in Jobs : Register(j) \/ Worker(j)
  \/ CronJob
  \/ \E l \in Loops : Loop(l)
  \/ Expire
  \/ \E g \in Names : SendIdmap(g)
  \/ \E u \in Users : Learn(u) \/ Connect(u) \/ Lapse(u)
  \/ Crash

Spec == Init /\ [][Next]_vars

\* The engine finishes what is registered, the cron job runs every 30
\* minutes, and the NAS learns in the end.  Nothing is assumed of the loops.
FairSpec == /\ Spec
            /\ \A j \in Jobs : WF_vars(Worker(j))
            /\ WF_vars(CronJob)
            /\ \A u \in Users : WF_vars(Learn(u))

-----------------------------------------------------------------------------
(* Properties.                                                             *)

Agree == \A g \in Names : ad[g].gid = groups[g].gid
                          /\ (ad[g].gid # 0 => ad[g].members = groups[g].members)
InEffect == \A u \in Users : ctx[u] \subseteq {GidsIn(groups, u)}
Settled  == /\ \A j \in mix : loc[j].pc \in Final \cup {"new"}
            /\ Agree

\* Jobs that write the ledger before the AD.
LedgerFirst == {"create", "join"}
Begun(kinds) == \E j \in mix : KindOf[j] \in kinds /\ loc[j].pc # "new"

\* What the comparison with the ledger relies on.  A job that failed may have
\* changed the AD alone, and one that takes its change back then writes
\* nothing in the ledger; and while a removal has not reached the NAS, the
\* NAS agrees with a ledger that has the user again before the AD has.
Traced == /\ \A j \in mix : loc[j].pc # "fail"
          /\ ~(Begun({"remove"}) /\ Begun(LedgerFirst))

\* When the recorded flush is as new as the group file, and the AD agrees
\* with the file, no context has other groups than the file: no run flushed
\* before the NAS had caught up, or recorded a change that came between its
\* comparison and its flush (reconcile_nas_gss_cache, #153).
FlushedMeansInEffect == Traced /\ flushed >= mtime /\ Agree => InEffect

\* A job that ended well has left the group with one gid, and its members in
\* or out, in the ledger and in the AD alike, as long as no other job about
\* the group was registered: also when it was cut off between the two or
\* made again (step_group_*, step_add_user_groups, step_sync_ad_groups).
DoneMeansBoth ==
  \A j \in mix :
    loc[j].pc = "ok" /\ (\A i \in mix \ {j} : GroupOf[i] = GroupOf[j] =>
                                               loc[i].pc = "new")
    => \A table \in {groups, ad} :
         LET g == GroupOf[j]
         IN /\ table[g].gid = groups[g].gid /\ table[g].gid # 0
            /\ IF KindOf[j] = "remove" THEN MembersOf[j] \cap table[g].members = {}
                                       ELSE MembersOf[j] \subseteq table[g].members

\* A loop that has not outlived the TTL still holds the lock, whatever
\* belated loops release: loops do not run side by side (release_flush_lock).
LockIsOwners ==
  \A l \in Loops : rec[l].pc # "off" /\ ~rec[l].late => lock = l

\* Once the jobs are over, and AD and ledger agree, the contexts come to have
\* the groups of the ledger, and every group is registered on the nodes,
\* although loops give up, flushes fail and processes die.
EventuallyInEffect ==
  <>[](Settled /\ Traced) => <>[](InEffect /\ {g \in Names : groups[g].gid # 0} \subseteq idmap)
=============================================================================
