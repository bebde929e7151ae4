--------------------------- MODULE AccountLedger ---------------------------
(***************************************************************************)
(* The account files of config-server (passwd, group, shadow, sudoers on   *)
(* the NAS), the record of issued ids, and the jobs that write them: an    *)
(* account is created in several sections, each under the ledger lock,     *)
(* rolled back when a later section or step fails, judged when a job is    *)
(* resumed, taken back by the compensation, and deleted by a revoke job.   *)
(*                                                                         *)
(* Every file write, every log row another step decides on, and every      *)
(* effect outside is one action; the controller may crash between any two. *)
(* A file is replaced atomically (replace_file_atomically).  The steps     *)
(* after the Kerberos principal are one action, Pod; the engine around the *)
(* steps is module JobEngine's and is here only what a job's resumption    *)
(* depends on: who owns the job and what was recorded for it.              *)
(***************************************************************************)
EXTENDS Naturals, Sequences, FiniteSets

CONSTANTS
  Names,        \* account names; one name, one person
  Provisions,   \* jobs of register_provision that carry an account
  Revokes,      \* jobs of register_revoke with delete_account
  NameOf,       \* the account name of each job
  PgName,       \* primary_group_name of each provision
  TeamGid,      \* team groups and their gids, above every uid
  Supp,         \* supplementary groups of each provision
  Legacy,       \* the uids 1..Legacy were issued before
  SystemIds,    \* uids of the system accounts in passwd
  UidMax,       \* UID_MAX; UID_MIN is 1
  Owners,       \* controller processes
  Orderly,      \* TRUE: admin_be has no account revoked while a provision of
                \* it is open, nor the other way round
  MaxAttempts,  \* STEP_MAX_ATTEMPTS
  MaxRewinds,   \* STEP_MAX_ATTEMPTS - 1
  MaxCrashes,   \* crashes of a controller
  FaultKinds,   \* the failures that may happen
  MaxFaults,    \* and how many of them
  None          \* no home, no owner, nobody holds the lock

Jobs    == Provisions \cup Revokes
Teams   == DOMAIN TeamGid
Uids    == 1..UidMax
Workers == Jobs \X Owners
Steps   == {"account", "home", "krb", "check"}

\* HELD: a FAIL that left the account; IN_USE, UNVERIFIED: a refused revoke
Verdicts == {"SUCCESS", "FAIL", "HELD", "DEGRADED", "IN_USE", "UNVERIFIED"}
Queued   == {"create", "reuse", "revoke"}
PCs == {"off", "judge", "lookup", "issue", "mark", "passwd", "group",
        "shadow", "sudoers", "log", "home", "krb", "record", "rewind", "pod",
        "undo", "undo_shadow", "undo_group", "comp", "check", "delete",
        "del_shadow", "del_group", "del_log", "left_shadow", "left_group",
        "end"}
AllFaults == {"judge", "lookup", "issue", "mark", "passwd", "group", "shadow",
              "sudoers", "log", "home", "krb", "record", "pod", "undo",
              "delete", "evidence", "stall"}

ASSUME ConstantsOK ==
  /\ Provisions \cap Revokes = {}
  /\ NameOf \in [Jobs -> Names]
  /\ Legacy \in Nat /\ UidMax \in Nat /\ Legacy <= UidMax
  /\ SystemIds \subseteq Uids /\ \A i \in SystemIds : i > Legacy
  /\ \A t \in Teams : TeamGid[t] \in Nat /\ TeamGid[t] > UidMax
  /\ Teams \cap Names = {}  \* revoke.py:327
  /\ Supp \in [Provisions -> SUBSET Teams]
  /\ MaxAttempts \in Nat \ {0} /\ MaxRewinds \in Nat /\ MaxCrashes \in Nat
  /\ Orderly \in BOOLEAN
  /\ FaultKinds \subseteq AllFaults /\ MaxFaults \in Nat
  /\ None \notin Nat \cup Owners \cup Workers

VARIABLES
  passwd,    \* passwd: its lines; `by', the job that wrote it, is history
  group,     \* group: its lines
  shadow,    \* shadow: the lines of each name in order, by the job whose hash
  sudoers,   \* names with a file in sudoers.d
  issued,    \* issued-id record: the largest uid given out
  home,      \* owner of each name's home on the NAS (0 is root), or None
  pods,      \* provisions whose Pod is there
  evidence,  \* operation_log: a deletion after the last CREATE_ACCOUNT SUCCESS
  job,       \* where each job is, finally its verdict
  expected,  \* account.expected_uid of each provision, 0 for none
  known,     \* the uid admin_be has on record for each name
  lease,     \* job_control: the owner of each job
  saved,     \* job_control: what is recorded of each provision
  loc,       \* the worker threads
  lock,      \* the ledger lock (GET_LOCK): who holds it
  given,     \* history: every (name, uid) that a passwd line or a home had
  crashes, faults

files  == <<passwd, group, shadow, sudoers>>
nas    == <<home, pods>>
orders == <<job, expected, known>>
jobctl == <<lease, saved>>
counts == <<crashes, faults>>
vars   == <<files, issued, nas, evidence, orders, jobctl, loc, lock, given, counts>>

Account == [name: Names, uid: Uids]
Line    == [name: Names, uid: Uids, by: Provisions]
Saved   == [done: SUBSET Steps, uid: 0..UidMax, mk: 0..UidMax, made: BOOLEAN]
Local   == [pc: PCs, tries: 1..MaxAttempts, rewinds: 0..MaxRewinds,
            done: SUBSET Steps, uid: 0..UidMax, mk: 0..UidMax, made: BOOLEAN,
            ret: 0..UidMax, shared: BOOLEAN, gid: 0..UidMax,
            then: {"", "account", "home", "krb", "mismatch", "judged"},
            out: Verdicts \cup {""}]

TypeOK ==
  /\ passwd \subseteq Line
  /\ \A g \in group : g.gid \in Nat /\ g.members \subseteq Names
  /\ shadow \in [Names -> Seq(Provisions)]
  /\ sudoers \subseteq Names
  /\ issued \in 0..UidMax
  /\ home \in [Names -> 0..UidMax \cup {None}]
  /\ pods \subseteq Provisions
  /\ evidence \in [Names -> BOOLEAN]
  /\ job \in [Jobs -> {"new", "setpw"} \cup Queued \cup Verdicts]
  /\ expected \in [Provisions -> 0..UidMax]
  /\ known \in [Names -> 0..UidMax]
  /\ lease \in [Jobs -> Owners \cup {None}]
  /\ saved \in [Jobs -> Saved]
  /\ loc \in [Workers -> Local]
  /\ lock \in Workers \cup {None}
  /\ given \subseteq Account
  /\ crashes \in 0..MaxCrashes /\ faults \in 0..MaxFaults

Nothing == [done |-> {}, uid |-> 0, mk |-> 0, made |-> FALSE]
Off == [pc |-> "off", tries |-> 1, rewinds |-> 0, done |-> {}, uid |-> 0,
        mk |-> 0, made |-> FALSE, ret |-> 0, shared |-> FALSE, gid |-> 0,
        then |-> "", out |-> ""]

\* Persons who were here before keep their home, and admin_be their uid; two
\* of them may share a uid (reissued before ids were recorded).  The record
\* covers every uid ever given out.
Init ==
  /\ passwd = {} /\ shadow = [n \in Names |-> << >>] /\ sudoers = {}
  /\ group = {[name |-> t, gid |-> TeamGid[t], members |-> {}] : t \in Teams}
  /\ issued = Legacy
  /\ home \in [Names -> 1..Legacy \cup {None}]
  /\ known = [n \in Names |-> IF home[n] = None THEN 0 ELSE home[n]]
  /\ pods = {}
  /\ evidence = [n \in Names |-> FALSE]
  /\ job = [j \in Jobs |-> "new"]
  /\ expected = [j \in Provisions |-> 0]
  /\ lease = [j \in Jobs |-> None]
  /\ saved = [j \in Jobs |-> Nothing]
  /\ loc = [w \in Workers |-> Off]
  /\ lock = None
  /\ given = {[name |-> n, uid |-> home[n]] : n \in {m \in Names : home[m] # None}}
  /\ crashes = 0 /\ faults = 0

Fault(f) == /\ f \in FaultKinds
            /\ faults < MaxFaults
            /\ faults' = faults + 1
            /\ UNCHANGED crashes

-----------------------------------------------------------------------------
(* The files *)

LinesOf(n)   == {e \in passwd : e.name = n}
UidsInUse    == {e.uid : e \in passwd} \cup SystemIds
Without(n)   == passwd \ LinesOf(n)
Larger(a, b) == IF a > b THEN a ELSE b

\* mutant of Fresh: compared with the lines only, not with the issued ids
FreshInPasswd(u) == u \notin SystemIds /\ \A e \in passwd : u > e.uid

\* above every managed and every issued uid, and not a system account's
Fresh(u) == u > issued /\ u \notin SystemIds /\ \A e \in passwd : u > e.uid

\* _allocate_next_uid gives the least one
IsNextUid(u) == Fresh(u) /\ \A v \in 1..(u - 1) : ~Fresh(v)

\* mutant of ReclaimConflict: other homes of the uid are not looked at
ReclaimsShared(j, u, shared) == u \in UidsInUse

\* why _reclaim_uid refuses to give u back to job j's person (homes out of the
\* uid range are left out)
ReclaimConflict(j, u, shared) ==
  \/ u \in UidsInUse
  \/ \E g \in group : g.gid = u /\ g.name \notin {NameOf[j], PgName[j]}
  \/ shared

\* mutant of GroupsWithout: every emptied group goes
EmptiedGroupsGo(n, own) ==
  {[g EXCEPT !.members = @ \ {n}] : g \in {l \in group : l.members # {n}}}

\* group lines after n left them, without its own groups that are empty then
GroupsWithout(n, own) ==
  {[g EXCEPT !.members = @ \ {n}] :
     g \in {l \in group : ~(l \in own /\ l.members \subseteq {n})}}

\* only the name or only the gid of j's personal group is taken
GroupConflict(j, u) ==
  \E g \in group : (g.gid = u) # (g.name = PgName[j])

GroupsWith(j, u) ==
  LET primary == [name |-> PgName[j], gid |-> u, members |-> {}]
      own     == IF \E g \in group : g.gid = u THEN {} ELSE {primary}
      gids    == {TeamGid[t] : t \in Supp[j]}
      lost    == {t \in Supp[j] : ~\E g \in group : g.gid = TeamGid[t]}
  IN  {IF g.gid \in gids THEN [g EXCEPT !.members = @ \cup {NameOf[j]}] ELSE g :
         g \in group \cup own}
      \cup {[name |-> t, gid |-> TeamGid[t], members |-> {NameOf[j]}] : t \in lost}

\* mutant of MissingParts: looks at the group file only
MissingGroups(j, u) ==
  {part \in {"primary"} : ~\E g \in group : g.gid = u /\ g.name = PgName[j]}

\* _account_missing_parts
MissingParts(j, u) ==
  {part \in {"primary", "team", "shadow", "sudoers"} :
     CASE part = "primary" -> ~\E g \in group : g.gid = u /\ g.name = PgName[j]
       [] part = "team"    -> \E t \in Supp[j] : ~\E g \in group :
                                g.gid = TeamGid[t] /\ NameOf[j] \in g.members
       [] part = "shadow"  -> shadow[NameOf[j]] = << >>
       [] part = "sudoers" -> NameOf[j] \notin sudoers}

-----------------------------------------------------------------------------
(* Jobs: registration, ownership, resumption *)

Open(j) == job[j] \in {"setpw"} \cup Queued

RegisterRevoke(j) ==
  /\ j \in Revokes /\ job[j] = "new"
  /\ Orderly => \A p \in Provisions : NameOf[p] = NameOf[j] => ~Open(p)
  /\ job' = [job EXCEPT ![j] = "revoke"]
  /\ UNCHANGED <<files, issued, nas, evidence, expected, known, jobctl, loc, lock, given, counts>>

\* register_provision with an account: an account of the expected uid that is
\* still in passwd is adopted (_adoptable_account_uid), otherwise created
RegisterProvision(j) ==
  /\ j \in Provisions /\ job[j] = "new"
  /\ Orderly => \A r \in Revokes : NameOf[r] = NameOf[j] => ~Open(r)
  /\ \E u \in {0, known[NameOf[j]]} :
       /\ expected' = [expected EXCEPT ![j] = u]
       /\ job' = [job EXCEPT ![j] =
            IF \E e \in LinesOf(NameOf[j]) : e.uid = u THEN "setpw" ELSE "create"]
  /\ UNCHANGED <<files, issued, nas, evidence, known, jobctl, loc, lock, given, counts>>

\* set_ledger_password changes the first line of the name, then the job is
\* registered as one that reuses the account
AdoptAccount(j) ==
  /\ job[j] = "setpw" /\ lock = None
  /\ shadow' = [shadow EXCEPT ![NameOf[j]] =
       IF @ = << >> THEN @ ELSE [@ EXCEPT ![1] = j]]
  /\ job' = [job EXCEPT ![j] = "reuse"]
  /\ UNCHANGED <<passwd, group, sudoers, issued, nas, evidence, expected, known,
                 jobctl, loc, lock, given, counts>>

\* the first step of the job that is not recorded as done
FirstStep(done) ==
  IF "check" \in done THEN "delete"
  ELSE IF "krb" \in done THEN "pod"
  ELSE IF "home" \in done THEN "krb"
  ELSE IF "account" \in done THEN "home"
  ELSE "judge"

\* claim and the start of _run_job: the recorded context, the rest from new.
\* A job whose owner is at work is taken over only if the owner stalled.
Take(j, o) ==
  LET s == saved[j]
  IN  /\ job[j] \in Queued
      /\ loc[<<j, o>>].pc = "off"
      /\ IF lease[j] # None /\ loc[<<j, lease[j]>>].pc # "off"
           THEN Fault("stall")
           ELSE UNCHANGED counts
      /\ lease' = [lease EXCEPT ![j] = o]
      /\ loc' = [loc EXCEPT ![<<j, o>>] =
           [Off EXCEPT !.done = s.done, !.uid = s.uid, !.mk = s.mk, !.made = s.made,
              !.pc = CASE job[j] = "revoke" /\ s.done = {} -> "check"
                       [] job[j] = "reuse"               -> "pod"
                       [] OTHER                          -> FirstStep(s.done)]]
      /\ UNCHANGED <<files, issued, nas, evidence, orders, saved, lock, given>>

\* the controller process dies: its threads are gone, and its lock with them
Crash(o) ==
  /\ crashes < MaxCrashes
  /\ \E j \in Jobs : loc[<<j, o>>].pc # "off"
  /\ crashes' = crashes + 1
  /\ loc' = [w \in Workers |-> IF w[2] = o THEN Off ELSE loc[w]]
  /\ lock' = IF lock # None /\ lock[2] = o THEN None ELSE lock
  /\ UNCHANGED <<files, issued, nas, evidence, orders, jobctl, given, faults>>

At(j, o, pc)     == loc[<<j, o>>].pc = pc
Free             == lock = None
Mine(j, o)       == lock = <<j, o>>
Become(j, o, l)  == loc' = [loc EXCEPT ![<<j, o>>] = l]
Goto(j, o, pc)   == Become(j, o, [loc[<<j, o>>] EXCEPT !.pc = pc])
Acquire(j, o)    == Free /\ lock' = <<j, o>>
Release(j, o)    == Mine(j, o) /\ lock' = None
\* a section of one write
Locked           == Free /\ UNCHANGED lock

Ending(l, verdict) == [l EXCEPT !.pc = "end", !.out = verdict]

\* mutant of Failing: no compensation
FailsUncompensated(l) == Ending(l, "FAIL")

\* StepFailed that ends the job: the account is taken back if it was recorded
Failing(l) == IF "krb" \in l.done THEN [l EXCEPT !.pc = "comp"] ELSE Ending(l, "FAIL")

\* mutant of Again: no bound on the attempts
AgainForever(l, pc) == [l EXCEPT !.pc = pc, !.tries = @ + 1]

\* mutant of Again: the attempts are not counted
AgainUncounted(l, pc) == [l EXCEPT !.pc = pc]

\* _execute_step runs the step again, or gives up: DEGRADED
Again(l, pc) == IF l.tries < MaxAttempts
                  THEN [l EXCEPT !.pc = pc, !.tries = @ + 1]
                  ELSE Ending(l, "DEGRADED")

\* _rollback_user, and what follows it; gid = 0 when no primary_gid is passed
Undoing(l, then) == [l EXCEPT !.pc = "undo", !.gid = 0, !.then = then]

\* the context that is saved (SAVED_CTX_KEYS)
Recorded(l) == [done |-> l.done, uid |-> l.uid, mk |-> l.mk, made |-> l.made]

\* record_step: refused with LeaseLost when the job has another owner
RecordStep(j, o, l, pc) ==
  IF lease[j] = o
    THEN /\ saved' = [saved EXCEPT ![j] = Recorded(l)]
         /\ Become(j, o, [l EXCEPT !.pc = pc])
    ELSE UNCHANGED saved /\ Become(j, o, Off)

-----------------------------------------------------------------------------
(* step_create_account *)

\* mutant of Marked: any account of the name is the job's own
MarkedByName(j, l) == LinesOf(NameOf[j])

\* the account of the write marker's uid
Marked(j, l) == {e \in LinesOf(NameOf[j]) : e.uid = l.mk}

\* _judge_interrupted_account.  An account of the marker's uid that lacks a
\* part is rolled back under the same lock: its first write is here.
Judge(j, o) ==
  LET l    == loc[<<j, o>>]
      mine == Marked(j, l)
  IN  /\ At(j, o, "judge")
      /\ \/ /\ l.mk = 0
            /\ Goto(j, o, "lookup") /\ UNCHANGED <<passwd, lock>>
         \/ /\ l.mk # 0 /\ mine = {}
            /\ Locked /\ Goto(j, o, "lookup") /\ UNCHANGED passwd
         \/ /\ mine # {} /\ MissingParts(j, l.mk) = {}
            /\ Locked
            /\ Become(j, o, [l EXCEPT !.pc = "log", !.uid = l.mk])
            /\ UNCHANGED passwd
         \/ /\ mine # {} /\ MissingParts(j, l.mk) # {}
            /\ Acquire(j, o)
            /\ passwd' = Without(NameOf[j])
            /\ Become(j, o, [l EXCEPT !.pc = "undo_shadow", !.gid = l.mk,
                                      !.then = "judged"])
      /\ UNCHANGED <<group, shadow, sudoers, issued, nas, evidence, orders,
                     jobctl, given, counts>>

\* _returning_owner_uid, outside the lock
Lookup(j, o) ==
  LET l     == loc[<<j, o>>]
      n     == NameOf[j]
      owner == home[n]
      back  == LinesOf(n) = {} /\ owner \in {l.uid, expected[j]} \ {0}
  IN  /\ At(j, o, "lookup")
      /\ Become(j, o, [l EXCEPT !.pc = "issue",
           !.ret = IF back THEN owner ELSE 0,
           !.shared = back /\ \E m \in Names \ {n} : home[m] = owner])
      /\ UNCHANGED <<files, issued, nas, evidence, orders, jobctl, lock, given, counts>>

\* under the lock: is the name free, and which uid; the record comes first
Issue(j, o) ==
  LET l     == loc[<<j, o>>]
      taken == LinesOf(NameOf[j]) # {}
      clash == l.ret # 0 /\ ReclaimConflict(j, l.ret, l.shared)
  IN  /\ At(j, o, "issue") /\ Free
      /\ \/ /\ taken \/ clash
            /\ Become(j, o, Failing(l))
            /\ UNCHANGED <<issued, lock>>
         \/ /\ ~taken /\ l.ret = 0 /\ ~\E u \in Uids : IsNextUid(u)
            /\ Become(j, o, Again(l, "lookup"))
            /\ UNCHANGED <<issued, lock>>
         \/ /\ ~taken /\ ~clash
            /\ \E u \in Uids :
                 /\ IF l.ret # 0 THEN u = l.ret ELSE IsNextUid(u)
                 /\ issued' = Larger(issued, u)
                 /\ Become(j, o, [l EXCEPT !.pc = "mark", !.mk = u])
            /\ lock' = <<j, o>>
      /\ UNCHANGED <<files, nas, evidence, orders, jobctl, given, counts>>

\* the checkpoint: the write marker is recorded before anything is written
Mark(j, o) ==
  /\ At(j, o, "mark") /\ Mine(j, o)
  /\ RecordStep(j, o, loc[<<j, o>>], "passwd")
  /\ lock' = IF lease[j] = o THEN lock ELSE None
  /\ UNCHANGED <<files, issued, nas, evidence, orders, lease, given, counts>>

WritePasswd(j, o) ==
  LET u == loc[<<j, o>>].mk
  IN  /\ At(j, o, "passwd") /\ Release(j, o)
      /\ passwd' = passwd \cup {[name |-> NameOf[j], uid |-> u, by |-> j]}
      /\ given' = given \cup {[name |-> NameOf[j], uid |-> u]}
      /\ Goto(j, o, "group")
      /\ UNCHANGED <<group, shadow, sudoers, issued, nas, evidence, orders, jobctl, counts>>

WriteGroup(j, o) ==
  LET l == loc[<<j, o>>]
  IN  /\ At(j, o, "group") /\ Locked
      /\ IF GroupConflict(j, l.mk)
           THEN Become(j, o, Undoing(l, "account")) /\ UNCHANGED group
           ELSE Goto(j, o, "shadow") /\ group' = GroupsWith(j, l.mk)
      /\ UNCHANGED <<passwd, shadow, sudoers, issued, nas, evidence, orders,
                     jobctl, given, counts>>

WriteShadow(j, o) ==
  /\ At(j, o, "shadow") /\ Locked
  /\ shadow' = [shadow EXCEPT ![NameOf[j]] = Append(@, j)]
  /\ Goto(j, o, "sudoers")
  /\ UNCHANGED <<passwd, group, sudoers, issued, nas, evidence, orders, jobctl,
                 given, counts>>

WriteSudoers(j, o) ==
  /\ At(j, o, "sudoers")
  /\ sudoers' = sudoers \cup {NameOf[j]}
  /\ Goto(j, o, "log")
  /\ UNCHANGED <<passwd, group, shadow, issued, nas, evidence, orders, jobctl,
                 lock, given, counts>>

\* CREATE_ACCOUNT SUCCESS, and the ids into the context; a row may be lost
LogCreated(j, o) ==
  LET l == loc[<<j, o>>]
  IN  /\ At(j, o, "log")
      /\ \/ /\ evidence' = [evidence EXCEPT ![NameOf[j]] = FALSE]
            /\ UNCHANGED counts
         \/ Fault("log") /\ UNCHANGED evidence
      /\ Become(j, o, [l EXCEPT !.pc = "record", !.uid = l.mk,
                                !.done = @ \cup {"account"}])
      /\ UNCHANGED <<files, issued, nas, orders, jobctl, lock, given>>

\* a failure before anything was written: NAS, lock, checkpoint, passwd write
FailsEarly(j, o) ==
  LET l == loc[<<j, o>>]
  IN  /\ l.pc \in {"lookup", "issue", "mark", "passwd"}
      /\ Fault(l.pc)
      /\ lock' = IF Mine(j, o) THEN None ELSE lock
      /\ Become(j, o, Again(l, "lookup"))
      /\ UNCHANGED <<files, issued, nas, evidence, orders, jobctl, given>>

\* a failed write of group, shadow or sudoers: what is written is rolled back
FailsLate(j, o) ==
  LET l == loc[<<j, o>>]
  IN  /\ l.pc \in {"group", "shadow", "sudoers"}
      /\ Fault(l.pc)
      /\ Become(j, o, Undoing(l, "account"))
      /\ UNCHANGED <<files, issued, nas, evidence, orders, jobctl, lock, given>>

\* the files cannot be read to judge: OBSERVE_FAILED
JudgeFails(j, o) ==
  LET l == loc[<<j, o>>]
  IN  /\ At(j, o, "judge") /\ l.mk # 0
      /\ Fault("judge")
      /\ Become(j, o, Ending(l, "DEGRADED"))
      /\ UNCHANGED <<files, issued, nas, evidence, orders, jobctl, lock, given>>

-----------------------------------------------------------------------------
(* _rollback_user: three writes under one lock *)

UndoPasswd(j, o) ==
  /\ At(j, o, "undo") /\ Acquire(j, o)
  /\ passwd' = Without(NameOf[j])
  /\ Goto(j, o, "undo_shadow")
  /\ UNCHANGED <<group, shadow, sudoers, issued, nas, evidence, orders, jobctl,
                 given, counts>>

\* mutant of UndoShadow: the rollback forgets shadow
UndoKeepsShadow(j, o) ==
  /\ At(j, o, "undo_shadow") /\ Mine(j, o)
  /\ Goto(j, o, "undo_group")
  /\ UNCHANGED <<files, issued, nas, evidence, orders, jobctl, lock, given, counts>>

UndoShadow(j, o) ==
  /\ At(j, o, "undo_shadow") /\ Mine(j, o)
  /\ shadow' = [shadow EXCEPT ![NameOf[j]] = << >>]
  /\ Goto(j, o, "undo_group")
  /\ UNCHANGED <<passwd, group, sudoers, issued, nas, evidence, orders, jobctl,
                 lock, given, counts>>

\* the step then fails: it is run again, or the job starts over from the
\* account step (restart_from), or the job ends; a judged job runs the step
UndoGroup(j, o) ==
  LET l == loc[<<j, o>>]
      n == NameOf[j]
  IN  /\ At(j, o, "undo_group") /\ Release(j, o)
      /\ group' = GroupsWithout(n, {g \in group : g.name = n \/ g.gid = l.gid})
      /\ Become(j, o,
           CASE l.then = "account"  -> Again(l, "lookup")
             [] l.then = "mismatch" -> Failing(l)
             [] l.then = "judged"   -> [l EXCEPT !.pc = "lookup", !.uid = l.mk]
             [] l.then \in {"home", "krb"} ->
                  IF l.rewinds < MaxRewinds
                    THEN [l EXCEPT !.pc = "rewind", !.rewinds = @ + 1, !.done = {}, !.tries = 1]
                    ELSE Ending(l, "DEGRADED"))
      /\ UNCHANGED <<passwd, shadow, sudoers, issued, nas, evidence, orders,
                     jobctl, given, counts>>

\* the lock or a write fails: the exception goes to _execute_step, which runs
\* the step again, or (while judging) becomes OBSERVE_FAILED
UndoFails(j, o) ==
  LET l == loc[<<j, o>>]
  IN  /\ l.pc \in {"undo", "undo_shadow", "undo_group"}
      /\ Fault("undo")
      /\ lock' = IF Mine(j, o) THEN None ELSE lock
      /\ Become(j, o,
           CASE l.then = "judged"             -> Ending(l, "DEGRADED")
             [] l.then = "account"            -> Again(l, "lookup")
             [] l.then \in {"home", "mismatch"} -> Again(l, "home")
             [] l.then = "krb"                -> Again(l, "krb"))
      /\ UNCHANGED <<files, issued, nas, evidence, orders, jobctl, given>>

\* record_step of the start over
RecordRewind(j, o) ==
  /\ At(j, o, "rewind")
  /\ RecordStep(j, o, loc[<<j, o>>], "judge")
  /\ UNCHANGED <<files, issued, nas, evidence, orders, lease, lock, given, counts>>

-----------------------------------------------------------------------------
(* The steps after the account *)

\* step_create_home: an existing home must belong to the uid
CreateHome(j, o) ==
  LET l == loc[<<j, o>>]
      n == NameOf[j]
  IN  /\ At(j, o, "home")
      /\ \/ /\ home[n] = None
            /\ home' = [home EXCEPT ![n] = l.uid]
            /\ given' = given \cup {[name |-> n, uid |-> l.uid]}
            /\ Become(j, o, [l EXCEPT !.pc = "record", !.made = TRUE,
                                      !.done = @ \cup {"home"}])
         \/ /\ home[n] = l.uid
            /\ Become(j, o, [l EXCEPT !.pc = "record", !.done = @ \cup {"home"}])
            /\ UNCHANGED <<home, given>>
         \/ /\ home[n] \notin {None, l.uid}
            /\ Become(j, o, Undoing(l, "mismatch"))
            /\ UNCHANGED <<home, given>>
      /\ UNCHANGED <<files, issued, pods, evidence, orders, jobctl, lock, counts>>

\* cut off before, between or after mkdir (the home is root's) and chown
HomeFails(j, o) ==
  LET l == loc[<<j, o>>]
      n == NameOf[j]
  IN  /\ At(j, o, "home")
      /\ Fault("home")
      /\ \/ UNCHANGED <<home, given>> /\ Become(j, o, Undoing(l, "home"))
         \/ /\ home[n] = None
            /\ \E owner \in {0, l.uid} : home' = [home EXCEPT ![n] = owner]
            /\ given' = IF home'[n] = 0 THEN given
                        ELSE given \cup {[name |-> n, uid |-> l.uid]}
            /\ Become(j, o, [Undoing(l, "home") EXCEPT !.made = TRUE])
      /\ UNCHANGED <<files, issued, pods, evidence, orders, jobctl, lock>>

\* step_create_krb5_principal
CreatePrincipal(j, o) ==
  LET l == loc[<<j, o>>]
  IN  /\ At(j, o, "krb")
      /\ Become(j, o, [l EXCEPT !.pc = "record", !.done = @ \cup {"krb"}])
      /\ UNCHANGED <<files, issued, nas, evidence, orders, jobctl, lock, given, counts>>

\* _delete_home_if_created, whose own failure is ignored, then the rollback
PrincipalFails(j, o) ==
  LET l == loc[<<j, o>>]
      n == NameOf[j]
  IN  /\ At(j, o, "krb")
      /\ Fault("krb")
      /\ \/ /\ l.made
            /\ home' = [home EXCEPT ![n] = None]
            /\ Become(j, o, [Undoing(l, "krb") EXCEPT !.made = FALSE])
         \/ Become(j, o, Undoing(l, "krb")) /\ UNCHANGED home
      /\ UNCHANGED <<files, issued, pods, evidence, orders, jobctl, lock, given>>

\* the step is recorded as done, and the next one starts
Record(j, o) ==
  LET l == loc[<<j, o>>]
  IN  /\ At(j, o, "record")
      /\ RecordStep(j, o, [l EXCEPT !.tries = 1], FirstStep(l.done))
      /\ UNCHANGED <<files, issued, nas, evidence, orders, lease, lock, given, counts>>

\* record_step raises: an unexpected error ends the job
RecordFails(j, o) ==
  LET l == loc[<<j, o>>]
  IN  /\ l.pc \in {"record", "rewind"}
      /\ Fault("record")
      /\ Become(j, o, Failing(l))
      /\ UNCHANGED <<files, issued, nas, evidence, orders, jobctl, lock, given>>

\* the Pod steps: build_pod_spec reads the uid from passwd and fails without
CreatePod(j, o) ==
  LET l == loc[<<j, o>>]
  IN  /\ At(j, o, "pod")
      /\ \/ /\ LinesOf(NameOf[j]) # {}
            /\ pods' = pods \cup {j}
            /\ Become(j, o, Ending(l, "SUCCESS"))
         \/ /\ LinesOf(NameOf[j]) = {}
            /\ Become(j, o, Failing(l)) /\ UNCHANGED pods
      /\ UNCHANGED <<files, issued, home, evidence, orders, jobctl, lock, given, counts>>

PodFails(j, o) ==
  LET l == loc[<<j, o>>]
  IN  /\ At(j, o, "pod")
      /\ Fault("pod")
      /\ \/ Become(j, o, Failing(l))
         \/ Become(j, o, Ending(l, "DEGRADED"))
      /\ UNCHANGED <<files, issued, nas, evidence, orders, jobctl, lock, given>>

\* a container of a finished job is taken back by a job of its own
RemovePod(j) ==
  /\ j \in pods /\ ~Open(j)
  /\ pods' = pods \ {j}
  /\ UNCHANGED <<files, issued, home, evidence, orders, jobctl, loc, lock, given, counts>>

-----------------------------------------------------------------------------
(* Deletion: step_check_account_revocable and step_delete_account, by a      *)
(* revoke job or by the compensation of a provision                          *)

PodsOf(n) == {p \in pods : NameOf[p] = n}

\* a compensation is also held back when no node was selected yet
CheckRevocable(j, o) ==
  LET l == loc[<<j, o>>]
  IN  /\ l.pc \in {"check", "comp"}
      /\ \/ /\ PodsOf(NameOf[j]) \ {j} = {}
            /\ Become(j, o, IF j \in Revokes
                              THEN [l EXCEPT !.pc = "record", !.done = {"check"}]
                              ELSE [l EXCEPT !.pc = "delete"])
         \/ /\ PodsOf(NameOf[j]) \ {j} # {} \/ j \in Provisions
            /\ Become(j, o, Ending(l, IF j \in Revokes THEN "IN_USE" ELSE "HELD"))
      /\ UNCHANGED <<files, issued, nas, evidence, orders, jobctl, lock, given, counts>>

\* The account is gone already: a revoke wants evidence of a deletion before
\* it takes that for its own goal; the compensation is content (404).
DeletePasswd(j, o) ==
  LET l     == loc[<<j, o>>]
      n     == NameOf[j]
      lines == LinesOf(n)
  IN  /\ At(j, o, "delete") /\ Free
      /\ \/ /\ lines # {}
            /\ lock' = <<j, o>>
            /\ passwd' = Without(n)
            /\ \E e \in lines : Become(j, o, [l EXCEPT !.pc = "del_shadow", !.gid = e.uid])
         \/ /\ lines = {} /\ j \in Revokes /\ evidence[n]
            /\ lock' = <<j, o>>
            /\ Goto(j, o, "left_shadow")
            /\ UNCHANGED passwd
         \/ /\ lines = {} /\ j \in Revokes /\ ~evidence[n]
            /\ Become(j, o, Ending(l, "UNVERIFIED"))
            /\ UNCHANGED <<lock, passwd>>
         \/ /\ lines = {} /\ j \in Provisions
            /\ Become(j, o, Ending(l, "FAIL"))
            /\ UNCHANGED <<lock, passwd>>
      /\ UNCHANGED <<group, shadow, sudoers, issued, nas, evidence, orders,
                     jobctl, given, counts>>

DeleteShadow(j, o) ==
  /\ loc[<<j, o>>].pc \in {"del_shadow", "left_shadow"} /\ Mine(j, o)
  /\ shadow' = [shadow EXCEPT ![NameOf[j]] = << >>]
  /\ Goto(j, o, IF At(j, o, "del_shadow") THEN "del_group" ELSE "left_group")
  /\ UNCHANGED <<passwd, group, sudoers, issued, nas, evidence, orders, jobctl,
                 lock, given, counts>>

DeleteGroup(j, o) ==
  LET l == loc[<<j, o>>]
  IN  /\ At(j, o, "del_group") /\ Mine(j, o)
      /\ group' = GroupsWithout(NameOf[j], {g \in group : g.gid = l.gid})
      /\ Goto(j, o, "del_log")
      /\ UNCHANGED <<passwd, shadow, sudoers, issued, nas, evidence, orders,
                     jobctl, lock, given, counts>>

\* DELETE_ACCOUNT SUCCESS, still under the lock; the row may be lost
LogDeleted(j, o) ==
  LET l == loc[<<j, o>>]
  IN  /\ At(j, o, "del_log") /\ Release(j, o)
      /\ \/ /\ evidence' = [evidence EXCEPT ![NameOf[j]] = TRUE]
            /\ UNCHANGED counts
         \/ Fault("log") /\ UNCHANGED evidence
      /\ Become(j, o, Ending(l, IF j \in Revokes THEN "SUCCESS" ELSE "FAIL"))
      /\ UNCHANGED <<files, issued, nas, orders, jobctl, given>>

\* mutant of RemoveLeftovers: the group lines stay
LeavesLeftovers(j, o) ==
  /\ At(j, o, "left_group") /\ Release(j, o)
  /\ Become(j, o, Ending(loc[<<j, o>>], "SUCCESS"))
  /\ UNCHANGED <<files, issued, nas, evidence, orders, jobctl, given, counts>>

\* _remove_account_leftovers: the gid is not known any more
RemoveLeftovers(j, o) ==
  LET n == NameOf[j]
  IN  /\ At(j, o, "left_group") /\ Release(j, o)
      /\ group' = GroupsWithout(n, {g \in group : g.name = n})
      /\ Become(j, o, Ending(loc[<<j, o>>], "SUCCESS"))
      /\ UNCHANGED <<passwd, shadow, sudoers, issued, nas, evidence, orders,
                     jobctl, given, counts>>

\* a failed step_delete_account: a revoke runs it again, a compensation is
\* reported as failed
AfterDeleteFailed(j, l) == IF j \in Revokes THEN Again(l, "delete") ELSE Ending(l, "HELD")

\* mutant of DeleteFails: the failed write leaves no row
DeleteFailsSilently(j, o) ==
  /\ loc[<<j, o>>].pc \in {"del_shadow", "del_group"}
  /\ Fault("delete")
  /\ lock' = IF Mine(j, o) THEN None ELSE lock
  /\ Become(j, o, AfterDeleteFailed(j, loc[<<j, o>>]))
  /\ UNCHANGED <<files, issued, nas, evidence, orders, jobctl, given>>

\* a write fails: ACCOUNT_FILE_WRITE_FAILED, which counts as evidence
DeleteFails(j, o) ==
  LET l == loc[<<j, o>>]
  IN  /\ \/ At(j, o, "delete") /\ Free /\ LinesOf(NameOf[j]) # {}
         \/ l.pc \in {"del_shadow", "del_group"}
      /\ Fault("delete")
      /\ evidence' = [evidence EXCEPT ![NameOf[j]] = TRUE]
      /\ lock' = IF Mine(j, o) THEN None ELSE lock
      /\ Become(j, o, AfterDeleteFailed(j, l))
      /\ UNCHANGED <<files, issued, nas, orders, jobctl, given>>

\* the lock is not acquired, or the evidence or the leftovers cannot be read
DeleteGivesUp(j, o) ==
  LET l == loc[<<j, o>>]
  IN  /\ l.pc \in {"delete", "left_shadow", "left_group"}
      /\ Fault("evidence")
      /\ lock' = IF Mine(j, o) THEN None ELSE lock
      /\ Become(j, o, AfterDeleteFailed(j, l))
      /\ UNCHANGED <<files, issued, nas, evidence, orders, jobctl, given>>

-----------------------------------------------------------------------------
(* The end *)

\* _finish_job and the release of the lease; the result tells admin_be the uid
End(j, o) ==
  LET l == loc[<<j, o>>]
  IN  /\ At(j, o, "end")
      /\ job' = [job EXCEPT ![j] = l.out]
      /\ known' = IF j \in Provisions /\ l.out = "SUCCESS" /\ LinesOf(NameOf[j]) # {}
                    THEN [known EXCEPT ![NameOf[j]] =
                            IF l.uid # 0 THEN l.uid
                            ELSE CHOOSE u \in Uids : \E e \in LinesOf(NameOf[j]) : e.uid = u]
                    ELSE known
      /\ lease' = [lease EXCEPT ![j] = IF @ = o THEN None ELSE @]
      /\ Become(j, o, Off)
      /\ UNCHANGED <<files, issued, nas, evidence, expected, saved, lock, given, counts>>

CreateStep(j, o) ==
  \/ Judge(j, o) \/ Lookup(j, o) \/ Issue(j, o) \/ Mark(j, o)
  \/ WritePasswd(j, o) \/ WriteGroup(j, o) \/ WriteShadow(j, o)
  \/ WriteSudoers(j, o) \/ LogCreated(j, o)
  \/ FailsEarly(j, o) \/ FailsLate(j, o) \/ JudgeFails(j, o)

UndoStep(j, o) ==
  \/ UndoPasswd(j, o) \/ UndoShadow(j, o) \/ UndoGroup(j, o)
  \/ UndoFails(j, o) \/ RecordRewind(j, o)

LaterStep(j, o) ==
  \/ CreateHome(j, o) \/ HomeFails(j, o)
  \/ CreatePrincipal(j, o) \/ PrincipalFails(j, o)
  \/ CreatePod(j, o) \/ PodFails(j, o)

DeleteStep(j, o) ==
  \/ CheckRevocable(j, o) \/ DeletePasswd(j, o) \/ DeleteShadow(j, o)
  \/ DeleteGroup(j, o) \/ LogDeleted(j, o) \/ RemoveLeftovers(j, o)
  \/ DeleteFails(j, o) \/ DeleteGivesUp(j, o)

Work(j, o) ==
  \/ j \in Provisions /\ (CreateStep(j, o) \/ UndoStep(j, o) \/ LaterStep(j, o))
  \/ DeleteStep(j, o)
  \/ Record(j, o) \/ RecordFails(j, o) \/ End(j, o)

\* nothing is left to do
Idle == (\A j \in Jobs : job[j] \in Verdicts) /\ UNCHANGED vars

Next ==
  \/ Idle
  \/ \E j \in Revokes : RegisterRevoke(j)
  \/ \E j \in Provisions : RegisterProvision(j) \/ AdoptAccount(j) \/ RemovePod(j)
  \/ \E j \in Jobs, o \in Owners : Take(j, o) \/ Work(j, o)
  \/ \E o \in Owners : Crash(o)

Spec == Init /\ [][Next]_vars

\* GET_LOCK is not fair, but a waiter that times out fails as Fault("issue")
\* and its like do; no section under the lock waits for anything.
Fairness ==
  \A j \in Jobs, o \in Owners : SF_vars(Take(j, o)) /\ SF_vars(Work(j, o))
FairSpec == Spec /\ Fairness /\ \A j \in Provisions : WF_vars(AdoptAccount(j))

-----------------------------------------------------------------------------
(* Properties *)

\* A uid is never used by two: no two lines of passwd share one, none has a
\* system account's, and nobody else's home belongs to it.  This is what
\* _allocate_next_uid, _reclaim_uid and the record of issued ids are for.
UidOfOnePerson ==
  \A e \in passwd :
    /\ e.uid \notin SystemIds
    /\ \A f \in passwd : f.uid = e.uid => f = e
    /\ \A n \in Names \ {e.name} : home[n] # e.uid

\* A uid that a person's line or home ever had is not given to another one,
\* not even after the account was deleted and whatever crashed on the way.
NeverReissued ==
  [][\A e \in passwd' \ passwd :
       \A g \in given : g.uid = e.uid => g.name = e.name]_vars

\* an account has its personal group, its teams, a password and sudo rights
Whole(e) ==
  /\ \E g \in group : g.name = PgName[e.by] /\ g.gid = e.uid
  /\ \A t \in Supp[e.by] : \E g \in group : g.gid = TeamGid[t] /\ e.name \in g.members
  /\ shadow[e.name] # << >> /\ e.name \in sudoers

\* Once job_control says the account step is done, the account it made has all
\* its parts: what a crash, a retry or another request of the same person left
\* of it was found by _judge_interrupted_account or rolled back.
WholeWhenRecorded ==
  lock = None =>
    \A e \in passwd : "account" \in saved[e.by].done => Whole(e)

\* A provision job takes back (rollback, judgement, compensation) no account
\* but the one it wrote itself, and not after it was reported as made.
TakesBackOwnOnly ==
  [][\A e \in passwd \ passwd' :
       lock'[1] \in Provisions => lock'[1] = e.by /\ job[e.by] # "SUCCESS"]_vars

\* A provision job that ended with FAIL left no account: its account step
\* rolled back what it wrote, or the compensation took the account back.
FailureLeavesNothing ==
  lock = None => \A e \in passwd : job[e.by] # "FAIL"

\* When a revoke job is about to report success, the person is in none of
\* passwd, shadow and group, whether it deleted the account, found it deleted
\* by another node's job, or found what a cut-off deletion left.
RevokedMeansGone ==
  [][\A j \in Revokes, o \in Owners :
       At(j, o, "end")' /\ ~At(j, o, "end") /\ loc'[<<j, o>>].out = "SUCCESS" =>
         /\ ~\E e \in passwd' : e.name = NameOf[j]
         /\ shadow'[NameOf[j]] = << >>
         /\ ~\E g \in group' : NameOf[j] \in g.members \/ g.name = NameOf[j]]_vars

\* A revoke finds no evidence for a missing account only if no account was ever
\* made, or a controller died between deletion and its log row, as long as no row
\* of the journal is lost (_account_deletion_evidence).
UnverifiedOnlyAfterLoss ==
  [][\A j \in Revokes, o \in Owners :
       At(j, o, "end")' /\ ~At(j, o, "end") /\ loc'[<<j, o>>].out = "UNVERIFIED" =>
         \/ \A p \in Provisions : NameOf[p] = NameOf[j] => job[p] # "SUCCESS"
         \/ crashes > 0]_vars

\* Team groups outlive their last member (#180), through every rollback,
\* deletion and removal of leftovers.
TeamsStay ==
  \A t \in Teams : \E g \in group : g.name = t /\ g.gid = TeamGid[t]

\* While an account's line stands, its password changes in one way only: by a
\* request that was registered to adopt an account of this uid, and then to that
\* request's.  Every other password is written where the name has none: rollback
\* and compensation have removed what an earlier attempt or request wrote, for
\* step_create_account appends its line and of two lines the first counts.  (A
\* deletion that is cut off after passwd breaks this; see JudgedIsWritten.)
PasswordKept ==
  [][\A e \in passwd \cap passwd' :
       LET n == e.name IN
       shadow[n] # << >> /\ shadow'[n] # shadow[n] =>
         \E p \in Provisions :
           /\ job[p] = "setpw" /\ NameOf[p] = n /\ expected[p] = e.uid
           /\ shadow'[n] = <<p>>]_vars

\* An account of the job's own that _judge_interrupted_account finds complete is
\* one the job wrote to its end, password included (config-server/README.md:171).
JudgedIsWritten ==
  [][\A j \in Provisions, o \in Owners :
       At(j, o, "judge") /\ At(j, o, "log")'
         /\ (\E e \in passwd : e.name = NameOf[j] /\ e.by = j) =>
           \E i \in DOMAIN shadow[NameOf[j]] : shadow[NameOf[j]][i] = j]_vars

\* Every job that was registered comes to a verdict.
EveryJobEnds == \A j \in Jobs : Open(j) ~> job[j] \in Verdicts

-----------------------------------------------------------------------------
(* Claims of comments that the code does not keep; no run checks them, the *)
(* README says how each one fails                                          *)

\* A job that made a person's home can still use it when it comes to the home
\* step again: the home is gone or belongs to the uid of the account.
OwnHomeFits ==
  \A j \in Provisions, o \in Owners :
    At(j, o, "home") /\ loc[<<j, o>>].made =>
      home[NameOf[j]] \in {None, loc[<<j, o>>].uid}

\* A repeated account step does not fail on the personal group that an earlier
\* attempt left (#210).
NoGroupConflict ==
  \A j \in Provisions, o \in Owners :
    At(j, o, "group") => ~GroupConflict(j, loc[<<j, o>>].mk)
=============================================================================
