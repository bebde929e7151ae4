------------------------ MODULE AccountOutcomeProofs ------------------------
(***************************************************************************)
(* Proofs about what AccountLedger leaves of an account, for every value   *)
(* of its constants:                                                       *)
(*   WholeRecorded       OwnGroups => (Spec => []WholeWhenRecorded)        *)
(*   FailedLeavesNothing Steady => (Spec => []FailureLeavesNothing)        *)
(* whatever crashes.  The first inductive invariant, OutcomeInv, has three *)
(* parts: what a worker has in hand (Tidy), whose uid the lines of a job   *)
(* have, in spite of a worker whose lease moved on (MadeInv), and when an  *)
(* account is known to have its parts (PartsInv).  The second, AnswerInv,  *)
(* has the first two and says when a job has no line in passwd (Answers).  *)
(***************************************************************************)
EXTENDS AccountLedgerProofs

\* Registration refuses a personal group that has another person's name.
OwnGroups ==
  \A j \in Provisions, k \in Jobs : PgName[j] = NameOf[k] => NameOf[k] = NameOf[j]

\* the lines of passwd that job j wrote
By(j) == {e \in passwd : e.by = j}

-----------------------------------------------------------------------------
(* What a worker has in hand *)

Section  == {"mark", "passwd", "group", "shadow", "sudoers", "log"}
Unborn   == {"judge", "lookup", "issue", "rewind"} \cup Section
Dropping == {"del_shadow", "del_group"}
Emptying == {"undo_shadow", "undo_group", "left_shadow", "left_group"} \cup Dropping

\* No step is done before the account is written; the name has no line while
\* its leftovers are removed; and the group that goes was the person's.
Tidy(j, o, l) ==
  /\ l.pc \in Unborn => l.done = {}
  /\ l.pc \in Rolling /\ l.then \in {"account", "judged"} => l.done = {}
  /\ l.pc \in Emptying /\ lock = <<j, o>> => LinesOf(NameOf[j]) = {}
  /\ l.pc \in Rolling \cup Dropping /\ l.gid # 0 => Acc(j, l.gid) \in given

TidyInv == \A j \in Jobs, o \in Owners : Tidy(j, o, loc[<<j, o>>])

\* where a worker without the lease waits out another's section
Harmless == {"off", "judge", "end", "pod", "check", "comp", "delete", "del_log",
             "left_shadow", "left_group"} \cup Dropping

\* another worker of the job is in the section under the lock
Blocked(j, o, l) ==
  j \in Provisions /\ l.pc \in Harmless /\ lock \notin {None, <<j, o>>} /\ l.mk # 0

\* A step out of the section or not into it: uid and done steps are as they were.
Soft(j, o, l, m) ==
  /\ m.pc \notin Section
  /\ m.pc # "off" => m.mk = l.mk
  /\ "account" \in m.done => "account" \in l.done \/ l.pc = "log"
  /\ Blocked(j, o, l) => m.pc \in Harmless

Calm(j, o) == \E m \in Local : /\ Become(j, o, m) /\ Soft(j, o, loc[<<j, o>>], m)
                               /\ Tidy(j, o, m)'

\* a memory about which Tidy says nothing
Plain == PCs \ (Unborn \cup Rolling \cup Emptying)

LEMMA PlainTidy ==
  ASSUME NEW j, NEW o, NEW m, m.pc \in Plain PROVE Tidy(j, o, m) /\ Tidy(j, o, m)'
  BY DEF Plain, Tidy, Dropping, Emptying

LEMMA PlainPCs ==
  /\ {"off", "home", "krb", "record", "pod", "comp", "check", "delete", "del_log", "end"}
       \subseteq Plain
  /\ \A pc \in Plain : pc \notin Section
  BY DEF Plain, PCs, Unborn, Section, Rolling, Emptying, Dropping

\* the memory after an ending, a retry or the start of a rollback
LEMMA EndingIs ==
  ASSUME NEW l \in Local, NEW v \in Verdicts
  PROVE  LET m == Ending(l, v)
         IN  m \in Local /\ m.pc = "end" /\ m.mk = l.mk /\ m.done = l.done /\ m.out = v
  BY DEF Local, Ending, PCs

LEMMA FailingIs ==
  ASSUME NEW l \in Local
  PROVE  LET m == Failing(l)
         IN  m \in Local /\ m.pc \in {"comp", "end"} /\ m.mk = l.mk /\ m.done = l.done
  <1>1. [l EXCEPT !.pc = "comp"] \in Local /\ [l EXCEPT !.pc = "comp"].pc = "comp"
        /\ [l EXCEPT !.pc = "comp"].mk = l.mk /\ [l EXCEPT !.pc = "comp"].done = l.done
    BY DEF Local, PCs
  <1>2. "FAIL" \in Verdicts
    BY DEF Verdicts
  <1> QED BY <1>1, <1>2, EndingIs DEF Failing

LEMMA AgainIs ==
  ASSUME ConstantsOK, NEW l \in Local, NEW pc \in PCs
  PROVE  LET m == Again(l, pc)
         IN  m \in Local /\ m.pc \in {pc, "end"} /\ m.mk = l.mk /\ m.done = l.done
  <1>1. CASE l.tries < MaxAttempts
    <2>1. l.tries \in 1..MaxAttempts /\ MaxAttempts \in Nat
      BY DEF Local, ConstantsOK
    <2>2. l.tries + 1 \in 1..MaxAttempts
      BY <1>1, <2>1
    <2>3. Again(l, pc) = [l EXCEPT !.pc = pc, !.tries = @ + 1]
      BY <1>1 DEF Again
    <2> QED BY <2>2, <2>3 DEF Local
  <1>2. CASE ~(l.tries < MaxAttempts)
    BY <1>2, EndingIs DEF Again, Verdicts
  <1> QED BY <1>1, <1>2

LEMMA UndoingIs ==
  ASSUME ConstantsOK, NEW l \in Local, NEW t \in {"account", "home", "krb", "mismatch"}
  PROVE  LET m == Undoing(l, t)
         IN  /\ m \in Local /\ m.pc = "undo" /\ m.mk = l.mk /\ m.done = l.done
             /\ m.gid = 0 /\ m.then = t
  <1>1. 0 \in 0..UidMax
    BY DEF ConstantsOK
  <1> QED BY <1>1 DEF Local, Undoing, PCs

LEMMA GotoIs ==
  ASSUME NEW l \in Local, NEW pc \in PCs
  PROVE  LET m == [l EXCEPT !.pc = pc]
         IN  /\ m \in Local /\ m.pc = pc /\ m.mk = l.mk /\ m.done = l.done
             /\ m.gid = l.gid /\ m.then = l.then /\ m.out = l.out
  BY DEF Local

LEMMA OffIs == ASSUME ConstantsOK PROVE Off \in Local /\ Off.pc = "off" /\ Off.done = {}
  <1>1. 1 \in 1..MaxAttempts /\ 0 \in 0..MaxRewinds /\ 0 \in 0..UidMax
    BY DEF ConstantsOK
  <1> QED BY <1>1 DEF Off, Local, PCs

\* a step to a memory about which Tidy says nothing, or to one with nothing done
LEMMA CalmPlain ==
  ASSUME NEW j, NEW o, NEW m \in Local, Become(j, o, m), m.pc \in Plain,
         Soft(j, o, loc[<<j, o>>], m)
  PROVE  Calm(j, o)
  BY PlainTidy DEF Calm

LEMMA CalmUnborn ==
  ASSUME NEW j, NEW o, NEW m \in Local, Become(j, o, m), m.pc \in {"judge", "lookup", "issue", "rewind"},
         m.done = {}, Soft(j, o, loc[<<j, o>>], m)
  PROVE  Calm(j, o)
  <1>1. Tidy(j, o, m)'
    BY DEF Tidy, Rolling, Emptying, Dropping
  <1> QED BY <1>1 DEF Calm

\* the steps of job j's worker that put, or keep, it in the section
Enters(j, o) ==
  LET l == loc[<<j, o>>]
  IN  \/ /\ l.pc = "issue" /\ LinesOf(NameOf[j]) = {} /\ passwd' = passwd
         /\ \E u \in Uids : Become(j, o, [l EXCEPT !.pc = "mark", !.mk = u])
      \/ Mark(j, o) /\ lease[j] = o
      \/ WritePasswd(j, o)
      \/ WriteGroup(j, o) /\ Goto(j, o, "shadow") /\ group' = GroupsWith(j, l.mk)
      \/ WriteShadow(j, o)
      \/ WriteSudoers(j, o)
      \/ /\ l.pc = "judge" /\ Free /\ passwd' = passwd
         /\ Marked(j, l) # {} /\ MissingParts(j, l.mk) = {}
         /\ Become(j, o, [l EXCEPT !.pc = "log", !.uid = l.mk])

LEMMA JudgeCalm ==
  ASSUME ConstantsOK, UidInv, TidyInv, NEW j \in Provisions, NEW o \in Owners, Judge(j, o)
  PROVE  Calm(j, o) \/ Enters(j, o)
  <1> DEFINE l == loc[<<j, o>>]
  <1>1. j \in Jobs /\ l \in Local /\ l.pc = "judge" /\ l.done = {} /\ Tidy(j, o, l)
    BY Memory DEF Jobs, Judge, At, TidyInv, Tidy, Unborn
  <1>2. CASE Goto(j, o, "lookup") /\ (l.mk = 0 \/ Free)
    <2>a. "lookup" \in PCs
      BY DEF PCs
    <2>b. [l EXCEPT !.pc = "lookup"] \in Local
      BY <1>1, <2>a, GotoIs
    <2>1. PICK m \in Local : m = [l EXCEPT !.pc = "lookup"]
      BY <2>b
    <2>2. m.pc = "lookup" /\ m.mk = l.mk /\ m.done = l.done
      BY <1>1, <2>1 DEF Local
    <2>3. ~Blocked(j, o, l)
      BY <1>2 DEF Blocked, Free
    <2>4. Soft(j, o, l, m)
      BY <1>1, <2>2, <2>3 DEF Soft, Section
    <2> QED BY <1>1, <1>2, <2>1, <2>2, <2>4, CalmUnborn DEF Goto
  <1>3. CASE /\ Marked(j, l) # {} /\ MissingParts(j, l.mk) = {} /\ Locked /\ passwd' = passwd
             /\ Become(j, o, [l EXCEPT !.pc = "log", !.uid = l.mk])
    BY <1>1, <1>3 DEF Enters, Locked
  <1>4. CASE /\ Marked(j, l) # {} /\ Acquire(j, o) /\ passwd' = Without(NameOf[j])
             /\ Become(j, o, [l EXCEPT !.pc = "undo_shadow", !.gid = l.mk, !.then = "judged"])
             /\ given' = given
    <2>0. PICK m : m = [l EXCEPT !.pc = "undo_shadow", !.gid = l.mk, !.then = "judged"]
      OBVIOUS
    <2>1. m \in Local /\ m.pc = "undo_shadow" /\ m.mk = l.mk /\ m.done = {} /\ m.gid = l.mk
      BY <1>1, <2>0 DEF Local, PCs
    <2>2. Acc(j, l.mk) \in given
      BY <1>4 DEF UidInv, StoresOK, Marked, LinesOf, Acc
    <2>3. LinesOf(NameOf[j])' = {}
      BY <1>4 DEF LinesOf, Without
    <2>4. Tidy(j, o, m)'
      <3>1. Acc(j, m.gid) \in given'
        BY <1>4, <2>1, <2>2
      <3> QED BY <2>1, <2>3, <3>1 DEF Tidy, Unborn, Section, Acc
    <2>5. Soft(j, o, l, m)
      BY <1>1, <1>4, <2>1 DEF Soft, Section, Blocked, Acquire, Free
    <2> QED BY <1>4, <2>0, <2>1, <2>4, <2>5 DEF Calm
  <1> QED BY <1>2, <1>3, <1>4 DEF Judge, Locked

LEMMA IssueCalm ==
  ASSUME ConstantsOK, UidInv, TidyInv, NEW j \in Provisions, NEW o \in Owners, Issue(j, o)
  PROVE  Calm(j, o) \/ Enters(j, o)
  <1> DEFINE l == loc[<<j, o>>]
  <1>1. j \in Jobs /\ l \in Local /\ l.pc = "issue" /\ l.done = {}
    BY Memory DEF Jobs, Issue, At, TidyInv, Tidy, Unborn
  <1>2. ASSUME NEW m \in Local, m.pc \in {"comp", "end", "lookup"}, m.mk = l.mk, m.done = {},
               Become(j, o, m)
        PROVE  Calm(j, o)
    <2>1. Soft(j, o, l, m)
      BY <1>1, <1>2 DEF Soft, Section, Blocked, Harmless, Dropping
    <2> QED BY <1>2, <2>1, CalmPlain, CalmUnborn, PlainPCs
  <1>3. CASE Become(j, o, Failing(l))
    BY <1>1, <1>2, <1>3, FailingIs
  <1>4. CASE Become(j, o, Again(l, "lookup"))
    BY <1>1, <1>2, <1>4, AgainIs DEF PCs
  <1>5. CASE /\ LinesOf(NameOf[j]) = {}
             /\ \E u \in Uids : Become(j, o, [l EXCEPT !.pc = "mark", !.mk = u])
    BY <1>1, <1>5 DEF Enters, Issue, files
  <1> QED BY <1>3, <1>4, <1>5 DEF Issue

LEMMA CreateCalm ==
  ASSUME ConstantsOK, UidInv, TidyInv, NEW j \in Provisions, NEW o \in Owners, CreateStep(j, o)
  PROVE  Calm(j, o) \/ Enters(j, o)
  <1> DEFINE l == loc[<<j, o>>]
  <1>1. j \in Jobs /\ l \in Local /\ Tidy(j, o, l)
    BY Memory DEF Jobs, TidyInv
  <1>2. l.pc \in Unborn => l.done = {}
    BY <1>1 DEF Tidy
  <1> HIDE DEF l
  <1>3. CASE Lookup(j, o)
    <2>1. PICK r \in 0..UidMax, s \in BOOLEAN :
                 Become(j, o, [l EXCEPT !.pc = "issue", !.ret = r, !.shared = s])
      <3> DEFINE n    == NameOf[j]
                 back == LinesOf(n) = {} /\ home[n] \in {l.uid, expected[j]} \ {0}
                 r0   == IF back THEN home[n] ELSE 0
                 s0   == back /\ \E k \in Names \ {n} : home[k] = home[n]
      <3>1. l.uid \in 0..UidMax /\ expected[j] \in 0..UidMax /\ 0 \in 0..UidMax
        <4>1. l.uid \in 0..UidMax
          BY <1>1 DEF Local
        <4>2. expected[j] \in 0..UidMax
          BY DEF UidInv, TypeOK
        <4>3. 0 \in 0..UidMax
          BY DEF ConstantsOK
        <4> QED BY <4>1, <4>2, <4>3
      <3>2. r0 \in 0..UidMax
        <4>1. CASE back
          BY <3>1, <4>1
        <4>2. CASE ~back
          BY <3>1, <4>2
        <4> QED BY <4>1, <4>2
      <3>a. s0 \in BOOLEAN
        OBVIOUS
      <3>3. Become(j, o, [l EXCEPT !.pc = "issue", !.ret = r0, !.shared = s0])
        BY <1>3 DEF Lookup, l
      <3> HIDE DEF r0, s0
      <3> QED BY <3>2, <3>a, <3>3
    <2>2. PICK m : m = [l EXCEPT !.pc = "issue", !.ret = r, !.shared = s]
      OBVIOUS
    <2>3. m \in Local /\ m.pc = "issue" /\ m.mk = l.mk /\ m.done = l.done
      BY <1>1, <2>2 DEF Local, PCs
    <2>4. l.pc = "lookup" /\ l.done = {}
      BY <1>2, <1>3 DEF Lookup, At, Unborn, l
    <2>5. Soft(j, o, l, m)
      BY <2>3, <2>4 DEF Soft, Section, Blocked, Harmless, Dropping
    <2> QED BY <2>1, <2>2, <2>3, <2>4, <2>5, CalmUnborn DEF l
  <1>4. CASE Mark(j, o)
    <2>1. CASE lease[j] = o
      BY <1>4, <2>1 DEF Enters
    <2>2. CASE lease[j] # o
      <3>1. Become(j, o, Off) /\ l.pc = "mark"
        BY <1>4, <2>2 DEF Mark, RecordStep, At, l
      <3>2. Soft(j, o, l, Off)
        BY <3>1, OffIs DEF Soft, Section, Harmless
      <3> QED BY <3>1, <3>2, OffIs, CalmPlain, PlainPCs DEF l
    <2> QED BY <2>1, <2>2
  <1>5. CASE WriteGroup(j, o)
    <2>1. l.pc = "group" /\ l.done = {}
      BY <1>2, <1>5 DEF WriteGroup, At, Unborn, Section, l
    <2>2. CASE Become(j, o, Undoing(l, "account"))
      <3>1. PICK m : m = Undoing(l, "account")
        OBVIOUS
      <3>2. m \in Local /\ m.pc = "undo" /\ m.mk = l.mk /\ m.done = {} /\ m.gid = 0
        BY <1>1, <2>1, <3>1, UndoingIs
      <3>3. Soft(j, o, l, m) /\ Tidy(j, o, m)'
        BY <2>1, <3>2 DEF Soft, Section, Blocked, Harmless, Dropping, Tidy, Unborn, Emptying
      <3> QED BY <2>2, <3>1, <3>2, <3>3 DEF Calm, l
    <2>3. CASE Goto(j, o, "shadow") /\ group' = GroupsWith(j, l.mk)
      BY <1>5, <2>3 DEF Enters, l
    <2> QED BY <1>5, <2>2, <2>3 DEF WriteGroup, l
  <1>6. CASE LogCreated(j, o)
    <2>1. PICK m : m = [l EXCEPT !.pc = "record", !.uid = l.mk, !.done = @ \cup {"account"}]
      OBVIOUS
    <2>2. m \in Local /\ m.pc = "record" /\ m.mk = l.mk
      BY <1>1, <2>1 DEF Local, PCs, Steps
    <2>3. l.pc = "log" /\ Become(j, o, m)
      BY <1>6, <2>1 DEF LogCreated, At, l
    <2>4. Soft(j, o, l, m)
      BY <2>2, <2>3 DEF Soft, Section, Blocked, Harmless, Dropping
    <2> QED BY <2>2, <2>3, <2>4, CalmPlain, PlainPCs DEF l
  <1>7. CASE FailsEarly(j, o)
    <2>1. PICK m : m = Again(l, "lookup")
      OBVIOUS
    <2>2. m \in Local /\ m.pc \in {"lookup", "end"} /\ m.mk = l.mk /\ m.done = l.done
      BY <1>1, <2>1, AgainIs DEF PCs
    <2>3. l.pc \in {"lookup", "issue", "mark", "passwd"} /\ Become(j, o, m)
      BY <1>7, <2>1 DEF FailsEarly, l
    <2>4. l.done = {}
      BY <1>2, <2>3 DEF Unborn, Section
    <2>5. Soft(j, o, l, m)
      BY <2>2, <2>3 DEF Soft, Section, Blocked, Harmless, Dropping
    <2> QED BY <2>2, <2>3, <2>4, <2>5, CalmPlain, CalmUnborn, PlainPCs DEF l
  <1>8. CASE FailsLate(j, o)
    <2>1. PICK m : m = Undoing(l, "account")
      OBVIOUS
    <2>2. l.pc \in {"group", "shadow", "sudoers"} /\ Become(j, o, m)
      BY <1>8, <2>1 DEF FailsLate, l
    <2>3. l.done = {}
      BY <1>2, <2>2 DEF Unborn, Section
    <2>4. m \in Local /\ m.pc = "undo" /\ m.mk = l.mk /\ m.done = {} /\ m.gid = 0
      BY <1>1, <2>1, <2>3, UndoingIs
    <2>5. Soft(j, o, l, m) /\ Tidy(j, o, m)'
      BY <2>2, <2>4 DEF Soft, Section, Blocked, Harmless, Dropping, Tidy, Unborn, Emptying
    <2> QED BY <2>2, <2>4, <2>5 DEF Calm, l
  <1>9. CASE JudgeFails(j, o)
    <2>1. PICK m : m = Ending(l, "DEGRADED")
      OBVIOUS
    <2>2. m \in Local /\ m.pc = "end" /\ m.mk = l.mk /\ m.done = l.done /\ Become(j, o, m)
      BY <1>1, <1>9, <2>1, EndingIs DEF Verdicts, JudgeFails, l
    <2>3. Soft(j, o, l, m)
      BY <2>2 DEF Soft, Section, Blocked, Harmless
    <2> QED BY <2>2, <2>3, CalmPlain, PlainPCs DEF l
  <1> QED BY <1>3, <1>4, <1>5, <1>6, <1>7, <1>8, <1>9, JudgeCalm, IssueCalm DEF CreateStep, Enters

LEMMA UndoCalm ==
  ASSUME ConstantsOK, UidInv, TidyInv, NEW j \in Provisions, NEW o \in Owners, UndoStep(j, o)
  PROVE  Calm(j, o)
  <1> DEFINE l == loc[<<j, o>>]
  <1>1. j \in Jobs /\ l \in Local /\ Tidy(j, o, l) /\ WorkerOK(j, l)
    BY Memory DEF Jobs, TidyInv
  <1>2. l.pc \in Rolling => l.then \in {"account", "home", "krb", "mismatch", "judged"}
    BY <1>1 DEF WorkerOK, Local
  <1> HIDE DEF l
  \* a rollback is no waiting, and comes from no section
  <1>3. ASSUME NEW m \in Local, l.pc \in Rolling \cup {"rewind"}, m.mk = l.mk, m.done \in {l.done, {}},
               m.pc \notin Section
        PROVE  Soft(j, o, l, m)
    BY <1>3 DEF Soft, Section, Blocked, Harmless, Dropping, Rolling
  <1>4. CASE UndoPasswd(j, o) \/ UndoShadow(j, o)
    <2>1. PICK pc \in {"undo_shadow", "undo_group"} : Goto(j, o, pc)
      BY <1>4 DEF UndoPasswd, UndoShadow
    <2>2. PICK m : m = [l EXCEPT !.pc = pc]
      OBVIOUS
    <2>3. /\ m \in Local /\ m.pc = pc /\ m.mk = l.mk /\ m.done = l.done
          /\ m.gid = l.gid /\ m.then = l.then
      BY <1>1, <2>2 DEF Local, PCs
    <2>4. l.pc \in {"undo", "undo_shadow"} /\ given' = given
      BY <1>4 DEF UndoPasswd, UndoShadow, At, l
    <2>5. LinesOf(NameOf[j])' = {}
      <3>1. CASE UndoPasswd(j, o)
        BY <3>1 DEF UndoPasswd, LinesOf, Without
      <3>2. CASE UndoShadow(j, o)
        <4>1. l.pc = "undo_shadow" /\ lock = <<j, o>> /\ passwd' = passwd
          BY <3>2 DEF UndoShadow, At, Mine, l
        <4> QED BY <1>1, <4>1 DEF Tidy, Emptying, LinesOf
      <3> QED BY <1>4, <3>1, <3>2
    <2>6. Tidy(j, o, m)'
      BY <1>1, <2>1, <2>3, <2>4, <2>5 DEF Tidy, Unborn, Section, Rolling, Acc
    <2>7. Soft(j, o, l, m)
      BY <1>3, <2>1, <2>3, <2>4 DEF Rolling, Section
    <2> QED BY <2>1, <2>2, <2>3, <2>6, <2>7 DEF Calm, Goto, l
  <1>5. CASE UndoGroup(j, o)
    <2>1. l.pc = "undo_group" /\ l.pc \in Rolling
      BY <1>5 DEF UndoGroup, At, Rolling, l
    <2>2. ASSUME l.then = "account" PROVE Calm(j, o)
      <3>1. PICK m : m = Again(l, "lookup")
        OBVIOUS
      <3>2. m \in Local /\ m.pc \in {"lookup", "end"} /\ m.mk = l.mk /\ m.done = l.done
        BY <1>1, <3>1, AgainIs DEF PCs
      <3>3. l.done = {}
        BY <1>1, <2>1, <2>2 DEF Tidy
      <3>4. Become(j, o, m) /\ Soft(j, o, l, m)
        BY <1>3, <1>5, <2>1, <2>2, <3>1, <3>2 DEF UndoGroup, Section, l
      <3> QED BY <3>2, <3>3, <3>4, CalmPlain, CalmUnborn, PlainPCs DEF l
    <2>3. ASSUME l.then = "mismatch" PROVE Calm(j, o)
      <3>1. PICK m : m = Failing(l)
        OBVIOUS
      <3>2. m \in Local /\ m.pc \in {"comp", "end"} /\ m.mk = l.mk /\ m.done = l.done
        BY <1>1, <3>1, FailingIs
      <3>3. Become(j, o, m) /\ Soft(j, o, l, m)
        BY <1>3, <1>5, <2>1, <2>3, <3>1, <3>2 DEF UndoGroup, Section, l
      <3> QED BY <3>2, <3>3, CalmPlain, PlainPCs DEF l
    <2>4. ASSUME l.then = "judged" PROVE Calm(j, o)
      <3>1. PICK m : m = [l EXCEPT !.pc = "lookup", !.uid = l.mk]
        OBVIOUS
      <3>2. m \in Local /\ m.pc = "lookup" /\ m.mk = l.mk /\ m.done = l.done
        BY <1>1, <3>1 DEF Local, PCs
      <3>3. l.done = {}
        BY <1>1, <2>1, <2>4 DEF Tidy
      <3>4. Become(j, o, m) /\ Soft(j, o, l, m)
        BY <1>3, <1>5, <2>1, <2>4, <3>1, <3>2 DEF UndoGroup, Section, l
      <3> QED BY <3>2, <3>3, <3>4, CalmUnborn DEF l
    <2>5. ASSUME l.then \in {"home", "krb"}, l.rewinds < MaxRewinds PROVE Calm(j, o)
      <3>1. PICK m : m = [l EXCEPT !.pc = "rewind", !.rewinds = @ + 1, !.done = {}, !.tries = 1]
        OBVIOUS
      <3>a. l.rewinds \in 0..MaxRewinds /\ MaxRewinds \in Nat /\ MaxAttempts \in Nat \ {0}
        BY <1>1 DEF Local, ConstantsOK
      <3>b. l.rewinds + 1 \in 0..MaxRewinds /\ 1 \in 1..MaxAttempts
        BY <2>5, <3>a
      <3>2. m \in Local /\ m.pc = "rewind" /\ m.mk = l.mk /\ m.done = {}
        BY <1>1, <3>1, <3>b DEF Local, PCs
      <3>4. Become(j, o, m)
        BY <1>5, <2>5, <3>1 DEF UndoGroup, l
      <3>5. Soft(j, o, l, m)
        BY <1>3, <2>1, <3>2 DEF Section
      <3> QED BY <3>2, <3>4, <3>5, CalmUnborn DEF l
    <2>6. ASSUME l.then \in {"home", "krb"}, ~(l.rewinds < MaxRewinds) PROVE Calm(j, o)
      <3>1. PICK m : m = Ending(l, "DEGRADED")
        OBVIOUS
      <3>2. m \in Local /\ m.pc = "end" /\ m.mk = l.mk /\ m.done = l.done
        BY <1>1, <3>1, EndingIs DEF Verdicts
      <3>3. Become(j, o, m)
        BY <1>5, <2>6, <3>1 DEF UndoGroup, l
      <3>4. Soft(j, o, l, m)
        BY <1>3, <2>1, <3>2 DEF Section
      <3> QED BY <3>2, <3>3, <3>4, CalmPlain, PlainPCs DEF l
    <2> QED BY <1>2, <2>1, <2>2, <2>3, <2>4, <2>5, <2>6
  <1>6. CASE UndoFails(j, o)
    <2>1. l.pc \in Rolling
      BY <1>6 DEF UndoFails, Rolling, l
    <2>2. PICK m : /\ Become(j, o, m)
                   /\ \/ m = Ending(l, "DEGRADED")
                      \/ m = Again(l, "lookup") /\ l.then = "account"
                      \/ m = Again(l, "home") \/ m = Again(l, "krb")
      BY <1>2, <1>6, <2>1 DEF UndoFails, l
    <2>3. /\ m \in Local /\ m.mk = l.mk /\ m.done = l.done
          /\ m.pc \in {"end", "home", "krb"} \/ (m.pc = "lookup" /\ l.then = "account")
      <3>1. {"lookup", "home", "krb"} \subseteq PCs /\ "DEGRADED" \in Verdicts
        BY DEF PCs, Verdicts
      <3>2. CASE m = Ending(l, "DEGRADED")
        BY <1>1, <3>1, <3>2, EndingIs
      <3>3. ASSUME NEW pc \in {"lookup", "home", "krb"}, m = Again(l, pc)
            PROVE  m \in Local /\ m.mk = l.mk /\ m.done = l.done /\ m.pc \in {pc, "end"}
        BY <1>1, <3>1, <3>3, AgainIs
      <3> QED BY <2>2, <3>2, <3>3
    <2>4. m.pc = "lookup" => m.done = {}
      BY <1>1, <2>1, <2>3 DEF Tidy
    <2>5. Soft(j, o, l, m)
      BY <1>3, <2>1, <2>3 DEF Section
    <2> QED BY <2>2, <2>3, <2>4, <2>5, CalmPlain, CalmUnborn, PlainPCs DEF l
  <1>7. CASE RecordRewind(j, o)
    <2>1. l.pc = "rewind" /\ RecordStep(j, o, l, "judge")
      BY <1>7 DEF RecordRewind, At, l
    <2>2. l.done = {}
      BY <1>1, <2>1 DEF Tidy, Unborn
    <2>3. CASE Become(j, o, Off)
      <3>1. Soft(j, o, l, Off)
        BY OffIs DEF Soft, Section, Harmless
      <3> QED BY <2>3, <3>1, OffIs, CalmPlain, PlainPCs DEF l
    <2>4. CASE Become(j, o, [l EXCEPT !.pc = "judge"])
      <3>1. PICK m : m = [l EXCEPT !.pc = "judge"]
        OBVIOUS
      <3>2. m \in Local /\ m.pc = "judge" /\ m.mk = l.mk /\ m.done = l.done
        BY <1>1, <3>1 DEF Local, PCs
      <3>3. Soft(j, o, l, m)
        BY <1>3, <2>1, <3>2 DEF Section
      <3> QED BY <2>2, <2>4, <3>1, <3>2, <3>3, CalmUnborn DEF l
    <2> QED BY <2>1, <2>3, <2>4 DEF RecordStep
  <1> QED BY <1>4, <1>5, <1>6, <1>7 DEF UndoStep

LEMMA LaterCalm ==
  ASSUME ConstantsOK, UidInv, NEW j \in Provisions, NEW o \in Owners, LaterStep(j, o)
  PROVE  Calm(j, o)
  <1> DEFINE l == loc[<<j, o>>]
  <1>1. j \in Jobs /\ l \in Local
    BY Memory DEF Jobs
  <1> HIDE DEF l
  <1>2. l.pc \in {"home", "krb", "pod"}
    BY DEF LaterStep, CreateHome, HomeFails, CreatePrincipal, PrincipalFails, CreatePod, PodFails, At, l
  <1>3. ASSUME NEW m \in Local, m.mk = l.mk, m.done \in {l.done, l.done \cup {"home"}, l.done \cup {"krb"}},
               m.pc \notin Section, m.pc \in {"record", "undo"} => l.pc # "pod",
               m.pc \in {"record", "undo", "end", "comp"}
        PROVE  Soft(j, o, l, m)
    BY <1>2, <1>3 DEF Soft, Blocked, Harmless, Dropping
  <1>4. \A x : x \in {TRUE, FALSE} => x \in BOOLEAN
    OBVIOUS
  <1>5. ASSUME NEW m, Become(j, o, m), NEW d \in {"home", "krb"}, l.pc # "pod", NEW x \in BOOLEAN,
               m = [l EXCEPT !.pc = "record", !.made = x, !.done = @ \cup {d}]
        PROVE  Calm(j, o)
    <2>a. "record" \in PCs /\ d \in Steps
      BY DEF PCs, Steps
    <2>1. m \in Local /\ m.pc = "record" /\ m.mk = l.mk /\ m.done = l.done \cup {d}
      BY <1>1, <1>5, <2>a DEF Local
    <2>2. Soft(j, o, l, m)
      BY <1>3, <1>5, <2>1 DEF Section
    <2> QED BY <1>5, <2>1, <2>2, CalmPlain, PlainPCs DEF l
  <1>6. ASSUME NEW m, Become(j, o, m), NEW t \in {"home", "krb", "mismatch"}, l.pc # "pod", NEW x \in BOOLEAN,
               m = [Undoing(l, t) EXCEPT !.made = x]
        PROVE  Calm(j, o)
    <2>a. PICK u : u = Undoing(l, t)
      OBVIOUS
    <2>b. u \in Local /\ u.pc = "undo" /\ u.mk = l.mk /\ u.done = l.done /\ u.gid = 0 /\ u.then = t
      BY <1>1, <2>a, UndoingIs
    <2>1. m \in Local /\ m.pc = "undo" /\ m.mk = l.mk /\ m.done = l.done /\ m.gid = 0 /\ m.then = t
      BY <1>6, <2>a, <2>b DEF Local
    <2>2. Soft(j, o, l, m)
      BY <1>3, <1>6, <2>1 DEF Section
    <2>3. Tidy(j, o, m)'
      BY <2>1 DEF Tidy, Unborn, Section, Emptying, Dropping
    <2> QED BY <1>6, <2>1, <2>2, <2>3 DEF Calm, l
  <1>7. [l EXCEPT !.made = l.made] = l /\ l.made \in BOOLEAN
    BY <1>1 DEF Local
  <1>8. CASE CreateHome(j, o) \/ CreatePrincipal(j, o) \/ HomeFails(j, o) \/ PrincipalFails(j, o)
    <2>1. l.pc # "pod"
      BY <1>8 DEF CreateHome, CreatePrincipal, HomeFails, PrincipalFails, At, l
    <2>2. \/ Become(j, o, [l EXCEPT !.pc = "record", !.made = TRUE, !.done = @ \cup {"home"}])
          \/ Become(j, o, [l EXCEPT !.pc = "record", !.done = @ \cup {"home"}])
          \/ Become(j, o, Undoing(l, "mismatch"))
          \/ Become(j, o, [l EXCEPT !.pc = "record", !.done = @ \cup {"krb"}])
          \/ Become(j, o, Undoing(l, "home"))
          \/ Become(j, o, [Undoing(l, "home") EXCEPT !.made = TRUE])
          \/ Become(j, o, Undoing(l, "krb"))
          \/ Become(j, o, [Undoing(l, "krb") EXCEPT !.made = FALSE])
      BY <1>8 DEF CreateHome, CreatePrincipal, HomeFails, PrincipalFails, l
    <2>3. \A d : [l EXCEPT !.pc = "record", !.done = @ \cup {d}]
                   = [l EXCEPT !.pc = "record", !.made = l.made, !.done = @ \cup {d}]
      BY <1>1 DEF Local
    <2>4. \A t \in {"home", "krb", "mismatch"} : Undoing(l, t) = [Undoing(l, t) EXCEPT !.made = l.made]
      BY <1>1 DEF Local, Undoing
    <2> QED BY <1>4, <1>5, <1>6, <1>7, <2>1, <2>2, <2>3, <2>4
  <1>9. CASE CreatePod(j, o) \/ PodFails(j, o)
    <2>1. PICK m : /\ Become(j, o, m)
                   /\ m \in {Ending(l, "SUCCESS"), Ending(l, "DEGRADED"), Failing(l)}
      BY <1>9 DEF CreatePod, PodFails, l
    <2>2. m \in Local /\ m.pc \in {"comp", "end"} /\ m.mk = l.mk /\ m.done = l.done
      BY <1>1, <2>1, EndingIs, FailingIs DEF Verdicts
    <2>3. Soft(j, o, l, m)
      BY <1>3, <2>2 DEF Section
    <2> QED BY <2>1, <2>2, <2>3, CalmPlain, PlainPCs DEF l
  <1> QED BY <1>8, <1>9 DEF LaterStep

LEMMA DeleteCalm ==
  ASSUME ConstantsOK, UidInv, TidyInv, NEW j \in Jobs, NEW o \in Owners, DeleteStep(j, o)
  PROVE  Calm(j, o)
  <1> DEFINE l == loc[<<j, o>>]
  <1>1. l \in Local /\ Tidy(j, o, l)
    BY Memory DEF TidyInv
  <1>2. given' = given
    BY DEF DeleteStep, CheckRevocable, DeletePasswd, DeleteShadow, DeleteGroup, LogDeleted,
       RemoveLeftovers, DeleteFails, DeleteGivesUp
  <1> HIDE DEF l
  <1>3. ASSUME NEW m \in Local, l.pc \notin Section, m.mk = l.mk,
               "account" \in m.done => "account" \in l.done,
               m.pc \in Harmless
        PROVE  Soft(j, o, l, m)
    BY <1>3 DEF Soft, Section, Harmless, Dropping
  <1>4. l.pc \in {"check", "comp", "delete", "del_shadow", "del_group", "del_log",
                  "left_shadow", "left_group"}
    BY DEF DeleteStep, CheckRevocable, DeletePasswd, DeleteShadow, DeleteGroup, LogDeleted,
       RemoveLeftovers, DeleteFails, DeleteGivesUp, At, l
  <1>5. l.pc \notin Section
    BY <1>4 DEF Section
  <1>6. ASSUME NEW v \in Verdicts, Become(j, o, Ending(l, v)) PROVE Calm(j, o)
    <2>1. PICK m : m = Ending(l, v)
      OBVIOUS
    <2>2. m \in Local /\ m.pc = "end" /\ m.mk = l.mk /\ m.done = l.done
      BY <1>1, <2>1, EndingIs
    <2>3. Soft(j, o, l, m)
      BY <1>3, <1>5, <2>2 DEF Harmless
    <2> QED BY <1>6, <2>1, <2>2, <2>3, CalmPlain, PlainPCs DEF l
  <1>7. {"SUCCESS", "FAIL", "HELD", "DEGRADED", "IN_USE", "UNVERIFIED"} = Verdicts
    BY DEF Verdicts
  <1>8. CASE CheckRevocable(j, o)
    <2>1. ASSUME j \in Revokes, Become(j, o, [l EXCEPT !.pc = "record", !.done = {"check"}])
          PROVE  Calm(j, o)
      <3>1. PICK m : m = [l EXCEPT !.pc = "record", !.done = {"check"}]
        OBVIOUS
      <3>2. m \in Local /\ m.pc = "record" /\ m.mk = l.mk /\ m.done = {"check"}
        BY <1>1, <3>1 DEF Local, PCs, Steps
      <3>3. j \notin Provisions
        BY <2>1 DEF ConstantsOK
      <3>4. Soft(j, o, l, m)
        BY <3>2, <3>3 DEF Soft, Section, Blocked
      <3> QED BY <2>1, <3>1, <3>2, <3>4, CalmPlain, PlainPCs DEF l
    <2>2. ASSUME Become(j, o, [l EXCEPT !.pc = "delete"]) PROVE Calm(j, o)
      <3>1. PICK m : m = [l EXCEPT !.pc = "delete"]
        OBVIOUS
      <3>2. m \in Local /\ m.pc = "delete" /\ m.mk = l.mk /\ m.done = l.done
        BY <1>1, <3>1 DEF Local, PCs
      <3>3. Soft(j, o, l, m)
        BY <1>3, <1>5, <3>2 DEF Harmless
      <3> QED BY <2>2, <3>1, <3>2, <3>3, CalmPlain, PlainPCs DEF l
    <2>3. \/ j \in Revokes /\ Become(j, o, [l EXCEPT !.pc = "record", !.done = {"check"}])
          \/ Become(j, o, [l EXCEPT !.pc = "delete"])
          \/ Become(j, o, Ending(l, "IN_USE")) \/ Become(j, o, Ending(l, "HELD"))
      BY <1>8 DEF CheckRevocable, l
    <2> QED BY <1>6, <1>7, <2>1, <2>2, <2>3
  <1>9. CASE DeletePasswd(j, o)
    <2>1. l.pc = "delete" /\ lock = None
      BY <1>9 DEF DeletePasswd, At, Free, l
    <2>2. ASSUME NEW e \in LinesOf(NameOf[j]), passwd' = Without(NameOf[j]),
                 Become(j, o, [l EXCEPT !.pc = "del_shadow", !.gid = e.uid])
          PROVE  Calm(j, o)
      <3>1. PICK m : m = [l EXCEPT !.pc = "del_shadow", !.gid = e.uid]
        OBVIOUS
      <3>2. e \in passwd /\ e.name = NameOf[j] /\ e.uid \in 0..UidMax
        BY DEF LinesOf, UidInv, TypeOK, Line, Uids, ConstantsOK
      <3>3. m \in Local /\ m.pc = "del_shadow" /\ m.mk = l.mk /\ m.done = l.done /\ m.gid = e.uid
        BY <1>1, <3>1, <3>2 DEF Local, PCs
      <3>4. Acc(j, m.gid) \in given'
        BY <1>2, <3>2, <3>3 DEF UidInv, StoresOK, Acc
      <3>5. LinesOf(NameOf[j])' = {}
        BY <2>2 DEF LinesOf, Without
      <3>6. Tidy(j, o, m)'
        BY <3>3, <3>4, <3>5 DEF Tidy, Unborn, Section, Rolling, Acc
      <3>7. Soft(j, o, l, m)
        BY <1>3, <1>5, <3>3 DEF Harmless, Dropping
      <3> QED BY <2>2, <3>1, <3>3, <3>6, <3>7 DEF Calm, l
    <2>3. ASSUME LinesOf(NameOf[j]) = {}, passwd' = passwd, Goto(j, o, "left_shadow")
          PROVE  Calm(j, o)
      <3>1. PICK m : m = [l EXCEPT !.pc = "left_shadow"]
        OBVIOUS
      <3>2. m \in Local /\ m.pc = "left_shadow" /\ m.mk = l.mk /\ m.done = l.done
        BY <1>1, <3>1 DEF Local, PCs
      <3>3. LinesOf(NameOf[j])' = {}
        BY <2>3 DEF LinesOf
      <3>4. Tidy(j, o, m)'
        BY <3>2, <3>3 DEF Tidy, Unborn, Section, Rolling, Dropping
      <3>5. Soft(j, o, l, m)
        BY <1>3, <1>5, <3>2 DEF Harmless
      <3> QED BY <2>3, <3>1, <3>2, <3>4, <3>5 DEF Calm, Goto, l
    <2>4. \/ /\ passwd' = Without(NameOf[j])
             /\ \E e \in LinesOf(NameOf[j]) :
                  Become(j, o, [l EXCEPT !.pc = "del_shadow", !.gid = e.uid])
          \/ LinesOf(NameOf[j]) = {} /\ passwd' = passwd /\ Goto(j, o, "left_shadow")
          \/ Become(j, o, Ending(l, "UNVERIFIED"))
          \/ Become(j, o, Ending(l, "FAIL"))
      BY <1>9 DEF DeletePasswd, l
    <2> QED BY <1>6, <1>7, <2>2, <2>3, <2>4
  <1>10. CASE DeleteShadow(j, o)
    <2>1. PICK pc \in {"del_group", "left_group"} :
               Goto(j, o, pc) /\ (pc = "del_group" => l.pc = "del_shadow")
      BY <1>10 DEF DeleteShadow, At, l
    <2>2. l.pc \in {"del_shadow", "left_shadow"} /\ lock = <<j, o>> /\ passwd' = passwd
      BY <1>10 DEF DeleteShadow, Mine, l
    <2>3. PICK m : m = [l EXCEPT !.pc = pc]
      OBVIOUS
    <2>4. m \in Local /\ m.pc = pc /\ m.mk = l.mk /\ m.done = l.done /\ m.gid = l.gid
      BY <1>1, <2>3 DEF Local, PCs
    <2>5. LinesOf(NameOf[j])' = {}
      BY <1>1, <2>2 DEF Tidy, Emptying, Dropping, LinesOf
    <2>6. pc = "del_group" => (m.gid # 0 => Acc(j, m.gid) \in given')
      BY <1>1, <1>2, <2>1, <2>4 DEF Tidy, Dropping
    <2>7. Tidy(j, o, m)'
      BY <2>1, <2>4, <2>5, <2>6 DEF Tidy, Unborn, Section, Rolling, Dropping, Acc
    <2>8. Soft(j, o, l, m)
      BY <1>3, <1>5, <2>1, <2>4 DEF Harmless, Dropping
    <2> QED BY <2>1, <2>3, <2>4, <2>7, <2>8 DEF Calm, Goto, l
  <1>11. CASE DeleteGroup(j, o)
    <2>1. PICK m : m = [l EXCEPT !.pc = "del_log"]
      OBVIOUS
    <2>2. m \in Local /\ m.pc = "del_log" /\ m.mk = l.mk /\ m.done = l.done
      BY <1>1, <2>1 DEF Local, PCs
    <2>3. Soft(j, o, l, m) /\ Become(j, o, m)
      BY <1>3, <1>5, <1>11, <2>1, <2>2 DEF Harmless, DeleteGroup, Goto, l
    <2> QED BY <2>2, <2>3, CalmPlain, PlainPCs DEF l
  <1>12. CASE LogDeleted(j, o) \/ RemoveLeftovers(j, o)
    BY <1>6, <1>7, <1>12 DEF LogDeleted, RemoveLeftovers, l
  <1>13. CASE DeleteFails(j, o) \/ DeleteGivesUp(j, o)
    <2>1. PICK m : m = AfterDeleteFailed(j, l)
      OBVIOUS
    <2>2. m \in Local /\ m.pc \in {"delete", "end"} /\ m.mk = l.mk /\ m.done = l.done
      BY <1>1, <1>7, <2>1, AgainIs, EndingIs DEF AfterDeleteFailed, PCs
    <2>3. Soft(j, o, l, m) /\ Become(j, o, m)
      BY <1>3, <1>5, <1>13, <2>1, <2>2 DEF Harmless, DeleteFails, DeleteGivesUp, l
    <2> QED BY <2>2, <2>3, CalmPlain, PlainPCs DEF l
  <1> QED BY <1>8, <1>9, <1>10, <1>11, <1>12, <1>13 DEF DeleteStep

LEMMA RecordCalm ==
  ASSUME ConstantsOK, UidInv, NEW j \in Jobs, NEW o \in Owners,
         Record(j, o) \/ RecordFails(j, o) \/ End(j, o)
  PROVE  Calm(j, o)
  <1> DEFINE l == loc[<<j, o>>]
  <1>1. l \in Local
    BY Memory
  <1> HIDE DEF l
  <1>2. CASE Become(j, o, Off)
    <2>1. Soft(j, o, l, Off)
      BY OffIs DEF Soft, Section, Harmless
    <2> QED BY <1>2, <2>1, OffIs, CalmPlain, PlainPCs DEF l
  <1>3. CASE Record(j, o) /\ lease[j] = o
    <2>1. l.pc = "record"
      BY <1>3 DEF Record, At, l
    <2>2. PICK m : m = [[l EXCEPT !.tries = 1] EXCEPT !.pc = FirstStep(l.done)]
      OBVIOUS
    <2>3. FirstStep(l.done) \in {"delete", "pod", "krb", "home"}
          \/ (FirstStep(l.done) = "judge" /\ l.done \cap Steps = {})
      BY DEF FirstStep, Steps
    <2>a. MaxAttempts \in Nat \ {0}
      BY DEF ConstantsOK
    <2>b. l.done \subseteq Steps
      BY <1>1 DEF Local
    <2>4. l.done \subseteq Steps /\ 1 \in 1..MaxAttempts
      BY <2>a, <2>b
    <2>5. FirstStep(l.done) \in PCs
      BY <2>3 DEF PCs
    <2>6. PICK k : k = [l EXCEPT !.tries = 1]
      OBVIOUS
    <2>7. k \in Local /\ k.mk = l.mk /\ k.done = l.done
      BY <1>1, <2>4, <2>6 DEF Local
    <2>c. m = [k EXCEPT !.pc = FirstStep(l.done)]
      BY <2>2, <2>6
    <2>d. m \in Local /\ m.pc = FirstStep(l.done) /\ m.mk = k.mk /\ m.done = k.done
      BY <2>5, <2>7, <2>c, GotoIs
    <2>8. m \in Local /\ m.pc = FirstStep(l.done) /\ m.mk = l.mk /\ m.done = l.done
      BY <2>7, <2>d
    <2>9. Become(j, o, m)
      BY <1>3, <2>2 DEF Record, RecordStep, l
    <2>10. Soft(j, o, l, m)
      BY <2>1, <2>3, <2>8 DEF Soft, Section, Blocked, Harmless, Dropping
    <2>11. m.pc = "judge" => m.done = {}
      BY <2>3, <2>4, <2>8
    <2> QED BY <2>3, <2>8, <2>9, <2>10, <2>11, CalmPlain, CalmUnborn, PlainPCs DEF l
  <1>4. CASE RecordFails(j, o)
    <2>1. PICK m : m = Failing(l)
      OBVIOUS
    <2>2. m \in Local /\ m.pc \in {"comp", "end"} /\ m.mk = l.mk /\ m.done = l.done
      BY <1>1, <2>1, FailingIs
    <2>3. l.pc \in {"record", "rewind"} /\ Become(j, o, m)
      BY <1>4, <2>1 DEF RecordFails, l
    <2>4. Soft(j, o, l, m)
      BY <2>2, <2>3 DEF Soft, Section, Blocked, Harmless, Dropping
    <2> QED BY <2>2, <2>3, <2>4, CalmPlain, PlainPCs DEF l
  <1> QED BY <1>2, <1>3, <1>4 DEF Record, RecordStep, End

\* every step of a worker is calm, or one of the section of its job
LEMMA WorkCalm ==
  ASSUME ConstantsOK, UidInv, TidyInv, NEW j \in Jobs, NEW o \in Owners, Work(j, o)
  PROVE  Calm(j, o) \/ (j \in Provisions /\ Enters(j, o))
  BY CreateCalm, UndoCalm, LaterCalm, DeleteCalm, RecordCalm DEF Work

-----------------------------------------------------------------------------
(* The lock, the given uids, and what a worker starts from *)

LEMMA EnterIs ==
  ASSUME ConstantsOK, UidInv, TidyInv, NEW j \in Provisions, NEW o \in Owners, Enters(j, o)
  PROVE  \E m \in Local : /\ Become(j, o, m) /\ m.pc \in Section /\ m.done = {}
                          /\ m.mk = loc[<<j, o>>].mk \/ loc[<<j, o>>].pc = "issue"
  <1> DEFINE l == loc[<<j, o>>]
  <1>1. l \in Local /\ Tidy(j, o, l)
    BY Memory DEF TidyInv, Jobs
  <1> HIDE DEF l
  <1>2. l.pc \in Section \cup {"issue", "judge"}
    BY DEF Enters, Mark, WritePasswd, WriteGroup, WriteShadow, WriteSudoers, At, Section, l
  <1>3. l.done = {}
    BY <1>1, <1>2 DEF Tidy, Unborn
  <1>4. ASSUME NEW pc \in Section, Goto(j, o, pc) PROVE Become(j, o, [l EXCEPT !.pc = pc])
    BY <1>4 DEF Goto, l
  <1>5. ASSUME NEW pc \in Section, Become(j, o, [l EXCEPT !.pc = pc])
        PROVE  \E m \in Local : /\ Become(j, o, m) /\ m.pc \in Section /\ m.done = {}
                                /\ m.mk = l.mk
    <2>1. PICK m : m = [l EXCEPT !.pc = pc]
      OBVIOUS
    <2>2. m \in Local /\ m.pc = pc /\ m.mk = l.mk /\ m.done = l.done
      BY <1>1, <2>1 DEF Local, PCs, Section
    <2> QED BY <1>3, <1>5, <2>1, <2>2
  <1>6. CASE \E u \in Uids : l.pc = "issue" /\ Become(j, o, [l EXCEPT !.pc = "mark", !.mk = u])
    <2>1. PICK u \in Uids : l.pc = "issue" /\ Become(j, o, [l EXCEPT !.pc = "mark", !.mk = u])
      BY <1>6
    <2>2. PICK m : m = [l EXCEPT !.pc = "mark", !.mk = u]
      OBVIOUS
    <2>3. u \in 0..UidMax
      BY DEF Uids, ConstantsOK
    <2>4. m \in Local /\ m.pc = "mark" /\ m.done = l.done
      BY <1>1, <2>2, <2>3 DEF Local, PCs
    <2> QED BY <1>3, <2>1, <2>2, <2>4 DEF Section, l
  <1>7. CASE Become(j, o, [l EXCEPT !.pc = "log", !.uid = l.mk])
    <2>2. PICK m : m = [l EXCEPT !.pc = "log", !.uid = l.mk]
      OBVIOUS
    <2>4. m \in Local /\ m.pc = "log" /\ m.done = l.done /\ m.mk = l.mk
      BY <1>1, <2>2 DEF Local, PCs
    <2> QED BY <1>3, <1>7, <2>2, <2>4 DEF Section, l
  <1>8. CASE Mark(j, o) /\ lease[j] = o
    <2>1. Become(j, o, [l EXCEPT !.pc = "passwd"])
      BY <1>8 DEF Mark, RecordStep, l
    <2> QED BY <1>5, <2>1 DEF Section, l
  <1>9. CASE WritePasswd(j, o) \/ WriteShadow(j, o) \/ WriteSudoers(j, o)
             \/ (WriteGroup(j, o) /\ Goto(j, o, "shadow"))
    <2>1. PICK pc \in Section : Goto(j, o, pc)
      BY <1>9 DEF WritePasswd, WriteShadow, WriteSudoers, Section
    <2> QED BY <1>4, <1>5, <2>1 DEF l
  <1> QED BY <1>6, <1>7, <1>8, <1>9 DEF Enters, l

LEMMA TakeIs ==
  ASSUME ConstantsOK, UidInv, NEW j \in Jobs, NEW o \in Owners, Take(j, o)
  PROVE  \E m \in Local :
           /\ Become(j, o, m) /\ m.mk = saved[j].mk /\ m.done = saved[j].done
           /\ m.pc \in {"check", "pod", "krb", "home", "delete", "judge"}
           /\ m.done = {} => m.pc \in {"check", "pod", "judge"}
           /\ m.pc = "judge" => m.done = {}
           /\ job[j] = "reuse" => m.pc = "pod"
  <1> DEFINE s  == saved[j]
             pc == CASE job[j] = "revoke" /\ s.done = {} -> "check"
                     [] job[j] = "reuse"               -> "pod"
                     [] OTHER                          -> FirstStep(s.done)
  <1>1. s \in Saved /\ Off \in Local
    BY OffIs DEF UidInv, TypeOK
  <1>2. Become(j, o, [Off EXCEPT !.done = s.done, !.uid = s.uid, !.mk = s.mk, !.made = s.made, !.pc = pc])
    BY DEF Take, Become
  <1>3. /\ FirstStep(s.done) \in {"delete", "pod", "krb", "home", "judge"}
        /\ s.done = {} => FirstStep(s.done) = "judge"
        /\ FirstStep(s.done) = "judge" => s.done = {}
    BY <1>1 DEF FirstStep, Saved, Steps
  <1>4. /\ pc \in {"check", "pod", "krb", "home", "delete", "judge"}
        /\ s.done = {} => pc \in {"check", "pod", "judge"}
        /\ pc = "judge" => s.done = {}
        /\ job[j] = "reuse" => pc = "pod"
    BY <1>3
  <1>5. PICK q : q = pc
    OBVIOUS
  <1>6. PICK r : r = s
    OBVIOUS
  <1>7. PICK m : m = [Off EXCEPT !.done = r.done, !.uid = r.uid, !.mk = r.mk, !.made = r.made, !.pc = q]
    OBVIOUS
  <1>8. q \in PCs
    BY <1>4, <1>5 DEF PCs
  <1>9. m \in Local /\ m.mk = r.mk /\ m.done = r.done /\ m.pc = q
    BY <1>1, <1>6, <1>7, <1>8 DEF Local, Saved
  <1>10. Become(j, o, m)
    BY <1>2, <1>5, <1>6, <1>7
  <1> HIDE DEF pc
  <1> QED BY <1>4, <1>5, <1>6, <1>9, <1>10

\* a worker takes the lock for itself, and lets only its own go
LEMMA LockMoves ==
  ASSUME NEW j, NEW o, Work(j, o)
  PROVE  /\ lock' \in {lock, None, <<j, o>>}
         /\ lock \notin {None, <<j, o>>} => lock' = lock
  <1>1. CASE CreateStep(j, o)
    BY <1>1 DEF CreateStep, Judge, Lookup, Issue, Mark, WritePasswd, WriteGroup, WriteShadow,
       WriteSudoers, LogCreated, FailsEarly, FailsLate, JudgeFails, Locked, Acquire, Release,
       Free, Mine
  <1>2. CASE UndoStep(j, o)
    BY <1>2 DEF UndoStep, UndoPasswd, UndoShadow, UndoGroup, UndoFails, RecordRewind,
       Acquire, Release, Free, Mine
  <1>3. CASE LaterStep(j, o)
    BY <1>3 DEF LaterStep, CreateHome, HomeFails, CreatePrincipal, PrincipalFails, CreatePod,
       PodFails
  <1>4. CASE DeleteStep(j, o)
    BY <1>4 DEF DeleteStep, CheckRevocable, DeletePasswd, DeleteShadow, DeleteGroup,
       LogDeleted, RemoveLeftovers, DeleteFails, DeleteGivesUp, Acquire, Release, Free, Mine
  <1>5. CASE Record(j, o) \/ RecordFails(j, o) \/ End(j, o)
    BY <1>5 DEF Record, RecordFails, End
  <1> QED BY <1>1, <1>2, <1>3, <1>4, <1>5 DEF Work

LEMMA GivenKept ==
  ASSUME ConstantsOK, UidInv, [Next]_vars PROVE given \subseteq given'
  BY GivenOnce DEF WritePasswd

\* what is true of another worker stays so
LEMMA TidyStays ==
  ASSUME NEW k, NEW p, NEW l, Tidy(k, p, l), given \subseteq given',
         lock' = <<k, p>> => lock = <<k, p>> /\ passwd' \subseteq passwd
  PROVE  Tidy(k, p, l)'
  BY DEF Tidy, LinesOf

\* a line is written at the end of the section: the lock is free then
LEMMA LinesUnderLock ==
  ASSUME [Next]_vars PROVE passwd' \subseteq passwd \/ lock' = None
  BY NewLines DEF WritePasswd, Release

LEMMA TidyStep ==
  ASSUME ConstantsOK, UidInv, TidyInv, [Next]_vars PROVE TidyInv'
  <1>1. loc \in [Workers -> Local] /\ None \notin Workers
    BY DEF UidInv, TypeOK, ConstantsOK
  <1>2. ASSUME NEW k \in Jobs, NEW p \in Owners, loc'[<<k, p>>] = loc[<<k, p>>],
               lock' = <<k, p>> => lock = <<k, p>>
        PROVE  Tidy(k, p, loc[<<k, p>>])'
    <2>1. PICK l : l = loc[<<k, p>>]
      OBVIOUS
    <2>2. <<k, p>> \in Workers
      BY DEF Workers
    <2>3. lock' = <<k, p>> => lock = <<k, p>> /\ passwd' \subseteq passwd
      BY <1>1, <1>2, <2>2, LinesUnderLock
    <2>4. Tidy(k, p, l)'
      BY <2>1, <2>3, GivenKept, TidyStays DEF TidyInv
    <2>5. l = loc'[<<k, p>>]
      BY <1>2, <2>1
    <2> QED BY <2>4, <2>5 DEF Tidy
  <1>3. ASSUME NEW j \in Jobs, NEW o \in Owners, NEW m \in Local, Become(j, o, m), Tidy(j, o, m)',
               lock' \in {lock, None, <<j, o>>}
        PROVE  TidyInv'
    <2>1. <<j, o>> \in Workers
      BY DEF Workers
    <2>2. ASSUME NEW k \in Jobs, NEW p \in Owners PROVE Tidy(k, p, loc[<<k, p>>])'
      <3>1. CASE <<k, p>> = <<j, o>>
        <4>1. loc'[<<k, p>>] = m /\ k = j /\ p = o
          BY <1>1, <1>3, <2>1, <3>1 DEF Become
        <4> QED BY <1>3, <4>1 DEF Tidy
      <3>2. CASE <<k, p>> # <<j, o>>
        <4>1. <<k, p>> \in Workers
          BY DEF Workers
        <4>2. loc'[<<k, p>>] = loc[<<k, p>>]
          BY <1>1, <1>3, <3>2, <4>1 DEF Become
        <4>3. lock' = <<k, p>> => lock = <<k, p>>
          BY <1>1, <1>3, <3>2, <4>1
        <4> QED BY <1>2, <4>2, <4>3
      <3> QED BY <3>1, <3>2
    <2> QED BY <2>2 DEF TidyInv
  <1>4. ASSUME NEW j \in Jobs, NEW o \in Owners, Work(j, o) PROVE TidyInv'
    <2>1. CASE Calm(j, o)
      BY <1>3, <1>4, <2>1, LockMoves DEF Calm
    <2>2. CASE j \in Provisions /\ Enters(j, o)
      <3>1. PICK m \in Local : Become(j, o, m) /\ m.pc \in Section /\ m.done = {}
        BY <2>2, EnterIs
      <3>2. Tidy(j, o, m)'
        BY <3>1 DEF Tidy, Section, Rolling, Emptying, Dropping
      <3> QED BY <1>3, <1>4, <3>1, <3>2, LockMoves
    <2> QED BY <1>4, <2>1, <2>2, WorkCalm
  <1>5. ASSUME NEW j \in Jobs, NEW o \in Owners, Take(j, o) PROVE TidyInv'
    <2>1. PICK m \in Local :
             /\ Become(j, o, m)
             /\ m.pc = "judge" => m.done = {}
             /\ m.pc \in {"check", "pod", "krb", "home", "delete", "judge"}
      BY <1>5, TakeIs
    <2>2. Tidy(j, o, m)'
      BY <2>1 DEF Tidy, Unborn, Section, Rolling, Emptying, Dropping
    <2>3. lock' = lock
      BY <1>5 DEF Take
    <2> QED BY <1>3, <2>1, <2>2, <2>3
  <1>6. ASSUME NEW o \in Owners, Crash(o) PROVE TidyInv'
    <2>1. ASSUME NEW k \in Jobs, NEW p \in Owners PROVE Tidy(k, p, loc[<<k, p>>])'
      <3>1. <<k, p>> \in Workers /\ <<k, p>>[2] = p
        BY DEF Workers
      <3>2. CASE p = o
        <4>1. loc'[<<k, p>>] = Off
          BY <1>6, <3>1, <3>2 DEF Crash
        <4>2. Tidy(k, p, Off)'
          BY OffIs, PlainTidy, PlainPCs
        <4> QED BY <4>1, <4>2 DEF Tidy
      <3>3. CASE p # o
        <4>1. loc'[<<k, p>>] = loc[<<k, p>>]
          BY <1>6, <3>1, <3>3 DEF Crash
        <4>2. lock' = <<k, p>> => lock = <<k, p>>
          BY <1>1, <1>6, <3>1 DEF Crash
        <4> QED BY <1>2, <4>1, <4>2
      <3> QED BY <3>2, <3>3
    <2> QED BY <2>1 DEF TidyInv
  <1>7. ASSUME UNCHANGED <<loc, lock>> PROVE TidyInv'
    BY <1>2, <1>7 DEF TidyInv
  <1>8. ASSUME NEW k, RegisterRevoke(k) \/ RegisterProvision(k) \/ AdoptAccount(k)
                      \/ RemovePod(k)
        PROVE  UNCHANGED <<loc, lock>>
    BY <1>8 DEF RegisterRevoke, RegisterProvision, AdoptAccount, RemovePod
  <1> QED BY <1>4, <1>5, <1>6, <1>7, <1>8 DEF Next, Idle, vars

-----------------------------------------------------------------------------
(* Whose uid the lines of a job have.  A worker whose lease moved on may     *)
(* still write a line, if it is past the checkpoint: it has the uid that is  *)
(* recorded, and the job's new worker waits for the lock until it is there.  *)

\* the lines of job k have the recorded uid, and so does the worker that has
\* the lease in hand
MadeOK(k) == \A e \in By(k) : e.name = NameOf[k] /\ e.uid = saved[k].mk

OwnerOK(k, p) ==
  lease[k] = p /\ loc[<<k, p>>].pc # "off" => loc[<<k, p>>].mk = saved[k].mk \/ By(k) = {}

StaleOK(k, p) ==
  loc[<<k, p>>].pc = "passwd" =>
    /\ saved[k].mk = loc[<<k, p>>].mk /\ saved[k].done = {}
    /\ \A q \in Owners \ {p} : lease[k] = q =>
         /\ loc[<<k, q>>].pc \in Harmless /\ "account" \notin loc[<<k, q>>].done
         /\ loc[<<k, q>>].pc # "off" => loc[<<k, q>>].mk = saved[k].mk

JobOK(k) == MadeOK(k) /\ \A p \in Owners : OwnerOK(k, p) /\ StaleOK(k, p)
MadeInv  == \A k \in Provisions : JobOK(k)

\* where a worker that works is not
LEMMA AtWork ==
  ASSUME NEW j, NEW o, Work(j, o) PROVE loc[<<j, o>>].pc # "off"
  <1>1. CASE CreateStep(j, o)
    BY <1>1 DEF CreateStep, Judge, Lookup, Issue, Mark, WritePasswd, WriteGroup, WriteShadow,
       WriteSudoers, LogCreated, FailsEarly, FailsLate, JudgeFails, At
  <1>2. CASE UndoStep(j, o) \/ LaterStep(j, o)
    BY <1>2 DEF UndoStep, UndoPasswd, UndoShadow, UndoGroup, UndoFails, RecordRewind, LaterStep,
       CreateHome, HomeFails, CreatePrincipal, PrincipalFails, CreatePod, PodFails, At
  <1>3. CASE DeleteStep(j, o) \/ Record(j, o) \/ RecordFails(j, o) \/ End(j, o)
    BY <1>3 DEF DeleteStep, CheckRevocable, DeletePasswd, DeleteShadow, DeleteGroup,
       LogDeleted, RemoveLeftovers, DeleteFails, DeleteGivesUp, Record, RecordFails, End, At
  <1> QED BY <1>1, <1>2, <1>3 DEF Work

\* what a worker records is what it has in hand, and it must have the lease
Saving(j, o) ==
  /\ lease[j] = o /\ loc[<<j, o>>].pc \in {"mark", "record", "rewind"}
  /\ \E s \in Saved : /\ saved' = [saved EXCEPT ![j] = s] /\ s.mk = loc[<<j, o>>].mk
                      /\ s.done = loc[<<j, o>>].done
  /\ passwd' = passwd

LEMMA WhatIsSaved ==
  ASSUME ConstantsOK, UidInv, NEW j \in Jobs, NEW o \in Owners, Work(j, o)
  PROVE  saved' = saved \/ Saving(j, o)
  <1> DEFINE l == loc[<<j, o>>]
  <1>1. l \in Local
    BY Memory
  <1>2. CASE Mark(j, o) \/ RecordRewind(j, o) \/ Record(j, o)
    <2>1. /\ l.pc \in {"mark", "record", "rewind"} /\ passwd' = passwd
          /\ \E m \in {l, [l EXCEPT !.tries = 1]}, pc \in PCs : RecordStep(j, o, m, pc)
      <3>1. {"passwd", "judge"} \subseteq PCs /\ FirstStep(l.done) \in PCs
        BY DEF PCs, FirstStep
      <3> QED BY <1>2, <3>1 DEF Mark, RecordRewind, Record, At, files
    <2>2. PICK m \in {l, [l EXCEPT !.tries = 1]}, pc \in PCs : RecordStep(j, o, m, pc)
      BY <2>1
    <2>a. MaxAttempts \in Nat \ {0}
      BY DEF ConstantsOK
    <2>b. 1 \in 1..MaxAttempts
      BY <2>a
    <2>3. m \in Local /\ m.mk = l.mk /\ m.done = l.done
      BY <1>1, <2>b DEF Local
    <2>4. Recorded(m) \in Saved /\ Recorded(m).mk = l.mk /\ Recorded(m).done = l.done
      BY <2>3 DEF Recorded, Saved, Local
    <2> QED BY <2>1, <2>2, <2>4 DEF RecordStep, Saving
  <1>3. CASE CreateStep(j, o) /\ ~Mark(j, o)
    BY <1>3 DEF CreateStep, Judge, Lookup, Issue, WritePasswd, WriteGroup, WriteShadow,
       WriteSudoers, LogCreated, FailsEarly, FailsLate, JudgeFails, jobctl
  <1>4. CASE (UndoStep(j, o) /\ ~RecordRewind(j, o)) \/ LaterStep(j, o)
    BY <1>4 DEF UndoStep, UndoPasswd, UndoShadow, UndoGroup, UndoFails, LaterStep,
       CreateHome, HomeFails, CreatePrincipal, PrincipalFails, CreatePod, PodFails, jobctl
  <1>5. CASE DeleteStep(j, o) \/ RecordFails(j, o) \/ End(j, o)
    BY <1>5 DEF DeleteStep, CheckRevocable, DeletePasswd, DeleteShadow, DeleteGroup,
       LogDeleted, RemoveLeftovers, DeleteFails, DeleteGivesUp, RecordFails, End, jobctl
  <1> QED BY <1>2, <1>3, <1>4, <1>5 DEF Work

\* only a take gives a lease
LEMMA LeaseKept ==
  ASSUME ConstantsOK, UidInv, NEW j \in Jobs, NEW o \in Owners, Work(j, o)
  PROVE  \A k \in Jobs, p \in Owners : lease'[k] = p => lease[k] = p
  <1>1. CASE End(j, o)
    <2>1. lease \in [Jobs -> Owners \cup {None}] /\ None \notin Owners
      BY DEF UidInv, TypeOK, ConstantsOK
    <2>2. lease' = [lease EXCEPT ![j] = IF @ = o THEN None ELSE @]
      BY <1>1 DEF End
    <2> QED BY <2>1, <2>2
  <1>2. CASE CreateStep(j, o)
    BY <1>2 DEF CreateStep, Judge, Lookup, Issue, Mark, WritePasswd, WriteGroup, WriteShadow,
       WriteSudoers, LogCreated, FailsEarly, FailsLate, JudgeFails, jobctl
  <1>3. CASE UndoStep(j, o) \/ LaterStep(j, o)
    BY <1>3 DEF UndoStep, UndoPasswd, UndoShadow, UndoGroup, UndoFails, RecordRewind, LaterStep,
       CreateHome, HomeFails, CreatePrincipal, PrincipalFails, CreatePod, PodFails, jobctl
  <1>4. CASE DeleteStep(j, o) \/ Record(j, o) \/ RecordFails(j, o)
    BY <1>4 DEF DeleteStep, CheckRevocable, DeletePasswd, DeleteShadow, DeleteGroup,
       LogDeleted, RemoveLeftovers, DeleteFails, DeleteGivesUp, Record, RecordFails, jobctl
  <1> QED BY <1>1, <1>2, <1>3, <1>4 DEF Work

\* one worker moves
LEMMA OthersStay ==
  ASSUME UidInv, NEW j \in Jobs, NEW o \in Owners, NEW m \in Local, Become(j, o, m)
  PROVE  /\ loc'[<<j, o>>] = m
         /\ \A k \in Jobs, p \in Owners : k # j \/ p # o => loc'[<<k, p>>] = loc[<<k, p>>]
  BY DEF UidInv, TypeOK, Workers, Become

LEMMA OtherStays ==
  ASSUME UidInv, NEW j, NEW o, NEW m, Become(j, o, m), NEW k \in Jobs, k # j
  PROVE  \A p \in Owners : loc'[<<k, p>>] = loc[<<k, p>>]
  BY DEF UidInv, TypeOK, Workers, Become

\* a step that neither records, nor gives a lease, nor writes a line, and leaves
\* the workers of the job where they are
LEMMA JobStays ==
  ASSUME NEW k, JobOK(k), By(k)' \subseteq By(k), saved'[k] = saved[k],
         \A p \in Owners : lease'[k] = p => lease[k] = p,
         \A p \in Owners : loc'[<<k, p>>] = loc[<<k, p>>] \/ loc'[<<k, p>>] = Off
  PROVE  JobOK(k)'
  <1>1. Off.pc = "off" /\ Off.done = {} /\ "off" \in Harmless
    BY DEF Off, Harmless
  <1>2. MadeOK(k)'
    BY DEF JobOK, MadeOK
  <1>3. ASSUME NEW p \in Owners PROVE OwnerOK(k, p)' /\ StaleOK(k, p)'
    <2>1. OwnerOK(k, p)'
      BY <1>1 DEF JobOK, OwnerOK
    <2>2. ASSUME loc'[<<k, p>>].pc = "passwd"
          PROVE  /\ saved'[k].mk = loc'[<<k, p>>].mk /\ saved'[k].done = {}
                 /\ \A q \in Owners \ {p} : lease'[k] = q =>
                      /\ loc'[<<k, q>>].pc \in Harmless /\ "account" \notin loc'[<<k, q>>].done
                      /\ loc'[<<k, q>>].pc # "off" => loc'[<<k, q>>].mk = saved'[k].mk
      <3>1. loc'[<<k, p>>] = loc[<<k, p>>] /\ StaleOK(k, p)
        BY <1>1, <2>2 DEF JobOK
      <3>2. /\ saved[k].mk = loc[<<k, p>>].mk /\ saved[k].done = {}
            /\ \A q \in Owners \ {p} : lease[k] = q =>
                 /\ loc[<<k, q>>].pc \in Harmless /\ "account" \notin loc[<<k, q>>].done
                 /\ loc[<<k, q>>].pc # "off" => loc[<<k, q>>].mk = saved[k].mk
        BY <2>2, <3>1 DEF StaleOK
      <3>3. ASSUME NEW q \in Owners \ {p}, lease'[k] = q
            PROVE  /\ loc'[<<k, q>>].pc \in Harmless /\ "account" \notin loc'[<<k, q>>].done
                   /\ loc'[<<k, q>>].pc # "off" => loc'[<<k, q>>].mk = saved'[k].mk
        <4>1. CASE loc'[<<k, q>>] = loc[<<k, q>>]
          BY <3>2, <3>3, <4>1
        <4>2. CASE loc'[<<k, q>>] = Off
          BY <1>1, <4>2
        <4> QED BY <4>1, <4>2
      <3> QED BY <3>1, <3>2, <3>3
    <2> QED BY <2>1, <2>2 DEF StaleOK, Harmless, Dropping
  <1> QED BY <1>2, <1>3 DEF JobOK

LEMMA NoneOfName ==
  ASSUME NEW k, MadeOK(k), LinesOf(NameOf[k]) = {} PROVE By(k) = {}
  BY DEF MadeOK, By, LinesOf

\* where the section is entered or gone on with
LEMMA EnterFrom ==
  ASSUME NEW j, NEW o, Enters(j, o)
  PROVE  /\ loc[<<j, o>>].pc \notin Harmless \/ Free
         /\ loc[<<j, o>>].pc = "issue" => LinesOf(NameOf[j]) = {} /\ passwd' = passwd
  BY DEF Enters, Mark, WritePasswd, WriteGroup, WriteShadow, WriteSudoers, At, Harmless, Dropping

\* the worker comes to its write of passwd only through the checkpoint
LEMMA ToPasswd ==
  ASSUME ConstantsOK, UidInv, TidyInv, NEW j \in Provisions, NEW o \in Owners,
         Work(j, o), loc'[<<j, o>>].pc = "passwd"
  PROVE  /\ lease[j] = o /\ saved'[j].mk = loc'[<<j, o>>].mk /\ saved'[j].done = {}
         /\ passwd' = passwd
  <1> DEFINE l == loc[<<j, o>>]
  <1>1. j \in Jobs /\ l \in Local /\ Tidy(j, o, l) /\ <<j, o>> \in Workers
        /\ loc \in [Workers -> Local]
    BY Memory DEF TidyInv, Jobs, UidInv, TypeOK
  <1>2. ~Calm(j, o)
    <2>1. ASSUME NEW m \in Local, Become(j, o, m) PROVE m.pc \in Section
      BY <1>1, <2>1, OthersStay DEF Section
    <2> QED BY <2>1 DEF Calm, Soft
  <1>3. Enters(j, o)
    BY <1>1, <1>2, WorkCalm
  <1>4. ASSUME NEW pc \in PCs \ {"passwd"} PROVE ~Goto(j, o, pc)
    <2>1. [l EXCEPT !.pc = pc].pc = pc
      BY <1>1 DEF Local
    <2> QED BY <1>1, <2>1 DEF Goto, Become
  <1>5. ~\E u : Become(j, o, [l EXCEPT !.pc = "mark", !.mk = u])
    <2>1. ASSUME NEW u PROVE [l EXCEPT !.pc = "mark", !.mk = u].pc = "mark"
      BY <1>1 DEF Local
    <2> QED BY <1>1, <2>1 DEF Become
  <1>6. ~Become(j, o, [l EXCEPT !.pc = "log", !.uid = l.mk])
    <2>1. [l EXCEPT !.pc = "log", !.uid = l.mk].pc = "log"
      BY <1>1 DEF Local
    <2> QED BY <1>1, <2>1 DEF Become
  <1>7. {"group", "shadow", "sudoers", "log"} \subseteq PCs \ {"passwd"}
    BY DEF PCs
  <1>8. Mark(j, o) /\ lease[j] = o
    BY <1>3, <1>4, <1>5, <1>6, <1>7 DEF Enters, WritePasswd, WriteShadow, WriteSudoers
  <1>9. l.pc = "mark" /\ saved' = [saved EXCEPT ![j] = Recorded(l)] /\ passwd' = passwd
        /\ Become(j, o, [l EXCEPT !.pc = "passwd"])
    BY <1>8 DEF Mark, RecordStep, At, files
  <1>10. l.done = {}
    BY <1>1, <1>9 DEF Tidy, Unborn, Section
  <1>11. saved'[j] = Recorded(l) /\ loc'[<<j, o>>] = [l EXCEPT !.pc = "passwd"]
    BY <1>1, <1>9 DEF Become, UidInv, TypeOK
  <1>12. [l EXCEPT !.pc = "passwd"].mk = l.mk
    BY <1>1 DEF Local
  <1> QED BY <1>8, <1>9, <1>10, <1>11, <1>12 DEF Recorded

\* a worker of the job moves and writes no line
LEMMA JobWorks ==
  ASSUME ConstantsOK, UidInv, TidyInv, NEW j \in Provisions, NEW o \in Owners, JobOK(j),
         Work(j, o), passwd' \subseteq passwd
  PROVE  JobOK(j)'
  <1> DEFINE l == loc[<<j, o>>]
  <1>1. j \in Jobs /\ l \in Local /\ l.pc # "off" /\ <<j, o>> \in Workers
    BY Memory, AtWork DEF Jobs
  <1>2. By(j)' \subseteq By(j)
    BY DEF By
  <1>3. PICK m \in Local :
          /\ Become(j, o, m)
          /\ m.pc # "off" => m.mk = l.mk \/ l.pc = "issue"
          /\ Soft(j, o, l, m) \/ Enters(j, o)
    BY <1>1, WorkCalm, EnterIs DEF Calm, Soft
  <1>4. loc'[<<j, o>>] = m /\ \A p \in Owners : p # o => loc'[<<j, p>>] = loc[<<j, p>>]
    BY <1>1, <1>3, OthersStay
  <1>5. \A p \in Owners : lease'[j] = p => lease[j] = p
    BY <1>1, LeaseKept
  <1>6. PICK s : s = saved'[j]
    OBVIOUS
  <1>7. \/ s = saved[j]
        \/ /\ lease[j] = o /\ l.pc \in {"mark", "record", "rewind"}
           /\ s.mk = l.mk /\ s.done = l.done
    <2>1. saved \in [Jobs -> Saved]
      BY DEF UidInv, TypeOK
    <2>2. CASE saved' = saved
      BY <1>6, <2>2
    <2>3. CASE Saving(j, o)
      BY <1>1, <1>6, <2>1, <2>3 DEF Saving
    <2> QED BY <1>1, <2>2, <2>3, WhatIsSaved
  <1>8. lease[j] = o => l.mk = saved[j].mk \/ By(j) = {}
    BY <1>1 DEF JobOK, OwnerOK
  <1>9. s.mk = saved[j].mk \/ By(j) = {}
    BY <1>7, <1>8
  <1>10. MadeOK(j)'
    BY <1>2, <1>6, <1>9 DEF JobOK, MadeOK
  <1>11. ASSUME NEW p \in Owners PROVE OwnerOK(j, p)'
    <2>1. CASE p # o
      <3>1. lease'[j] = p => lease[j] = p /\ s = saved[j]
        BY <1>5, <1>7, <2>1
      <3>2. OwnerOK(j, p)
        BY DEF JobOK
      <3> QED BY <1>2, <1>4, <1>6, <2>1, <3>1, <3>2 DEF OwnerOK
    <2>2. CASE p = o
      <3>1. ASSUME lease'[j] = o, m.pc # "off" PROVE m.mk = s.mk \/ By(j) = {}
        <4>1. lease[j] = o
          BY <1>5, <3>1
        <4>2. CASE l.pc = "issue"
          <5>1. LinesOf(NameOf[j]) = {} \/ m.mk = l.mk
            BY <1>3, <3>1, <4>2, EnterFrom DEF Soft
          <5>2. MadeOK(j)
            BY DEF JobOK
          <5> QED BY <1>7, <1>8, <4>1, <4>2, <5>1, <5>2, NoneOfName
        <4>3. CASE m.mk = l.mk
          BY <1>7, <1>8, <4>1, <4>3
        <4> QED BY <1>3, <3>1, <4>2, <4>3
      <3> QED BY <1>2, <1>4, <1>6, <2>2, <3>1 DEF OwnerOK
    <2> QED BY <2>1, <2>2
  <1>12. ASSUME NEW p \in Owners, loc'[<<j, p>>].pc = "passwd"
         PROVE  /\ s.mk = loc'[<<j, p>>].mk /\ s.done = {}
                /\ \A q \in Owners \ {p} : lease'[j] = q =>
                     /\ loc'[<<j, q>>].pc \in Harmless /\ "account" \notin loc'[<<j, q>>].done
                     /\ loc'[<<j, q>>].pc # "off" => loc'[<<j, q>>].mk = s.mk
    <2>1. CASE p = o
      <3>1. lease[j] = o /\ s.mk = loc'[<<j, o>>].mk /\ s.done = {}
        BY <1>6, <1>12, <2>1, ToPasswd
      <3> QED BY <1>5, <2>1, <3>1
    <2>2. CASE p # o
      <3>1. loc'[<<j, p>>] = loc[<<j, p>>] /\ loc[<<j, p>>].pc = "passwd" /\ StaleOK(j, p)
        BY <1>4, <1>12, <2>2 DEF JobOK
      <3>2. /\ saved[j].mk = loc[<<j, p>>].mk /\ saved[j].done = {}
            /\ \A q \in Owners \ {p} : lease[j] = q =>
                 /\ loc[<<j, q>>].pc \in Harmless /\ "account" \notin loc[<<j, q>>].done
                 /\ loc[<<j, q>>].pc # "off" => loc[<<j, q>>].mk = saved[j].mk
        BY <3>1 DEF StaleOK
      <3>3. lock = <<j, p>> /\ loc[<<j, p>>].mk \in 1..issued /\ <<j, p>> \in Workers
        <4>1. "passwd" \in Holding
          BY DEF Holding
        <4> QED BY <1>1, <3>1, <4>1, Memory DEF WorkerOK
      <3>4. lock # None /\ lock # <<j, o>> /\ saved[j].mk # 0
        BY <2>2, <3>2, <3>3 DEF ConstantsOK
      <3>5. s = saved[j]
        BY <1>7, <2>2, <3>2 DEF Harmless, Dropping
      <3>6. ASSUME NEW q \in Owners \ {p}, lease'[j] = q
            PROVE  /\ loc'[<<j, q>>].pc \in Harmless /\ "account" \notin loc'[<<j, q>>].done
                   /\ loc'[<<j, q>>].pc # "off" => loc'[<<j, q>>].mk = s.mk
        <4>1. /\ loc[<<j, q>>].pc \in Harmless /\ "account" \notin loc[<<j, q>>].done
              /\ loc[<<j, q>>].pc # "off" => loc[<<j, q>>].mk = saved[j].mk
          BY <1>5, <3>2, <3>6
        <4>2. CASE q # o
          BY <1>4, <3>5, <4>1, <4>2
        <4>3. CASE q = o
          <5>1. l.pc \in Harmless /\ "account" \notin l.done /\ l.mk = saved[j].mk
            BY <1>1, <4>1, <4>3
          <5>2. Blocked(j, o, l) /\ ~Free
            BY <3>4, <5>1 DEF Blocked, Free
          <5>3. Soft(j, o, l, m)
            BY <1>3, <5>1, <5>2, EnterFrom
          <5>4. l.pc # "log" /\ l.pc # "issue"
            BY <5>1 DEF Harmless, Dropping
          <5>5. m.pc \in Harmless /\ "account" \notin m.done /\ (m.pc # "off" => m.mk = l.mk)
            BY <5>1, <5>2, <5>3, <5>4 DEF Soft
          <5> QED BY <1>4, <3>5, <4>3, <5>1, <5>5
        <4> QED BY <4>2, <4>3
      <3> QED BY <3>1, <3>2, <3>5, <3>6
    <2> QED BY <2>1, <2>2
  <1>13. \A p \in Owners : StaleOK(j, p)'
    BY <1>6, <1>12 DEF StaleOK, Harmless, Dropping
  <1> QED BY <1>10, <1>11, <1>13 DEF JobOK

\* the line that is written has the recorded uid, and no worker with the lease
\* has another one in hand
LEMMA JobWrites ==
  ASSUME ConstantsOK, UidInv, LineInv, NEW j \in Provisions, NEW o \in Owners, JobOK(j),
         WritePasswd(j, o)
  PROVE  JobOK(j)'
  <1> DEFINE l == loc[<<j, o>>]
  <1>1. j \in Jobs /\ l \in Local /\ <<j, o>> \in Workers
    BY Memory DEF Jobs
  <1>2. l.pc = "passwd" /\ lock = <<j, o>> /\ saved' = saved /\ lease' = lease
        /\ passwd' = passwd \cup {[name |-> NameOf[j], uid |-> l.mk, by |-> j]}
        /\ Become(j, o, [l EXCEPT !.pc = "group"])
    BY DEF WritePasswd, At, Release, Mine, jobctl, Goto
  <1>3. LinesOf(NameOf[j]) = {}
    BY <1>1, <1>2 DEF LineInv, Holding
  <1>4. By(j) = {}
    BY <1>3, NoneOfName DEF JobOK
  <1>5. /\ saved[j].mk = l.mk
        /\ \A q \in Owners \ {o} : lease[j] = q /\ loc[<<j, q>>].pc # "off" =>
             loc[<<j, q>>].mk = saved[j].mk
    BY <1>2 DEF JobOK, StaleOK
  <1>6. MadeOK(j)'
    BY <1>2, <1>4, <1>5 DEF MadeOK, By
  <1>7. PICK m : m = [l EXCEPT !.pc = "group"]
    OBVIOUS
  <1>8. m \in Local /\ m.pc = "group" /\ m.mk = l.mk
    BY <1>1, <1>7 DEF Local, PCs
  <1>9. loc'[<<j, o>>] = m /\ \A p \in Owners : p # o => loc'[<<j, p>>] = loc[<<j, p>>]
    BY <1>1, <1>2, <1>7, <1>8, OthersStay
  <1>10. ASSUME NEW p \in Owners PROVE OwnerOK(j, p)'
    <2>1. CASE p = o
      BY <1>2, <1>5, <1>8, <1>9, <2>1 DEF OwnerOK
    <2>2. CASE p # o
      BY <1>2, <1>5, <1>9, <2>2 DEF OwnerOK
    <2> QED BY <2>1, <2>2
  <1>11. ASSUME NEW p \in Owners PROVE loc'[<<j, p>>].pc # "passwd"
    <2>1. CASE p = o
      BY <1>8, <1>9, <2>1
    <2>2. CASE p # o
      <3>1. loc[<<j, p>>].pc = "passwd" => lock = <<j, p>>
        BY <1>1, Memory DEF Holding
      <3> QED BY <1>2, <1>9, <2>2, <3>1
    <2> QED BY <2>1, <2>2
  <1> QED BY <1>6, <1>10, <1>11 DEF JobOK, StaleOK

\* a job is taken, also from a worker that stalled
LEMMA JobTaken ==
  ASSUME ConstantsOK, UidInv, NEW j \in Provisions, NEW o \in Owners, JobOK(j), Take(j, o)
  PROVE  JobOK(j)'
  <1>1. j \in Jobs
    BY DEF Jobs
  <1>2. PICK m \in Local :
          /\ Become(j, o, m) /\ m.mk = saved[j].mk /\ m.done = saved[j].done
          /\ m.pc \in {"check", "pod", "krb", "home", "delete", "judge"}
          /\ m.done = {} => m.pc \in {"check", "pod", "judge"}
    BY <1>1, TakeIs
  <1>3. saved' = saved /\ passwd' = passwd /\ lease' = [lease EXCEPT ![j] = o]
        /\ lease \in [Jobs -> Owners \cup {None}]
    BY DEF Take, files, UidInv, TypeOK
  <1>4. loc'[<<j, o>>] = m /\ \A p \in Owners : p # o => loc'[<<j, p>>] = loc[<<j, p>>]
    BY <1>1, <1>2, OthersStay
  <1>5. lease'[j] = o
    BY <1>1, <1>3
  <1>6. MadeOK(j)'
    BY <1>3 DEF JobOK, MadeOK, By
  <1>7. ASSUME NEW p \in Owners PROVE OwnerOK(j, p)'
    BY <1>2, <1>3, <1>4, <1>5 DEF OwnerOK
  <1>8. ASSUME NEW p \in Owners, loc'[<<j, p>>].pc = "passwd"
        PROVE  /\ saved'[j].mk = loc'[<<j, p>>].mk /\ saved'[j].done = {}
               /\ \A q \in Owners \ {p} : lease'[j] = q =>
                    /\ loc'[<<j, q>>].pc \in Harmless /\ "account" \notin loc'[<<j, q>>].done
                    /\ loc'[<<j, q>>].pc # "off" => loc'[<<j, q>>].mk = saved'[j].mk
    <2>1. p # o /\ loc'[<<j, p>>] = loc[<<j, p>>]
      BY <1>2, <1>4, <1>8
    <2>2. saved[j].mk = loc[<<j, p>>].mk /\ saved[j].done = {}
      BY <1>8, <2>1 DEF JobOK, StaleOK
    <2>3. m.pc \in Harmless /\ "account" \notin m.done
      BY <1>2, <2>2 DEF Harmless
    <2> QED BY <1>2, <1>3, <1>4, <1>5, <2>1, <2>2, <2>3
  <1>9. \A p \in Owners : StaleOK(j, p)'
    BY <1>8 DEF StaleOK, Harmless, Dropping
  <1> QED BY <1>6, <1>7, <1>9 DEF JobOK

\* the worker that writes passwd is the one that moves
LEMMA WriterMoves ==
  ASSUME UidInv, NEW j \in Provisions, NEW o \in Owners, WritePasswd(j, o)
  PROVE  loc'[<<j, o>>] # loc[<<j, o>>]
  <1>1. loc[<<j, o>>] \in Local /\ <<j, o>> \in Workers
    BY Memory DEF Jobs
  <1>2. [loc[<<j, o>>] EXCEPT !.pc = "group"].pc = "group"
    BY <1>1 DEF Local
  <1>3. loc'[<<j, o>>].pc = "group" /\ loc[<<j, o>>].pc = "passwd"
    BY <1>1, <1>2 DEF WritePasswd, Goto, Become, At, UidInv, TypeOK
  <1> QED BY <1>3

\* a job whose workers do not move has no line written
LEMMA OtherLines ==
  ASSUME UidInv, NEW k \in Provisions, [Next]_vars,
         \A p \in Owners : loc'[<<k, p>>] = loc[<<k, p>>]
  PROVE  By(k)' \subseteq By(k)
  <1>1. CASE passwd' \subseteq passwd
    BY <1>1 DEF By
  <1>2. ASSUME NEW i \in Provisions, NEW p \in Owners, WritePasswd(i, p)
        PROVE  By(k)' \subseteq By(k)
    <2>1. i # k
      BY <1>2, WriterMoves
    <2> QED BY <1>2, <2>1 DEF WritePasswd, By
  <1> QED BY <1>1, <1>2, NewLines

\* a worker leaves the other jobs alone
LEMMA OtherJobs ==
  ASSUME ConstantsOK, UidInv, TidyInv, NEW j \in Jobs, NEW o \in Owners, Work(j, o),
         NEW k \in Jobs, k # j
  PROVE  /\ \A p \in Owners : loc'[<<k, p>>] = loc[<<k, p>>]
         /\ saved'[k] = saved[k]
         /\ \A p \in Owners : lease'[k] = p => lease[k] = p
  <1>1. PICK m \in Local : Become(j, o, m)
    BY WorkCalm, EnterIs DEF Calm
  <1>2. \A p \in Owners : loc'[<<k, p>>] = loc[<<k, p>>]
    BY <1>1, OtherStays
  <1>3. saved \in [Jobs -> Saved]
    BY DEF UidInv, TypeOK
  <1>4. saved' = saved => saved'[k] = saved[k]
    OBVIOUS
  <1>5. ASSUME NEW s, saved' = [saved EXCEPT ![j] = s] PROVE saved'[k] = saved[k]
    BY <1>3, <1>5
  <1>6. saved' = saved \/ \E s : saved' = [saved EXCEPT ![j] = s]
    BY WhatIsSaved DEF Saving
  <1>8. saved'[k] = saved[k]
    BY <1>4, <1>5, <1>6
  <1>7. \A p \in Owners : lease'[k] = p => lease[k] = p
    BY LeaseKept
  <1> QED BY <1>2, <1>7, <1>8

LEMMA MadeStep ==
  ASSUME ConstantsOK, UidInv, LineInv, TidyInv, MadeInv, [Next]_vars PROVE MadeInv'
  <1>1. Provisions \subseteq Jobs
    BY DEF Jobs
  <1>2. ASSUME NEW j \in Jobs, NEW o \in Owners, Work(j, o) PROVE MadeInv'
    <2>1. ASSUME NEW k \in Provisions PROVE JobOK(k)'
      <3>0. JobOK(k)
        BY DEF MadeInv
      <3>1. CASE k = j /\ passwd' \subseteq passwd
        BY <1>2, <3>0, <3>1, JobWorks
      <3>2. CASE k = j /\ ~(passwd' \subseteq passwd)
        <4>1. PICK i \in Provisions, p \in Owners : WritePasswd(i, p)
          BY <3>2, NewLines
        <4>2. CASE i = k
          BY <3>0, <4>1, <4>2, JobWrites
        <4>3. CASE i # k
          <5>1. i \in Jobs /\ i # j
            BY <1>1, <3>2, <4>3
          <5>2. \A q \in Owners : loc'[<<i, q>>] = loc[<<i, q>>]
            BY <1>2, <5>1, OtherJobs
          <5> QED BY <4>1, <5>2, WriterMoves
        <4> QED BY <4>2, <4>3
      <3>3. CASE k # j
        <4>1. k \in Jobs
          BY <1>1
        <4>2. /\ \A p \in Owners : loc'[<<k, p>>] = loc[<<k, p>>]
              /\ saved'[k] = saved[k]
              /\ \A p \in Owners : lease'[k] = p => lease[k] = p
          BY <1>2, <3>3, <4>1, OtherJobs
        <4>3. By(k)' \subseteq By(k)
          BY <4>2, OtherLines
        <4> QED BY <3>0, <4>2, <4>3, JobStays
      <3> QED BY <3>1, <3>2, <3>3
    <2> QED BY <2>1 DEF MadeInv
  <1>3. ASSUME NEW j \in Jobs, NEW o \in Owners, Take(j, o) PROVE MadeInv'
    <2>1. ASSUME NEW k \in Provisions PROVE JobOK(k)'
      <3>0. JobOK(k)
        BY DEF MadeInv
      <3>1. CASE k = j
        BY <1>3, <3>0, <3>1, JobTaken
      <3>2. CASE k # j
        <4>0. k \in Jobs
          BY <1>1
        <4>1. PICK m \in Local : Become(j, o, m)
          BY <1>3, TakeIs
        <4>2. \A p \in Owners : loc'[<<k, p>>] = loc[<<k, p>>]
          BY <3>2, <4>0, <4>1, OtherStays
        <4>3. saved' = saved /\ passwd' = passwd /\ lease' = [lease EXCEPT ![j] = o]
          BY <1>3 DEF Take, files
        <4>4. lease'[k] = lease[k] /\ By(k)' = By(k)
          BY <1>1, <3>2, <4>3 DEF UidInv, TypeOK, By
        <4> QED BY <3>0, <4>2, <4>3, <4>4, JobStays
      <3> QED BY <3>1, <3>2
    <2> QED BY <2>1 DEF MadeInv
  <1>4. ASSUME saved' = saved, passwd' = passwd, lease' = lease,
               \A k \in Jobs, p \in Owners :
                 loc'[<<k, p>>] = loc[<<k, p>>] \/ loc'[<<k, p>>] = Off
        PROVE  MadeInv'
    <2>1. ASSUME NEW k \in Provisions PROVE JobOK(k)'
      <3>1. By(k)' = By(k) /\ JobOK(k)
        BY <1>4 DEF By, MadeInv
      <3> QED BY <1>1, <1>4, <3>1, JobStays
    <2> QED BY <2>1 DEF MadeInv
  <1>5. ASSUME NEW o \in Owners, Crash(o) PROVE MadeInv'
    <2>1. saved' = saved /\ passwd' = passwd /\ lease' = lease
      BY <1>5 DEF Crash, files, jobctl
    <2>2. \A k \in Jobs, p \in Owners : loc'[<<k, p>>] = loc[<<k, p>>] \/ loc'[<<k, p>>] = Off
      BY <1>5 DEF Crash, Workers
    <2> QED BY <1>4, <2>1, <2>2
  <1>6. ASSUME NEW k, RegisterRevoke(k) \/ RegisterProvision(k) \/ AdoptAccount(k)
                      \/ RemovePod(k)
        PROVE  UNCHANGED <<saved, passwd, lease, loc>>
    BY <1>6 DEF RegisterRevoke, RegisterProvision, AdoptAccount, RemovePod, files, jobctl
  <1>7. CASE UNCHANGED vars
    BY <1>4, <1>7 DEF vars, files, jobctl
  <1> QED BY <1>2, <1>3, <1>4, <1>5, <1>6, <1>7 DEF Next, Idle

-----------------------------------------------------------------------------
(* The parts of an account, and who takes them away                          *)

Grouped(e) ==
  /\ \E g \in group : g.name = PgName[e.by] /\ g.gid = e.uid
  /\ \A t \in Supp[e.by] : \E g \in group : g.gid = TeamGid[t] /\ e.name \in g.members

LEMMA WholeIs ==
  ASSUME NEW e
  PROVE  Whole(e) <=> Grouped(e) /\ shadow[e.name] # << >> /\ e.name \in sudoers
  BY DEF Whole, Grouped

\* another person leaves all groups, and groups that are not e's own go
LEMMA GroupsLeft ==
  ASSUME TeamInv, NEW e, NEW n, NEW own, n # e.name,
         \A g \in own : ~(g.name = PgName[e.by] /\ g.gid = e.uid),
         group' = GroupsWithout(n, own), Grouped(e)
  PROVE  Grouped(e)'
  <1>1. ASSUME NEW g \in group
        PROVE  LET h == [g EXCEPT !.members = @ \ {n}]
               IN  h.name = g.name /\ h.gid = g.gid /\ h.members = g.members \ {n}
    <2>1. g \in GroupLine
      BY DEF TeamInv
    <2> QED BY <2>1 DEF GroupLine
  <1>2. ASSUME NEW g \in group, g \notin own \/ ~(g.members \subseteq {n})
        PROVE  [g EXCEPT !.members = @ \ {n}] \in group'
    BY <1>2 DEF GroupsWithout
  <1>3. \E g \in group' : g.name = PgName[e.by] /\ g.gid = e.uid
    <2>1. PICK g \in group : g.name = PgName[e.by] /\ g.gid = e.uid
      BY DEF Grouped
    <2> QED BY <1>1, <1>2, <2>1
  <1>4. ASSUME NEW t \in Supp[e.by]
        PROVE  \E g \in group' : g.gid = TeamGid[t] /\ e.name \in g.members
    <2>1. PICK g \in group : g.gid = TeamGid[t] /\ e.name \in g.members
      BY DEF Grouped
    <2>2. ~(g.members \subseteq {n})
      BY <2>1
    <2> QED BY <1>1, <1>2, <2>1, <2>2
  <1> QED BY <1>3, <1>4 DEF Grouped

\* what GroupsWith makes of the lines, by its parts
LEMMA GroupsJoined ==
  ASSUME TeamInv, ConstantsOK, NEW j \in Provisions, NEW u \in Nat, group' = GroupsWith(j, u)
  PROVE  /\ \A g \in group : \E h \in group' : /\ h.name = g.name /\ h.gid = g.gid
                                               /\ g.members \subseteq h.members
         /\ \E h \in group' : h.gid = u /\ (h.name = PgName[j] \/ \E g \in group : g.gid = u)
         /\ \A t \in Supp[j] : \E h \in group' : h.gid = TeamGid[t] /\ NameOf[j] \in h.members
  <1> DEFINE gids    == {TeamGid[t] : t \in Supp[j]}
             primary == [name |-> PgName[j], gid |-> u, members |-> {}]
             own     == IF \E g \in group : g.gid = u THEN {} ELSE {primary}
             With(g) == IF g.gid \in gids
                          THEN [g EXCEPT !.members = @ \cup {NameOf[j]}] ELSE g
             lost    == {t \in Supp[j] : ~\E g \in group : g.gid = TeamGid[t]}
             Lost(t) == [name |-> t, gid |-> TeamGid[t], members |-> {NameOf[j]}]
  <1>1. group' = {With(g) : g \in group \cup own} \cup {Lost(t) : t \in lost}
    BY Zenon DEF GroupsWith
  <1>2. group \cup own \subseteq GroupLine
    BY DEF TeamInv, GroupLine
  <1>3. ASSUME NEW g \in GroupLine
        PROVE  /\ With(g).name = g.name /\ With(g).gid = g.gid
               /\ g.members \subseteq With(g).members
               /\ g.gid \in gids => NameOf[j] \in With(g).members
    <2>1. LET h == [g EXCEPT !.members = @ \cup {NameOf[j]}]
          IN  h.name = g.name /\ h.gid = g.gid /\ h.members = g.members \cup {NameOf[j]}
      BY DEF GroupLine
    <2> QED BY <2>1
  <1>4. \A t \in lost : Lost(t) \in group' /\ Lost(t).gid = TeamGid[t]
                        /\ NameOf[j] \in Lost(t).members
    BY <1>1
  <1>5. \A g \in group \cup own : With(g) \in group'
    BY <1>1
  <1>6. \E g \in group \cup own : g.gid = u /\ (g.name = PgName[j] \/ \E q \in group : q.gid = u)
    <2>1. CASE \E g \in group : g.gid = u
      BY <2>1
    <2>2. CASE ~\E g \in group : g.gid = u
      <3>1. primary \in own /\ primary.gid = u /\ primary.name = PgName[j]
        BY <2>2
      <3> QED BY <3>1
    <2> QED BY <2>1, <2>2
  <1>7. \A t \in Supp[j] : t \in lost \/ \E g \in group : g.gid = TeamGid[t] /\ g.gid \in gids
    OBVIOUS
  <1> HIDE DEF With, Lost, lost, own, gids
  <1>8. ASSUME NEW g \in group
        PROVE  \E h \in group' : /\ h.name = g.name /\ h.gid = g.gid
                                 /\ g.members \subseteq h.members
    BY <1>2, <1>3, <1>5
  <1>9. \E h \in group' : h.gid = u /\ (h.name = PgName[j] \/ \E g \in group : g.gid = u)
    <2>1. PICK g \in group \cup own : g.gid = u /\ (g.name = PgName[j] \/ \E q \in group : q.gid = u)
      BY <1>6
    <2>2. With(g) \in group' /\ With(g).gid = u /\ With(g).name = g.name
      BY <1>2, <1>3, <1>5, <2>1
    <2> QED BY <2>1, <2>2
  <1>10. ASSUME NEW t \in Supp[j]
         PROVE  \E h \in group' : h.gid = TeamGid[t] /\ NameOf[j] \in h.members
    <2>1. CASE t \in lost
      BY <1>4, <2>1
    <2>2. ASSUME NEW g \in group, g.gid = TeamGid[t], g.gid \in gids
          PROVE  \E h \in group' : h.gid = TeamGid[t] /\ NameOf[j] \in h.members
      <3>1. With(g) \in group' /\ With(g).gid = g.gid /\ NameOf[j] \in With(g).members
        BY <1>2, <1>3, <1>5, <2>2
      <3> QED BY <2>2, <3>1
    <2> QED BY <1>7, <2>1, <2>2
  <1> QED BY <1>8, <1>9, <1>10

\* another job's account joins its groups
LEMMA GroupsAdded ==
  ASSUME TeamInv, ConstantsOK, NEW j \in Provisions, NEW u \in Nat, NEW e,
         group' = GroupsWith(j, u), Grouped(e)
  PROVE  Grouped(e)'
  <1>1. \A g \in group : \E h \in group' : /\ h.name = g.name /\ h.gid = g.gid
                                           /\ g.members \subseteq h.members
    BY GroupsJoined
  <1>2. \E g \in group' : g.name = PgName[e.by] /\ g.gid = e.uid
    <2>1. PICK g \in group : g.name = PgName[e.by] /\ g.gid = e.uid
      BY DEF Grouped
    <2>2. PICK h \in group' : h.name = g.name /\ h.gid = g.gid
      BY <1>1
    <2> QED BY <2>1, <2>2
  <1>3. ASSUME NEW t \in Supp[e.by]
        PROVE  \E g \in group' : g.gid = TeamGid[t] /\ e.name \in g.members
    <2>1. PICK g \in group : g.gid = TeamGid[t] /\ e.name \in g.members
      BY DEF Grouped
    <2>2. PICK h \in group' : h.gid = g.gid /\ g.members \subseteq h.members
      BY <1>1
    <2> QED BY <2>1, <2>2
  <1> QED BY <1>2, <1>3 DEF Grouped

\* the account has its groups once its job wrote them
LEMMA GroupsGot ==
  ASSUME TeamInv, ConstantsOK, NEW j \in Provisions, NEW u \in Nat, NEW e,
         e.by = j, e.uid = u, e.name = NameOf[j], ~GroupConflict(j, u),
         group' = GroupsWith(j, u)
  PROVE  Grouped(e)'
  <1>1. \E g \in group' : g.name = PgName[j] /\ g.gid = u
    <2>1. CASE \E g \in group : g.gid = u
      <3>1. PICK g \in group : g.gid = u
        BY <2>1
      <3>2. g.name = PgName[j]
        BY <3>1 DEF GroupConflict
      <3>3. PICK h \in group' : h.name = g.name /\ h.gid = g.gid
        BY GroupsJoined
      <3> QED BY <3>1, <3>2, <3>3
    <2>2. CASE ~\E g \in group : g.gid = u
      <3>1. PICK h \in group' : h.gid = u /\ (h.name = PgName[j] \/ \E g \in group : g.gid = u)
        BY GroupsJoined
      <3> QED BY <2>2, <3>1
    <2> QED BY <2>1, <2>2
  <1>2. \A t \in Supp[j] : \E h \in group' : h.gid = TeamGid[t] /\ NameOf[j] \in h.members
    BY GroupsJoined
  <1> QED BY <1>1, <1>2 DEF Grouped

\* An account keeps its groups: who removes a group under the lock removes a
\* person that has no line, and that person's gid.
LEMMA GroupsKept ==
  ASSUME OwnGroups, ConstantsOK, UidInv, LineInv, TeamInv, TidyInv, [Next]_vars,
         NEW e \in passwd, e.name = NameOf[e.by], Grouped(e)
  PROVE  Grouped(e)'
  <1>1. e.by \in Provisions /\ e.uid # 0
    BY DEF UidInv, TypeOK, Line, Uids
  <1>2. ASSUME NEW j \in Jobs, NEW o \in Owners, lock = <<j, o>>,
               loc[<<j, o>>].pc \in {"undo_group", "del_group", "left_group"}
        PROVE  /\ NameOf[j] # e.name /\ NameOf[j] # PgName[e.by]
               /\ loc[<<j, o>>].pc # "left_group" => loc[<<j, o>>].gid # e.uid
    <2>1. LinesOf(NameOf[j]) = {}
      BY <1>2 DEF TidyInv, Tidy, Emptying, Dropping
    <2>2. NameOf[j] # e.name
      BY <2>1 DEF LinesOf
    <2>3. NameOf[j] # PgName[e.by]
      BY <1>1, <2>2 DEF OwnGroups
    <2>4. ASSUME loc[<<j, o>>].pc # "left_group", loc[<<j, o>>].gid = e.uid PROVE FALSE
      <3>1. Acc(j, e.uid) \in given
        BY <1>1, <1>2, <2>4 DEF TidyInv, Tidy, Rolling, Dropping
      <3> QED BY <2>2, <3>1 DEF LineInv, Acc
    <2> QED BY <2>2, <2>3, <2>4
  <1>3. CASE group' = group
    BY <1>3 DEF Grouped
  <1>4. ASSUME NEW j \in Provisions, NEW o \in Owners, WriteGroup(j, o) PROVE Grouped(e)'
    <2>1. loc[<<j, o>>] \in Local
      BY Memory DEF Jobs
    <2>2. UidMax \in Nat
      BY DEF ConstantsOK
    <2>a. loc[<<j, o>>].mk \in 0..UidMax
      BY <2>1 DEF Local
    <2>3. loc[<<j, o>>].mk \in Nat
      BY <2>2, <2>a
    <2>4. group' = group \/ group' = GroupsWith(j, loc[<<j, o>>].mk)
      BY <1>4 DEF WriteGroup
    <2> QED BY <1>3, <2>3, <2>4, GroupsAdded
  <1>5. ASSUME NEW j \in Provisions, NEW o \in Owners, UndoGroup(j, o) PROVE Grouped(e)'
    <2>1. j \in Jobs /\ lock = <<j, o>> /\ loc[<<j, o>>].pc = "undo_group"
      BY <1>5 DEF Jobs, UndoGroup, At, Release, Mine
    <2> DEFINE own == {g \in group : g.name = NameOf[j] \/ g.gid = loc[<<j, o>>].gid}
    <2>2. \A g \in own : ~(g.name = PgName[e.by] /\ g.gid = e.uid)
      BY <1>2, <2>1
    <2>3. group' = GroupsWithout(NameOf[j], own)
      BY <1>5 DEF UndoGroup
    <2> HIDE DEF own
    <2> QED BY <1>2, <2>1, <2>2, <2>3, GroupsLeft
  <1>6. ASSUME NEW j \in Jobs, NEW o \in Owners, DeleteGroup(j, o) PROVE Grouped(e)'
    <2>1. lock = <<j, o>> /\ loc[<<j, o>>].pc = "del_group"
      BY <1>6 DEF DeleteGroup, At, Mine
    <2> DEFINE own == {g \in group : g.gid = loc[<<j, o>>].gid}
    <2>2. \A g \in own : ~(g.name = PgName[e.by] /\ g.gid = e.uid)
      BY <1>2, <2>1
    <2>3. group' = GroupsWithout(NameOf[j], own)
      BY <1>6 DEF DeleteGroup
    <2> HIDE DEF own
    <2> QED BY <1>2, <2>1, <2>2, <2>3, GroupsLeft
  <1>7. ASSUME NEW j \in Jobs, NEW o \in Owners, RemoveLeftovers(j, o) PROVE Grouped(e)'
    <2>1. lock = <<j, o>> /\ loc[<<j, o>>].pc = "left_group"
      BY <1>7 DEF RemoveLeftovers, At, Release, Mine
    <2> DEFINE own == {g \in group : g.name = NameOf[j]}
    <2>2. \A g \in own : ~(g.name = PgName[e.by] /\ g.gid = e.uid)
      BY <1>2, <2>1
    <2>3. group' = GroupsWithout(NameOf[j], own)
      BY <1>7 DEF RemoveLeftovers
    <2> HIDE DEF own
    <2> QED BY <1>2, <2>1, <2>2, <2>3, GroupsLeft
  <1> QED BY <1>3, <1>4, <1>5, <1>6, <1>7, GroupWrites

\* these are all the actions that write shadow; sudoers only grows
LEMMA ShadowWrites ==
  ASSUME [Next]_vars
  PROVE  /\ \/ shadow' = shadow
            \/ \E j \in Provisions : AdoptAccount(j)
            \/ \E j \in Provisions, o \in Owners : WriteShadow(j, o) \/ UndoShadow(j, o)
            \/ \E j \in Jobs, o \in Owners : DeleteShadow(j, o)
         /\ sudoers \subseteq sudoers'
  <1>1. ASSUME NEW j, NEW o, CreateStep(j, o)
        PROVE  (WriteShadow(j, o) \/ shadow' = shadow) /\ sudoers \subseteq sudoers'
    BY <1>1 DEF CreateStep, Judge, Lookup, Issue, Mark, WritePasswd, WriteGroup, WriteShadow,
       WriteSudoers, LogCreated, FailsEarly, FailsLate, JudgeFails, files
  <1>2. ASSUME NEW j, NEW o, UndoStep(j, o) \/ LaterStep(j, o)
        PROVE  (UndoShadow(j, o) \/ shadow' = shadow) /\ sudoers \subseteq sudoers'
    BY <1>2 DEF UndoStep, UndoPasswd, UndoShadow, UndoGroup, UndoFails, RecordRewind,
       LaterStep, CreateHome, HomeFails, CreatePrincipal, PrincipalFails, CreatePod,
       PodFails, files
  <1>3. ASSUME NEW j, NEW o,
               DeleteStep(j, o) \/ Record(j, o) \/ RecordFails(j, o) \/ End(j, o)
        PROVE  (DeleteShadow(j, o) \/ shadow' = shadow) /\ sudoers \subseteq sudoers'
    BY <1>3 DEF DeleteStep, CheckRevocable, DeletePasswd, DeleteShadow, DeleteGroup,
       LogDeleted, RemoveLeftovers, DeleteFails, DeleteGivesUp, Record, RecordFails, End, files
  <1>4. ASSUME NEW j, RegisterRevoke(j) \/ RegisterProvision(j) \/ RemovePod(j)
        PROVE  shadow' = shadow /\ sudoers' = sudoers
    BY <1>4 DEF RegisterRevoke, RegisterProvision, RemovePod, files
  <1>5. ASSUME NEW j, AdoptAccount(j) PROVE sudoers' = sudoers
    BY <1>5 DEF AdoptAccount
  <1>6. ASSUME NEW j, NEW o, Take(j, o) PROVE shadow' = shadow /\ sudoers' = sudoers
    BY <1>6 DEF Take, files
  <1>7. ASSUME NEW o, Crash(o) PROVE shadow' = shadow /\ sudoers' = sudoers
    BY <1>7 DEF Crash, files
  <1>8. CASE UNCHANGED vars
    BY <1>8 DEF vars, files
  <1> QED BY <1>1, <1>2, <1>3, <1>4, <1>5, <1>6, <1>7, <1>8 DEF Next, Work, Idle

\* so an account keeps its password line
LEMMA ShadowKept ==
  ASSUME ConstantsOK, UidInv, TidyInv, [Next]_vars, NEW e \in passwd,
         shadow[e.name] # << >>
  PROVE  shadow'[e.name] # << >>
  <1>1. shadow \in [Names -> Seq(Provisions)] /\ e.name \in Names
    BY DEF UidInv, TypeOK, Line
  <1>2. ASSUME NEW j, NEW s, shadow' = [shadow EXCEPT ![NameOf[j]] = s],
               NameOf[j] = e.name => s # << >>
        PROVE  shadow'[e.name] # << >>
    BY <1>1, <1>2
  <1>3. ASSUME NEW j \in Provisions, AdoptAccount(j) PROVE shadow'[e.name] # << >>
    <2> DEFINE q == shadow[NameOf[j]]
    <2>1. shadow' = [shadow EXCEPT ![NameOf[j]] = IF q = << >> THEN q ELSE [q EXCEPT ![1] = j]]
      BY <1>3 DEF AdoptAccount
    <2>2. ASSUME NameOf[j] = e.name PROVE [q EXCEPT ![1] = j] # << >>
      <3>1. q \in Seq(Provisions) /\ q # << >>
        BY <1>1, <2>2
      <3>2. DOMAIN [q EXCEPT ![1] = j] = DOMAIN q
        OBVIOUS
      <3>3. DOMAIN q = 1..Len(q) /\ Len(q) \in Nat /\ Len(q) # 0
        BY <3>1
      <3>4. 1 \in DOMAIN [q EXCEPT ![1] = j]
        BY <3>2, <3>3
      <3> QED BY <3>4
    <2> HIDE DEF q
    <2>3. (IF q = << >> THEN q ELSE [q EXCEPT ![1] = j]) # << >> \/ NameOf[j] # e.name
      BY <2>2 DEF q
    <2> QED BY <1>2, <2>1, <2>3
  <1>4. ASSUME NEW j \in Provisions, NEW o \in Owners, WriteShadow(j, o)
        PROVE  shadow'[e.name] # << >>
    <2>1. ASSUME NameOf[j] = e.name PROVE Append(shadow[NameOf[j]], j) # << >>
      <3>1. PICK q : q = shadow[NameOf[j]]
        OBVIOUS
      <3>2. q \in Seq(Provisions)
        BY <1>1, <2>1, <3>1
      <3>3. Len(Append(q, j)) = Len(q) + 1 /\ Len(q) \in Nat /\ Len(<< >>) = 0
        BY <3>2
      <3> QED BY <3>1, <3>3
    <2>2. shadow' = [shadow EXCEPT ![NameOf[j]] = Append(shadow[NameOf[j]], j)]
      BY <1>4 DEF WriteShadow
    <2> QED BY <1>2, <2>1, <2>2
  <1>5. ASSUME NEW j \in Jobs, NEW o \in Owners, lock = <<j, o>>, loc[<<j, o>>].pc \in Emptying,
               shadow' = [shadow EXCEPT ![NameOf[j]] = << >>]
        PROVE  shadow'[e.name] # << >>
    <2>1. LinesOf(NameOf[j]) = {}
      BY <1>5 DEF TidyInv, Tidy
    <2>2. NameOf[j] # e.name
      BY <2>1 DEF LinesOf
    <2> QED BY <1>2, <1>5, <2>2
  <1>6. ASSUME NEW j \in Provisions, NEW o \in Owners, UndoShadow(j, o)
        PROVE  shadow'[e.name] # << >>
    BY <1>5, <1>6 DEF UndoShadow, At, Mine, Emptying, Jobs
  <1>7. ASSUME NEW j \in Jobs, NEW o \in Owners, DeleteShadow(j, o)
        PROVE  shadow'[e.name] # << >>
    BY <1>5, <1>7 DEF DeleteShadow, Mine, Emptying, Dropping
  <1> QED BY <1>3, <1>4, <1>6, <1>7, ShadowWrites

-----------------------------------------------------------------------------
(* When an account is known to have its parts                                *)

AllWhole(k) == \A e \in By(k) : Whole(e)

\* what the worker that has the lease knows of the account at its pc
KnownOK(k, l) ==
  /\ "account" \in l.done \/ l.pc = "log" => AllWhole(k)
  /\ l.pc \in {"shadow", "sudoers"} => \A e \in By(k) : Grouped(e)
  /\ l.pc = "sudoers" => \A e \in By(k) : shadow[e.name] # << >>

PartsOK(k) ==
  /\ "account" \in saved[k].done => AllWhole(k)
  /\ \A p \in Owners : lease[k] = p => KnownOK(k, loc[<<k, p>>])

PartsInv == \A k \in Provisions : PartsOK(k)

OutcomeInv == /\ UidInv /\ LineInv /\ TeamInv
              /\ TidyInv /\ MadeInv /\ PartsInv

\* the lines that stay keep the parts they have
LEMMA PartsKept ==
  ASSUME OwnGroups, ConstantsOK, OutcomeInv, [Next]_vars, NEW k \in Provisions,
         By(k)' \subseteq By(k)
  PROVE  \A e \in By(k)' : /\ e \in By(k)
                           /\ Grouped(e) => Grouped(e)'
                           /\ shadow[e.name] # << >> => shadow'[e.name] # << >>
                           /\ Whole(e) => Whole(e)'
  <1>1. ASSUME NEW e \in By(k)' PROVE e \in passwd /\ e.name = NameOf[e.by] /\ e.by = k
    BY DEF By, OutcomeInv, MadeInv, JobOK, MadeOK
  <1>2. ASSUME NEW e \in By(k)'
        PROVE  /\ Grouped(e) => Grouped(e)'
               /\ shadow[e.name] # << >> => shadow'[e.name] # << >>
               /\ e.name \in sudoers => e.name \in sudoers'
    BY <1>1, <1>2, GroupsKept, ShadowKept, ShadowWrites DEF OutcomeInv
  <1>3. ASSUME NEW e \in By(k)', Whole(e) PROVE Whole(e)'
    <2>1. Grouped(e) /\ shadow[e.name] # << >> /\ e.name \in sudoers
      BY <1>3 DEF Whole, Grouped
    <2>2. Grouped(e)' /\ shadow'[e.name] # << >> /\ e.name \in sudoers'
      BY <1>2, <2>1
    <2> QED BY <2>2 DEF Whole, Grouped
  <1> QED BY <1>2, <1>3

LEMMA KnownKept ==
  ASSUME OwnGroups, ConstantsOK, OutcomeInv, [Next]_vars, NEW k \in Provisions,
         By(k)' \subseteq By(k), NEW l, KnownOK(k, l)
  PROVE  KnownOK(k, l)'
  <1>1. AllWhole(k) => AllWhole(k)'
    BY PartsKept DEF AllWhole
  <1>2. (\A e \in By(k) : Grouped(e)) => \A e \in By(k)' : Grouped(e)'
    BY PartsKept
  <1>3. (\A e \in By(k) : shadow[e.name] # << >>) => \A e \in By(k)' : shadow'[e.name] # << >>
    BY PartsKept
  <1> QED BY <1>1, <1>2, <1>3 DEF KnownOK

\* a memory that claims nothing
LEMMA NoClaim ==
  ASSUME NEW k, NEW m, "account" \notin m.done, m.pc \notin {"log", "shadow", "sudoers"}
  PROVE  KnownOK(k, m)'
  BY DEF KnownOK

LEMMA PartsStay ==
  ASSUME OwnGroups, ConstantsOK, OutcomeInv, [Next]_vars, NEW k \in Provisions,
         By(k)' \subseteq By(k), saved'[k] = saved[k],
         \A p \in Owners : lease'[k] = p => lease[k] = p,
         \A p \in Owners : loc'[<<k, p>>] = loc[<<k, p>>] \/ loc'[<<k, p>>] = Off
  PROVE  PartsOK(k)'
  <1>0. PartsOK(k)
    BY DEF OutcomeInv, PartsInv
  <1>1. "account" \in saved'[k].done => AllWhole(k)'
    BY <1>0, PartsKept DEF PartsOK, AllWhole
  <1>2. ASSUME NEW p \in Owners, lease'[k] = p PROVE KnownOK(k, loc[<<k, p>>])'
    <2>1. CASE loc'[<<k, p>>] = loc[<<k, p>>]
      <3>1. PICK l : l = loc[<<k, p>>]
        OBVIOUS
      <3>2. KnownOK(k, l)
        BY <1>0, <1>2, <3>1 DEF PartsOK
      <3>3. KnownOK(k, l)'
        BY <3>2, KnownKept
      <3>4. l = loc'[<<k, p>>]
        BY <2>1, <3>1
      <3> QED BY <3>3, <3>4 DEF KnownOK
    <2>2. CASE loc'[<<k, p>>] = Off
      <3>1. KnownOK(k, Off)'
        BY OffIs, NoClaim
      <3> QED BY <2>2, <3>1 DEF KnownOK
    <2> QED BY <1>2, <2>1, <2>2
  <1> QED BY <1>1, <1>2 DEF PartsOK

\* what the worker knows when it goes on in the section, or finds the account
\* of its write marker whole
LEMMA EnterKnows ==
  ASSUME OwnGroups, ConstantsOK, OutcomeInv, [Next]_vars, NEW j \in Provisions, NEW o \in Owners,
         Enters(j, o), lease[j] = o, passwd' \subseteq passwd,
         NEW m \in Local, Become(j, o, m)
  PROVE  KnownOK(j, m)'
  <1> DEFINE l == loc[<<j, o>>]
  <1>1. /\ l \in Local /\ <<j, o>> \in Workers /\ loc \in [Workers -> Local] /\ UidInv
        /\ KnownOK(j, l) /\ JobOK(j) /\ Tidy(j, o, l) /\ TidyInv /\ LineInv /\ TeamInv
    <2>1. j \in Jobs
      BY DEF Jobs
    <2> QED BY <2>1, Memory DEF OutcomeInv, PartsInv, PartsOK, MadeInv, TidyInv, UidInv, TypeOK
  <1>2. loc'[<<j, o>>] = m
    BY <1>1 DEF Become
  <1>3. m.done = {}
    <2>1. PICK q \in Local : Become(j, o, q) /\ q.done = {}
      BY <1>1, EnterIs
    <2> QED BY <1>1, <1>2, <2>1 DEF Become
  <1>4. By(j)' \subseteq By(j)
    BY DEF By
  <1>5. ASSUME NEW pc \in PCs, Goto(j, o, pc) PROVE m.pc = pc
    <2>1. [l EXCEPT !.pc = pc].pc = pc
      BY <1>1 DEF Local
    <2> QED BY <1>1, <1>2, <1>5, <2>1 DEF Goto, Become
  <1>6. \A e \in By(j) : e.name = NameOf[j] /\ e.uid = saved[j].mk /\ e.by = j
    BY <1>1 DEF JobOK, MadeOK, By
  <1>7. l.pc # "off" => \A e \in By(j) : e.uid = l.mk
    BY <1>1, <1>6 DEF JobOK, OwnerOK
  <1>8. l.mk \in Nat
    <2>1. l.mk \in 0..UidMax /\ UidMax \in Nat
      BY <1>1 DEF Local, ConstantsOK
    <2> QED BY <2>1
  <1>9. CASE m.pc \notin {"log", "shadow", "sudoers"}
    BY <1>3, <1>9, NoClaim
  <1>10. CASE WriteGroup(j, o) /\ Goto(j, o, "shadow") /\ group' = GroupsWith(j, l.mk)
    <2>1. l.pc = "group" /\ m.pc = "shadow"
      BY <1>5, <1>10 DEF WriteGroup, At, PCs
    <2>2. ~GroupConflict(j, l.mk)
      <3>1. ~Become(j, o, Undoing(l, "account"))
        <4>1. Undoing(l, "account").pc = "undo"
          BY <1>1, UndoingIs
        <4> QED BY <1>1, <1>2, <2>1, <4>1 DEF Become
      <3> QED BY <1>10, <3>1 DEF WriteGroup
    <2>3. ASSUME NEW e \in By(j)' PROVE Grouped(e)'
      <3>1. e \in By(j)
        BY <1>4
      <3>2. e.by = j /\ e.uid = l.mk /\ e.name = NameOf[j]
        BY <1>6, <1>7, <2>1, <3>1
      <3> QED BY <1>1, <1>8, <1>10, <2>2, <3>2, GroupsGot
    <2> QED BY <1>3, <2>1, <2>3 DEF KnownOK
  <1>11. CASE WriteShadow(j, o)
    <2>1. l.pc = "shadow" /\ m.pc = "sudoers"
      BY <1>5, <1>11 DEF WriteShadow, At, PCs
    <2>2. \A e \in By(j) : Grouped(e)
      BY <1>1, <2>1 DEF KnownOK
    <2>3. \A e \in By(j)' : Grouped(e)'
      BY <1>4, <2>2, PartsKept
    <2>4. ASSUME NEW e \in By(j)' PROVE shadow'[e.name] # << >>
      <3>1. e.name = NameOf[j]
        BY <1>4, <1>6
      <3>2. NameOf[j] \in Names /\ shadow \in [Names -> Seq(Provisions)]
        BY <1>1 DEF ConstantsOK, Jobs, UidInv, TypeOK
      <3>3. PICK q : q = shadow[NameOf[j]]
        OBVIOUS
      <3>4. q \in Seq(Provisions)
        BY <3>2, <3>3
      <3>5. Len(Append(q, j)) = Len(q) + 1 /\ Len(q) \in Nat /\ Len(<< >>) = 0
        BY <3>4
      <3>6. shadow'[NameOf[j]] = Append(q, j)
        BY <1>11, <3>2, <3>3 DEF WriteShadow
      <3> QED BY <3>1, <3>5, <3>6
    <2> QED BY <1>3, <2>1, <2>3, <2>4 DEF KnownOK
  <1>12. CASE WriteSudoers(j, o)
    <2>1. l.pc = "sudoers" /\ m.pc = "log" /\ sudoers' = sudoers \cup {NameOf[j]}
      BY <1>5, <1>12 DEF WriteSudoers, At, PCs
    <2>2. \A e \in By(j) : Grouped(e) /\ shadow[e.name] # << >>
      BY <1>1, <2>1 DEF KnownOK
    <2>3. ASSUME NEW e \in By(j)' PROVE Whole(e)'
      <3>1. Grouped(e)' /\ shadow'[e.name] # << >>
        BY <1>4, <2>2, PartsKept
      <3>2. e.name \in sudoers'
        BY <1>4, <1>6, <2>1
      <3> QED BY <3>1, <3>2 DEF Whole, Grouped
    <2> QED BY <1>3, <2>1, <2>3 DEF KnownOK, AllWhole
  <1>13. CASE /\ l.pc = "judge" /\ Marked(j, l) # {} /\ MissingParts(j, l.mk) = {}
              /\ Become(j, o, [l EXCEPT !.pc = "log", !.uid = l.mk])
    <2>1. m.pc = "log"
      <3>1. [l EXCEPT !.pc = "log", !.uid = l.mk].pc = "log"
        BY <1>1 DEF Local
      <3> QED BY <1>1, <1>2, <1>13, <3>1 DEF Become
    <2>2. ASSUME NEW e \in By(j) PROVE Whole(e)
      <3>1. e.by = j /\ e.uid = l.mk /\ e.name = NameOf[j]
        BY <1>6, <1>7, <1>13
      <3>2. /\ "primary" \notin MissingParts(j, l.mk) /\ "team" \notin MissingParts(j, l.mk)
            /\ "shadow" \notin MissingParts(j, l.mk) /\ "sudoers" \notin MissingParts(j, l.mk)
        BY <1>13
      <3>3. \E g \in group : g.gid = l.mk /\ g.name = PgName[j]
        BY <3>2 DEF MissingParts
      <3>4. \A t \in Supp[j] : \E g \in group : g.gid = TeamGid[t] /\ NameOf[j] \in g.members
        BY <3>2 DEF MissingParts
      <3>5. shadow[NameOf[j]] # << >> /\ NameOf[j] \in sudoers
        BY <3>2 DEF MissingParts
      <3> QED BY <3>1, <3>3, <3>4, <3>5 DEF Whole
    <2>3. \A e \in By(j)' : Whole(e)'
      BY <1>4, <2>2, PartsKept
    <2> QED BY <1>3, <2>1, <2>3 DEF KnownOK, AllWhole
  <1>14. CASE WritePasswd(j, o) \/ Mark(j, o)
             \/ \E u \in Uids : Become(j, o, [l EXCEPT !.pc = "mark", !.mk = u])
    <2>1. ASSUME NEW u \in Uids, Become(j, o, [l EXCEPT !.pc = "mark", !.mk = u])
          PROVE  m.pc = "mark"
      <3>1. [l EXCEPT !.pc = "mark", !.mk = u].pc = "mark"
        BY <1>1 DEF Local
      <3> QED BY <1>1, <1>2, <2>1, <3>1 DEF Become
    <2>2. ASSUME Mark(j, o) PROVE m.pc = "passwd"
      <3>1. [l EXCEPT !.pc = "passwd"].pc = "passwd"
        BY <1>1 DEF Local
      <3>2. Become(j, o, [l EXCEPT !.pc = "passwd"])
        BY <2>2 DEF Mark, RecordStep
      <3> QED BY <1>1, <1>2, <3>1, <3>2 DEF Become
    <2>3. WritePasswd(j, o) => m.pc = "group"
      BY <1>5 DEF WritePasswd, PCs
    <2> QED BY <1>9, <1>14, <2>1, <2>2, <2>3
  <1> QED BY <1>10, <1>11, <1>12, <1>13, <1>14 DEF Enters

\* a worker of the job moves and writes no line
LEMMA PartsWorks ==
  ASSUME OwnGroups, ConstantsOK, OutcomeInv, [Next]_vars, NEW j \in Provisions, NEW o \in Owners,
         Work(j, o), passwd' \subseteq passwd
  PROVE  PartsOK(j)'
  <1> DEFINE l == loc[<<j, o>>]
  <1>1. j \in Jobs /\ UidInv /\ TidyInv /\ PartsOK(j) /\ l \in Local
    BY Memory DEF Jobs, OutcomeInv, PartsInv
  <1>2. By(j)' \subseteq By(j)
    BY DEF By
  <1>3. AllWhole(j) => AllWhole(j)'
    BY <1>2, PartsKept DEF AllWhole
  <1>4. "account" \in saved'[j].done => AllWhole(j)'
    <2>1. CASE saved' = saved
      BY <1>1, <1>3, <2>1 DEF PartsOK
    <2>2. CASE Saving(j, o)
      <3>1. saved \in [Jobs -> Saved]
        BY <1>1 DEF UidInv, TypeOK
      <3>2. saved'[j].done = l.done /\ lease[j] = o
        BY <1>1, <2>2, <3>1 DEF Saving
      <3>3. "account" \in l.done => AllWhole(j)
        BY <1>1, <3>2 DEF PartsOK, KnownOK
      <3> QED BY <1>3, <3>2, <3>3
    <2> QED BY <1>1, <2>1, <2>2, WhatIsSaved
  <1>5. ASSUME NEW p \in Owners, lease'[j] = p PROVE KnownOK(j, loc[<<j, p>>])'
    <2>1. lease[j] = p
      BY <1>1, <1>5, LeaseKept
    <2>2. PICK q : q = loc[<<j, p>>]
      OBVIOUS
    <2>3. KnownOK(j, q)
      BY <1>1, <2>1, <2>2 DEF PartsOK
    <2>4. CASE p # o
      <3>1. \E m \in Local : Become(j, o, m)
        BY <1>1, WorkCalm, EnterIs DEF Calm
      <3>2. loc'[<<j, p>>] = q
        BY <1>1, <2>2, <2>4, <3>1, OthersStay
      <3>3. KnownOK(j, q)'
        BY <1>2, <2>3, KnownKept
      <3> QED BY <3>2, <3>3 DEF KnownOK
    <2>5. CASE p = o /\ Calm(j, o)
      <3>1. PICK m \in Local : Become(j, o, m) /\ Soft(j, o, q, m)
        BY <2>2, <2>5 DEF Calm
      <3>2. loc'[<<j, p>>] = m
        BY <1>1, <2>5, <3>1, OthersStay
      <3>3. "account" \in m.done => AllWhole(j)'
        BY <1>3, <2>3, <3>1 DEF KnownOK, Soft
      <3>4. m.pc \notin {"log", "shadow", "sudoers"}
        BY <3>1 DEF Soft, Section
      <3>5. KnownOK(j, m)'
        BY <3>3, <3>4 DEF KnownOK
      <3> QED BY <3>2, <3>5 DEF KnownOK
    <2>6. CASE p = o /\ Enters(j, o)
      <3>1. PICK m \in Local : Become(j, o, m)
        BY <1>1, <2>6, EnterIs
      <3>2. loc'[<<j, p>>] = m
        BY <1>1, <2>6, <3>1, OthersStay
      <3>3. KnownOK(j, m)'
        BY <2>1, <2>6, <3>1, EnterKnows
      <3> QED BY <3>2, <3>3 DEF KnownOK
    <2> QED BY <1>1, <2>4, <2>5, <2>6, WorkCalm
  <1> QED BY <1>4, <1>5 DEF PartsOK

\* nothing is claimed of an account whose line is just written
LEMMA PartsWrites ==
  ASSUME ConstantsOK, OutcomeInv, NEW j \in Provisions, NEW o \in Owners, WritePasswd(j, o)
  PROVE  PartsOK(j)'
  <1> DEFINE l == loc[<<j, o>>]
  <1>1. j \in Jobs /\ UidInv /\ l \in Local /\ Tidy(j, o, l) /\ StaleOK(j, o)
    BY Memory DEF Jobs, OutcomeInv, TidyInv, MadeInv, JobOK
  <1>2. /\ l.pc = "passwd" /\ saved' = saved /\ lease' = lease
        /\ Become(j, o, [l EXCEPT !.pc = "group"])
    BY DEF WritePasswd, At, jobctl, Goto
  <1>3. /\ saved[j].done = {}
        /\ \A q \in Owners \ {o} : lease[j] = q =>
             loc[<<j, q>>].pc \in Harmless /\ "account" \notin loc[<<j, q>>].done
    BY <1>1, <1>2 DEF StaleOK
  <1>4. PICK m : m = [l EXCEPT !.pc = "group"]
    OBVIOUS
  <1>5. m \in Local /\ m.pc = "group" /\ m.done = l.done
    BY <1>1, <1>4 DEF Local, PCs
  <1>6. l.done = {}
    BY <1>1, <1>2 DEF Tidy, Unborn, Section
  <1>7. loc'[<<j, o>>] = m /\ \A p \in Owners : p # o => loc'[<<j, p>>] = loc[<<j, p>>]
    BY <1>1, <1>2, <1>4, <1>5, OthersStay
  <1>8. ASSUME NEW p \in Owners, lease'[j] = p PROVE KnownOK(j, loc[<<j, p>>])'
    <2>1. PICK q : q = loc'[<<j, p>>]
      OBVIOUS
    <2>2. CASE p = o
      BY <1>5, <1>6, <1>7, <2>2 DEF KnownOK
    <2>3. CASE p # o
      <3>1. loc'[<<j, p>>].pc \in Harmless /\ "account" \notin loc'[<<j, p>>].done
        BY <1>2, <1>3, <1>7, <1>8, <2>3
      <3> QED BY <3>1 DEF KnownOK, Harmless, Dropping
    <2> QED BY <2>2, <2>3
  <1> QED BY <1>2, <1>3, <1>8 DEF PartsOK

\* a job is taken: its worker claims what is recorded
LEMMA PartsTaken ==
  ASSUME OwnGroups, ConstantsOK, OutcomeInv, [Next]_vars, NEW j \in Provisions, NEW o \in Owners,
         Take(j, o)
  PROVE  PartsOK(j)'
  <1>1. j \in Jobs /\ UidInv /\ PartsOK(j)
    BY DEF Jobs, OutcomeInv, PartsInv
  <1>2. PICK m \in Local :
          /\ Become(j, o, m) /\ m.done = saved[j].done
          /\ m.pc \in {"check", "pod", "krb", "home", "delete", "judge"}
    BY <1>1, TakeIs
  <1>3. saved' = saved /\ passwd' = passwd /\ lease' = [lease EXCEPT ![j] = o]
        /\ lease \in [Jobs -> Owners \cup {None}]
    BY <1>1 DEF Take, files, UidInv, TypeOK
  <1>4. loc'[<<j, o>>] = m /\ lease'[j] = o
    BY <1>1, <1>2, <1>3, OthersStay
  <1>5. "account" \in saved[j].done => AllWhole(j)'
    BY <1>1, <1>3, PartsKept DEF PartsOK, AllWhole, By
  <1>6. KnownOK(j, loc[<<j, o>>])'
    BY <1>2, <1>4, <1>5 DEF KnownOK
  <1> QED BY <1>3, <1>4, <1>5, <1>6 DEF PartsOK

LEMMA PartsStep ==
  ASSUME OwnGroups, ConstantsOK, OutcomeInv, [Next]_vars PROVE PartsInv'
  <1>0. Provisions \subseteq Jobs /\ UidInv /\ TidyInv
    BY DEF Jobs, OutcomeInv
  <1>1. ASSUME NEW j \in Jobs, NEW o \in Owners, Work(j, o), NEW k \in Provisions
        PROVE  PartsOK(k)'
    <2>1. CASE k = j /\ passwd' \subseteq passwd
      BY <1>1, <2>1, PartsWorks
    <2>2. CASE k = j /\ ~(passwd' \subseteq passwd)
      <3>1. PICK i \in Provisions, p \in Owners : WritePasswd(i, p)
        BY <2>2, NewLines
      <3>2. CASE i = k
        BY <3>1, <3>2, PartsWrites
      <3>3. CASE i # k
        <4>1. i \in Jobs /\ i # j
          BY <1>0, <2>2, <3>3
        <4>2. \A q \in Owners : loc'[<<i, q>>] = loc[<<i, q>>]
          BY <1>0, <1>1, <4>1, OtherJobs
        <4> QED BY <1>0, <3>1, <4>2, WriterMoves
      <3> QED BY <3>2, <3>3
    <2>3. CASE k # j
      <3>1. k \in Jobs
        BY <1>0
      <3>2. /\ \A p \in Owners : loc'[<<k, p>>] = loc[<<k, p>>]
            /\ saved'[k] = saved[k]
            /\ \A p \in Owners : lease'[k] = p => lease[k] = p
        BY <1>0, <1>1, <2>3, <3>1, OtherJobs
      <3>3. By(k)' \subseteq By(k)
        BY <1>0, <3>2, OtherLines
      <3> QED BY <3>2, <3>3, PartsStay
    <2> QED BY <2>1, <2>2, <2>3
  <1>2. ASSUME NEW j \in Jobs, NEW o \in Owners, Take(j, o), NEW k \in Provisions
        PROVE  PartsOK(k)'
    <2>1. CASE k = j
      BY <1>2, <2>1, PartsTaken
    <2>2. CASE k # j
      <3>1. PICK m \in Local : Become(j, o, m)
        BY <1>0, <1>2, TakeIs
      <3>2. \A p \in Owners : loc'[<<k, p>>] = loc[<<k, p>>]
        BY <1>0, <2>2, <3>1, OtherStays
      <3>3. saved' = saved /\ passwd' = passwd /\ lease' = [lease EXCEPT ![j] = o]
        BY <1>2 DEF Take, files
      <3>4. lease'[k] = lease[k] /\ By(k)' = By(k)
        BY <1>0, <2>2, <3>3 DEF UidInv, TypeOK, By
      <3> QED BY <3>2, <3>3, <3>4, PartsStay
    <2> QED BY <2>1, <2>2
  <1>3. ASSUME saved' = saved, passwd' = passwd, lease' = lease,
               \A k \in Jobs, p \in Owners :
                 loc'[<<k, p>>] = loc[<<k, p>>] \/ loc'[<<k, p>>] = Off
        PROVE  PartsInv'
    <2>1. ASSUME NEW k \in Provisions PROVE PartsOK(k)'
      <3>1. By(k)' = By(k)
        BY <1>3 DEF By
      <3> QED BY <1>0, <1>3, <3>1, PartsStay
    <2> QED BY <2>1 DEF PartsInv
  <1>4. ASSUME NEW o \in Owners, Crash(o) PROVE PartsInv'
    <2>1. saved' = saved /\ passwd' = passwd /\ lease' = lease
      BY <1>4 DEF Crash, files, jobctl
    <2>2. \A k \in Jobs, p \in Owners : loc'[<<k, p>>] = loc[<<k, p>>] \/ loc'[<<k, p>>] = Off
      BY <1>4 DEF Crash, Workers
    <2> QED BY <1>3, <2>1, <2>2
  <1>5. ASSUME NEW k, RegisterRevoke(k) \/ RegisterProvision(k) \/ AdoptAccount(k)
                      \/ RemovePod(k)
        PROVE  UNCHANGED <<saved, passwd, lease, loc>>
    BY <1>5 DEF RegisterRevoke, RegisterProvision, AdoptAccount, RemovePod, files, jobctl
  <1>6. CASE UNCHANGED vars
    BY <1>3, <1>6 DEF vars, files, jobctl
  <1>7. ASSUME NEW j \in Jobs, NEW o \in Owners, Take(j, o) \/ Work(j, o) PROVE PartsInv'
    BY <1>1, <1>2, <1>7 DEF PartsInv
  <1> QED BY <1>3, <1>4, <1>5, <1>6, <1>7 DEF Next, Idle

LEMMA OutcomeStart ==
  ASSUME ConstantsOK, Init PROVE OutcomeInv
  <1>1. UidInv /\ LineInv /\ TeamInv
    BY InitOK, LineInit, TeamInit
  <1>2. passwd = {} /\ saved = [j \in Jobs |-> Nothing] /\ loc = [w \in Workers |-> Off]
    BY DEF Init
  <1>3. ASSUME NEW j \in Jobs, NEW o \in Owners PROVE loc[<<j, o>>] = Off
    BY <1>2 DEF Workers
  <1>4. TidyInv
    BY <1>3, OffIs, PlainTidy, PlainPCs DEF TidyInv
  <1>5. ASSUME NEW k \in Provisions PROVE JobOK(k) /\ PartsOK(k)
    <2>1. By(k) = {} /\ k \in Jobs
      BY <1>2 DEF By, Jobs
    <2>2. \A p \in Owners : loc[<<k, p>>].pc = "off"
      BY <1>3, <2>1, OffIs
    <2>3. JobOK(k)
      BY <2>1, <2>2 DEF JobOK, MadeOK, OwnerOK, StaleOK
    <2>4. PartsOK(k)
      BY <2>1 DEF PartsOK, KnownOK, AllWhole
    <2> QED BY <2>3, <2>4
  <1> QED BY <1>1, <1>4, <1>5 DEF OutcomeInv, MadeInv, PartsInv

LEMMA OutcomeStep ==
  ASSUME OwnGroups, ConstantsOK, OutcomeInv, [Next]_vars PROVE OutcomeInv'
  BY StepOK, LineStep, TeamStep, TidyStep, MadeStep, PartsStep DEF OutcomeInv

\* Once job_control says that the account step is done, the account has its
\* personal group, its teams, a password and sudo rights: step_create_account
\* found them (_judge_interrupted_account) or wrote them, and no rollback,
\* deletion or other job takes one away while the line is there.
THEOREM WholeRecorded == ASSUME OwnGroups PROVE Spec => []WholeWhenRecorded
  <1>1. Init => OutcomeInv
    BY ConstantsOK, OutcomeStart
  <1>2. OutcomeInv /\ [Next]_vars => OutcomeInv'
    BY ConstantsOK, OutcomeStep
  <1>3. OutcomeInv => WholeWhenRecorded
    <2>1. ASSUME OutcomeInv, NEW e \in passwd, "account" \in saved[e.by].done PROVE Whole(e)
      <3>1. e.by \in Provisions /\ e \in By(e.by)
        BY <2>1 DEF OutcomeInv, UidInv, TypeOK, Line, By
      <3> QED BY <2>1, <3>1 DEF OutcomeInv, PartsInv, PartsOK, AllWhole
    <2> QED BY <2>1 DEF WholeWhenRecorded
  <1> QED BY <1>1, <1>2, <1>3, PTL DEF Spec

-----------------------------------------------------------------------------
(* A job that fails leaves no account                                        *)

\* No row of job_control is lost, every rollback comes through, and no worker
\* is taken for dead while it works.
Steady == {"record", "undo", "stall"} \cap FaultKinds = {}

\* where the job has no account
Bare == {"lookup", "issue", "mark", "passwd", "undo_shadow", "undo_group", "rewind",
         "del_shadow", "del_group", "del_log"}

\* where the worker of a job that adopted an account may be
Adopting == {"off", "pod", "comp", "delete", "del_shadow", "del_group", "del_log",
             "left_shadow", "left_group", "end"}

\* when a worker's memory says that the job has no account
Owes(j, l) ==
  \/ l.pc \in Bare
  \/ l.pc = "end" /\ l.out = "FAIL"
  \/ l.pc = "pod" /\ "krb" \notin l.done
  => By(j) = {}

JobOwes(j) ==
  /\ job[j] # "revoke"
  /\ job[j] \in {"FAIL", "new", "setpw", "reuse"} => By(j) = {}

LocOwes(j, o) ==
  /\ loc[<<j, o>>].pc # "off" => lease[j] = o /\ job[j] \in {"create", "reuse"}
  /\ job[j] = "reuse" => loc[<<j, o>>].pc \in Adopting
  /\ Owes(j, loc[<<j, o>>])

Answers(j) == JobOwes(j) /\ \A o \in Owners : LocOwes(j, o)

AnswerInv == /\ UidInv /\ LineInv /\ TidyInv /\ MadeInv
             /\ \A j \in Provisions : Answers(j)

LEMMA OwesNone == ASSUME NEW j, NEW m, By(j)' = {} PROVE Owes(j, m)'
  BY DEF Owes

LEMMA OwesNothing ==
  ASSUME NEW j, NEW m, m.pc \notin Bare \cup {"pod"}, m.pc = "end" => m.out # "FAIL"
  PROVE  Owes(j, m)'
  BY DEF Owes

\* what was written stays away until the worker writes its line
LEMMA BareStays ==
  ASSUME NEW j, NEW m, By(j) = {}, passwd' \subseteq passwd PROVE Owes(j, m)'
  BY DEF Owes, By

\* the lines of the job go with those of the name
LEMMA ByGone ==
  ASSUME NEW j, MadeOK(j), passwd' = Without(NameOf[j]) PROVE By(j)' = {}
  BY DEF MadeOK, By, Without, LinesOf

\* a job that adopted an account goes on to its Pod, or ends
LEMMA AdoptingStays ==
  ASSUME ConstantsOK, UidInv, NEW j \in Provisions, NEW o \in Owners, Work(j, o),
         loc[<<j, o>>].pc \in Adopting
  PROVE  loc'[<<j, o>>].pc \in Adopting /\ passwd' \subseteq passwd
  <1> DEFINE l == loc[<<j, o>>]
             n == loc'[<<j, o>>]
  <1>1. /\ l \in Local /\ <<j, o>> \in Workers /\ loc \in [Workers -> Local]
        /\ j \notin Revokes /\ j \in Jobs
    BY Memory DEF Jobs, UidInv, TypeOK, ConstantsOK
  <1>2. ASSUME NEW x, Become(j, o, x) PROVE n = x
    BY <1>1, <1>2 DEF Become
  <1>3. ASSUME NEW v \in Verdicts, Become(j, o, Ending(l, v)) PROVE n.pc = "end"
    BY <1>1, <1>2, <1>3, EndingIs
  <1>4. ASSUME Become(j, o, Failing(l)) PROVE n.pc \in {"comp", "end"}
    BY <1>1, <1>2, <1>4, FailingIs
  <1>5. ASSUME NEW pc \in PCs, Goto(j, o, pc) PROVE n.pc = pc
    <2>1. [l EXCEPT !.pc = pc].pc = pc
      BY <1>1 DEF Local
    <2> QED BY <1>2, <1>5, <2>1 DEF Goto
  <1>6. ~CreateStep(j, o) /\ ~UndoStep(j, o) /\ ~Record(j, o)
    BY DEF Adopting, CreateStep, Judge, Lookup, Issue, Mark, WritePasswd, WriteGroup, WriteShadow,
       WriteSudoers, LogCreated, FailsEarly, FailsLate, JudgeFails, UndoStep, UndoPasswd,
       UndoShadow, UndoGroup, UndoFails, RecordRewind, Record, At
  <1>7. ~RecordFails(j, o)
    BY DEF Adopting, RecordFails
  <1>8. CASE LaterStep(j, o)
    <2>1. CreatePod(j, o) \/ PodFails(j, o)
      BY <1>8 DEF LaterStep, CreateHome, HomeFails, CreatePrincipal, PrincipalFails, Adopting, At
    <2>2. passwd' = passwd
      BY <2>1 DEF CreatePod, PodFails, files
    <2>3. \/ Become(j, o, Failing(l)) \/ Become(j, o, Ending(l, "SUCCESS"))
          \/ Become(j, o, Ending(l, "DEGRADED"))
      BY <2>1 DEF CreatePod, PodFails
    <2> QED BY <1>3, <1>4, <2>2, <2>3 DEF Adopting, Verdicts
  <1>9. CASE DeleteStep(j, o)
    <2>1. CASE CheckRevocable(j, o)
      <3>1. Become(j, o, [l EXCEPT !.pc = "delete"]) \/ Become(j, o, Ending(l, "HELD"))
        BY <1>1, <2>1 DEF CheckRevocable
      <3>2. Goto(j, o, "delete") \/ Become(j, o, Ending(l, "HELD"))
        BY <3>1 DEF Goto
      <3> QED BY <1>3, <1>5, <2>1, <3>2 DEF Adopting, Verdicts, PCs, CheckRevocable, files
    <2>2. CASE DeletePasswd(j, o)
      <3>1. passwd' \subseteq passwd
        BY <2>2 DEF DeletePasswd, Without
      <3>2. \/ Become(j, o, Ending(l, "FAIL"))
            \/ \E e \in LinesOf(NameOf[j]) :
                 Become(j, o, [l EXCEPT !.pc = "del_shadow", !.gid = e.uid])
        BY <1>1, <2>2 DEF DeletePasswd
      <3>3. ASSUME NEW u, Become(j, o, [l EXCEPT !.pc = "del_shadow", !.gid = u])
            PROVE  n.pc = "del_shadow"
        <4>1. [l EXCEPT !.pc = "del_shadow", !.gid = u].pc = "del_shadow"
          BY <1>1 DEF Local
        <4> QED BY <1>2, <3>3, <4>1
      <3> QED BY <1>3, <3>1, <3>2, <3>3 DEF Adopting, Verdicts
    <2>3. CASE DeleteShadow(j, o) \/ DeleteGroup(j, o)
      <3>1. PICK pc \in {"del_group", "left_group", "del_log"} : Goto(j, o, pc)
        BY <2>3 DEF DeleteShadow, DeleteGroup
      <3> QED BY <1>5, <2>3, <3>1 DEF Adopting, PCs, DeleteShadow, DeleteGroup
    <2>4. CASE LogDeleted(j, o) \/ RemoveLeftovers(j, o) \/ DeleteFails(j, o) \/ DeleteGivesUp(j, o)
      <3>1. PICK v \in Verdicts : Become(j, o, Ending(l, v))
        BY <1>1, <2>4 DEF LogDeleted, RemoveLeftovers, DeleteFails, DeleteGivesUp,
           AfterDeleteFailed, Verdicts
      <3> QED BY <1>3, <2>4, <3>1 DEF Adopting, LogDeleted, RemoveLeftovers, DeleteFails,
              DeleteGivesUp, files
    <2> QED BY <1>9, <2>1, <2>2, <2>3, <2>4 DEF DeleteStep
  <1>10. CASE End(j, o)
    BY <1>2, <1>10, OffIs DEF End, Adopting, files
  <1> QED BY <1>6, <1>7, <1>8, <1>9, <1>10 DEF Work

\* a worker of job j that has the lease, and what is known of the job
Ready(j, o) ==
  /\ UidInv /\ JobOK(j) /\ lease[j] = o /\ loc[<<j, o>>].pc # "off"
  /\ Owes(j, loc[<<j, o>>])

\* the memory that Become writes is the next one
LEMMA NextIs ==
  ASSUME UidInv, NEW j \in Provisions, NEW o \in Owners, NEW x, Become(j, o, x)
  PROVE  loc'[<<j, o>>] = x
  BY Memory DEF Jobs, UidInv, TypeOK, Become

LEMMA CreateOwes ==
  ASSUME ConstantsOK, NEW j \in Provisions, NEW o \in Owners, Ready(j, o), CreateStep(j, o)
  PROVE  Owes(j, loc[<<j, o>>])'
  <1> DEFINE l == loc[<<j, o>>]
  <1>1. PICK n : n = loc'[<<j, o>>]
    OBVIOUS
  <1>2. UidInv /\ l \in Local /\ MadeOK(j) /\ (l.mk = saved[j].mk \/ By(j) = {})
    BY Memory DEF Ready, JobOK, OwnerOK, Jobs
  <1>3. ASSUME NEW x, Become(j, o, x) PROVE n = x
    BY <1>1, <1>2, <1>3, NextIs
  <1>4. SUFFICES Owes(j, n)'
    BY <1>1 DEF Owes
  <1>5. ASSUME l.pc \in Bare, passwd' = passwd PROVE Owes(j, n)'
    BY <1>5, BareStays DEF Ready, Owes
  <1>6. ASSUME NEW pc \in PCs, Become(j, o, [l EXCEPT !.pc = pc]) PROVE n.pc = pc
    <2>1. [l EXCEPT !.pc = pc].pc = pc
      BY <1>2 DEF Local
    <2> QED BY <1>3, <1>6, <2>1
  <1>7. ASSUME Become(j, o, Undoing(l, "account")) PROVE n.pc = "undo"
    BY <1>2, <1>3, <1>7, UndoingIs
  <1>8. ASSUME NEW e \in By(j) PROVE e.name = NameOf[j] /\ e.uid = l.mk /\ l.mk # 0
    <2>1. e \in passwd /\ e.uid \in Uids /\ UidMax \in Nat
      BY <1>2 DEF By, UidInv, TypeOK, Line, ConstantsOK
    <2>2. e.uid # 0
      BY <2>1 DEF Uids
    <2> QED BY <1>2, <2>2 DEF MadeOK
  <1>9. CASE Judge(j, o)
    <2>1. CASE Goto(j, o, "lookup") /\ (l.mk = 0 \/ Marked(j, l) = {}) /\ passwd' = passwd
      <3>1. By(j) = {}
        BY <1>8, <2>1 DEF Marked, LinesOf, By
      <3> QED BY <2>1, <3>1, BareStays
    <2>2. CASE Become(j, o, [l EXCEPT !.pc = "log", !.uid = l.mk])
      <3>1. [l EXCEPT !.pc = "log", !.uid = l.mk].pc = "log"
        BY <1>2 DEF Local
      <3>2. n.pc = "log"
        BY <1>3, <2>2, <3>1
      <3> QED BY <3>2, OwesNothing DEF Bare
    <2>3. CASE passwd' = Without(NameOf[j])
      BY <1>2, <2>3, ByGone, OwesNone
    <2> QED BY <1>9, <2>1, <2>2, <2>3 DEF Judge
  <1>10. CASE Lookup(j, o) \/ Issue(j, o) \/ Mark(j, o) \/ FailsEarly(j, o)
    BY <1>5, <1>10 DEF Lookup, Issue, Mark, FailsEarly, At, Bare, files
  <1>11. CASE WritePasswd(j, o) \/ WriteGroup(j, o) \/ WriteShadow(j, o) \/ WriteSudoers(j, o)
              \/ FailsLate(j, o)
    <2>1. \/ Become(j, o, Undoing(l, "account"))
          \/ \E pc \in {"group", "shadow", "sudoers", "log"} :
               Become(j, o, [l EXCEPT !.pc = pc])
      BY <1>11 DEF WritePasswd, WriteGroup, WriteShadow, WriteSudoers, FailsLate, Goto
    <2>2. n.pc \in {"undo", "group", "shadow", "sudoers", "log"}
      BY <1>6, <1>7, <2>1 DEF PCs
    <2> QED BY <2>2, OwesNothing DEF Bare
  <1>12. CASE LogCreated(j, o)
    <2>1. PICK x : x = [l EXCEPT !.pc = "record", !.uid = l.mk, !.done = @ \cup {"account"}]
      OBVIOUS
    <2>2. x.pc = "record" /\ Become(j, o, x)
      BY <1>2, <1>12, <2>1 DEF LogCreated, Local
    <2> QED BY <1>3, <2>2, OwesNothing DEF Bare
  <1>13. CASE JudgeFails(j, o)
    <2>1. n.pc = "end" /\ n.out = "DEGRADED"
      BY <1>2, <1>3, <1>13, EndingIs DEF JudgeFails, Verdicts
    <2> QED BY <2>1, OwesNothing DEF Bare
  <1> QED BY <1>9, <1>10, <1>11, <1>12, <1>13 DEF CreateStep

LEMMA UndoOwes ==
  ASSUME Steady, ConstantsOK, NEW j \in Provisions, NEW o \in Owners, Ready(j, o), UndoStep(j, o)
  PROVE  Owes(j, loc[<<j, o>>])'
  <1> DEFINE l == loc[<<j, o>>]
  <1>1. PICK n : n = loc'[<<j, o>>]
    OBVIOUS
  <1>2. SUFFICES Owes(j, n)'
    BY <1>1 DEF Owes
  <1>3. CASE UndoPasswd(j, o)
    BY <1>3, ByGone, OwesNone DEF Ready, JobOK, UndoPasswd
  <1>4. CASE UndoShadow(j, o) \/ UndoGroup(j, o) \/ RecordRewind(j, o)
    <2>1. l.pc \in Bare /\ passwd' = passwd
      BY <1>4 DEF UndoShadow, UndoGroup, RecordRewind, At, Bare, files
    <2> QED BY <2>1, BareStays DEF Ready, Owes
  <1>5. ~UndoFails(j, o)
    BY DEF UndoFails, Fault, Steady
  <1> QED BY <1>3, <1>4, <1>5 DEF UndoStep, Ready

LEMMA LaterOwes ==
  ASSUME ConstantsOK, NEW j \in Provisions, NEW o \in Owners, Ready(j, o), LaterStep(j, o)
  PROVE  Owes(j, loc[<<j, o>>])'
  <1> DEFINE l == loc[<<j, o>>]
  <1>1. PICK n : n = loc'[<<j, o>>]
    OBVIOUS
  <1>2. UidInv /\ l \in Local
    BY Memory DEF Ready, Jobs
  <1>3. ASSUME NEW x, Become(j, o, x) PROVE n = x
    BY <1>1, <1>2, <1>3, NextIs
  <1>4. SUFFICES Owes(j, n)'
    BY <1>1 DEF Owes
  <1>5. ASSUME NEW t \in {"home", "krb", "mismatch"}, Become(j, o, Undoing(l, t))
        PROVE  n.pc = "undo"
    BY <1>2, <1>3, <1>5, UndoingIs
  <1>6. ASSUME NEW t \in {"home", "krb"}, NEW b \in BOOLEAN,
               Become(j, o, [Undoing(l, t) EXCEPT !.made = b])
        PROVE  n.pc = "undo"
    <2>1. PICK u : u = Undoing(l, t)
      OBVIOUS
    <2>2. u \in Local /\ u.pc = "undo"
      BY <1>2, <2>1, UndoingIs
    <2>3. [u EXCEPT !.made = b].pc = "undo"
      BY <2>2 DEF Local
    <2> QED BY <1>3, <1>6, <2>1, <2>3
  <1>7. ASSUME n.pc \in {"undo", "record"} PROVE Owes(j, n)'
    BY <1>7, OwesNothing DEF Bare
  <1>8. CASE CreateHome(j, o) \/ CreatePrincipal(j, o)
    <2>1. \/ Become(j, o, Undoing(l, "mismatch"))
          \/ Become(j, o, [l EXCEPT !.pc = "record", !.made = TRUE, !.done = @ \cup {"home"}])
          \/ Become(j, o, [l EXCEPT !.pc = "record", !.done = @ \cup {"home"}])
          \/ Become(j, o, [l EXCEPT !.pc = "record", !.done = @ \cup {"krb"}])
      BY <1>8 DEF CreateHome, CreatePrincipal
    <2>2. /\ [l EXCEPT !.pc = "record", !.made = TRUE, !.done = @ \cup {"home"}].pc = "record"
          /\ [l EXCEPT !.pc = "record", !.done = @ \cup {"home"}].pc = "record"
          /\ [l EXCEPT !.pc = "record", !.done = @ \cup {"krb"}].pc = "record"
      BY <1>2 DEF Local
    <2> QED BY <1>3, <1>5, <1>7, <2>1, <2>2
  <1>9. CASE HomeFails(j, o) \/ PrincipalFails(j, o)
    <2>1. \E t \in {"home", "krb"} : \/ Become(j, o, Undoing(l, t))
                                     \/ \E b \in BOOLEAN : Become(j, o, [Undoing(l, t) EXCEPT !.made = b])
      BY <1>9 DEF HomeFails, PrincipalFails
    <2> QED BY <1>5, <1>6, <1>7, <2>1
  <1>10. CASE CreatePod(j, o) \/ PodFails(j, o)
    <2>1. /\ l.pc = "pod" /\ passwd' = passwd
          /\ \/ Become(j, o, Failing(l)) \/ Become(j, o, Ending(l, "SUCCESS"))
             \/ Become(j, o, Ending(l, "DEGRADED"))
      BY <1>10 DEF CreatePod, PodFails, At, files
    <2>2. CASE Become(j, o, Failing(l)) /\ "krb" \in l.done
      <3>1. [l EXCEPT !.pc = "comp"].pc = "comp"
        BY <1>2 DEF Local
      <3>2. n.pc = "comp"
        BY <1>3, <2>2, <3>1 DEF Failing
      <3> QED BY <3>2, OwesNothing DEF Bare
    <2>3. CASE "krb" \notin l.done
      BY <2>1, <2>3, BareStays DEF Ready, Owes
    <2>4. ASSUME NEW v \in {"SUCCESS", "DEGRADED"}, Become(j, o, Ending(l, v)) PROVE Owes(j, n)'
      <3>1. n.pc = "end" /\ n.out = v
        BY <1>2, <1>3, <2>4, EndingIs DEF Verdicts
      <3> QED BY <3>1, OwesNothing DEF Bare
    <2> QED BY <2>1, <2>2, <2>3, <2>4
  <1> QED BY <1>8, <1>9, <1>10 DEF LaterStep

LEMMA DeleteOwes ==
  ASSUME ConstantsOK, NEW j \in Provisions, NEW o \in Owners, Ready(j, o), DeleteStep(j, o)
  PROVE  Owes(j, loc[<<j, o>>])'
  <1> DEFINE l == loc[<<j, o>>]
  <1>1. PICK n : n = loc'[<<j, o>>]
    OBVIOUS
  <1>2. UidInv /\ l \in Local /\ MadeOK(j) /\ j \notin Revokes
    BY Memory DEF Ready, Jobs, JobOK, ConstantsOK
  <1>3. ASSUME NEW x, Become(j, o, x) PROVE n = x
    BY <1>1, <1>2, <1>3, NextIs
  <1>4. SUFFICES Owes(j, n)'
    BY <1>1 DEF Owes
  <1>5. ASSUME NEW pc \in {"delete", "left_shadow", "left_group"}, Become(j, o, [l EXCEPT !.pc = pc])
        PROVE  Owes(j, n)'
    <2>1. [l EXCEPT !.pc = pc].pc = pc
      BY <1>2 DEF Local
    <2>2. n.pc = pc
      BY <1>3, <1>5, <2>1
    <2> QED BY <2>2, OwesNothing DEF Bare
  <1>6. ASSUME NEW v \in {"HELD", "SUCCESS"}, Become(j, o, Ending(l, v)) PROVE Owes(j, n)'
    <2>1. n.pc = "end" /\ n.out = v
      BY <1>2, <1>3, <1>6, EndingIs DEF Verdicts
    <2> QED BY <2>1, OwesNothing DEF Bare
  <1>7. CASE l.pc \in Bare /\ passwd' = passwd
    BY <1>7, BareStays DEF Ready, Owes
  <1>8. CASE CheckRevocable(j, o)
    <2>1. Become(j, o, [l EXCEPT !.pc = "delete"]) \/ Become(j, o, Ending(l, "HELD"))
      BY <1>2, <1>8 DEF CheckRevocable
    <2> QED BY <1>5, <1>6, <2>1
  <1>9. CASE DeletePasswd(j, o)
    <2>1. CASE passwd' = Without(NameOf[j])
      BY <1>2, <2>1, ByGone, OwesNone
    <2>2. CASE LinesOf(NameOf[j]) = {} /\ passwd' = passwd
      <3>1. By(j) = {}
        BY <1>2, <2>2, NoneOfName
      <3> QED BY <2>2, <3>1, BareStays
    <2> QED BY <1>9, <2>1, <2>2 DEF DeletePasswd
  <1>10. CASE DeleteShadow(j, o)
    <2>1. CASE l.pc = "del_shadow"
      BY <1>7, <1>10, <2>1 DEF DeleteShadow, Bare
    <2>2. CASE l.pc = "left_shadow"
      BY <1>5, <1>10, <2>2 DEF DeleteShadow, At, Goto
    <2> QED BY <1>10, <2>1, <2>2 DEF DeleteShadow
  <1>11. CASE DeleteGroup(j, o) \/ LogDeleted(j, o)
    BY <1>7, <1>11 DEF DeleteGroup, LogDeleted, At, Bare, files
  <1>12. CASE RemoveLeftovers(j, o)
    BY <1>6, <1>12 DEF RemoveLeftovers
  <1>13. CASE DeleteFails(j, o) \/ DeleteGivesUp(j, o)
    BY <1>2, <1>6, <1>13 DEF DeleteFails, DeleteGivesUp, AfterDeleteFailed
  <1> QED BY <1>8, <1>9, <1>10, <1>11, <1>12, <1>13 DEF DeleteStep

LEMMA RecordOwes ==
  ASSUME Steady, ConstantsOK, NEW j \in Provisions, NEW o \in Owners, Ready(j, o),
         Record(j, o) \/ RecordFails(j, o) \/ End(j, o)
  PROVE  Owes(j, loc[<<j, o>>])'
  <1> DEFINE l == loc[<<j, o>>]
  <1>1. PICK n : n = loc'[<<j, o>>]
    OBVIOUS
  <1>2. UidInv /\ l \in Local /\ lease[j] = o /\ MaxAttempts \in Nat \ {0}
    BY Memory DEF Ready, Jobs, ConstantsOK
  <1>3. ASSUME NEW x, Become(j, o, x) PROVE n = x
    BY <1>1, <1>2, <1>3, NextIs
  <1>4. SUFFICES Owes(j, n)'
    BY <1>1 DEF Owes
  <1>5. ~RecordFails(j, o)
    BY DEF RecordFails, Fault, Steady
  <1>6. CASE Record(j, o)
    <2>1. PICK q : q = FirstStep(l.done)
      OBVIOUS
    <2>2. PICK d : d = [l EXCEPT !.tries = 1]
      OBVIOUS
    <2>3. d.done = l.done /\ DOMAIN d = DOMAIN l
      BY <1>2, <2>2 DEF Local
    <2>4. PICK x : x = [d EXCEPT !.pc = q]
      OBVIOUS
    <2>5. x.pc = q /\ x.done = l.done
      BY <1>2, <2>2, <2>3, <2>4 DEF Local
    <2>6. n = x
      BY <1>2, <1>3, <1>6, <2>1, <2>2, <2>4 DEF Record, RecordStep
    <2>7. q \notin Bare \cup {"end"} /\ (q = "pod" => "krb" \in l.done)
      BY <2>1 DEF FirstStep, Bare
    <2> QED BY <2>5, <2>6, <2>7 DEF Owes
  <1>7. CASE End(j, o)
    <2>1. n = Off
      BY <1>3, <1>7 DEF End
    <2> QED BY <2>1, OffIs, OwesNothing DEF Bare
  <1> QED BY <1>5, <1>6, <1>7

LEMMA WorkOwes ==
  ASSUME Steady, ConstantsOK, NEW j \in Provisions, NEW o \in Owners, Ready(j, o), Work(j, o)
  PROVE  Owes(j, loc[<<j, o>>])'
  BY CreateOwes, UndoOwes, LaterOwes, DeleteOwes, RecordOwes DEF Work

\* only the end of a job moves the job or gives its lease back
LEMMA JobAndLease ==
  ASSUME NEW j, NEW o, Work(j, o) PROVE End(j, o) \/ UNCHANGED <<job, lease>>
  <1>1. CASE CreateStep(j, o)
    BY <1>1 DEF CreateStep, Judge, Lookup, Issue, Mark, WritePasswd, WriteGroup, WriteShadow,
       WriteSudoers, LogCreated, FailsEarly, FailsLate, JudgeFails, jobctl, orders
  <1>2. CASE UndoStep(j, o)
    BY <1>2 DEF UndoStep, UndoPasswd, UndoShadow, UndoGroup, UndoFails, RecordRewind, jobctl, orders
  <1>3. CASE LaterStep(j, o)
    BY <1>3 DEF LaterStep, CreateHome, HomeFails, CreatePrincipal, PrincipalFails, CreatePod,
       PodFails, jobctl, orders
  <1>4. CASE DeleteStep(j, o)
    BY <1>4 DEF DeleteStep, CheckRevocable, DeletePasswd, DeleteShadow, DeleteGroup,
       LogDeleted, RemoveLeftovers, DeleteFails, DeleteGivesUp, jobctl, orders
  <1>5. CASE Record(j, o) \/ RecordFails(j, o)
    BY <1>5 DEF Record, RecordFails, jobctl, orders
  <1> QED BY <1>1, <1>2, <1>3, <1>4, <1>5 DEF Work

LEMMA OthersKeepTheirs ==
  ASSUME UidInv, NEW j, NEW o, Work(j, o), NEW k \in Jobs, k # j
  PROVE  job'[k] = job[k] /\ lease'[k] = lease[k]
  BY JobAndLease DEF End, UidInv, TypeOK

\* a job whose workers and whose place stay
LEMMA AnswersStay ==
  ASSUME NEW k, Answers(k), By(k)' \subseteq By(k), job'[k] = job[k], lease'[k] = lease[k],
         \A p \in Owners : loc'[<<k, p>>] = loc[<<k, p>>] \/ loc'[<<k, p>>] = Off
  PROVE  Answers(k)'
  <1>1. JobOwes(k)'
    BY DEF Answers, JobOwes
  <1>2. ASSUME NEW p \in Owners PROVE LocOwes(k, p)'
    <2>1. CASE loc'[<<k, p>>] = loc[<<k, p>>]
      <3>1. PICK l : l = loc[<<k, p>>]
        OBVIOUS
      <3>2. LocOwes(k, p) /\ Owes(k, l)
        BY <3>1 DEF Answers, LocOwes
      <3>3. Owes(k, l)'
        BY <3>2 DEF Owes
      <3>4. l = loc'[<<k, p>>]
        BY <2>1, <3>1
      <3>5. Owes(k, loc[<<k, p>>])'
        BY <3>3, <3>4 DEF Owes
      <3> QED BY <2>1, <3>2, <3>5 DEF LocOwes
    <2>2. CASE loc'[<<k, p>>] = Off
      <3>1. loc'[<<k, p>>].pc = "off"
        <4>1. Off.pc = "off"
          BY DEF Off
        <4> QED BY <2>2, <4>1
      <3> QED BY <3>1 DEF LocOwes, Owes, Bare, Adopting
    <2> QED BY <1>2, <2>1, <2>2
  <1> QED BY <1>1, <1>2 DEF Answers

\* a job nobody works on
LEMMA AnswersIdle ==
  ASSUME NEW k, JobOwes(k)', \A p \in Owners : loc'[<<k, p>>].pc = "off"
  PROVE  Answers(k)'
  BY DEF Answers, LocOwes, Owes, Bare, Adopting

\* a worker of the job moves
LEMMA AnswersWorks ==
  ASSUME Steady, ConstantsOK, AnswerInv, [Next]_vars, NEW j \in Provisions, NEW o \in Owners,
         Work(j, o)
  PROVE  Answers(j)'
  <1> DEFINE l == loc[<<j, o>>]
  <1>1. /\ j \in Jobs /\ UidInv /\ JobOK(j) /\ JobOwes(j) /\ l \in Local
        /\ job \in [Jobs -> {"new", "setpw"} \cup Queued \cup Verdicts]
        /\ \A p \in Owners : LocOwes(j, p)
    BY Memory DEF AnswerInv, MadeInv, Answers, Jobs, UidInv, TypeOK
  <1>2. Ready(j, o) /\ lease[j] = o /\ job[j] \in {"create", "reuse"}
    BY <1>1, AtWork DEF LocOwes, Ready
  <1>3. Owes(j, loc[<<j, o>>])'
    BY <1>2, WorkOwes
  <1>4. \E m \in Local : Become(j, o, m)
    BY <1>1, WorkCalm, EnterIs DEF Calm, AnswerInv
  <1>5. ASSUME NEW p \in Owners, p # o PROVE loc'[<<j, p>>].pc = "off"
    <2>1. loc'[<<j, p>>] = loc[<<j, p>>]
      BY <1>1, <1>4, <1>5, OthersStay
    <2> QED BY <1>1, <1>2, <1>5, <2>1 DEF LocOwes
  <1>6. CASE End(j, o)
    <2>1. /\ l.pc = "end" /\ job'[j] = l.out /\ By(j)' = By(j) /\ loc'[<<j, o>>] = Off
      BY <1>1, <1>6, NextIs DEF End, At, files, By
    <2>2. l.out \in Verdicts \cup {""}
      BY <1>1 DEF Local
    <2>3. l.out = "FAIL" => By(j) = {}
      BY <1>2, <2>1 DEF Ready, Owes
    <2>4. JobOwes(j)'
      BY <2>1, <2>2, <2>3 DEF JobOwes, Verdicts
    <2>5. \A p \in Owners : loc'[<<j, p>>].pc = "off"
      BY <1>5, <2>1, OffIs
    <2> QED BY <2>4, <2>5, AnswersIdle
  <1>7. CASE UNCHANGED <<job, lease>>
    <2>1. job[j] = "reuse" => l.pc \in Adopting /\ By(j) = {}
      BY <1>1 DEF LocOwes, JobOwes
    <2>2. job[j] = "reuse" => loc'[<<j, o>>].pc \in Adopting /\ By(j)' = {}
      BY <1>1, <2>1, AdoptingStays DEF By
    <2>3. JobOwes(j)'
      BY <1>2, <1>7, <2>2 DEF JobOwes
    <2>4. LocOwes(j, o)'
      BY <1>2, <1>3, <1>7, <2>2 DEF LocOwes
    <2>5. ASSUME NEW p \in Owners, p # o PROVE LocOwes(j, p)'
      BY <1>5, <2>5 DEF LocOwes, Owes, Bare, Adopting
    <2> QED BY <2>3, <2>4, <2>5 DEF Answers
  <1> QED BY <1>6, <1>7, JobAndLease

\* a job is taken, by the only worker it has then
LEMMA AnswersTaken ==
  ASSUME Steady, ConstantsOK, AnswerInv, NEW j \in Provisions, NEW o \in Owners, Take(j, o)
  PROVE  Answers(j)'
  <1>1. /\ j \in Jobs /\ UidInv /\ JobOwes(j) /\ None \notin Owners
        /\ job \in [Jobs -> {"new", "setpw"} \cup Queued \cup Verdicts]
        /\ saved \in [Jobs -> Saved] /\ lease \in [Jobs -> Owners \cup {None}]
        /\ \A p \in Owners : LocOwes(j, p)
    BY DEF AnswerInv, Answers, Jobs, UidInv, TypeOK, ConstantsOK
  <1>2. \A p \in Owners : loc[<<j, p>>].pc = "off"
    <2>1. lease[j] = None \/ loc[<<j, lease[j]>>].pc = "off"
      BY DEF Take, Fault, Steady
    <2> QED BY <1>1, <2>1 DEF LocOwes
  <1>3. PICK m \in Local :
          /\ Become(j, o, m) /\ m.done = saved[j].done
          /\ m.pc \in {"check", "pod", "krb", "home", "delete", "judge"}
          /\ job[j] = "reuse" => m.pc = "pod"
    BY <1>1, TakeIs
  <1>4. /\ job[j] \in Queued /\ job' = job /\ By(j)' = By(j)
        /\ lease' = [lease EXCEPT ![j] = o]
    BY DEF Take, files, orders, By
  <1>5. loc'[<<j, o>>] = m /\ \A p \in Owners : p # o => loc'[<<j, p>>] = loc[<<j, p>>]
    BY <1>1, <1>3, OthersStay
  <1>6. job[j] \in {"create", "reuse"} /\ lease'[j] = o
    BY <1>1, <1>4 DEF Queued, JobOwes
  <1>7. m.pc = "pod" => job[j] = "reuse" \/ "krb" \in saved[j].done
    <2> DEFINE s == saved[j]
    <2>1. PICK q : q = (CASE job[j] = "revoke" /\ s.done = {} -> "check"
                          [] job[j] = "reuse"               -> "pod"
                          [] OTHER                          -> FirstStep(s.done))
      OBVIOUS
    <2>2. q = "pod" => job[j] = "reuse" \/ "krb" \in s.done
      BY <2>1 DEF FirstStep
    <2>3. PICK r : r = s
      OBVIOUS
    <2>4. PICK x : x = [Off EXCEPT !.done = r.done, !.uid = r.uid, !.mk = r.mk, !.made = r.made,
                                   !.pc = q]
      OBVIOUS
    <2>5. x.pc = q
      BY <2>4, OffIs DEF Local
    <2>6. Become(j, o, x)
      BY <2>1, <2>3, <2>4 DEF Take, Become
    <2>7. m = x
      BY <1>1, <1>3, <2>6, NextIs
    <2> QED BY <2>2, <2>5, <2>7
  <1>8. JobOwes(j)'
    BY <1>1, <1>4 DEF JobOwes
  <1>9. Owes(j, m)'
    <2>1. m.pc = "pod" /\ "krb" \notin m.done => By(j)' = {}
      BY <1>1, <1>3, <1>4, <1>7 DEF JobOwes
    <2> QED BY <1>3, <2>1 DEF Owes, Bare
  <1>10. LocOwes(j, o)'
    BY <1>3, <1>4, <1>5, <1>6, <1>9 DEF LocOwes, Owes, Adopting
  <1>11. ASSUME NEW p \in Owners, p # o PROVE LocOwes(j, p)'
    BY <1>2, <1>5, <1>11 DEF LocOwes, Owes, Bare, Adopting
  <1> QED BY <1>8, <1>10, <1>11 DEF Answers

\* a job is registered, or its account adopted
LEMMA AnswersRegistered ==
  ASSUME ConstantsOK, AnswerInv, NEW j \in Provisions, RegisterProvision(j) \/ AdoptAccount(j)
  PROVE  Answers(j)'
  <1>1. /\ j \in Jobs /\ JobOwes(j) /\ \A p \in Owners : LocOwes(j, p)
        /\ job \in [Jobs -> {"new", "setpw"} \cup Queued \cup Verdicts]
    BY DEF AnswerInv, Answers, Jobs, UidInv, TypeOK
  <1>2. /\ job[j] \in {"new", "setpw"} /\ job'[j] \in {"setpw", "create", "reuse"}
        /\ By(j)' = By(j) /\ loc' = loc
    BY <1>1 DEF RegisterProvision, AdoptAccount, files, By
  <1>3. JobOwes(j)'
    BY <1>1, <1>2 DEF JobOwes
  <1>4. \A p \in Owners : loc'[<<j, p>>].pc = "off"
    BY <1>1, <1>2 DEF LocOwes
  <1> QED BY <1>3, <1>4, AnswersIdle

LEMMA AnswerStep ==
  ASSUME Steady, ConstantsOK, AnswerInv, [Next]_vars, NEW k \in Provisions
  PROVE  Answers(k)'
  <1>0. /\ k \in Jobs /\ UidInv /\ TidyInv /\ Answers(k)
        /\ job \in [Jobs -> {"new", "setpw"} \cup Queued \cup Verdicts]
        /\ Provisions \cap Revokes = {}
    BY DEF Jobs, AnswerInv, UidInv, TypeOK, ConstantsOK
  <1>1. ASSUME NEW j \in Jobs, NEW o \in Owners, Work(j, o) PROVE Answers(k)'
    <2>1. CASE k = j
      BY <1>1, <2>1, AnswersWorks
    <2>2. CASE k # j
      <3>1. /\ \A p \in Owners : loc'[<<k, p>>] = loc[<<k, p>>]
            /\ job'[k] = job[k] /\ lease'[k] = lease[k]
        BY <1>0, <1>1, <2>2, OtherJobs, OthersKeepTheirs
      <3>2. By(k)' \subseteq By(k)
        BY <1>0, <3>1, OtherLines
      <3> QED BY <1>0, <3>1, <3>2, AnswersStay
    <2> QED BY <2>1, <2>2
  <1>2. ASSUME NEW j \in Jobs, NEW o \in Owners, Take(j, o) PROVE Answers(k)'
    <2>1. CASE k = j
      BY <1>2, <2>1, AnswersTaken
    <2>2. CASE k # j
      <3>1. PICK m \in Local : Become(j, o, m)
        BY <1>0, <1>2, TakeIs
      <3>2. \A p \in Owners : loc'[<<k, p>>] = loc[<<k, p>>]
        BY <1>0, <2>2, <3>1, OtherStays
      <3>3. job' = job /\ passwd' = passwd /\ lease' = [lease EXCEPT ![j] = o]
        BY <1>2 DEF Take, files, orders
      <3>4. lease'[k] = lease[k] /\ By(k)' = By(k)
        BY <1>0, <2>2, <3>3 DEF UidInv, TypeOK, By
      <3> QED BY <1>0, <3>2, <3>3, <3>4, AnswersStay
    <2> QED BY <2>1, <2>2
  <1>3. ASSUME job'[k] = job[k], passwd' = passwd, lease' = lease,
               \A p \in Owners : loc'[<<k, p>>] = loc[<<k, p>>] \/ loc'[<<k, p>>] = Off
        PROVE  Answers(k)'
    <2>1. By(k)' = By(k)
      BY <1>3 DEF By
    <2> QED BY <1>0, <1>3, <2>1, AnswersStay
  <1>4. ASSUME NEW o \in Owners, Crash(o) PROVE Answers(k)'
    <2>1. job' = job /\ passwd' = passwd /\ lease' = lease
      BY <1>4 DEF Crash, files, jobctl, orders
    <2>2. \A p \in Owners : loc'[<<k, p>>] = loc[<<k, p>>] \/ loc'[<<k, p>>] = Off
      BY <1>0, <1>4 DEF Crash, Workers
    <2> QED BY <1>3, <2>1, <2>2
  <1>5. ASSUME NEW j \in Provisions, RegisterProvision(j) \/ AdoptAccount(j) PROVE Answers(k)'
    <2>1. CASE j = k
      BY <1>5, <2>1, AnswersRegistered
    <2>2. CASE j # k
      <3>1. job'[k] = job[k]
        BY <1>0, <1>5, <2>2 DEF RegisterProvision, AdoptAccount
      <3>2. passwd' = passwd /\ lease' = lease /\ loc' = loc
        BY <1>5 DEF RegisterProvision, AdoptAccount, files, jobctl
      <3> QED BY <1>3, <3>1, <3>2
    <2> QED BY <2>1, <2>2
  <1>6. ASSUME NEW j \in Revokes, RegisterRevoke(j) PROVE Answers(k)'
    <2>1. job'[k] = job[k]
      BY <1>0, <1>6 DEF RegisterRevoke
    <2>2. passwd' = passwd /\ lease' = lease /\ loc' = loc
      BY <1>6 DEF RegisterRevoke, files, jobctl
    <2> QED BY <1>3, <2>1, <2>2
  <1>7. ASSUME NEW j, RemovePod(j) PROVE Answers(k)'
    BY <1>3, <1>7 DEF RemovePod, files, jobctl, orders
  <1>8. CASE UNCHANGED vars
    BY <1>3, <1>8 DEF vars, files, jobctl, orders
  <1> QED BY <1>1, <1>2, <1>4, <1>5, <1>6, <1>7, <1>8 DEF Next, Idle

\* A provision job that ended with FAIL left no account of its own: the account
\* step rolled back what it wrote, whatever failed and crashed on the way, and
\* once the principal is recorded the compensation took the account back.  The
\* three excluded errors are those README 4.6 and 4.7 name: a lost row of
\* job_control, a rollback that fails, and a worker taken for dead.
THEOREM FailedLeavesNothing == ASSUME Steady PROVE Spec => []FailureLeavesNothing
  <1>1. Init => AnswerInv
    <2>1. ASSUME Init, NEW j \in Provisions PROVE Answers(j)
      <3>1. By(j) = {} /\ job[j] = "new" /\ j \in Jobs
        BY <2>1 DEF Init, By, Jobs
      <3>2. \A p \in Owners : loc[<<j, p>>] = Off
        BY <2>1, <3>1 DEF Init, Workers
      <3>3. JobOwes(j)
        BY <3>1 DEF JobOwes
      <3>4. \A p \in Owners : loc[<<j, p>>].pc = "off"
        <4>1. Off.pc = "off"
          BY DEF Off
        <4> QED BY <3>2, <4>1
      <3>5. \A p \in Owners : LocOwes(j, p)
        BY <3>1, <3>4 DEF LocOwes, Owes
      <3> QED BY <3>3, <3>5 DEF Answers
    <2> QED BY <2>1, ConstantsOK, OutcomeStart DEF AnswerInv, OutcomeInv
  <1>2. AnswerInv /\ [Next]_vars => AnswerInv'
    BY ConstantsOK, StepOK, LineStep, TidyStep, MadeStep, AnswerStep DEF AnswerInv
  <1>3. AnswerInv => FailureLeavesNothing
    <2>1. ASSUME AnswerInv, NEW e \in passwd PROVE job[e.by] # "FAIL"
      <3>1. e.by \in Provisions /\ e \in By(e.by)
        BY <2>1 DEF AnswerInv, UidInv, TypeOK, Line, By
      <3> QED BY <2>1, <3>1 DEF AnswerInv, Answers, JobOwes
    <2> QED BY <2>1 DEF FailureLeavesNothing
  <1> QED BY <1>1, <1>2, <1>3, PTL DEF Spec
=============================================================================
