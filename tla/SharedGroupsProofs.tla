------------------------- MODULE SharedGroupsProofs -------------------------
(***************************************************************************)
(* Proofs about SharedGroups, for any jobs, groups, users and loops.       *)
(*                                                                         *)
(* TypeOK is not inductive: what a run records as flushed must not be      *)
(* ahead of the file, and the gids that the NAS learns are in the range    *)
(* only because nobody is a member of a group that is not there.  Each of  *)
(* the conjuncts of TypeInv is about one part of the state, and an action  *)
(* is shown to keep those that it disturbs.  What the flush lock, a        *)
(* recorded flush and a job that ended well promise each has a part of its *)
(* own below, relative to TypeInv.                                         *)
(***************************************************************************)
EXTENDS SharedGroups, TLAPS

\* A group that is not there has no members.
Filled(table) == \A g \in Names : table[g].members # {} => table[g].gid \in Gids

LedgerInv == /\ groups \in [Names -> Group] /\ Filled(groups)
             /\ mtime \in Nat /\ issued \in 0..SharedMax
AdInv     == ad \in [Names -> Group] /\ Filled(ad)
NasInv    == nas \in [Users -> SUBSET Gids]
CtxInv    == /\ ctx \in [Users -> SUBSET SUBSET Gids]
             /\ \A u \in Users : \E S \in SUBSET Gids : ctx[u] \subseteq {S}
\* A run works with an mtime that the file had.
RecInv    == /\ rec \in [Loops \cup {Cron} -> Run]
             /\ \A r \in Loops \cup {Cron} : rec[r].m <= mtime
FlushInv  == flushed \in 0..mtime /\ lock \in Loops \cup {0}
\* A job that is about to write a line or a group has a gid for it, and a join
\* has it as long as it works, for it may be back at one of the two.
Working(pc) == pc \notin Final \cup {"new", "start"}
LocOK(j, l) == /\ l \in Local
               /\ (KindOf[j] = "join" /\ Working(l.pc)) \/ l.pc \in {"line", "group"}
                  => l.gid \in Gids
LocInv    == loc \in [Jobs -> Local] /\ \A j \in Jobs : LocOK(j, loc[j])
NamesInv  == idmap \subseteq Names /\ sending \subseteq Names
CountsInv == counts \in [crashes: 0..MaxCrashes, faults: 0..MaxFaults]

TypeInv == /\ mix \in Mixes
           /\ LedgerInv /\ AdInv /\ NasInv /\ CtxInv /\ RecInv /\ FlushInv
           /\ LocInv /\ NamesInv /\ CountsInv

\* TypeInv has all that TypeOK says.
LEMMA TypeInvTypeOK == TypeInv => TypeOK
BY DEF TypeInv, TypeOK, LedgerInv, AdInv, NasInv, CtxInv, RecInv, FlushInv,
       LocInv, NamesInv, CountsInv

-----------------------------------------------------------------------------
(* Operators.                                                              *)

\* The gids of a user's groups are in the range.
LEMMA GidsInRange ==
  ASSUME NEW table \in [Names -> Group], Filled(table), NEW u
  PROVE  GidsIn(table, u) \in SUBSET Gids
BY DEF GidsIn, Filled

\* A job's memory is a worker's memory.
LEMMA JobsMix == ASSUME ConstantsOK, TypeInv PROVE mix \subseteq Jobs
BY DEF ConstantsOK, TypeInv

\* Setting one job's memory to a fit one keeps LocInv.
LEMMA SetOK ==
  ASSUME LocInv, NEW j \in Jobs, NEW l, LocOK(j, l), Set(j, l)
  PROVE  LocInv'
BY DEF LocInv, LocOK, Set

\* The memory of a worker that has not begun.
LEMMA BlankOK == ASSUME ConstantsOK PROVE Blank \in Local
BY DEF ConstantsOK, Blank, Local

\* A worker that has not begun its step, or has ended.
LEMMA BlankFits ==
  ASSUME ConstantsOK, NEW j \in Jobs, NEW pc \in Final \cup {"new", "start"},
         NEW next \in {"line", "group", "trigger"}
  PROVE  /\ LocOK(j, [Blank EXCEPT !.pc = pc])
         /\ LocOK(j, [Blank EXCEPT !.pc = pc, !.next = next])
<1>1. [Blank EXCEPT !.pc = pc] \in Local
      /\ [Blank EXCEPT !.pc = pc, !.next = next] \in Local
  BY BlankOK DEF Local, Final
<1>2. [Blank EXCEPT !.pc = pc].pc = pc /\ [Blank EXCEPT !.pc = pc, !.next = next].pc = pc
  BY DEF Blank
<1>3. ~Working(pc) /\ pc \notin {"line", "group"} BY DEF Working, Final
<1> QED BY <1>1, <1>2, <1>3 DEF LocOK

\* An attempt more, from where the step begins, or the end.
LEMMA AgainOK ==
  ASSUME ConstantsOK, LocInv, NEW j \in Jobs, Again(j),
         loc[j].pc \notin Final \cup {"new"}
  PROVE  LocInv'
<1>1. /\ loc[j].tries \in 0..MaxTries /\ MaxTries \in Nat
      /\ loc[j] \in Local /\ LocOK(j, loc[j])
  BY DEF ConstantsOK, LocInv, Local
<1>2. CASE loc[j].tries < MaxTries
  <2> DEFINE l == [loc[j] EXCEPT !.pc = Step(j), !.left = {}, !.tries = @ + 1]
  <2>1. loc[j].tries + 1 \in 0..MaxTries BY <1>1, <1>2
  <2>2. Step(j) \in {"start", "line", "group", "trigger"}
    BY <1>1 DEF Step, Local
  <2>3. l \in Local BY <1>1, <2>1, <2>2 DEF Local
  <2>4. l.pc = Step(j) /\ l.gid = loc[j].gid BY <1>1 DEF Local
  <2>5. Step(j) # "start" =>
          KindOf[j] = "join" /\ loc[j].pc # "start" /\ Step(j) = loc[j].next
    BY DEF Step
  <2>6. Again(j) => Set(j, l) BY <1>2 DEF Again
  <2> HIDE DEF l
  <2>7. CASE Step(j) = "start"
    <3>1. LocOK(j, l) BY <2>3, <2>4, <2>7 DEF LocOK, Working
    <3> QED BY <2>6, <3>1, SetOK
  <2>8. CASE Step(j) # "start" /\ loc[j].pc \notin Final \cup {"new"}
    <3>1. LocOK(j, l) BY <1>1, <2>3, <2>4, <2>5, <2>8 DEF LocOK, Working
    <3> QED BY <2>6, <3>1, SetOK
  <2> QED BY <2>7, <2>8
<1>3. CASE ~(loc[j].tries < MaxTries)
  <2>1. LocOK(j, [Blank EXCEPT !.pc = "fail"]) BY BlankFits DEF Final
  <2> QED BY <2>1, <1>3, SetOK DEF Again, End
<1> QED BY <1>2, <1>3

\* The end of a job.
LEMMA EndOK ==
  ASSUME ConstantsOK, LocInv, NEW j \in Jobs, NEW v \in Final, End(j, v)
  PROVE  LocInv'
<1>1. LocOK(j, [Blank EXCEPT !.pc = v]) BY BlankFits
<1> QED BY <1>1, SetOK DEF End

\* Counting a failed call stays within the bound.
LEMMA FailingOK == ASSUME ConstantsOK, CountsInv, Failing \/ Well PROVE CountsInv'
BY DEF ConstantsOK, CountsInv, Failing, Well

\* A line written with a gid of the range keeps the ledger in order, and
\* what a run or a flush has seen is still not ahead of the file.
LEMMA WriteOK ==
  ASSUME LedgerInv, RecInv, FlushInv, NEW g \in Names, NEW gid \in Gids,
         NEW members \in SUBSET Users, Write(g, gid, members),
         issued' \in 0..SharedMax, UNCHANGED flush, SharedMax \in Nat
  PROVE  LedgerInv' /\ RecInv' /\ FlushInv'
<1>1. gid \in 0..SharedMax BY DEF Gids
<1>2. groups' \in [Names -> Group]
  BY <1>1 DEF Write, LedgerInv, Group
<1>3. Filled(groups') BY <1>1 DEF Write, LedgerInv, Filled, Group
<1>4. mtime' = mtime + 1 /\ mtime \in Nat BY DEF Write, LedgerInv
<1>5. \A r \in Loops \cup {Cron} : rec[r].m \in Nat BY DEF RecInv, Run
<1>6. RecInv' BY <1>4, <1>5 DEF RecInv, flush
<1>7. FlushInv' BY <1>4 DEF FlushInv, flush
<1> QED BY <1>2, <1>3, <1>4, <1>6, <1>7 DEF LedgerInv

\* The number that is recorded as given out is in the range.
LEMMA IssueOK ==
  ASSUME LedgerInv, NEW gid \in Gids, Issue(gid), SharedMax \in Nat
  PROVE  issued' \in 0..SharedMax
BY DEF LedgerInv, Issue, Gids

\* A line that may be written has its gid in the range.
LEMMA LineGidOK ==
  ASSUME NEW j \in Jobs, ~Clash(j)
  PROVE  LineGid(j) \in Gids
BY DEF Clash

\* What an action leaves alone stays in order.
LEMMA Keep ==
  ASSUME TypeInv
  PROVE  /\ UNCHANGED mix => mix' \in Mixes
         /\ UNCHANGED ledger => LedgerInv'
         /\ UNCHANGED ad => AdInv'
         /\ UNCHANGED nas => NasInv'
         /\ UNCHANGED ctx => CtxInv'
         /\ UNCHANGED <<mtime, rec>> => RecInv'
         /\ UNCHANGED <<mtime, flushed, lock>> => FlushInv'
         /\ UNCHANGED loc => LocInv'
         /\ UNCHANGED names => NamesInv'
         /\ UNCHANGED counts => CountsInv'
BY DEF TypeInv, ledger, names, LedgerInv, AdInv, NasInv, CtxInv, RecInv,
       FlushInv, LocInv, NamesInv, CountsInv

\* A run that is given its next place, with an mtime that the file had.
LEMMA SetRunOK ==
  ASSUME RecInv, NEW r \in Loops \cup {Cron}, NEW x \in Run, x.m <= mtime,
         SetRun(r, x), UNCHANGED mtime
  PROVE  RecInv'
BY DEF RecInv, SetRun

\* A run that rests.
LEMMA RestOK == ASSUME NEW b \in BOOLEAN
                PROVE  Rest \in Run /\ [Rest EXCEPT !.late = b] \in Run
BY DEF Rest, Run

\* A run that rests, or waits for its next round, has seen no mtime.
LEMMA IdleOK ==
  ASSUME mtime \in Nat
  PROVE  /\ Rest \in Run /\ Rest.m <= mtime
         /\ [Rest EXCEPT !.pc = "idle"] \in Run
         /\ [Rest EXCEPT !.pc = "idle"].m <= mtime
<1>1. Rest \in Run /\ Rest.m = 0 BY DEF Rest, Run
<1>2. [Rest EXCEPT !.pc = "idle"] \in Run /\ [Rest EXCEPT !.pc = "idle"].m = 0
  BY <1>1 DEF Run
<1> QED BY <1>1, <1>2

\* A run that returns.
LEMMA BackOK ==
  ASSUME RecInv, mtime \in Nat, NEW r \in Loops \cup {Cron}, NEW b \in BOOLEAN,
         Back(r, b), UNCHANGED mtime
  PROVE  RecInv'
<1> DEFINE pc == IF r = Cron THEN "idmap" ELSE IF b THEN "release" ELSE "idle"
           x  == [Rest EXCEPT !.late = rec[r].late, !.pc = pc]
<1>1. rec[r].late \in BOOLEAN BY DEF RecInv, Run
<1>2. Rest \in Run /\ Rest.m = 0 BY DEF Rest, Run
<1>3. x \in Run BY <1>1, <1>2 DEF Run
<1>4. x.m <= mtime BY <1>2 DEF Run
<1>5. SetRun(r, x) BY DEF Back
<1> HIDE DEF x
<1> QED BY <1>3, <1>4, <1>5, SetRunOK

-----------------------------------------------------------------------------
(* Jobs.                                                                   *)

\* A job that is registered starts.
LEMMA RegisterOK ==
  ASSUME ConstantsOK, TypeInv, NEW j \in Jobs, Register(j) PROVE TypeInv'
<1>1. loc[j] \in Local /\ loc[j].pc = "new" /\ LocInv
  BY DEF TypeInv, LocInv, Register, At
<1>2. LocOK(j, [loc[j] EXCEPT !.pc = "start"]) BY <1>1 DEF LocOK, Local, Working
<1>3. LocInv' BY <1>1, <1>2, SetOK DEF Register, Go
<1> QED BY <1>3, Keep DEF Register, Well, TypeInv, ledger, onNas, flush

\* The line of a new group, or of one that is there, or a refusal.
LEMMA CreateLineOK ==
  ASSUME ConstantsOK, TypeInv, NEW j \in Jobs, CreateLine(j) PROVE TypeInv'
<1>0. /\ SharedMax \in Nat /\ MembersOf[j] \in SUBSET Users /\ GroupOf[j] \in Names
      /\ "fail" \in Final
  BY DEF ConstantsOK, Final
<1>1. /\ LedgerInv /\ RecInv /\ FlushInv /\ LocInv /\ CountsInv
      /\ loc[j] \in Local /\ LocOK(j, loc[j])
  BY DEF TypeInv, LocInv
<1>2. UNCHANGED <<mix, ad, onNas, flush, names>> BY DEF CreateLine
<1>5. loc[j].pc = "start" /\ loc[j].pc \notin Final \cup {"new"}
  BY DEF CreateLine, At, Final
<1>3. CASE Clash(j)
  <2>1. End(j, "fail") /\ Well /\ UNCHANGED ledger BY <1>3 DEF CreateLine
  <2>2. LocInv' BY <1>0, <1>1, <2>1, EndOK
  <2> QED BY <1>2, <2>1, <2>2, Keep DEF TypeInv, Well, ledger, onNas, flush
<1>4. CASE ~Clash(j)
  <2> DEFINE gid == LineGid(j)
  <2>0. gid \in Gids BY <1>4, LineGidOK
  <2> HIDE DEF gid
  <2>1. CASE /\ Issue(gid) /\ Write(GroupOf[j], gid, MembersOf[j]) /\ Well
             /\ Set(j, [loc[j] EXCEPT !.pc = "group", !.gid = gid])
    <3>1. LedgerInv' /\ RecInv' /\ FlushInv'
      BY <1>0, <1>1, <1>2, <2>0, <2>1, IssueOK, WriteOK
    <3>2. LocOK(j, [loc[j] EXCEPT !.pc = "group", !.gid = gid])
      <4>1. gid \in 0..SharedMax BY <1>0, <2>0 DEF Gids
      <4> QED BY <1>0, <1>1, <2>0, <4>1 DEF LocOK, Local
    <3>3. LocInv' BY <1>1, <2>1, <3>2, SetOK
    <3> QED BY <1>2, <2>1, <3>1, <3>3, Keep DEF TypeInv, Well, onNas
  <2>2. CASE /\ Failing /\ Again(j) /\ UNCHANGED <<groups, mtime>>
             /\ issued' = issued \/ Issue(gid)
    <3>1. LedgerInv' BY <1>0, <1>1, <2>0, <2>2, IssueOK DEF LedgerInv
    <3>2. LocInv' /\ CountsInv' BY <1>1, <1>5, <2>2, AgainOK, FailingOK
    <3> QED BY <1>2, <2>2, <3>1, <3>2, Keep DEF TypeInv, onNas, flush
  <2> QED BY <1>4, <2>1, <2>2 DEF CreateLine, gid
<1> QED BY <1>3, <1>4

\* The empty line of a group that a provision job asks for.
LEMMA JoinResolveOK ==
  ASSUME ConstantsOK, TypeInv, NEW j \in Jobs, JoinResolve(j) PROVE TypeInv'
<1>0. /\ SharedMax \in Nat /\ MaxTries \in Nat /\ GroupOf[j] \in Names
      /\ "fail" \in Final
  BY DEF ConstantsOK, Final
<1>1. /\ LedgerInv /\ RecInv /\ FlushInv /\ LocInv /\ CountsInv /\ NamesInv
      /\ loc[j] \in Local /\ LocOK(j, loc[j])
  BY DEF TypeInv, LocInv
<1>2. UNCHANGED <<mix, ad, onNas, flush, idmap>> BY DEF JoinResolve
<1>5. loc[j].pc = "start" /\ loc[j].pc \notin Final \cup {"new"}
  BY DEF JoinResolve, At, Final
<1> DEFINE g   == GroupOf[j]
           gid == IF GidOf[j] # 0 THEN GidOf[j] ELSE LineGid(j)
<1>3. CASE gid \notin Gids
  <2>1. End(j, "fail") /\ Well /\ UNCHANGED <<ledger, sending>>
    BY <1>3 DEF JoinResolve
  <2>2. LocInv' BY <1>0, <1>1, <2>1, EndOK
  <2> QED BY <1>2, <2>1, <2>2, Keep DEF TypeInv, Well, ledger, onNas, flush, names
<1>4. CASE gid \in Gids
  <2>0. \/ /\ IF groups[g].gid # 0 \/ GidOf[j] # 0 THEN UNCHANGED ledger
              ELSE Issue(gid) /\ Write(g, gid, {})
           /\ sending' = IF GidOf[j] = 0 THEN sending \cup {g} ELSE sending
           /\ Set(j, [loc[j] EXCEPT !.pc = loc[j].next, !.gid = gid, !.tries = 0])
           /\ Well
        \/ /\ GidOf[j] = 0 /\ Failing /\ Again(j)
           /\ UNCHANGED <<groups, mtime, sending>>
           /\ issued' = issued \/ Issue(gid)
    BY <1>4 DEF JoinResolve
  <2> HIDE DEF gid
  <2>1. CASE /\ IF groups[g].gid # 0 \/ GidOf[j] # 0 THEN UNCHANGED ledger
                ELSE Issue(gid) /\ Write(g, gid, {})
             /\ sending' = IF GidOf[j] = 0 THEN sending \cup {g} ELSE sending
             /\ Set(j, [loc[j] EXCEPT !.pc = loc[j].next, !.gid = gid, !.tries = 0])
             /\ Well
    <3>1. LedgerInv' /\ RecInv' /\ FlushInv'
      <4>1. CASE UNCHANGED ledger
        BY <1>2, <4>1, Keep DEF ledger, flush
      <4>2. CASE Issue(gid) /\ Write(g, gid, {})
        <5>1. {} \in SUBSET Users OBVIOUS
        <5> QED BY <1>0, <1>1, <1>2, <1>4, <4>2, <5>1, IssueOK, WriteOK
      <4> QED BY <2>1, <4>1, <4>2
    <3>2. LocOK(j, [loc[j] EXCEPT !.pc = loc[j].next, !.gid = gid, !.tries = 0])
      <4>1. gid \in 0..SharedMax /\ 0 \in 0..MaxTries BY <1>0, <1>4 DEF Gids
      <4>2. loc[j].next \in {"line", "group", "trigger"} BY <1>1 DEF Local
      <4>3. [loc[j] EXCEPT !.pc = loc[j].next, !.gid = gid, !.tries = 0] \in Local
        BY <1>1, <4>1, <4>2 DEF Local
      <4>4. [loc[j] EXCEPT !.pc = loc[j].next, !.gid = gid, !.tries = 0].gid = gid
        BY <1>1 DEF Local
      <4> QED BY <1>4, <4>3, <4>4 DEF LocOK
    <3>3. LocInv' BY <1>1, <2>1, <3>2, SetOK
    <3>4. NamesInv' BY <1>0, <1>1, <1>2, <2>1 DEF NamesInv
    <3> QED BY <1>2, <2>1, <3>1, <3>3, <3>4, Keep DEF TypeInv, Well, onNas
  <2>2. CASE /\ GidOf[j] = 0 /\ Failing /\ Again(j)
             /\ UNCHANGED <<groups, mtime, sending>>
             /\ issued' = issued \/ Issue(gid)
    <3>1. LedgerInv' BY <1>0, <1>1, <1>4, <2>2, IssueOK DEF LedgerInv
    <3>2. LocInv' /\ CountsInv' BY <1>1, <1>5, <2>2, AgainOK, FailingOK
    <3> QED BY <1>2, <2>2, <3>1, <3>2, Keep DEF TypeInv, onNas, flush, names
  <2> QED BY <2>0, <2>1, <2>2
<1> QED BY <1>3, <1>4

\* The user joins the line with the gid of the job.
LEMMA JoinLineOK ==
  ASSUME ConstantsOK, TypeInv, NEW j \in Jobs, JoinLine(j) PROVE TypeInv'
<1>0. /\ SharedMax \in Nat /\ MaxTries \in Nat /\ MembersOf[j] \in SUBSET Users
      /\ GroupOf[j] \in Names /\ "fail" \in Final
  BY DEF ConstantsOK, Final
<1>1. /\ LedgerInv /\ RecInv /\ FlushInv /\ LocInv /\ CountsInv
      /\ loc[j] \in Local /\ loc[j].gid \in Gids /\ loc[j].pc = "line"
  BY DEF TypeInv, LocInv, LocOK, JoinLine, At
<1>2. UNCHANGED <<mix, ad, onNas, flush, names>> BY DEF JoinLine
<1> DEFINE g   == GroupOf[j]
           gid == loc[j].gid
           of  == {n \in Names : groups[n].gid = gid}
           joined == [n \in Names |-> IF n \in of
                        THEN [groups[n] EXCEPT !.members = @ \cup MembersOf[j]]
                        ELSE groups[n]]
<1>3. CASE /\ mtime' = mtime + 1
           /\ IF of # {}
              THEN groups' = joined /\ UNCHANGED issued
              ELSE /\ groups' = [groups EXCEPT ![g] =
                                   [gid |-> gid, members |-> MembersOf[j]]]
                   /\ Issue(gid)
           /\ Set(j, [loc[j] EXCEPT !.pc = "group", !.next = "group", !.tries = 0])
           /\ Well
  <2>1. LedgerInv' /\ RecInv' /\ FlushInv'
    <3>1. CASE of # {}
      <4>1. groups' = joined /\ UNCHANGED issued /\ mtime' = mtime + 1
        BY <1>3, <3>1
      <4>2. \A n \in Names : joined[n] \in Group
                             /\ (joined[n].members # {} => joined[n].gid \in Gids)
        <5> TAKE n \in Names
        <5>1. groups[n] \in Group /\ (groups[n].members # {} => groups[n].gid \in Gids)
          BY <1>1 DEF LedgerInv, Filled
        <5>2. CASE n \in of
          <6>1. joined[n] = [groups[n] EXCEPT !.members = @ \cup MembersOf[j]]
            BY <5>2
          <6>2. groups[n].gid = gid BY <5>2
          <6> HIDE DEF joined, of
          <6> QED BY <1>0, <1>1, <5>1, <6>1, <6>2 DEF Group
        <5>3. CASE n \notin of
          <6>1. joined[n] = groups[n] BY <5>3
          <6> QED BY <5>1, <6>1
        <5> QED BY <5>2, <5>3
      <4>3. groups' \in [Names -> Group] /\ Filled(groups')
        BY <4>1, <4>2 DEF Filled
      <4>4. \A r \in Loops \cup {Cron} : rec[r].m \in Nat BY <1>1 DEF RecInv, Run
      <4>5. LedgerInv' BY <1>1, <4>1, <4>3 DEF LedgerInv
      <4> HIDE DEF joined, of
      <4>6. mtime \in Nat /\ mtime' = mtime + 1 BY <1>1, <4>1 DEF LedgerInv
      <4>7. RecInv' BY <1>1, <1>2, <4>4, <4>6 DEF RecInv, flush
      <4>8. FlushInv' BY <1>1, <1>2, <4>6 DEF FlushInv, flush
      <4> QED BY <4>5, <4>7, <4>8
    <3>2. CASE of = {}
      <4>1. Write(g, gid, MembersOf[j]) /\ Issue(gid) BY <1>3, <3>2 DEF Write
      <4> QED BY <1>0, <1>1, <1>2, <4>1, IssueOK, WriteOK
    <3> QED BY <3>1, <3>2
  <2>2. LocOK(j, [loc[j] EXCEPT !.pc = "group", !.next = "group", !.tries = 0])
    <3>1. 0 \in 0..MaxTries BY <1>0
    <3> QED BY <1>1, <3>1 DEF LocOK, Local
  <2>3. LocInv' BY <1>1, <1>3, <2>2, SetOK
  <2> QED BY <1>2, <1>3, <2>1, <2>3, Keep DEF TypeInv, Well, onNas
<1>4. CASE /\ Failing /\ Again(j) /\ UNCHANGED <<groups, mtime>>
           /\ issued' = issued \/ (of = {} /\ Issue(gid))
  <2>1. LedgerInv' BY <1>0, <1>1, <1>4, IssueOK DEF LedgerInv
  <2>2. loc[j].pc \notin Final \cup {"new"} BY <1>1 DEF Final
  <2>3. LocInv' /\ CountsInv' BY <1>1, <1>4, <2>2, AgainOK, FailingOK
  <2> QED BY <1>2, <1>4, <2>1, <2>3, Keep DEF TypeInv, onNas, flush
<1> QED BY <1>3, <1>4 DEF JoinLine

\* What the AD keeps when a group gets its gid.
LEMMA AdGroupOK ==
  ASSUME ConstantsOK, TypeInv, NEW j \in Jobs, AdGroup(j) PROVE TypeInv'
<1>0. SharedMax \in Nat /\ GroupOf[j] \in Names BY DEF ConstantsOK
<1>1. /\ AdInv /\ LocInv /\ CountsInv
      /\ loc[j] \in Local /\ loc[j].gid \in Gids
      /\ loc[j].pc \notin Final \cup {"new"} /\ MembersOf[j] \in SUBSET Users
  BY DEF TypeInv, LocInv, LocOK, AdGroup, At, Final, ConstantsOK
<1>2. UNCHANGED <<mix, ledger, onNas, flush, names>> BY DEF AdGroup
<1>3. loc[j].gid \in 0..SharedMax BY <1>0, <1>1 DEF Gids
<1>4. ad' = [ad EXCEPT ![GroupOf[j]].gid = loc[j].gid] => AdInv'
  BY <1>1, <1>3 DEF AdInv, Filled, Group
<1>5. AdInv' BY <1>4, Keep DEF AdGroup
<1>6. LocInv'
  <2>1. LocOK(j, [loc[j] EXCEPT !.pc = "members", !.left = MembersOf[j]])
    BY <1>1 DEF LocOK, Local
  <2>2. Set(j, [loc[j] EXCEPT !.pc = "members", !.left = MembersOf[j]]) \/ Again(j)
    BY DEF AdGroup
  <2> QED BY <1>1, <2>1, <2>2, SetOK, AgainOK
<1>7. CountsInv' BY <1>1, FailingOK DEF AdGroup
<1> QED BY <1>2, <1>5, <1>6, <1>7, Keep DEF TypeInv, ledger, onNas, flush

\* A membership job has one user to bring in or out.
LEMMA MemberStartOK ==
  ASSUME ConstantsOK, TypeInv, NEW j \in Jobs, MemberStart(j) PROVE TypeInv'
<1>0. MembersOf[j] \in SUBSET Users /\ "fail" \in Final BY DEF ConstantsOK, Final
<1>1. LocInv /\ loc[j] \in Local /\ KindOf[j] # "join"
  BY DEF TypeInv, LocInv, MemberStart
<1>2. LocOK(j, [loc[j] EXCEPT !.pc = "members", !.left = MembersOf[j]])
  BY <1>0, <1>1 DEF LocOK, Local
<1>3. LocInv' BY <1>0, <1>1, <1>2, SetOK, EndOK DEF MemberStart
<1> QED BY <1>3, Keep DEF MemberStart, Well, TypeInv, ledger, onNas, flush

\* A command on the AD is about a member of the job, and a group that is there.
LEMMA AdMemberOK ==
  ASSUME ConstantsOK, TypeInv, NEW j \in Jobs, AdMember(j) PROVE TypeInv'
<1>0. SharedMax \in Nat /\ GroupOf[j] \in Names BY DEF ConstantsOK
<1>1. /\ AdInv /\ LocInv /\ CountsInv
      /\ loc[j] \in Local /\ loc[j].pc = "members" /\ LocOK(j, loc[j])
      /\ loc[j].pc \notin Final \cup {"new"}
  BY DEF TypeInv, LocInv, AdMember, At, Final
<1>2. UNCHANGED <<mix, ledger, onNas, flush, names>> BY DEF AdMember
<1> DEFINE g == GroupOf[j]
           Done(u) == ad' = [ad EXCEPT ![g].members =
                        IF KindOf[j] = "remove" THEN @ \ {u} ELSE @ \cup {u}]
<1>3. PICK u \in loc[j].left :
         \/ /\ ad[g].gid # 0 /\ Done(u) /\ Well
            /\ Set(j, [loc[j] EXCEPT !.left = @ \ {u}])
         \/ ad[g].gid = 0 /\ Again(j) /\ Well /\ UNCHANGED ad
         \/ ad[g].gid # 0 /\ (Done(u) \/ UNCHANGED ad) /\ Again(j) /\ Failing
  BY DEF AdMember
<1>4. u \in Users BY <1>1 DEF Local
<1>5. ad[g].gid # 0 /\ Done(u) => AdInv'
  <2> SUFFICES ASSUME ad[g].gid # 0, Done(u) PROVE AdInv' OBVIOUS
  <2>1. ad[g] \in Group /\ ad[g].gid \in Gids BY <1>0, <1>1 DEF AdInv, Group, Gids
  <2>2. PICK members \in SUBSET Users : ad' = [ad EXCEPT ![g].members = members]
    <3>1. CASE KindOf[j] = "remove"
      <4>1. ad[g].members \ {u} \in SUBSET Users BY <2>1 DEF Group
      <4> QED BY <3>1, <4>1
    <3>2. CASE KindOf[j] # "remove"
      <4>1. ad[g].members \cup {u} \in SUBSET Users BY <1>4, <2>1 DEF Group
      <4> QED BY <3>2, <4>1
    <3> QED BY <3>1, <3>2
  <2>3. ad' \in [Names -> Group] BY <1>1, <2>2 DEF AdInv, Group
  <2>4. Filled(ad') BY <1>0, <1>1, <2>1, <2>2 DEF AdInv, Filled, Group
  <2> QED BY <2>3, <2>4 DEF AdInv
<1>6. AdInv' BY <1>3, <1>5, Keep
<1>7. LocInv'
  <2>1. LocOK(j, [loc[j] EXCEPT !.left = @ \ {u}]) BY <1>1 DEF LocOK, Local
  <2> QED BY <1>1, <1>3, <2>1, SetOK, AgainOK
<1>8. CountsInv' BY <1>1, <1>3, FailingOK
<1> QED BY <1>2, <1>6, <1>7, <1>8, Keep DEF TypeInv, ledger, onNas, flush

\* When the AD is done the job ends, or goes on.
LEMMA AdMembersDoneOK ==
  ASSUME ConstantsOK, TypeInv, NEW j \in Jobs, AdMembersDone(j) PROVE TypeInv'
<1>0. GroupOf[j] \in Names /\ "ok" \in Final BY DEF ConstantsOK, Final
<1>1. /\ LocInv /\ NamesInv /\ loc[j] \in Local /\ LocOK(j, loc[j])
      /\ loc[j].pc = "members"
  BY DEF TypeInv, LocInv, AdMembersDone, At
<1>2. /\ LocOK(j, [loc[j] EXCEPT !.pc = "trigger", !.next = "trigger"])
      /\ LocOK(j, [loc[j] EXCEPT !.pc = "ledger"])
  BY <1>1 DEF LocOK, Local, Working, Final
<1>3. LocInv'
  <2>1. \/ End(j, "ok") \/ Go(j, "ledger")
        \/ Set(j, [loc[j] EXCEPT !.pc = "trigger", !.next = "trigger"])
    BY DEF AdMembersDone
  <2> QED BY <1>0, <1>1, <1>2, <2>1, SetOK, EndOK DEF Go
<1>4. NamesInv' BY <1>0, <1>1 DEF AdMembersDone, NamesInv
<1> QED BY <1>3, <1>4, Keep DEF AdMembersDone, Well, TypeInv, ledger, onNas, flush

\* A line keeps its gid when its members change.
LEMMA LedgerMemberOK ==
  ASSUME ConstantsOK, TypeInv, NEW j \in Jobs, LedgerMember(j) PROVE TypeInv'
<1>0. /\ SharedMax \in Nat /\ MembersOf[j] \in SUBSET Users /\ GroupOf[j] \in Names
  BY DEF ConstantsOK
<1>1. /\ LedgerInv /\ RecInv /\ FlushInv /\ LocInv /\ CountsInv
      /\ loc[j] \in Local /\ LocOK(j, loc[j]) /\ loc[j].pc = "ledger"
      /\ loc[j].pc \notin Final \cup {"new"}
  BY DEF TypeInv, LocInv, LedgerMember, At, Final
<1>2. UNCHANGED <<mix, ad, onNas, flush, names>> BY DEF LedgerMember
<1> DEFINE g       == GroupOf[j]
           members == IF KindOf[j] = "remove" THEN groups[g].members \ MembersOf[j]
                                              ELSE groups[g].members \cup MembersOf[j]
<1>3. CASE /\ IF groups[g].gid = 0 \/ members = groups[g].members
              THEN UNCHANGED ledger
              ELSE Write(g, groups[g].gid, members) /\ UNCHANGED issued
           /\ Go(j, "trigger") /\ Well
  <2>1. LedgerInv' /\ RecInv' /\ FlushInv'
    <3>1. CASE UNCHANGED ledger BY <1>2, <3>1, Keep DEF ledger, flush
    <3>2. CASE /\ groups[g].gid # 0
               /\ Write(g, groups[g].gid, members) /\ UNCHANGED issued
      <4>1. groups[g] \in Group /\ groups[g].gid \in Gids /\ issued' \in 0..SharedMax
        BY <1>0, <1>1, <3>2 DEF LedgerInv, Group, Gids
      <4>2. members \in SUBSET Users BY <1>0, <4>1 DEF Group
      <4> HIDE DEF members
      <4> QED BY <1>0, <1>1, <1>2, <3>2, <4>1, <4>2, WriteOK
    <3> QED BY <1>3, <3>1, <3>2
  <2>2. LocOK(j, [loc[j] EXCEPT !.pc = "trigger"])
    BY <1>1 DEF LocOK, Local, Working, Final
  <2>3. LocInv' BY <1>1, <1>3, <2>2, SetOK DEF Go
  <2> QED BY <1>2, <1>3, <2>1, <2>3, Keep DEF TypeInv, Well, onNas
<1>4. CASE UNCHANGED ledger /\ Again(j) /\ Failing
  <2>1. LocInv' /\ CountsInv' BY <1>1, <1>4, AgainOK, FailingOK
  <2> QED BY <1>2, <1>4, <2>1, Keep DEF TypeInv, ledger, onNas, flush
<1> QED BY <1>3, <1>4 DEF LedgerMember

\* A loop that is started has the lock.
LEMMA TriggerOK ==
  ASSUME ConstantsOK, TypeInv, NEW j \in Jobs, Trigger(j) PROVE TypeInv'
<1>1. LocInv /\ RecInv /\ FlushInv /\ CountsInv /\ "ok" \in Final
  BY DEF TypeInv, Final
<1>2. UNCHANGED <<mix, ledger, ad, onNas, flushed, names>> BY DEF Trigger
<1>3. LocInv' BY <1>1, EndOK DEF Trigger
<1>4. CountsInv' BY <1>1, FailingOK DEF Trigger
<1>5. RecInv' /\ FlushInv'
  <2>1. CASE /\ lock = 0 /\ \E l \in Loops : rec[l].pc = "off"
             /\ LET l == CHOOSE x \in Loops : rec[x].pc = "off"
                IN lock' = l /\ rec' = [rec EXCEPT ![l].pc = "idle"]
    <3>1. PICK l \in Loops : lock' = l /\ rec' = [rec EXCEPT ![l].pc = "idle"]
      BY <2>1
    <3>2. rec[l] \in Run /\ rec[l].m <= mtime BY <1>1 DEF RecInv
    <3>3. [rec[l] EXCEPT !.pc = "idle"] \in Run BY <3>2 DEF Run
    <3>4. SetRun(l, [rec[l] EXCEPT !.pc = "idle"]) BY <3>1 DEF SetRun
    <3>5. [rec[l] EXCEPT !.pc = "idle"].m <= mtime BY <3>2 DEF Run
    <3>6. RecInv' BY <1>1, <1>2, <3>3, <3>4, <3>5, SetRunOK DEF ledger
    <3>7. FlushInv' BY <1>1, <1>2, <3>1 DEF FlushInv, ledger
    <3> QED BY <3>6, <3>7
  <2>2. CASE UNCHANGED <<lock, rec>> BY <1>2, <2>2, Keep DEF ledger
  <2> QED BY <2>1, <2>2 DEF Trigger
<1> QED BY <1>2, <1>3, <1>4, <1>5, Keep DEF TypeInv, ledger, onNas

-----------------------------------------------------------------------------
(* The flush.                                                              *)

\* What a step of a run has to keep.
LEMMA RunStepOK ==
  ASSUME TypeInv, Still, RecInv', CtxInv', FlushInv', CountsInv'
  PROVE  TypeInv'
BY Keep DEF TypeInv, Still, ledger

\* A run that begins has the mtime of the file.
LEMMA BeginOK ==
  ASSUME ConstantsOK, TypeInv, NEW r \in Loops \cup {Cron}, Begin(r) PROVE TypeInv'
<1>1. RecInv /\ mtime \in Nat /\ rec[r] \in Run BY DEF TypeInv, RecInv, LedgerInv
<1>2. UNCHANGED mtime BY DEF Begin, Still, ledger
<1>3. [rec[r] EXCEPT !.pc = "want", !.m = mtime] \in Run BY <1>1 DEF Run
<1>4. [rec[r] EXCEPT !.pc = "want", !.m = mtime].m <= mtime BY <1>1 DEF Run
<1>5. RecInv' BY <1>1, <1>2, <1>3, <1>4, BackOK, SetRunOK DEF Begin
<1> QED BY <1>2, <1>5, RunStepOK, Keep DEF Begin, Well, Still

\* What the ledger wants for each user are gids of the range.
LEMMA ReadWantedOK ==
  ASSUME ConstantsOK, TypeInv, NEW r \in Loops \cup {Cron}, ReadWanted(r)
  PROVE  TypeInv'
<1>1. RecInv /\ LedgerInv /\ rec[r] \in Run /\ rec[r].m <= mtime
  BY DEF TypeInv, RecInv
<1>2. UNCHANGED mtime BY DEF ReadWanted, Still, ledger
<1> DEFINE w == [u \in Users |-> GidsIn(groups, u)]
           x == [rec[r] EXCEPT !.pc = "known", !.want = w]
<1>3. w \in [Users -> SUBSET Gids] BY <1>1, GidsInRange DEF LedgerInv
<1>4. SetRun(r, x) BY DEF ReadWanted
<1> HIDE DEF w
<1>5. x \in Run /\ x.m <= mtime BY <1>1, <1>3 DEF Run
<1> HIDE DEF x
<1>6. RecInv' BY <1>1, <1>2, <1>4, <1>5, SetRunOK
<1> QED BY <1>2, <1>6, RunStepOK, Keep DEF ReadWanted, Well, Still

\* So are the gids that the ledger knows.
LEMMA ReadKnownOK ==
  ASSUME ConstantsOK, TypeInv, NEW r \in Loops \cup {Cron}, ReadKnown(r)
  PROVE  TypeInv'
<1>1. RecInv /\ LedgerInv /\ rec[r] \in Run /\ rec[r].m <= mtime
  BY DEF TypeInv, RecInv
<1>2. UNCHANGED mtime BY DEF ReadKnown, Still, ledger
<1> DEFINE k == {groups[g].gid : g \in Names} \ {0}
           x == [rec[r] EXCEPT !.pc = "ask", !.known = k]
<1>3. k \in SUBSET Gids
  <2>1. \A g \in Names : groups[g].gid \in 0..SharedMax BY <1>1 DEF LedgerInv, Group
  <2> QED BY <2>1 DEF Gids, ConstantsOK
<1>4. SetRun(r, x) BY DEF ReadKnown
<1> HIDE DEF k
<1>5. x \in Run /\ x.m <= mtime BY <1>1, <1>3 DEF Run
<1> HIDE DEF x
<1>6. RecInv' BY <1>1, <1>2, <1>4, <1>5, SetRunOK
<1> QED BY <1>2, <1>6, RunStepOK, Keep DEF ReadKnown, Well, Still

\* A run that asks the NAS goes on or returns.
LEMMA AskNasOK ==
  ASSUME ConstantsOK, TypeInv, NEW r \in Loops \cup {Cron}, AskNas(r) PROVE TypeInv'
<1>1. /\ RecInv /\ CountsInv /\ mtime \in Nat /\ rec[r] \in Run
      /\ rec[r].m <= mtime
  BY DEF TypeInv, RecInv, LedgerInv
<1>2. UNCHANGED mtime BY DEF AskNas, Still, ledger
<1>3. [rec[r] EXCEPT !.pc = "flush"] \in Run BY <1>1 DEF Run
<1>4. [rec[r] EXCEPT !.pc = "flush"].m <= mtime BY <1>1 DEF Run
<1>5. RecInv' BY <1>1, <1>2, <1>3, <1>4, BackOK, SetRunOK DEF AskNas
<1>6. CountsInv' BY <1>1, FailingOK DEF AskNas
<1> QED BY <1>2, <1>5, <1>6, RunStepOK, Keep DEF AskNas, Still

\* A flush leaves nobody with a context.
LEMMA FlushOK ==
  ASSUME ConstantsOK, TypeInv, NEW r \in Loops \cup {Cron}, Flush(r) PROVE TypeInv'
<1>1. /\ RecInv /\ CountsInv /\ mtime \in Nat /\ rec[r] \in Run
      /\ rec[r].m <= mtime
  BY DEF TypeInv, RecInv, LedgerInv
<1>2. UNCHANGED mtime BY DEF Flush, Still, ledger
<1>3. [rec[r] EXCEPT !.pc = "write"] \in Run BY <1>1 DEF Run
<1>4. [rec[r] EXCEPT !.pc = "write"].m <= mtime BY <1>1 DEF Run
<1>5. RecInv' BY <1>1, <1>2, <1>3, <1>4, BackOK, SetRunOK DEF Flush
<1>6. CountsInv' BY <1>1, FailingOK DEF Flush
<1>7. ctx' = [u \in Users |-> {}] => CtxInv' BY DEF CtxInv
<1>8. CtxInv' BY <1>7, Keep DEF Flush
<1> QED BY <1>2, <1>5, <1>6, <1>8, RunStepOK, Keep DEF Flush, Still

\* What is recorded as flushed is not ahead of the file.
LEMMA WriteStateOK ==
  ASSUME ConstantsOK, TypeInv, NEW r \in Loops \cup {Cron}, WriteState(r)
  PROVE  TypeInv'
<1>1. /\ RecInv /\ FlushInv /\ CountsInv /\ mtime \in Nat /\ rec[r] \in Run
      /\ rec[r].m <= mtime
  BY DEF TypeInv, RecInv, LedgerInv
<1>2. UNCHANGED <<mtime, lock>> BY DEF WriteState, Still, ledger
<1>3. [Rest EXCEPT !.pc = "idle"] \in Run /\ [Rest EXCEPT !.pc = "idle"].m <= mtime
  BY <1>1, IdleOK
<1>4. RecInv' BY <1>1, <1>2, <1>3, BackOK, SetRunOK DEF WriteState
<1>5. rec[r].m \in 0..mtime BY <1>1 DEF Run
<1>6. FlushInv' BY <1>1, <1>2, <1>5 DEF WriteState, FlushInv
<1>7. CountsInv' BY <1>1, FailingOK DEF WriteState
<1> QED BY <1>2, <1>4, <1>6, <1>7, RunStepOK, Keep DEF WriteState

\* A loop that gives up goes on to release its lock.
LEMMA GiveUpOK ==
  ASSUME ConstantsOK, TypeInv, NEW l \in Loops, GiveUp(l) PROVE TypeInv'
<1>1. RecInv /\ l \in Loops \cup {Cron} /\ rec[l] \in Run /\ rec[l].m <= mtime
  BY DEF TypeInv, RecInv
<1>2. UNCHANGED mtime BY DEF GiveUp, Still, ledger
<1>3. [rec[l] EXCEPT !.pc = "release"] \in Run BY <1>1 DEF Run
<1>4. [rec[l] EXCEPT !.pc = "release"].m <= mtime BY <1>1 DEF Run
<1>5. RecInv' BY <1>1, <1>2, <1>3, <1>4, SetRunOK DEF GiveUp
<1> QED BY <1>2, <1>5, RunStepOK, Keep DEF GiveUp, Well, Still

\* A loop that releases is gone.
LEMMA ReleaseOK ==
  ASSUME ConstantsOK, TypeInv, NEW l \in Loops, Release(l) PROVE TypeInv'
<1>1. RecInv /\ FlushInv /\ CountsInv /\ mtime \in Nat /\ l \in Loops \cup {Cron}
  BY DEF TypeInv, LedgerInv
<1>2. UNCHANGED <<mix, ledger, ad, onNas, flushed, names, loc>> BY DEF Release
<1>3. Rest \in Run /\ Rest.m <= mtime BY <1>1 DEF Rest, Run
<1>4. RecInv' BY <1>1, <1>2, <1>3, SetRunOK DEF Release, ledger
<1>5. FlushInv' BY <1>1, <1>2 DEF Release, Released, FlushInv, ledger
<1>6. CountsInv' BY <1>1, FailingOK DEF Release
<1> QED BY <1>2, <1>4, <1>5, <1>6, Keep DEF TypeInv, ledger, onNas

\* A lock that expires under a living loop marks it.
LEMMA ExpireOK ==
  ASSUME ConstantsOK, TypeInv, Expire PROVE TypeInv'
<1>1. RecInv /\ FlushInv /\ CountsInv /\ lock \in Loops
  BY DEF TypeInv, FlushInv, Expire
<1>2. UNCHANGED <<mix, ledger, ad, onNas, flushed, names, loc>> BY DEF Expire
<1>3. rec' = [rec EXCEPT ![lock].late = TRUE] => RecInv'
  <2>1. rec[lock] \in Run /\ rec[lock].m <= mtime BY <1>1 DEF RecInv
  <2>2. [rec[lock] EXCEPT !.late = TRUE] \in Run BY <2>1 DEF Run
  <2>3. [rec[lock] EXCEPT !.late = TRUE].m <= mtime BY <2>1 DEF Run
  <2>4. rec' = [rec EXCEPT ![lock].late = TRUE]
        => SetRun(lock, [rec[lock] EXCEPT !.late = TRUE])
    BY DEF SetRun
  <2> QED BY <1>1, <1>2, <2>2, <2>3, <2>4, SetRunOK DEF ledger
<1>4. RecInv' BY <1>2, <1>3, Keep DEF Expire, ledger
<1>5. FlushInv' BY <1>1, <1>2 DEF Expire, FlushInv, ledger
<1>6. CountsInv' BY <1>1, FailingOK DEF Expire
<1> QED BY <1>2, <1>4, <1>5, <1>6, Keep DEF TypeInv, ledger, onNas

-----------------------------------------------------------------------------
(* The idmap, the NAS, and crashes.                                        *)

\* A thread sends the name of a group.
LEMMA SendIdmapOK ==
  ASSUME ConstantsOK, TypeInv, NEW g \in Names, SendIdmap(g) PROVE TypeInv'
<1>1. NamesInv /\ CountsInv BY DEF TypeInv
<1>2. NamesInv' BY <1>1 DEF NamesInv, SendIdmap
<1>3. CountsInv' BY <1>1, FailingOK DEF SendIdmap
<1> QED BY <1>2, <1>3, Keep DEF SendIdmap, TypeInv, ledger, onNas, flush

\* The cron job sends all the names of the ledger.
LEMMA CronIdmapOK == ASSUME ConstantsOK, TypeInv, CronIdmap PROVE TypeInv'
<1>1. NamesInv /\ CountsInv /\ RecInv /\ mtime \in Nat BY DEF TypeInv, LedgerInv
<1>2. UNCHANGED <<mix, ledger, ad, onNas, flushed, lock, sending, loc>>
  BY DEF CronIdmap
<1>3. [Rest EXCEPT !.pc = "idle"] \in Run /\ [Rest EXCEPT !.pc = "idle"].m <= mtime
  BY <1>1, IdleOK
<1>4. RecInv' BY <1>1, <1>2, <1>3, SetRunOK DEF CronIdmap, ledger
<1>5. NamesInv' BY <1>1 DEF NamesInv, CronIdmap
<1>6. CountsInv' BY <1>1, FailingOK DEF CronIdmap
<1> QED BY <1>2, <1>4, <1>5, <1>6, Keep DEF TypeInv, ledger, onNas

\* The NAS learns gids of the range.
LEMMA LearnOK ==
  ASSUME ConstantsOK, TypeInv, NEW u \in Users, Learn(u) PROVE TypeInv'
<1>1. NasInv /\ AdInv BY DEF TypeInv
<1>2. GidsIn(ad, u) \in SUBSET Gids BY <1>1, GidsInRange DEF AdInv
<1>3. NasInv' BY <1>1, <1>2 DEF NasInv, Learn
<1> QED BY <1>3, Keep DEF TypeInv, Learn, Well, ledger, flush

\* A context has the groups that the NAS holds.
LEMMA ConnectOK ==
  ASSUME ConstantsOK, TypeInv, NEW u \in Users, Connect(u) PROVE TypeInv'
<1>1. NasInv /\ CtxInv BY DEF TypeInv
<1>2. nas[u] \in SUBSET Gids /\ ctx' = [ctx EXCEPT ![u] = {nas[u]}]
  BY <1>1 DEF NasInv, Connect
<1>3. ctx' \in [Users -> SUBSET SUBSET Gids] BY <1>1, <1>2 DEF CtxInv
<1>4. \A v \in Users : \E S \in SUBSET Gids : ctx'[v] \subseteq {S}
  <2> TAKE v \in Users
  <2>1. CASE v = u
    <3>1. ctx'[v] = {nas[u]} BY <1>1, <1>2, <2>1 DEF CtxInv
    <3> QED BY <1>2, <3>1
  <2>2. CASE v # u
    <3>1. ctx'[v] = ctx[v] BY <1>1, <1>2, <2>2 DEF CtxInv
    <3> QED BY <1>1, <3>1 DEF CtxInv
  <2> QED BY <2>1, <2>2
<1>5. CtxInv' BY <1>3, <1>4 DEF CtxInv
<1> QED BY <1>5, Keep DEF TypeInv, Connect, Well, ledger, flush

\* A context that ends leaves none.
LEMMA LapseOK ==
  ASSUME ConstantsOK, TypeInv, NEW u \in Users, Lapse(u) PROVE TypeInv'
<1>1. CtxInv /\ ctx' = [ctx EXCEPT ![u] = {}] BY DEF TypeInv, Lapse
<1>2. ctx' \in [Users -> SUBSET SUBSET Gids] BY <1>1 DEF CtxInv
<1>3. \A v \in Users : ctx'[v] \subseteq ctx[v] BY <1>1 DEF CtxInv
<1>4. CtxInv' BY <1>1, <1>2, <1>3 DEF CtxInv
<1> QED BY <1>4, Keep DEF TypeInv, Lapse, Well, ledger, flush

\* What a process that dies leaves behind.
LEMMA CrashOK == ASSUME ConstantsOK, TypeInv, Crash PROVE TypeInv'
<1>1. LocInv /\ RecInv /\ CountsInv /\ mtime \in Nat BY DEF TypeInv, LedgerInv
<1>2. UNCHANGED <<mix, ledger, ad, onNas, flushed, lock, names>> BY DEF Crash
<1>3. CountsInv'
  <2>1. counts.crashes < MaxCrashes /\ counts' = [counts EXCEPT !.crashes = @ + 1]
    BY DEF Crash
  <2> QED BY <1>1, <2>1 DEF CountsInv, ConstantsOK
<1>4. LocInv' /\ RecInv'
  <2>1. CASE \E j \in mix :
               /\ Running(j)
               /\ Set(j, [Blank EXCEPT !.pc = "start", !.next = loc[j].next])
               /\ UNCHANGED rec
    <3>1. PICK j \in Jobs :
            Set(j, [Blank EXCEPT !.pc = "start", !.next = loc[j].next]) /\ UNCHANGED rec
      BY <2>1, JobsMix
    <3>2. LocOK(j, [Blank EXCEPT !.pc = "start", !.next = loc[j].next])
      <4>1. loc[j].next \in {"line", "group", "trigger"} BY <1>1 DEF LocInv, Local
      <4>2. "start" \in Final \cup {"new", "start"} OBVIOUS
      <4> QED BY <3>1, <4>1, <4>2, BlankFits
    <3> QED BY <1>1, <1>2, <3>1, <3>2, SetOK, Keep DEF ledger
  <2>2. CASE \E r \in Loops \cup {Cron} :
               /\ rec[r].pc # "off" /\ (r = Cron => rec[r].pc # "idle")
               /\ SetRun(r, IF r = Cron THEN [Rest EXCEPT !.pc = "idle"] ELSE Rest)
               /\ UNCHANGED loc
    <3>1. PICK r \in Loops \cup {Cron} :
            \/ SetRun(r, [Rest EXCEPT !.pc = "idle"])
            \/ SetRun(r, Rest)
      BY <2>2
    <3>2. /\ Rest \in Run /\ Rest.m <= mtime
          /\ [Rest EXCEPT !.pc = "idle"] \in Run
          /\ [Rest EXCEPT !.pc = "idle"].m <= mtime
      BY <1>1, IdleOK
    <3>3. SetRun(r, Rest) => RecInv' BY <1>1, <1>2, <3>2, SetRunOK DEF ledger
    <3>4. SetRun(r, [Rest EXCEPT !.pc = "idle"]) => RecInv'
      BY <1>1, <1>2, <3>2, SetRunOK DEF ledger
    <3>5. RecInv' BY <3>1, <3>3, <3>4
    <3> QED BY <2>2, <3>5, Keep
  <2> QED BY <2>1, <2>2 DEF Crash
<1> QED BY <1>2, <1>3, <1>4, Keep DEF TypeInv, ledger, onNas

-----------------------------------------------------------------------------
(* The types.                                                              *)

\* The state at the start.
LEMMA InitOK == ASSUME ConstantsOK, Init PROVE TypeInv
<1>1. groups \in [Names -> Group] /\ Filled(groups)
  <2>1. \A g \in Names :
          LET l == IF g \in DOMAIN Known
                   THEN [gid |-> Known[g], members |-> In[g]] ELSE None
          IN l \in Group /\ (l.members # {} => l.gid \in Gids)
    <3> TAKE g \in Names
    <3>1. CASE g \in DOMAIN Known
      <4>1. Known[g] \in Gids /\ In[g] \in SUBSET Users /\ SharedMax \in Nat
        BY <3>1 DEF ConstantsOK
      <4> QED BY <3>1, <4>1 DEF Group, Gids
    <3>2. CASE g \notin DOMAIN Known
      BY <3>2 DEF None, Group, ConstantsOK
    <3> QED BY <3>1, <3>2
  <2> QED BY <2>1 DEF Init, Filled
<1>2. LedgerInv BY <1>1 DEF Init, LedgerInv
<1>3. AdInv BY <1>1 DEF Init, AdInv
<1>4. NasInv BY <1>3, GidsInRange DEF Init, NasInv, AdInv
<1>5. CtxInv
  <2>1. \A u \in Users : nas[u] \in SUBSET Gids /\ ctx[u] \subseteq {nas[u]}
    BY <1>4 DEF NasInv, Init
  <2>2. ctx \in [Users -> SUBSET SUBSET Gids] BY <2>1 DEF Init
  <2> QED BY <2>1, <2>2 DEF CtxInv
<1>6. RecInv
  <2>1. mtime \in Nat BY <1>2 DEF LedgerInv
  <2> QED BY <2>1, IdleOK DEF Init, RecInv
<1>7. FlushInv BY DEF Init, FlushInv
<1>8. LocInv
  <2>1. \A j \in Jobs : LocOK(j, Blank) BY BlankOK DEF LocOK, Blank, Working
  <2> QED BY <2>1 DEF Init, LocInv, LocOK
<1>9. NamesInv BY DEF Init, NamesInv, ConstantsOK
<1>10. CountsInv BY DEF Init, CountsInv, ConstantsOK
<1> QED BY <1>2, <1>3, <1>4, <1>5, <1>6, <1>7, <1>8, <1>9, <1>10 DEF TypeInv, Init

\* Every step keeps it.
LEMMA StepOK == ASSUME ConstantsOK, TypeInv, [Next]_vars PROVE TypeInv'
<1>1. CASE \E j \in Jobs : Register(j) \/ Worker(j)
  BY <1>1, RegisterOK, CreateLineOK, JoinResolveOK, JoinLineOK, AdGroupOK,
     MemberStartOK, AdMemberOK, AdMembersDoneOK, LedgerMemberOK, TriggerOK
  DEF Worker
<1>2. ASSUME NEW r \in Loops \cup {Cron}, Reconcile(r) PROVE TypeInv'
  BY <1>2, BeginOK, ReadWantedOK, ReadKnownOK, AskNasOK, FlushOK, WriteStateOK
  DEF Reconcile
<1>3. CASE CronJob BY <1>2, <1>3, CronIdmapOK DEF CronJob
<1>4. CASE \E l \in Loops : Loop(l) BY <1>2, <1>4, GiveUpOK, ReleaseOK DEF Loop
<1>5. CASE Expire BY <1>5, ExpireOK
<1>6. CASE \E g \in Names : SendIdmap(g) BY <1>6, SendIdmapOK
<1>7. CASE \E u \in Users : Learn(u) \/ Connect(u) \/ Lapse(u)
  BY <1>7, LearnOK, ConnectOK, LapseOK
<1>8. CASE Crash BY <1>8, CrashOK
<1>9. CASE UNCHANGED vars BY <1>9, Keep DEF vars, TypeInv, ledger, onNas, flush
<1> QED BY <1>1, <1>3, <1>4, <1>5, <1>6, <1>7, <1>8, <1>9 DEF Next

\* The invariant of all behaviours.
LEMMA TypeInvAlways == Spec => []TypeInv
<1>1. Init => TypeInv BY ConstantsOK, InitOK
<1>2. TypeInv /\ [Next]_vars => TypeInv' BY ConstantsOK, StepOK
<1> QED BY <1>1, <1>2, PTL DEF Spec

\* Every variable keeps its type; above all, what is recorded as flushed is
\* never ahead of the group file (reconcile_nas_gss_cache records the mtime
\* that it read before it compared), and no gid leaves the shared range
\* (_write_group_line, step_resolve_new_groups).
THEOREM TypeCorrect == Spec => []TypeOK
BY TypeInvAlways, TypeInvTypeOK, PTL

-----------------------------------------------------------------------------
(* The flush lock.                                                         *)

\* What a run does between its start and its end leaves the lock alone, and
\* whether it is late; it does not start a loop that is off.
LEMMA RunKeepsLock ==
  ASSUME TypeInv, NEW r \in Loops \cup {Cron}, NEW x \in Run, LockIsOwners,
         SetRun(r, x), x.late = rec[r].late, rec[r].pc # "off", UNCHANGED lock
  PROVE  LockIsOwners'
BY DEF LockIsOwners, SetRun, TypeInv, RecInv

\* A run that returns is as late as it was.
LEMMA BackKeepsLock ==
  ASSUME TypeInv, NEW r \in Loops \cup {Cron}, NEW b \in BOOLEAN, LockIsOwners,
         Back(r, b), rec[r].pc # "off", UNCHANGED lock
  PROVE  LockIsOwners'
<1> DEFINE pc == IF r = Cron THEN "idmap" ELSE IF b THEN "release" ELSE "idle"
           x  == [Rest EXCEPT !.late = rec[r].late, !.pc = pc]
<1>1. rec[r].late \in BOOLEAN BY DEF TypeInv, RecInv, Run
<1>2. Rest \in Run BY DEF Rest, Run
<1>3. x \in Run /\ x.late = rec[r].late BY <1>1, <1>2 DEF Run
<1>4. SetRun(r, x) BY DEF Back
<1> HIDE DEF x
<1> QED BY <1>3, <1>4, RunKeepsLock

\* A run of the cron job is nobody's lock.
LEMMA CronKeepsLock ==
  ASSUME ConstantsOK, LockIsOwners, NEW x, SetRun(Cron, x), UNCHANGED lock, TypeInv
  PROVE  LockIsOwners'
<1>1. Cron \notin Loops BY DEF ConstantsOK, Cron
<1> QED BY <1>1 DEF LockIsOwners, SetRun, TypeInv, RecInv

\* The steps of a run.
LEMMA ReconcileKeepsLock ==
  ASSUME ConstantsOK, TypeInv, LockIsOwners, NEW r \in Loops \cup {Cron},
         Reconcile(r)
  PROVE  LockIsOwners'
<1>1. rec[r] \in Run BY DEF TypeInv, RecInv
<1>2. rec[r].pc # "off" /\ UNCHANGED lock
  BY DEF Reconcile, Begin, ReadWanted, ReadKnown, AskNas, Flush, WriteState,
         RunAt, Still
<1>3. CASE Begin(r)
  <2>1. /\ [rec[r] EXCEPT !.pc = "want", !.m = mtime] \in Run
        /\ [rec[r] EXCEPT !.pc = "want", !.m = mtime].late = rec[r].late
    BY <1>1 DEF Run, TypeInv, LedgerInv
  <2> QED BY <1>2, <1>3, <2>1, RunKeepsLock, BackKeepsLock DEF Begin
<1>4. CASE ReadWanted(r)
  <2> DEFINE w == [u \in Users |-> GidsIn(groups, u)]
  <2>1. w \in [Users -> SUBSET Gids] BY GidsInRange DEF TypeInv, LedgerInv
  <2>2. SetRun(r, [rec[r] EXCEPT !.pc = "known", !.want = w])
    BY <1>4 DEF ReadWanted
  <2> HIDE DEF w
  <2>3. /\ [rec[r] EXCEPT !.pc = "known", !.want = w] \in Run
        /\ [rec[r] EXCEPT !.pc = "known", !.want = w].late = rec[r].late
    BY <1>1, <2>1 DEF Run
  <2> QED BY <1>2, <2>2, <2>3, RunKeepsLock
<1>5. CASE ReadKnown(r)
  <2> DEFINE k == {groups[g].gid : g \in Names} \ {0}
  <2>1. k \in SUBSET Gids
    <3>1. \A g \in Names : groups[g].gid \in 0..SharedMax
      BY DEF TypeInv, LedgerInv, Group
    <3> QED BY <3>1 DEF Gids, ConstantsOK
  <2>2. SetRun(r, [rec[r] EXCEPT !.pc = "ask", !.known = k]) BY <1>5 DEF ReadKnown
  <2> HIDE DEF k
  <2>3. /\ [rec[r] EXCEPT !.pc = "ask", !.known = k] \in Run
        /\ [rec[r] EXCEPT !.pc = "ask", !.known = k].late = rec[r].late
    BY <1>1, <2>1 DEF Run
  <2> QED BY <1>2, <2>2, <2>3, RunKeepsLock
<1>6. CASE AskNas(r)
  <2>1. /\ [rec[r] EXCEPT !.pc = "flush"] \in Run
        /\ [rec[r] EXCEPT !.pc = "flush"].late = rec[r].late
    BY <1>1 DEF Run
  <2> QED BY <1>2, <1>6, <2>1, RunKeepsLock, BackKeepsLock DEF AskNas
<1>7. CASE Flush(r)
  <2>1. /\ [rec[r] EXCEPT !.pc = "write"] \in Run
        /\ [rec[r] EXCEPT !.pc = "write"].late = rec[r].late
    BY <1>1 DEF Run
  <2> QED BY <1>2, <1>7, <2>1, RunKeepsLock, BackKeepsLock DEF Flush
<1>8. CASE WriteState(r)
  <2>1. \/ Back(r, TRUE) \/ Back(r, FALSE)
        \/ r = Cron /\ SetRun(Cron, [Rest EXCEPT !.pc = "idle"])
    BY <1>8 DEF WriteState
  <2>2. r = Cron /\ SetRun(Cron, [Rest EXCEPT !.pc = "idle"]) => LockIsOwners'
    BY <1>2, CronKeepsLock
  <2> QED BY <1>2, <2>1, <2>2, BackKeepsLock
<1> QED BY <1>3, <1>4, <1>5, <1>6, <1>7, <1>8 DEF Reconcile

\* What the jobs do.
LEMMA WorkerKeepsLock ==
  ASSUME ConstantsOK, TypeInv, LockIsOwners, NEW j \in Jobs, Worker(j)
  PROVE  LockIsOwners'
<1>1. CASE Trigger(j)
  <2>1. CASE /\ lock = 0 /\ \E l \in Loops : rec[l].pc = "off"
             /\ LET l == CHOOSE x \in Loops : rec[x].pc = "off"
                IN lock' = l /\ rec' = [rec EXCEPT ![l].pc = "idle"]
    <3>1. PICK l \in Loops : lock' = l /\ rec' = [rec EXCEPT ![l].pc = "idle"]
      BY <2>1
    <3>2. \A k \in Loops : k # 0 BY DEF ConstantsOK
    <3>3. \A k \in Loops : rec[k].pc # "off" => rec[k].late
      BY <2>1, <3>2 DEF LockIsOwners
    <3>4. \A k \in Loops \ {l} : rec'[k] = rec[k]
      BY <3>1 DEF TypeInv, RecInv
    <3> QED BY <3>1, <3>3, <3>4 DEF LockIsOwners
  <2>2. CASE UNCHANGED <<lock, rec>> BY <2>2 DEF LockIsOwners
  <2> QED BY <1>1, <2>1, <2>2 DEF Trigger
<1>2. CASE ~Trigger(j)
  <2>1. UNCHANGED flush
    BY <1>2 DEF Worker, CreateLine, JoinResolve, JoinLine, AdGroup, MemberStart,
                AdMember, AdMembersDone, LedgerMember
  <2> QED BY <2>1 DEF LockIsOwners, flush
<1> QED BY <1>1, <1>2

\* A loop that releases is off, and frees no lock but its own.
LEMMA ReleaseKeepsLock ==
  ASSUME ConstantsOK, TypeInv, LockIsOwners, NEW l \in Loops, Release(l)
  PROVE  LockIsOwners'
<1>1. rec'[l].pc = "off" /\ \A k \in Loops \ {l} : rec'[k] = rec[k]
  BY DEF Release, SetRun, Rest, TypeInv, RecInv
<1>2. lock' = lock \/ (lock = l /\ lock' = 0) BY DEF Release, Released
<1> QED BY <1>1, <1>2 DEF LockIsOwners

\* A lock that expires leaves its loop late, if there is one.
LEMMA ExpireKeepsLock ==
  ASSUME ConstantsOK, TypeInv, LockIsOwners, Expire
  PROVE  LockIsOwners'
<1>1. lock \in Loops /\ rec \in [Loops \cup {Cron} -> Run]
  BY DEF TypeInv, FlushInv, RecInv, Expire
<1>2. CASE RunAt(lock, "off")
  BY <1>2 DEF Expire, LockIsOwners, RunAt
<1>3. CASE ~RunAt(lock, "off")
  <2>1. rec' = [rec EXCEPT ![lock].late = TRUE] BY <1>3 DEF Expire
  <2>2. rec'[lock].late BY <1>1, <2>1 DEF Run
  <2>3. \A k \in Loops \ {lock} : rec'[k] = rec[k] BY <1>1, <2>1
  <2> QED BY <2>2, <2>3 DEF LockIsOwners
<1> QED BY <1>2, <1>3

\* A process that dies is off, or is the cron job.
LEMMA CrashKeepsLock ==
  ASSUME ConstantsOK, TypeInv, LockIsOwners, Crash
  PROVE  LockIsOwners'
<1>1. UNCHANGED lock BY DEF Crash
<1>2. CASE UNCHANGED rec BY <1>1, <1>2 DEF LockIsOwners
<1>3. CASE \E r \in Loops \cup {Cron} :
             SetRun(r, IF r = Cron THEN [Rest EXCEPT !.pc = "idle"] ELSE Rest)
  <2>1. PICK r \in Loops \cup {Cron} :
          SetRun(r, IF r = Cron THEN [Rest EXCEPT !.pc = "idle"] ELSE Rest)
    BY <1>3
  <2>2. CASE r = Cron BY <1>1, <2>1, <2>2, CronKeepsLock
  <2>3. CASE r # Cron
    <3>1. rec'[r].pc = "off" /\ \A k \in Loops \ {r} : rec'[k] = rec[k]
      BY <2>1, <2>3 DEF SetRun, Rest, TypeInv, RecInv
    <3> QED BY <1>1, <3>1 DEF LockIsOwners
  <2> QED BY <2>2, <2>3
<1> QED BY <1>2, <1>3 DEF Crash

\* Every step keeps the lock with the loop that has not outlived the TTL.
LEMMA StepKeepsLock ==
  ASSUME ConstantsOK, TypeInv, LockIsOwners, [Next]_vars
  PROVE  LockIsOwners'
<1>1. CASE \E j \in Jobs : Register(j) \/ Worker(j)
  <2>1. CASE \E j \in Jobs : Worker(j) BY <2>1, WorkerKeepsLock
  <2>2. CASE \E j \in Jobs : Register(j)
    BY <2>2 DEF Register, flush, LockIsOwners
  <2> QED BY <1>1, <2>1, <2>2
<1>2. CASE CronJob
  <2>1. CASE Reconcile(Cron) BY <2>1, ReconcileKeepsLock
  <2>2. CASE CronIdmap BY <2>2, CronKeepsLock DEF CronIdmap
  <2> QED BY <1>2, <2>1, <2>2 DEF CronJob
<1>3. CASE \E l \in Loops : Loop(l)
  <2>1. PICK l \in Loops : Loop(l) BY <1>3
  <2>2. CASE Reconcile(l) BY <2>2, ReconcileKeepsLock
  <2>3. CASE GiveUp(l)
    <3>1. rec[l] \in Run BY DEF TypeInv, RecInv
    <3>2. /\ [rec[l] EXCEPT !.pc = "release"] \in Run
          /\ [rec[l] EXCEPT !.pc = "release"].late = rec[l].late
      BY <3>1 DEF Run
    <3>3. rec[l].pc # "off" /\ UNCHANGED lock
          /\ SetRun(l, [rec[l] EXCEPT !.pc = "release"])
      BY <2>3 DEF GiveUp, RunAt, Still
    <3> QED BY <3>2, <3>3, RunKeepsLock
  <2>4. CASE Release(l) BY <2>4, ReleaseKeepsLock
  <2> QED BY <2>1, <2>2, <2>3, <2>4 DEF Loop
<1>4. CASE Expire BY <1>4, ExpireKeepsLock
<1>5. CASE \E g \in Names : SendIdmap(g)
  BY <1>5 DEF SendIdmap, flush, LockIsOwners
<1>6. CASE \E u \in Users : Learn(u) \/ Connect(u) \/ Lapse(u)
  BY <1>6 DEF Learn, Connect, Lapse, flush, LockIsOwners
<1>7. CASE Crash BY <1>7, CrashKeepsLock
<1>8. CASE UNCHANGED vars BY <1>8 DEF vars, flush, LockIsOwners
<1> QED BY <1>1, <1>2, <1>3, <1>4, <1>5, <1>6, <1>7, <1>8 DEF Next

\* A loop that has not outlived the TTL still holds the lock: two of them
\* never retry side by side, whatever belated loops release, however jobs
\* trigger, processes die and calls to Redis fail (release_flush_lock,
\* trigger_nas_gss_flush_ondemand).
THEOREM OwnersKeepLock == Spec => []LockIsOwners
<1>1. Init => LockIsOwners BY DEF Init, LockIsOwners, Rest, Cron, ConstantsOK
<1>2. TypeInv /\ LockIsOwners /\ [Next]_vars => LockIsOwners'
  BY ConstantsOK, StepKeepsLock
<1> QED BY <1>1, <1>2, TypeInvAlways, PTL DEF Spec

-----------------------------------------------------------------------------
(* What a recorded flush means (FlushedMeansInEffect)                      *)
(*                                                                         *)
(* For jobs that change memberships, of which no two about one group run   *)
(* at one time.  As long as none has failed, the AD is never off the       *)
(* ledger but by what the group's running job will write there: so if it   *)
(* agrees with a ledger that has not been written since some moment, it    *)
(* has agreed with it all the time, and what the NAS has learned since     *)
(* then is what the ledger says.                                           *)

Changes == \A M \in Mixes : \A j \in M : KindOf[j] \in {"add", "remove"}

NoneFailed == \A j \in mix : loc[j].pc # "fail"
Pcs        == {"new", "start", "members", "ledger", "trigger", "ok", "fail"}
Alone(j)   == \A i \in mix \ {j} : GroupOf[i] = GroupOf[j] => ~Running(i)
Same(g)    == ad[g].members = groups[g].members

\* The AD is between the ledger and what the job will make of it.
Ahead(j) ==
  LET g == GroupOf[j]
  IN IF KindOf[j] = "remove"
     THEN /\ groups[g].members \ MembersOf[j] \subseteq ad[g].members
          /\ ad[g].members \subseteq groups[g].members
     ELSE /\ groups[g].members \subseteq ad[g].members
          /\ ad[g].members \subseteq groups[g].members \cup MembersOf[j]
\* The AD has the change for these members.
Through(j, S) == IF KindOf[j] = "remove" THEN S \cap ad[GroupOf[j]].members = {}
                                         ELSE S \subseteq ad[GroupOf[j]].members
JobOK(j) ==
  Running(j) =>
    /\ Ahead(j)
    /\ loc[j].pc = "members" => /\ loc[j].left \subseteq MembersOf[j]
                                /\ Through(j, MembersOf[j] \ loc[j].left)
    /\ loc[j].pc = "ledger"  => Through(j, MembersOf[j])
    /\ loc[j].pc = "trigger" => Same(GroupOf[j])

JobsInv == \A j \in mix : loc[j].pc \in Pcs /\ (Running(j) => Alone(j))
\* A group that no job is about is the same on both sides.
SideInv == NoneFailed =>
             /\ \A g \in Names : (\A j \in mix : GroupOf[j] = g => ~Running(j))
                                   => Same(g)
             /\ \A j \in mix : JobOK(j)

\* No gid changes, and the NAS knows no other than the ledger.
LedgerGids == {groups[g].gid : g \in Names} \ {0}
GidsInv == /\ \A g \in Names : ad[g].gid = groups[g].gid
           /\ \A u \in Users : nas[u] \subseteq LedgerGids

\* What holds of the NAS when a comparison with this ledger has succeeded,
\* and of the contexts when they have been emptied after it.
NasOK == Agree => \A u \in Users \ Unknown : nas[u] = GidsIn(groups, u)
CtxOK == Agree => InEffect

InHand   == {"known", "ask", "flush", "write"}
RunOK(r) ==
  rec[r].m >= mtime =>
    /\ rec[r].pc \in {"known", "ask"} =>
         \A u \in Users : rec[r].want[u] = GidsIn(groups, u)
    /\ rec[r].pc = "ask" => rec[r].known = LedgerGids
    /\ rec[r].pc \in {"flush", "write"} => NasOK
    /\ rec[r].pc = "write" => CtxOK
RunsInv  == NoneFailed => \A r \in Loops \cup {Cron} : RunOK(r)
DoneInv  == NoneFailed /\ flushed >= mtime => NasOK /\ CtxOK

EffectInv == JobsInv /\ SideInv /\ GidsInv /\ RunsInv /\ DoneInv

\* What the property says of the reachable states, in these words.
LEMMA EffectEnough ==
  ASSUME DoneInv PROVE FlushedMeansInEffect
BY DEF DoneInv, CtxOK, FlushedMeansInEffect, Traced, NoneFailed

\* The jobs of a behaviour, and how they are described.
LEMMA JobOfMix ==
  ASSUME ConstantsOK, Changes, TypeInv, NEW j \in mix
  PROVE  /\ j \in Jobs /\ KindOf[j] \in {"add", "remove"} /\ GroupOf[j] \in Names
         /\ MembersOf[j] \in SUBSET Users /\ loc[j] \in Local
         /\ loc \in [Jobs -> Local]
<1>1. mix \in Mixes /\ LocInv BY DEF TypeInv
<1>2. j \in Jobs BY <1>1 DEF ConstantsOK
<1>3. GroupOf[j] \in Names /\ MembersOf[j] \in SUBSET Users
  BY <1>2 DEF ConstantsOK
<1> QED BY <1>1, <1>2, <1>3 DEF Changes, LocInv

\* With both sides alike in everything, every user is in the same groups.
LEMMA AgreeGids ==
  ASSUME TypeInv, Agree, NEW u \in Users
  PROVE  GidsIn(ad, u) = GidsIn(groups, u)
<1>1. \A g \in Names : ad[g].gid = groups[g].gid BY DEF Agree
<1>2. \A g \in Names : ad[g].members = groups[g].members
  <2> TAKE g \in Names
  <2>1. CASE ad[g].gid # 0 BY <2>1 DEF Agree
  <2>2. CASE ad[g].gid = 0
    <3>1. ad[g].gid \notin Gids /\ groups[g].gid \notin Gids
      BY <1>1, <2>2 DEF Gids
    <3> QED BY <3>1 DEF TypeInv, LedgerInv, AdInv, Filled
  <2> QED BY <2>1, <2>2
<1> QED BY <1>1, <1>2 DEF GidsIn

\* A job that moves, with what it did to its own group, keeps the order of
\* the jobs and of all the groups.
LEMMA MoveKeeps ==
  ASSUME ConstantsOK, Changes, TypeInv, JobsInv, SideInv, NEW j \in mix, NEW l,
         Set(j, l), UNCHANGED mix, l.pc \in Pcs \ {"new"}, Alone(j), loc[j].pc # "fail",
         \A g \in Names \ {GroupOf[j]} : groups'[g] = groups[g] /\ ad'[g] = ad[g],
         NoneFailed /\ l.pc # "fail" => JobOK(j)',
         NoneFailed /\ l.pc = "ok" => Same(GroupOf[j])'
  PROVE  JobsInv' /\ SideInv' /\ (NoneFailed' => NoneFailed /\ l.pc # "fail")
<1>1. /\ loc'[j] = l /\ \A i \in mix \ {j} : loc'[i] = loc[i] /\ i \in Jobs
  BY JobOfMix DEF Set
<1>2. \A i \in mix \ {j} : Running(i)' = Running(i) BY <1>1 DEF Running
<1>3. JobsInv'
  <2> SUFFICES ASSUME NEW i \in mix
               PROVE  loc'[i].pc \in Pcs /\ (Running(i)' => Alone(i)')
    BY DEF JobsInv
  <2>1. CASE i = j
    <3>1. Alone(j)' BY <1>2 DEF Alone
    <3> QED BY <1>1, <2>1, <3>1
  <2>2. CASE i # j
    <3>1. loc'[i].pc \in Pcs BY <1>1, <2>2 DEF JobsInv
    <3>2. ASSUME Running(i)' PROVE Alone(i)'
      <4>1. Running(i) /\ Alone(i) BY <1>2, <2>2, <3>2 DEF JobsInv
      <4>2. GroupOf[i] # GroupOf[j] BY <2>2, <4>1 DEF Alone
      <4> QED BY <1>2, <4>1, <4>2 DEF Alone
    <3> QED BY <3>1, <3>2
  <2> QED BY <2>1, <2>2
<1>4. NoneFailed' => NoneFailed /\ l.pc # "fail" BY <1>1 DEF NoneFailed
<1>5. SideInv'
  <2> SUFFICES ASSUME NoneFailed'
               PROVE  /\ \A g \in Names :
                           (\A i \in mix : GroupOf[i] = g => ~Running(i)') => Same(g)'
                      /\ \A i \in mix : JobOK(i)'
    BY DEF SideInv
  <2>0. NoneFailed /\ l.pc # "fail" BY <1>4
  <2>1. ASSUME NEW g \in Names, \A i \in mix : GroupOf[i] = g => ~Running(i)'
        PROVE  Same(g)'
    <3>1. CASE g = GroupOf[j]
      <4>1. l.pc = "ok" BY <1>1, <2>0, <2>1, <3>1 DEF Running, Final, Pcs
      <4> QED BY <2>0, <3>1, <4>1
    <3>2. CASE g # GroupOf[j]
      <4>1. \A i \in mix : GroupOf[i] = g => ~Running(i) BY <1>2, <2>1, <3>2
      <4>2. Same(g) BY <2>0, <4>1 DEF SideInv
      <4> QED BY <3>2, <4>2 DEF Same
    <3> QED BY <3>1, <3>2
  <2>2. ASSUME NEW i \in mix PROVE JobOK(i)'
    <3>1. CASE i = j BY <2>0, <3>1
    <3>2. CASE i # j
      <4>1. SUFFICES ASSUME Running(i)' PROVE JobOK(i)' BY DEF JobOK
      <4>2. Running(i) /\ Alone(i) BY <1>2, <3>2, <4>1 DEF JobsInv
      <4>3. GroupOf[i] # GroupOf[j] /\ GroupOf[i] \in Names
        BY <3>2, <4>1, <1>2, JobOfMix DEF Alone
      <4>4. JobOK(i) BY <2>0 DEF SideInv
      <4>5. /\ groups'[GroupOf[i]] = groups[GroupOf[i]]
            /\ ad'[GroupOf[i]] = ad[GroupOf[i]] /\ loc'[i] = loc[i]
        BY <1>1, <3>2, <4>3
      <4> QED BY <4>4, <4>5, <1>2, <3>2 DEF JobOK, Ahead, Through, Same, Running
    <3> QED BY <3>1, <3>2
  <2> QED BY <2>1, <2>2
<1> QED BY <1>3, <1>4, <1>5

\* A step that does not write the ledger, or writes it: in the first case the
\* two sides do not come to agree by it.
Quiet == /\ groups' = groups /\ mtime' = mtime
         /\ NoneFailed' => NoneFailed /\ (Agree' => Agree)
Wrote == mtime' = mtime + 1

\* A job that runs is alone with its group.
LEMMA RunnerAlone ==
  ASSUME JobsInv, NEW j \in mix, Running(j) PROVE Alone(j) /\ loc[j].pc # "fail"
BY DEF JobsInv, Running, Final

\* What a job of one step is set to by another attempt.
LEMMA AgainSets ==
  ASSUME NEW j, loc[j] \in Local, KindOf[j] # "join", Again(j)
  PROVE  \E l : Set(j, l) /\ l.pc \in {"start", "fail"}
<1>1. CASE loc[j].tries < MaxTries
  <2>1. Step(j) = "start" BY DEF Step
  <2>2. Set(j, [loc[j] EXCEPT !.pc = "start", !.left = {}, !.tries = @ + 1])
    BY <1>1, <2>1 DEF Again
  <2>3. [loc[j] EXCEPT !.pc = "start", !.left = {}, !.tries = @ + 1].pc = "start"
    BY DEF Local
  <2> QED BY <2>2, <2>3
<1>2. CASE ~(loc[j].tries < MaxTries)
  <2>1. [Blank EXCEPT !.pc = "fail"].pc = "fail" BY DEF Blank
  <2> QED BY <1>2, <2>1 DEF Again, End
<1> QED BY <1>1, <1>2

\* A job that is set back or ends, with both sides as they are.
LEMMA BackToStart ==
  ASSUME ConstantsOK, Changes, TypeInv, JobsInv, SideInv, NEW j \in mix, NEW l,
         Set(j, l), l.pc \in {"start", "fail"}, Running(j),
         UNCHANGED <<mix, groups, mtime, ad>>
  PROVE  JobsInv' /\ SideInv' /\ Quiet
<1>1. Alone(j) /\ loc[j].pc # "fail" BY RunnerAlone
<1>2. loc'[j] = l BY JobOfMix DEF Set
<1>3. NoneFailed /\ l.pc # "fail" => JobOK(j)'
  BY <1>2 DEF SideInv, JobOK, Ahead
<1>4. l.pc \in Pcs \ {"new"} /\ l.pc # "ok" BY DEF Pcs
<1>5. JobsInv' /\ SideInv' /\ (NoneFailed' => NoneFailed)
  BY <1>1, <1>3, <1>4, MoveKeeps
<1> QED BY <1>5 DEF Quiet, Agree

\* A command on the AD brings it nearer to what the job will write, and
\* never back to what the ledger says.
LEMMA AdMoves ==
  ASSUME ConstantsOK, Changes, TypeInv, NEW j \in mix, Ahead(j),
         NEW u \in MembersOf[j], UNCHANGED groups,
         ad' = [ad EXCEPT ![GroupOf[j]].members =
                  IF KindOf[j] = "remove" THEN @ \ {u} ELSE @ \cup {u}]
  PROVE  /\ Ahead(j)' /\ (Agree' => Agree)
         /\ \A T : Through(j, T) => Through(j, T \cup {u})'
<1> DEFINE g == GroupOf[j]
<1>1. g \in Names /\ ad[g] \in Group /\ ad \in [Names -> Group]
  BY JobOfMix DEF TypeInv, AdInv
<1>2. /\ ad'[g].gid = ad[g].gid
      /\ ad'[g].members = IF KindOf[j] = "remove" THEN ad[g].members \ {u}
                                                  ELSE ad[g].members \cup {u}
      /\ \A n \in Names \ {g} : ad'[n] = ad[n]
  BY <1>1 DEF Group
<1>3. Ahead(j)' BY <1>2 DEF Ahead
<1>4. \A T : Through(j, T) => Through(j, T \cup {u})' BY <1>2 DEF Through
<1>5. Agree' => Agree
  <2> SUFFICES ASSUME Agree', NEW n \in Names
               PROVE  /\ ad[n].gid = groups[n].gid
                      /\ ad[n].gid # 0 => ad[n].members = groups[n].members
    BY DEF Agree
  <2>1. /\ ad'[n].gid = groups[n].gid
        /\ ad'[n].gid # 0 => ad'[n].members = groups[n].members
    BY DEF Agree
  <2>2. CASE n = g
    <3>1. ad[n].gid = groups[n].gid BY <1>2, <2>1, <2>2
    <3>2. ASSUME ad[n].gid # 0 PROVE ad[n].members = groups[n].members
      <4>1. ad'[n].members = groups[n].members BY <1>2, <2>1, <2>2, <3>2
      <4>2. CASE KindOf[j] = "remove"
        <5>1. ad[n].members \subseteq groups[n].members BY <2>2, <4>2 DEF Ahead
        <5>2. groups[n].members \subseteq ad[n].members
          BY <1>2, <2>2, <4>1, <4>2
        <5> QED BY <5>1, <5>2
      <4>3. CASE KindOf[j] # "remove"
        <5>1. groups[n].members \subseteq ad[n].members BY <2>2, <4>3 DEF Ahead
        <5>2. ad[n].members \subseteq groups[n].members
          BY <1>2, <2>2, <4>1, <4>3
        <5> QED BY <5>1, <5>2
      <4> QED BY <4>2, <4>3
    <3> QED BY <3>1, <3>2
  <2>3. CASE n # g BY <1>2, <2>1, <2>3
  <2> QED BY <2>2, <2>3
<1> QED BY <1>3, <1>4, <1>5

-----------------------------------------------------------------------------
(* The steps of the jobs.                                                  *)

\* A job that is registered finds both sides of its group alike.
LEMMA RegisterSides ==
  ASSUME ConstantsOK, Changes, ~Overlap, TypeInv, JobsInv, SideInv,
         NEW j \in Jobs, Register(j)
  PROVE  JobsInv' /\ SideInv' /\ Quiet
<1> DEFINE l == [loc[j] EXCEPT !.pc = "start"]
<1>1. j \in mix /\ loc[j].pc = "new" /\ Set(j, l)
      /\ UNCHANGED <<mix, groups, mtime, ad>>
  BY DEF Register, At, Go, ledger
<1>2. l.pc = "start" /\ loc'[j] = l BY <1>1, JobOfMix DEF Local, Set
<1>3. Alone(j) BY DEF Register, Alone
<1>4. NoneFailed => JobOK(j)'
  <2> SUFFICES ASSUME NoneFailed PROVE JobOK(j)' OBVIOUS
  <2>1. \A i \in mix : GroupOf[i] = GroupOf[j] => ~Running(i)
    BY <1>1, <1>3 DEF Alone, Running
  <2>2. Same(GroupOf[j]) BY <1>1, <2>1, JobOfMix DEF SideInv
  <2> QED BY <1>1, <1>2, <2>2 DEF JobOK, Ahead, Same
<1> HIDE DEF l
<1>5. l.pc \in Pcs \ {"new"} /\ l.pc # "ok" BY <1>2 DEF Pcs
<1>6. JobsInv' /\ SideInv' /\ (NoneFailed' => NoneFailed)
  BY <1>1, <1>3, <1>4, <1>5, MoveKeeps
<1> QED BY <1>1, <1>6 DEF Quiet, Agree

\* A job that starts has nothing done yet.
LEMMA MemberStartSides ==
  ASSUME ConstantsOK, Changes, TypeInv, JobsInv, SideInv, NEW j \in Jobs,
         MemberStart(j)
  PROVE  JobsInv' /\ SideInv' /\ Quiet
<1>1. /\ j \in mix /\ loc[j].pc = "start" /\ Running(j)
      /\ UNCHANGED <<mix, groups, mtime, ad>>
  BY DEF MemberStart, At, Running, Final, ledger
<1>2. loc[j] \in Local BY <1>1, JobOfMix
<1>3. CASE Accepted(j)
  <2> DEFINE l == [loc[j] EXCEPT !.pc = "members", !.left = MembersOf[j]]
  <2>1. Set(j, l) BY <1>3 DEF MemberStart
  <2>2. l.pc = "members" /\ l.left = MembersOf[j] /\ loc'[j] = l
    BY <1>1, <1>2, <2>1, JobOfMix DEF Local, Set
  <2> HIDE DEF l
  <2>3. NoneFailed => JobOK(j)'
    BY <1>1, <2>2 DEF SideInv, JobOK, Ahead, Through
  <2>4. l.pc \in Pcs \ {"new"} /\ l.pc # "ok" BY <2>2 DEF Pcs
  <2>5. JobsInv' /\ SideInv' /\ (NoneFailed' => NoneFailed)
    BY <1>1, <2>1, <2>3, <2>4, RunnerAlone, MoveKeeps
  <2> QED BY <1>1, <2>5 DEF Quiet, Agree
<1>4. CASE ~Accepted(j)
  <2>1. Set(j, [Blank EXCEPT !.pc = "fail"]) BY <1>4 DEF MemberStart, End
  <2>2. [Blank EXCEPT !.pc = "fail"].pc = "fail" BY DEF Blank
  <2> QED BY <1>1, <2>1, <2>2, BackToStart
<1> QED BY <1>3, <1>4

\* A command on the AD, also one whose answer is lost.
LEMMA AdMemberSides ==
  ASSUME ConstantsOK, Changes, TypeInv, JobsInv, SideInv, NEW j \in Jobs,
         AdMember(j)
  PROVE  JobsInv' /\ SideInv' /\ Quiet
<1>1. /\ j \in mix /\ loc[j].pc = "members" /\ Running(j)
      /\ UNCHANGED <<mix, groups, mtime>>
  BY DEF AdMember, At, Running, Final, ledger
<1>2. loc[j] \in Local /\ GroupOf[j] \in Names /\ KindOf[j] # "join"
  BY <1>1, JobOfMix
<1>3. Alone(j) /\ loc[j].pc # "fail" BY <1>1, RunnerAlone
<1> DEFINE Done(u) == ad' = [ad EXCEPT ![GroupOf[j]].members =
                        IF KindOf[j] = "remove" THEN @ \ {u} ELSE @ \cup {u}]
<1>4. PICK u \in loc[j].left :
        \/ Done(u) /\ Set(j, [loc[j] EXCEPT !.left = @ \ {u}])
        \/ (Done(u) \/ UNCHANGED ad) /\ Again(j)
  BY DEF AdMember
<1>5. \A n \in Names \ {GroupOf[j]} : groups'[n] = groups[n] /\ ad'[n] = ad[n]
  BY <1>1, <1>4 DEF AdMember, TypeInv, AdInv
<1> PICK S : S = MembersOf[j] \ loc[j].left OBVIOUS
<1>6. NoneFailed => u \in MembersOf[j] /\ Ahead(j) /\ Through(j, S)
  BY <1>1 DEF SideInv, JobOK
<1>7. NoneFailed /\ Done(u) =>
        /\ Ahead(j)' /\ (Agree' => Agree)
        /\ Through(j, S \cup {u})'
  <2> SUFFICES ASSUME NoneFailed, Done(u)
               PROVE  /\ Ahead(j)' /\ (Agree' => Agree)
                      /\ Through(j, S \cup {u})'
    OBVIOUS
  <2>1. groups' = groups BY <1>1
  <2>2. j \in mix /\ u \in MembersOf[j] /\ Ahead(j) BY <1>1, <1>6
  <2> QED BY <1>6, <2>1, <2>2, AdMoves
<1>8. CASE Done(u) /\ Set(j, [loc[j] EXCEPT !.left = @ \ {u}])
  <2> DEFINE l == [loc[j] EXCEPT !.left = @ \ {u}]
  <2>1. l.pc = "members" /\ l.left = loc[j].left \ {u} /\ loc'[j] = l /\ Set(j, l)
    BY <1>1, <1>2, <1>8, JobOfMix DEF Local, Set
  <2> HIDE DEF l
  <2>2. ASSUME NoneFailed PROVE JobOK(j)'
    <3>1. MembersOf[j] \ (loc[j].left \ {u}) = S \cup {u} BY <1>6, <2>2
    <3>2. loc[j].left \subseteq MembersOf[j] BY <1>1, <2>2 DEF SideInv, JobOK
    <3> QED BY <1>7, <1>8, <2>1, <2>2, <3>1, <3>2 DEF JobOK
  <2>3. l.pc \in Pcs \ {"new"} /\ l.pc # "ok" BY <2>1 DEF Pcs
  <2>4. JobsInv' /\ SideInv' /\ (NoneFailed' => NoneFailed)
    BY <1>1, <1>3, <1>5, <2>1, <2>2, <2>3, MoveKeeps
  <2> QED BY <1>1, <1>7, <1>8, <2>4 DEF Quiet
<1>9. CASE UNCHANGED ad /\ Again(j)
  BY <1>1, <1>2, <1>9, AgainSets, BackToStart
<1>10. CASE Done(u) /\ Again(j)
  <2>1. PICK l : Set(j, l) /\ l.pc \in {"start", "fail"} BY <1>2, <1>10, AgainSets
  <2>2. loc'[j] = l BY <1>1, <2>1, JobOfMix DEF Set
  <2>3. NoneFailed /\ l.pc # "fail" => JobOK(j)'
    BY <1>7, <1>10, <2>1, <2>2 DEF JobOK
  <2>4. l.pc \in Pcs \ {"new"} /\ l.pc # "ok" BY <2>1 DEF Pcs
  <2>5. JobsInv' /\ SideInv' /\ (NoneFailed' => NoneFailed)
    BY <1>1, <1>3, <1>5, <2>1, <2>3, <2>4, MoveKeeps
  <2> QED BY <1>1, <1>7, <1>10, <2>5 DEF Quiet
<1> QED BY <1>4, <1>8, <1>9, <1>10

\* With nobody left the AD has all of the change.
LEMMA AdMembersDoneSides ==
  ASSUME ConstantsOK, Changes, TypeInv, JobsInv, SideInv, NEW j \in Jobs,
         AdMembersDone(j)
  PROVE  JobsInv' /\ SideInv' /\ Quiet
<1>1. /\ j \in mix /\ loc[j].pc = "members" /\ loc[j].left = {} /\ Running(j)
      /\ UNCHANGED <<mix, groups, mtime, ad>>
  BY DEF AdMembersDone, At, Running, Final, ledger
<1> DEFINE l == [loc[j] EXCEPT !.pc = "ledger"]
<1>2. Set(j, l) BY <1>1, JobOfMix DEF AdMembersDone, Go
<1>3. l.pc = "ledger" /\ loc'[j] = l BY <1>1, <1>2, JobOfMix DEF Local, Set
<1> HIDE DEF l
<1>4. NoneFailed => JobOK(j)'
  <2> SUFFICES ASSUME NoneFailed PROVE JobOK(j)' OBVIOUS
  <2>1. Ahead(j) /\ Through(j, MembersOf[j] \ loc[j].left)
    BY <1>1 DEF SideInv, JobOK
  <2>2. MembersOf[j] \ loc[j].left = MembersOf[j] BY <1>1
  <2>3. Through(j, MembersOf[j]) BY <2>1, <2>2
  <2> QED BY <1>1, <1>3, <2>1, <2>3 DEF JobOK, Ahead, Through
<1>5. l.pc \in Pcs \ {"new"} /\ l.pc # "ok" BY <1>3 DEF Pcs
<1>6. JobsInv' /\ SideInv' /\ (NoneFailed' => NoneFailed)
  BY <1>1, <1>2, <1>4, <1>5, RunnerAlone, MoveKeeps
<1> QED BY <1>1, <1>6 DEF Quiet, Agree

\* The ledger gets what the AD has.
LEMMA LedgerMemberSides ==
  ASSUME ConstantsOK, Changes, TypeInv, JobsInv, SideInv, GidsInv, NEW j \in Jobs,
         LedgerMember(j)
  PROVE  /\ JobsInv' /\ SideInv' /\ (Quiet \/ Wrote)
         /\ \A n \in Names : groups'[n].gid = groups[n].gid
<1>1. /\ j \in mix /\ loc[j].pc = "ledger" /\ Running(j)
      /\ UNCHANGED <<mix, ad>>
  BY DEF LedgerMember, At, Running, Final
<1>2. /\ loc[j] \in Local /\ GroupOf[j] \in Names /\ MembersOf[j] \in SUBSET Users
      /\ groups \in [Names -> Group] /\ ad \in [Names -> Group]
  BY <1>1, JobOfMix DEF TypeInv, LedgerInv, AdInv
<1>12. KindOf[j] # "join" BY <1>1, JobOfMix
<1>3. Alone(j) /\ loc[j].pc # "fail" BY <1>1, RunnerAlone
<1>4. NoneFailed => Ahead(j) /\ Through(j, MembersOf[j])
  BY <1>1 DEF SideInv, JobOK
<1> DEFINE g == GroupOf[j]
           members == IF KindOf[j] = "remove" THEN groups[g].members \ MembersOf[j]
                                              ELSE groups[g].members \cup MembersOf[j]
           l == [loc[j] EXCEPT !.pc = "trigger"]
<1>5. NoneFailed => ad[g].members = members
  <2> SUFFICES ASSUME NoneFailed PROVE ad[g].members = members OBVIOUS
  <2>1. CASE KindOf[j] = "remove"
    <3>1. members = groups[g].members \ MembersOf[j] BY <2>1
    <3> HIDE DEF members
    <3>2. ad[g].members \subseteq members
      BY <1>4, <2>1, <3>1 DEF Ahead, Through
    <3>3. members \subseteq ad[g].members BY <1>4, <2>1, <3>1 DEF Ahead
    <3> QED BY <3>2, <3>3
  <2>2. CASE KindOf[j] # "remove"
    <3>1. members = groups[g].members \cup MembersOf[j] BY <2>2
    <3> HIDE DEF members
    <3>2. ad[g].members \subseteq members BY <1>4, <2>2, <3>1 DEF Ahead
    <3>3. members \subseteq ad[g].members
      BY <1>4, <2>2, <3>1 DEF Ahead, Through
    <3> QED BY <3>2, <3>3
  <2> QED BY <2>1, <2>2
<1>6. l.pc = "trigger" /\ l.pc \in Pcs \ {"new"} /\ l.pc # "ok"
  BY <1>2 DEF Local, Pcs
<1>7. \/ /\ groups[g].gid = 0 \/ members = groups[g].members
         /\ UNCHANGED ledger /\ Set(j, l)
      \/ Write(g, groups[g].gid, members) /\ Set(j, l)
      \/ UNCHANGED ledger /\ Again(j)
  BY DEF LedgerMember, Go
<1>8. Set(j, l) => loc'[j] = l BY <1>1, JobOfMix DEF Set
<1> HIDE DEF l
<1>9. CASE /\ groups[g].gid = 0 \/ members = groups[g].members
           /\ UNCHANGED ledger /\ Set(j, l)
  <2>1. groups' = groups /\ mtime' = mtime BY <1>9 DEF ledger
  <2>2. ASSUME NoneFailed PROVE JobOK(j)'
    <3>1. Same(g)
      <4>1. CASE groups[g].gid = 0
        <5>1. 0 \notin Gids /\ ad[g].gid = 0 BY <1>2, <4>1 DEF Gids, GidsInv
        <5> QED BY <1>2, <4>1, <5>1 DEF TypeInv, LedgerInv, AdInv, Filled, Same
      <4>2. CASE members = groups[g].members BY <1>5, <2>2, <4>2 DEF Same
      <4> QED BY <1>9, <4>1, <4>2
    <3> QED BY <1>1, <1>4, <1>6, <1>8, <1>9, <2>1, <2>2, <3>1 DEF JobOK, Ahead, Same
  <2>3. JobsInv' /\ SideInv' /\ (NoneFailed' => NoneFailed)
    BY <1>1, <1>3, <1>6, <1>9, <2>1, <2>2, MoveKeeps
  <2> QED BY <1>1, <2>1, <2>3 DEF Quiet, Agree
<1>10. CASE Write(g, groups[g].gid, members) /\ Set(j, l)
  <2>1. /\ \A n \in Names \ {g} : groups'[n] = groups[n]
        /\ groups'[g].gid = groups[g].gid /\ groups'[g].members = members
        /\ mtime' = mtime + 1
    BY <1>2, <1>10 DEF Write
  <2> HIDE DEF members
  <2>2. ASSUME NoneFailed PROVE JobOK(j)'
    BY <1>1, <1>5, <1>6, <1>8, <1>10, <2>1, <2>2 DEF JobOK, Ahead, Same
  <2>3. JobsInv' /\ SideInv' BY <1>1, <1>3, <1>6, <1>10, <2>1, <2>2, MoveKeeps
  <2> QED BY <2>1, <2>3 DEF Wrote
<1>11. CASE UNCHANGED ledger /\ Again(j)
  <2>1. groups' = groups /\ mtime' = mtime BY <1>11 DEF ledger
  <2> QED BY <1>1, <1>2, <1>11, <1>12, <2>1, AgainSets, BackToStart
<1> QED BY <1>7, <1>9, <1>10, <1>11

\* A job that ends well leaves both sides alike.
LEMMA TriggerSides ==
  ASSUME ConstantsOK, Changes, TypeInv, JobsInv, SideInv, NEW j \in Jobs,
         Trigger(j)
  PROVE  JobsInv' /\ SideInv' /\ Quiet
<1>1. /\ j \in mix /\ loc[j].pc = "trigger" /\ Running(j)
      /\ UNCHANGED <<mix, groups, mtime, ad>>
  BY DEF Trigger, At, Running, Final, ledger
<1> DEFINE l == [Blank EXCEPT !.pc = "ok"]
<1>2. Set(j, l) BY DEF Trigger, End
<1>3. l.pc = "ok" /\ loc'[j] = l BY <1>1, <1>2, JobOfMix DEF Blank, Set
<1> HIDE DEF l
<1>4. JobOK(j)' BY <1>3 DEF JobOK, Running, Final
<1>5. NoneFailed => Same(GroupOf[j])'
  BY <1>1 DEF SideInv, JobOK, Same
<1>6. l.pc \in Pcs \ {"new"} BY <1>3 DEF Pcs
<1>7. JobsInv' /\ SideInv' /\ (NoneFailed' => NoneFailed)
  BY <1>1, <1>2, <1>4, <1>5, <1>6, RunnerAlone, MoveKeeps
<1> QED BY <1>1, <1>7 DEF Quiet, Agree

\* In such a behaviour no job does anything else.
LEMMA OnlyChanges ==
  ASSUME ConstantsOK, Changes, TypeInv, JobsInv, NEW j \in Jobs, Worker(j)
  PROVE  \/ MemberStart(j) \/ AdMember(j) \/ AdMembersDone(j)
         \/ LedgerMember(j) \/ Trigger(j)
<1>1. j \in mix
  BY DEF Worker, CreateLine, JoinResolve, JoinLine, AdGroup, MemberStart,
         AdMember, AdMembersDone, LedgerMember, Trigger, At
<1>2. KindOf[j] \in {"add", "remove"} /\ loc[j].pc \in Pcs
  BY <1>1, JobOfMix DEF JobsInv
<1>3. ~CreateLine(j) /\ ~JoinResolve(j) BY <1>2 DEF CreateLine, JoinResolve
<1>4. ~JoinLine(j) /\ ~AdGroup(j) BY <1>2 DEF JoinLine, AdGroup, At, Pcs
<1> QED BY <1>3, <1>4 DEF Worker

\* The steps of the jobs, and what they leave alone.
LEMMA JobSides ==
  ASSUME ConstantsOK, Changes, ~Overlap, TypeInv, JobsInv, SideInv, GidsInv,
         NEW j \in Jobs, Register(j) \/ Worker(j)
  PROVE  JobsInv' /\ SideInv' /\ GidsInv' /\ (Quiet \/ Wrote)
<1>1. CASE Register(j)
  <2>1. UNCHANGED <<groups, ad, nas>> BY <1>1 DEF Register, ledger, onNas
  <2>2. GidsInv' BY <2>1 DEF GidsInv, LedgerGids
  <2> QED BY <1>1, <2>2, RegisterSides
<1>2. CASE MemberStart(j)
  <2>1. UNCHANGED <<groups, ad, nas>> BY <1>2 DEF MemberStart, ledger, onNas
  <2>2. GidsInv' BY <2>1 DEF GidsInv, LedgerGids
  <2> QED BY <1>2, <2>2, MemberStartSides
<1>3. CASE AdMember(j)
  <2>1. UNCHANGED <<groups, nas>> BY <1>3 DEF AdMember, ledger, onNas
  <2>2. \A n \in Names : ad'[n].gid = ad[n].gid
    <3>1. \/ UNCHANGED ad
          \/ \E m : ad' = [ad EXCEPT ![GroupOf[j]].members = m]
      BY <1>3, Zenon DEF AdMember
    <3>2. ad \in [Names -> Group] BY DEF TypeInv, AdInv
    <3>3. ASSUME NEW m, ad' = [ad EXCEPT ![GroupOf[j]].members = m], NEW n \in Names
          PROVE  ad'[n].gid = ad[n].gid
      BY <3>2, <3>3 DEF Group
    <3> QED BY <3>1, <3>3
  <2>3. GidsInv' BY <2>1, <2>2 DEF GidsInv, LedgerGids
  <2> QED BY <1>3, <2>3, AdMemberSides
<1>4. CASE AdMembersDone(j)
  <2>1. UNCHANGED <<groups, ad, nas>> BY <1>4 DEF AdMembersDone, ledger, onNas
  <2>2. GidsInv' BY <2>1 DEF GidsInv, LedgerGids
  <2> QED BY <1>4, <2>2, AdMembersDoneSides
<1>5. CASE LedgerMember(j)
  <2>1. UNCHANGED <<ad, nas>> BY <1>5 DEF LedgerMember, onNas
  <2>2. \A n \in Names : groups'[n].gid = groups[n].gid
    BY <1>5, LedgerMemberSides
  <2>3. LedgerGids' = LedgerGids BY <2>2 DEF LedgerGids
  <2>4. GidsInv' BY <2>1, <2>2, <2>3 DEF GidsInv
  <2> QED BY <1>5, <2>4, LedgerMemberSides
<1>6. CASE Trigger(j)
  <2>1. UNCHANGED <<groups, ad, nas>> BY <1>6 DEF Trigger, ledger, onNas
  <2>2. GidsInv' BY <2>1 DEF GidsInv, LedgerGids
  <2> QED BY <1>6, <2>2, TriggerSides
<1> QED BY <1>1, <1>2, <1>3, <1>4, <1>5, <1>6, OnlyChanges

\* A job that is resumed by another controller.
LEMMA CutOffSides ==
  ASSUME ConstantsOK, Changes, TypeInv, JobsInv, SideInv, NEW j \in mix,
         Running(j), Set(j, [Blank EXCEPT !.pc = "start", !.next = loc[j].next]),
         UNCHANGED <<mix, groups, mtime, ad>>
  PROVE  JobsInv' /\ SideInv' /\ Quiet
<1>1. [Blank EXCEPT !.pc = "start", !.next = loc[j].next].pc = "start" BY DEF Blank
<1> QED BY <1>1, BackToStart

-----------------------------------------------------------------------------
(* The runs.                                                               *)

\* A run that is not at one of these places promises nothing.
LEMMA OutOfHand ==
  ASSUME NEW r, rec'[r].pc \notin InHand PROVE RunOK(r)'
BY DEF RunOK, InHand

\* What a job does leaves the promises as they are, or leaves no run with
\* the mtime of the file.
LEMMA JobRuns ==
  ASSUME ConstantsOK, Changes, TypeInv, GidsInv, RunsInv, DoneInv,
         Quiet \/ Wrote, GidsInv', UNCHANGED <<nas, ctx, flushed>>,
         \A r \in Loops \cup {Cron} : rec'[r] = rec[r] \/ rec'[r].pc \notin InHand
  PROVE  RunsInv' /\ DoneInv'
<1>0. /\ mtime \in Nat /\ flushed \in Nat /\ flushed <= mtime
      /\ \A r \in Loops \cup {Cron} : rec[r].m \in Nat /\ rec[r].m <= mtime
  BY DEF TypeInv, LedgerInv, FlushInv, RecInv, Run
<1>1. CASE Wrote
  <2>1. mtime' = mtime + 1 BY <1>1 DEF Wrote
  <2>2. ~(flushed' >= mtime') BY <1>0, <2>1
  <2>3. ASSUME NEW r \in Loops \cup {Cron} PROVE RunOK(r)'
    <3>1. CASE rec'[r] = rec[r]
      <4>1. ~(rec'[r].m >= mtime') BY <1>0, <2>1, <3>1
      <4> QED BY <4>1 DEF RunOK
    <3>2. CASE rec'[r].pc \notin InHand BY <3>2, OutOfHand
    <3> QED BY <3>1, <3>2
  <2> QED BY <2>2, <2>3 DEF RunsInv, DoneInv
<1>2. CASE Quiet
  <2> SUFFICES ASSUME NoneFailed' PROVE RunsInv' /\ DoneInv'
    BY DEF RunsInv, DoneInv
  <2>1. groups' = groups /\ mtime' = mtime /\ NoneFailed /\ (Agree' => Agree)
    BY <1>2 DEF Quiet
  <2>2. (NasOK => NasOK') /\ (CtxOK => CtxOK')
    BY <2>1 DEF NasOK, CtxOK, InEffect, GidsIn
  <2>3. ASSUME NEW r \in Loops \cup {Cron} PROVE RunOK(r)'
    <3>1. CASE rec'[r] = rec[r]
      <4>1. RunOK(r) BY <2>1 DEF RunsInv
      <4> QED BY <2>1, <2>2, <3>1, <4>1 DEF RunOK, LedgerGids, GidsIn
    <3>2. CASE rec'[r].pc \notin InHand BY <3>2, OutOfHand
    <3> QED BY <3>1, <3>2
  <2> QED BY <2>1, <2>2, <2>3 DEF RunsInv, DoneInv
<1> QED BY <1>1, <1>2

\* The steps of the jobs.
LEMMA JobEffect ==
  ASSUME ConstantsOK, Changes, ~Overlap, TypeInv, EffectInv, NEW j \in Jobs,
         Register(j) \/ Worker(j)
  PROVE  EffectInv'
<1>1. JobsInv /\ SideInv /\ GidsInv /\ RunsInv /\ DoneInv BY DEF EffectInv
<1>2. JobsInv' /\ SideInv' /\ GidsInv' /\ (Quiet \/ Wrote) BY <1>1, JobSides
<1>3. UNCHANGED <<nas, ctx, flushed>>
      /\ \A r \in Loops \cup {Cron} : rec'[r] = rec[r] \/ rec'[r].pc \notin InHand
  <2>1. CASE Trigger(j)
    <3>1. UNCHANGED <<nas, ctx, flushed>> BY <2>1 DEF Trigger, onNas
    <3>2. UNCHANGED rec \/ \E l : rec' = [rec EXCEPT ![l].pc = "idle"]
      BY <2>1 DEF Trigger
    <3>3. ASSUME NEW l, rec' = [rec EXCEPT ![l].pc = "idle"],
                 NEW r \in Loops \cup {Cron}
          PROVE  rec'[r] = rec[r] \/ rec'[r].pc \notin InHand
      <4>1. rec \in [Loops \cup {Cron} -> Run] BY DEF TypeInv, RecInv
      <4>2. CASE r = l
        <5>1. rec'[r].pc = "idle" BY <3>3, <4>1, <4>2 DEF Run
        <5> QED BY <5>1 DEF InHand
      <4>3. CASE r # l BY <3>3, <4>1, <4>3
      <4> QED BY <4>2, <4>3
    <3> QED BY <3>1, <3>2, <3>3
  <2>2. CASE ~Trigger(j)
    <3>1. UNCHANGED <<onNas, flush>>
      BY <2>2 DEF Register, Worker, CreateLine, JoinResolve, JoinLine, AdGroup,
                  MemberStart, AdMember, AdMembersDone, LedgerMember
    <3> QED BY <3>1 DEF onNas, flush
  <2> QED BY <2>1, <2>2
<1>4. RunsInv' /\ DoneInv' BY <1>1, <1>2, <1>3, JobRuns
<1> QED BY <1>2, <1>4 DEF EffectInv

\* A step that leaves jobs, ledger and AD alone.
LEMMA SidesStay ==
  ASSUME EffectInv, UNCHANGED <<mix, groups, mtime, ad, loc>>
  PROVE  /\ JobsInv' /\ SideInv' /\ (nas' = nas => GidsInv')
         /\ NoneFailed' = NoneFailed /\ Agree' = Agree
<1>1. JobsInv' BY DEF EffectInv, JobsInv, Running, Alone
<1>2. SideInv'
  BY DEF EffectInv, SideInv, NoneFailed, Same, Running, JobOK, Ahead, Through
<1>3. nas' = nas => GidsInv' BY DEF EffectInv, GidsInv, LedgerGids
<1> QED BY <1>1, <1>2, <1>3 DEF NoneFailed, Agree

\* Such a step of one run, which may empty the contexts.
LEMMA RunStays ==
  ASSUME EffectInv, UNCHANGED <<mix, groups, mtime, ad, loc, nas>>,
         ctx' = ctx \/ ctx' = [u \in Users |-> {}],
         NEW r \in Loops \cup {Cron},
         \A k \in (Loops \cup {Cron}) \ {r} : rec'[k] = rec[k],
         NoneFailed => RunOK(r)',
         flushed' = flushed \/ (NoneFailed /\ flushed' >= mtime => NasOK /\ CtxOK)
  PROVE  EffectInv'
<1>1. /\ JobsInv' /\ SideInv' /\ GidsInv'
      /\ NoneFailed' = NoneFailed /\ Agree' = Agree
  BY SidesStay
<1>2. (NasOK => NasOK') /\ (CtxOK => CtxOK')
  <2>1. NasOK => NasOK' BY <1>1 DEF NasOK, GidsIn
  <2>2. InEffect => InEffect'
    <3>1. CASE ctx' = ctx BY <3>1 DEF InEffect, GidsIn
    <3>2. CASE ctx' = [u \in Users |-> {}] BY <3>2 DEF InEffect
    <3> QED BY <3>1, <3>2
  <2> QED BY <1>1, <2>1, <2>2 DEF CtxOK
<1>3. RunsInv'
  <2> SUFFICES ASSUME NoneFailed, NEW k \in Loops \cup {Cron} PROVE RunOK(k)'
    BY <1>1 DEF RunsInv
  <2>1. CASE k = r BY <2>1
  <2>2. CASE k # r
    <3>1. RunOK(k) BY DEF EffectInv, RunsInv
    <3>2. rec'[k] = rec[k] BY <2>2
    <3> QED BY <1>2, <3>1, <3>2 DEF RunOK, LedgerGids, GidsIn
  <2> QED BY <2>1, <2>2
<1>4. DoneInv' BY <1>1, <1>2 DEF EffectInv, DoneInv
<1> QED BY <1>1, <1>3, <1>4 DEF EffectInv

\* A run that goes to a place of no promise.
LEMMA RunLeaves ==
  ASSUME TypeInv, EffectInv, UNCHANGED <<mix, groups, mtime, ad, loc, nas>>,
         ctx' = ctx \/ ctx' = [u \in Users |-> {}],
         NEW r \in Loops \cup {Cron}, NEW x, SetRun(r, x), x.pc \notin InHand,
         flushed' = flushed \/ (NoneFailed /\ flushed' >= mtime => NasOK /\ CtxOK)
  PROVE  EffectInv'
<1>1. rec'[r] = x /\ \A k \in (Loops \cup {Cron}) \ {r} : rec'[k] = rec[k]
  BY DEF SetRun, TypeInv, RecInv
<1>2. RunOK(r)' BY <1>1, OutOfHand
<1> QED BY <1>1, <1>2, RunStays

\* The places that a run returns to are of that kind.
LEMMA BackSets ==
  ASSUME NEW r, NEW b, Back(r, b)
  PROVE  \E x : SetRun(r, x) /\ x.pc \notin InHand
<1> DEFINE pc == IF r = Cron THEN "idmap" ELSE IF b THEN "release" ELSE "idle"
           x  == [Rest EXCEPT !.late = rec[r].late, !.pc = pc]
<1>1. x.pc = pc BY DEF Rest
<1>2. pc \notin InHand BY DEF InHand
<1>3. SetRun(r, x) BY DEF Back
<1> QED BY <1>1, <1>2, <1>3

\* The steps of a run: what it has read is what the ledger says, if the file
\* has not been written since; the NAS knows no gid that the ledger has not,
\* so that to agree about the known ones is to agree; and the contexts are
\* emptied when the NAS agrees.
LEMMA ReconcileEffect ==
  ASSUME ConstantsOK, TypeInv, EffectInv, NEW r \in Loops \cup {Cron}, Reconcile(r)
  PROVE  EffectInv'
<1>1. /\ UNCHANGED <<mix, groups, mtime, ad, loc, nas>>
      /\ rec[r] \in Run /\ rec \in [Loops \cup {Cron} -> Run]
      /\ NoneFailed => RunOK(r)
  BY DEF Reconcile, Begin, ReadWanted, ReadKnown, AskNas, Flush, WriteState,
         Still, ledger, TypeInv, RecInv, EffectInv, RunsInv
<1>2. \A x : SetRun(r, x) => /\ rec'[r] = x
                             /\ \A k \in (Loops \cup {Cron}) \ {r} : rec'[k] = rec[k]
  BY <1>1 DEF SetRun
<1>3. CASE Begin(r)
  <2>1. UNCHANGED <<ctx, flushed>> BY <1>3 DEF Begin
  <2>2. CASE Back(r, FALSE) BY <1>1, <2>1, <2>2, BackSets, RunLeaves
  <2>3. CASE SetRun(r, [rec[r] EXCEPT !.pc = "want", !.m = mtime])
    <3>1. [rec[r] EXCEPT !.pc = "want", !.m = mtime].pc \notin InHand
      BY <1>1 DEF Run, InHand
    <3> QED BY <1>1, <2>1, <2>3, <3>1, RunLeaves
  <2> QED BY <1>3, <2>2, <2>3 DEF Begin
<1>4. CASE ReadWanted(r)
  <2> DEFINE w == [u \in Users |-> GidsIn(groups, u)]
             x == [rec[r] EXCEPT !.pc = "known", !.want = w]
  <2>1. SetRun(r, x) /\ UNCHANGED <<ctx, flushed>> BY <1>4 DEF ReadWanted
  <2>2. x.pc = "known" /\ x.want = w BY <1>1 DEF Run
  <2>3. rec'[r] = x /\ \A k \in (Loops \cup {Cron}) \ {r} : rec'[k] = rec[k]
    BY <1>2, <2>1
  <2>4. RunOK(r)' BY <1>1, <2>2, <2>3 DEF RunOK, GidsIn
  <2> QED BY <1>1, <2>1, <2>3, <2>4, RunStays
<1>5. CASE ReadKnown(r)
  <2> DEFINE x == [rec[r] EXCEPT !.pc = "ask", !.known = LedgerGids]
  <2>1. SetRun(r, x) /\ UNCHANGED <<ctx, flushed>>
    BY <1>5 DEF ReadKnown, LedgerGids
  <2>2. /\ x.pc = "ask" /\ x.known = LedgerGids
        /\ x.want = rec[r].want /\ x.m = rec[r].m
    BY <1>1 DEF Run
  <2>3. rec'[r] = x /\ \A k \in (Loops \cup {Cron}) \ {r} : rec'[k] = rec[k]
    BY <1>2, <2>1
  <2> HIDE DEF x
  <2>4. NoneFailed => RunOK(r)'
    <3>1. LedgerGids' = LedgerGids BY <1>1 DEF LedgerGids
    <3>2. rec[r].pc = "known" BY <1>5 DEF ReadKnown, RunAt
    <3> QED BY <1>1, <2>2, <2>3, <3>1, <3>2 DEF RunOK, GidsIn
  <2> QED BY <1>1, <2>1, <2>3, <2>4, RunStays
<1>6. CASE AskNas(r)
  <2>1. UNCHANGED <<ctx, flushed>> BY <1>6 DEF AskNas
  <2>2. CASE Back(r, FALSE) BY <1>1, <2>1, <2>2, BackSets, RunLeaves
  <2>3. CASE CaughtUp(r) /\ SetRun(r, [rec[r] EXCEPT !.pc = "flush"])
    <3> DEFINE x == [rec[r] EXCEPT !.pc = "flush"]
    <3>1. x.pc = "flush" /\ x.m = rec[r].m BY <1>1 DEF Run
    <3>2. rec'[r] = x /\ \A k \in (Loops \cup {Cron}) \ {r} : rec'[k] = rec[k]
      BY <1>2, <2>3
    <3> HIDE DEF x
    <3>3. ASSUME NoneFailed PROVE RunOK(r)'
      <4> SUFFICES ASSUME rec[r].m >= mtime PROVE NasOK'
        BY <1>1, <3>1, <3>2 DEF RunOK
      <4>1. rec[r].pc = "ask" BY <1>6 DEF AskNas, RunAt
      <4>2. rec[r].known = LedgerGids
            /\ \A u \in Users : rec[r].want[u] = GidsIn(groups, u)
        BY <1>1, <3>3, <4>1 DEF RunOK
      <4>3. ASSUME NEW u \in Users \ Unknown PROVE nas[u] = GidsIn(groups, u)
        <5>1. nas[u] \cap rec[r].known = rec[r].want[u] BY <2>3 DEF CaughtUp
        <5>2. nas[u] \subseteq LedgerGids BY DEF EffectInv, GidsInv
        <5>3. nas[u] \cap LedgerGids = nas[u] BY <5>2
        <5> QED BY <4>2, <5>1, <5>3
      <4> QED BY <1>1, <4>3 DEF NasOK, GidsIn
    <3> QED BY <1>1, <2>1, <3>2, <3>3, RunStays
  <2> QED BY <1>6, <2>2, <2>3 DEF AskNas
<1>7. CASE Flush(r)
  <2>1. flushed' = flushed BY <1>7 DEF Flush
  <2>2. CASE ctx' = [u \in Users |-> {}] /\ SetRun(r, [rec[r] EXCEPT !.pc = "write"])
    <3> DEFINE x == [rec[r] EXCEPT !.pc = "write"]
    <3>1. x.pc = "write" /\ x.m = rec[r].m BY <1>1 DEF Run
    <3>2. rec'[r] = x /\ \A k \in (Loops \cup {Cron}) \ {r} : rec'[k] = rec[k]
      BY <1>2, <2>2
    <3> HIDE DEF x
    <3>3. ASSUME NoneFailed PROVE RunOK(r)'
      <4> SUFFICES ASSUME rec[r].m >= mtime PROVE NasOK' /\ CtxOK'
        BY <1>1, <3>1, <3>2 DEF RunOK
      <4>1. rec[r].pc = "flush" BY <1>7 DEF Flush, RunAt
      <4>2. NasOK BY <1>1, <3>3, <4>1 DEF RunOK
      <4>3. NasOK' BY <1>1, <4>2 DEF NasOK, Agree, GidsIn
      <4>4. InEffect' BY <2>2 DEF InEffect
      <4> QED BY <4>3, <4>4 DEF CtxOK
    <3> QED BY <1>1, <2>1, <2>2, <3>2, <3>3, RunStays
  <2>3. CASE (ctx' = [u \in Users |-> {}] \/ UNCHANGED ctx) /\ Back(r, FALSE)
    BY <1>1, <2>1, <2>3, BackSets, RunLeaves
  <2> QED BY <1>7, <2>2, <2>3 DEF Flush
<1>8. CASE WriteState(r)
  <2>1. ctx' = ctx /\ rec[r].pc = "write" BY <1>8 DEF WriteState, RunAt
  <2>2. CASE flushed' = rec[r].m /\ Back(r, TRUE)
    <3>1. NoneFailed /\ flushed' >= mtime => NasOK /\ CtxOK
      BY <1>1, <2>1, <2>2 DEF RunOK
    <3> QED BY <1>1, <2>1, <2>2, <3>1, BackSets, RunLeaves
  <2>3. CASE flushed' = flushed /\ (SetRun(r, [Rest EXCEPT !.pc = "idle"])
                                    \/ Back(r, FALSE))
    <3>1. [Rest EXCEPT !.pc = "idle"].pc \notin InHand BY DEF Rest, InHand
    <3> QED BY <1>1, <2>1, <2>3, <3>1, BackSets, RunLeaves
  <2> QED BY <1>8, <2>2, <2>3 DEF WriteState
<1> QED BY <1>3, <1>4, <1>5, <1>6, <1>7, <1>8 DEF Reconcile

\* What the NAS learns is in the AD; when the AD agrees with the ledger, it is
\* what the ledger says.
LEMMA LearnEffect ==
  ASSUME ConstantsOK, TypeInv, EffectInv, NEW u \in Users, Learn(u)
  PROVE  EffectInv'
<1>1. /\ UNCHANGED <<mix, groups, mtime, ad, loc, ctx, flushed, rec>>
      /\ nas' = [nas EXCEPT ![u] = GidsIn(ad, u)]
  BY DEF Learn, ledger, flush
<1>2. JobsInv' /\ SideInv' /\ NoneFailed' = NoneFailed /\ Agree' = Agree
  BY <1>1, SidesStay
<1>3. /\ nas'[u] = GidsIn(ad, u) /\ \A v \in Users \ {u} : nas'[v] = nas[v]
  BY <1>1 DEF TypeInv, NasInv
<1>4. GidsIn(ad, u) \subseteq LedgerGids
  <2>1. \A g \in Names : ad[g].members # {} => ad[g].gid \in Gids
    BY DEF TypeInv, AdInv, Filled
  <2>2. 0 \notin Gids BY DEF Gids
  <2>3. \A g \in Names : ad[g].gid = groups[g].gid BY DEF EffectInv, GidsInv
  <2> QED BY <2>1, <2>2, <2>3 DEF GidsIn, LedgerGids
<1>5. LedgerGids' = LedgerGids BY <1>1 DEF LedgerGids
<1>6. GidsInv' BY <1>1, <1>3, <1>4, <1>5 DEF EffectInv, GidsInv
<1>7. (NasOK => NasOK') /\ (CtxOK => CtxOK')
  <2>1. NasOK => NasOK'
    <3>1. \A v \in Users : GidsIn(groups, v)' = GidsIn(groups, v)
      BY <1>1 DEF GidsIn
    <3>2. ASSUME NasOK, Agree, NEW v \in Users \ Unknown
          PROVE  nas'[v] = GidsIn(groups, v)
      <4>1. CASE v = u BY <1>3, <3>2, <4>1, AgreeGids
      <4>2. CASE v # u BY <1>3, <3>2, <4>2 DEF NasOK
      <4> QED BY <4>1, <4>2
    <3> QED BY <1>2, <3>1, <3>2 DEF NasOK
  <2>2. InEffect => InEffect' BY <1>1 DEF InEffect, GidsIn
  <2> QED BY <1>2, <2>1, <2>2 DEF CtxOK
<1>8. RunsInv'
  <2> SUFFICES ASSUME NoneFailed, NEW k \in Loops \cup {Cron} PROVE RunOK(k)'
    BY <1>2 DEF RunsInv
  <2>1. RunOK(k) BY DEF EffectInv, RunsInv
  <2> QED BY <1>1, <1>5, <1>7, <2>1 DEF RunOK, GidsIn
<1>9. DoneInv' BY <1>1, <1>2, <1>7 DEF EffectInv, DoneInv
<1> QED BY <1>2, <1>6, <1>8, <1>9 DEF EffectInv

\* A context that is made, or ends: a new one has what the NAS holds.
LEMMA ContextEffect ==
  ASSUME ConstantsOK, TypeInv, EffectInv, NEW u \in Users, Connect(u) \/ Lapse(u)
  PROVE  EffectInv'
<1>1. UNCHANGED <<mix, groups, mtime, ad, loc, nas, flushed, rec>>
  BY DEF Connect, Lapse, ledger, flush
<1>2. /\ JobsInv' /\ SideInv' /\ GidsInv'
      /\ NoneFailed' = NoneFailed /\ Agree' = Agree
  BY <1>1, SidesStay
<1>3. NasOK => NasOK' BY <1>1, <1>2 DEF NasOK, GidsIn
<1>4. NasOK /\ CtxOK => CtxOK'
  <2> SUFFICES ASSUME NasOK, CtxOK, Agree, NEW v \in Users
               PROVE  ctx'[v] \subseteq {GidsIn(groups, v)}
    BY <1>1, <1>2 DEF CtxOK, InEffect, GidsIn
  <2>1. ctx[v] \subseteq {GidsIn(groups, v)} BY DEF CtxOK, InEffect
  <2>2. ctx \in [Users -> SUBSET SUBSET Gids] BY DEF TypeInv, CtxInv
  <2>3. CASE Connect(u)
    <3>1. u \in Users \ Unknown /\ ctx' = [ctx EXCEPT ![u] = {nas[u]}]
      BY <2>3 DEF Connect
    <3>2. nas[u] = GidsIn(groups, u) BY <3>1 DEF NasOK
    <3> QED BY <2>1, <2>2, <3>1, <3>2
  <2>4. CASE Lapse(u)
    <3>1. ctx' = [ctx EXCEPT ![u] = {}] BY <2>4 DEF Lapse
    <3> QED BY <2>1, <2>2, <3>1
  <2> QED BY <2>3, <2>4
<1>5. RunsInv'
  <2> SUFFICES ASSUME NoneFailed, NEW k \in Loops \cup {Cron} PROVE RunOK(k)'
    BY <1>2 DEF RunsInv
  <2>1. RunOK(k) BY DEF EffectInv, RunsInv
  <2> QED BY <1>1, <1>3, <1>4, <2>1 DEF RunOK, LedgerGids, GidsIn
<1>6. DoneInv' BY <1>1, <1>2, <1>3, <1>4 DEF EffectInv, DoneInv
<1> QED BY <1>2, <1>5, <1>6 DEF EffectInv

\* A loop that gives up or releases, and the end of the cron job.
LEMMA EndEffect ==
  ASSUME TypeInv, EffectInv,
         CronIdmap \/ \E l \in Loops : GiveUp(l) \/ Release(l)
  PROVE  EffectInv'
<1>1. /\ [Rest EXCEPT !.pc = "idle"].pc \notin InHand /\ Rest.pc \notin InHand
      /\ \A l \in Loops : [rec[l] EXCEPT !.pc = "release"].pc \notin InHand
  BY DEF Rest, InHand, TypeInv, RecInv, Run
<1>2. CASE CronIdmap
  <2>1. /\ UNCHANGED <<mix, groups, mtime, ad, loc, nas, ctx, flushed>>
        /\ SetRun(Cron, [Rest EXCEPT !.pc = "idle"])
    BY <1>2 DEF CronIdmap, ledger, onNas
  <2> QED BY <1>1, <2>1, RunLeaves
<1>3. ASSUME NEW l \in Loops, GiveUp(l) PROVE EffectInv'
  <2>1. /\ UNCHANGED <<mix, groups, mtime, ad, loc, nas, ctx, flushed>>
        /\ SetRun(l, [rec[l] EXCEPT !.pc = "release"])
    BY <1>3 DEF GiveUp, Still, ledger
  <2> QED BY <1>1, <2>1, RunLeaves
<1>4. ASSUME NEW l \in Loops, Release(l) PROVE EffectInv'
  <2>1. /\ UNCHANGED <<mix, groups, mtime, ad, loc, nas, ctx, flushed>>
        /\ SetRun(l, Rest)
    BY <1>4 DEF Release, ledger, onNas
  <2> QED BY <1>1, <2>1, RunLeaves
<1> QED BY <1>2, <1>3, <1>4

\* A lock that expires changes what a run knows of its lock only.
LEMMA ExpireEffect ==
  ASSUME TypeInv, EffectInv, Expire PROVE EffectInv'
<1>1. /\ UNCHANGED <<mix, groups, mtime, ad, loc, nas, ctx, flushed>>
      /\ lock \in Loops
  BY DEF Expire, ledger, onNas, TypeInv, FlushInv
<1> PICK l \in Loops : l = lock BY <1>1
<1>2. UNCHANGED rec \/ rec' = [rec EXCEPT ![l].late = TRUE] BY DEF Expire
<1>3. /\ rec'[l].pc = rec[l].pc /\ rec'[l].m = rec[l].m
      /\ rec'[l].want = rec[l].want /\ rec'[l].known = rec[l].known
      /\ \A k \in (Loops \cup {Cron}) \ {l} : rec'[k] = rec[k]
  BY <1>1, <1>2 DEF TypeInv, RecInv, Run
<1>4. NoneFailed => RunOK(l)'
  <2>1. NoneFailed => RunOK(l) BY <1>1 DEF EffectInv, RunsInv
  <2>2. (NasOK => NasOK') /\ (CtxOK => CtxOK') /\ LedgerGids' = LedgerGids
    BY <1>1 DEF NasOK, CtxOK, InEffect, Agree, GidsIn, LedgerGids
  <2> QED BY <1>1, <1>3, <2>1, <2>2 DEF RunOK, GidsIn
<1> QED BY <1>1, <1>3, <1>4, RunStays

\* A process that dies.
LEMMA CrashEffect ==
  ASSUME ConstantsOK, Changes, TypeInv, EffectInv, Crash PROVE EffectInv'
<1>0. JobsInv /\ SideInv /\ GidsInv /\ RunsInv /\ DoneInv BY DEF EffectInv
<1>1. UNCHANGED <<mix, groups, mtime, ad, nas, ctx, flushed>>
  BY DEF Crash, ledger, onNas
<1>2. CASE \E j \in mix :
             /\ Running(j)
             /\ Set(j, [Blank EXCEPT !.pc = "start", !.next = loc[j].next])
             /\ UNCHANGED rec
  <2>1. JobsInv' /\ SideInv' /\ Quiet BY <1>0, <1>1, <1>2, CutOffSides
  <2>2. GidsInv' BY <1>0, <1>1 DEF GidsInv, LedgerGids
  <2>3. RunsInv' /\ DoneInv' BY <1>0, <1>1, <1>2, <2>1, <2>2, JobRuns
  <2> QED BY <2>1, <2>2, <2>3 DEF EffectInv
<1>3. CASE \E r \in Loops \cup {Cron} :
             /\ SetRun(r, IF r = Cron THEN [Rest EXCEPT !.pc = "idle"] ELSE Rest)
             /\ UNCHANGED loc
  <2>1. PICK r \in Loops \cup {Cron} :
          /\ SetRun(r, [Rest EXCEPT !.pc = "idle"]) \/ SetRun(r, Rest)
          /\ UNCHANGED loc
    BY <1>3
  <2>2. [Rest EXCEPT !.pc = "idle"].pc \notin InHand /\ Rest.pc \notin InHand
    BY DEF Rest, InHand
  <2> QED BY <1>1, <2>1, <2>2, RunLeaves
<1> QED BY <1>2, <1>3 DEF Crash

-----------------------------------------------------------------------------
(* The theorem.                                                            *)

\* At the start both sides, the NAS and the contexts are alike.
LEMMA EffectInit ==
  ASSUME ConstantsOK, Changes, TypeInv, Init PROVE EffectInv
<1>1. \A j \in mix : loc[j] = Blank BY JobOfMix DEF Init
<1>2. \A j \in mix : loc[j].pc = "new" BY <1>1 DEF Blank
<1>3. JobsInv BY <1>2 DEF JobsInv, Pcs, Running, Final
<1>4. SideInv BY <1>2 DEF SideInv, JobOK, Running, Final, Same, Init
<1>5. GidsInv
  <2>1. \A g \in Names : groups[g].members # {} => groups[g].gid \in Gids
    BY DEF TypeInv, LedgerInv, Filled
  <2>2. 0 \notin Gids BY DEF Gids
  <2>3. \A u \in Users : GidsIn(groups, u) \subseteq LedgerGids
    BY <2>1, <2>2 DEF GidsIn, LedgerGids
  <2> QED BY <2>3 DEF GidsInv, Init
<1>6. RunsInv
  <2>1. \A r \in Loops \cup {Cron} : rec[r].pc \in {"idle", "off"}
    BY DEF Init, Rest
  <2> QED BY <2>1 DEF RunsInv, RunOK
<1>7. DoneInv BY DEF DoneInv, NasOK, CtxOK, InEffect, Init
<1> QED BY <1>3, <1>4, <1>5, <1>6, <1>7 DEF EffectInv

\* Every step keeps the invariant.
LEMMA EffectStep ==
  ASSUME ConstantsOK, Changes, ~Overlap, TypeInv, EffectInv, [Next]_vars
  PROVE  EffectInv'
<1>1. CASE \E j \in Jobs : Register(j) \/ Worker(j) BY <1>1, JobEffect
<1>2. CASE CronJob BY <1>2, ReconcileEffect, EndEffect DEF CronJob
<1>3. CASE \E l \in Loops : Loop(l) BY <1>3, ReconcileEffect, EndEffect DEF Loop
<1>4. CASE Expire BY <1>4, ExpireEffect
<1>5. CASE \E g \in Names : SendIdmap(g)
  <2>1. UNCHANGED <<mix, groups, mtime, ad, loc, nas, ctx, flushed, rec>>
    BY <1>5 DEF SendIdmap, ledger, onNas, flush
  <2>2. RunOK(Cron) => RunOK(Cron)'
    BY <2>1 DEF RunOK, NasOK, CtxOK, InEffect, Agree, GidsIn, LedgerGids
  <2> QED BY <2>1, <2>2, RunStays DEF EffectInv, RunsInv
<1>6. CASE \E u \in Users : Learn(u) \/ Connect(u) \/ Lapse(u)
  BY <1>6, LearnEffect, ContextEffect
<1>7. CASE Crash BY <1>7, CrashEffect
<1>8. CASE UNCHANGED vars
  <2>1. UNCHANGED <<mix, groups, mtime, ad, loc, nas, ctx, flushed, rec>>
    BY <1>8 DEF vars, ledger, onNas, flush
  <2>2. RunOK(Cron) => RunOK(Cron)'
    BY <2>1 DEF RunOK, NasOK, CtxOK, InEffect, Agree, GidsIn, LedgerGids
  <2> QED BY <2>1, <2>2, RunStays DEF EffectInv, RunsInv
<1> QED BY <1>1, <1>2, <1>3, <1>4, <1>5, <1>6, <1>7, <1>8 DEF Next

\* When the jobs change memberships, and no two about one group run at one
\* time: a flush that is recorded as new as the group file has left no context
\* with other groups than the file's, as soon as the AD agrees and as long as
\* no job has failed, for any users, groups, jobs and loops, and however runs
\* overlap, processes die and sessions on the NAS break off
\* (reconcile_nas_gss_cache, #153).
THEOREM FlushInEffect ==
  ASSUME Changes, ~Overlap
  PROVE  Spec => []FlushedMeansInEffect
<1>1. Init /\ TypeInv => EffectInv BY ConstantsOK, EffectInit
<1>2. TypeInv /\ EffectInv /\ [Next]_vars => EffectInv'
  BY ConstantsOK, EffectStep
<1>3. EffectInv => FlushedMeansInEffect BY EffectEnough DEF EffectInv
<1> QED BY <1>1, <1>2, <1>3, TypeInvAlways, PTL DEF Spec

-----------------------------------------------------------------------------
(* What a job that ended well has left (DoneMeansBoth)                     *)
(*                                                                         *)
(* For jobs of any kind and in any order, when no two groups have one gid  *)
(* at the start and a provision job that brings a gid brings that of the   *)
(* group's line.  Then a gid is of one group for ever, so that no job      *)
(* touches the line of another group than its own.                         *)

GidsFit ==
  /\ \A m, n \in DOMAIN Known : Known[m] = Known[n] => m = n
  /\ \A j \in Jobs : KindOf[j] = "join" /\ GidOf[j] # 0 =>
       GroupOf[j] \in DOMAIN Known /\ Known[GroupOf[j]] = GidOf[j]

\* A gid is of one line, was given out, and is for ever.
LinesInv ==
  /\ \A m, n \in Names : groups[m].gid = groups[n].gid /\ groups[n].gid # 0 => m = n
  /\ \A n \in Names : groups[n].gid <= issued
  /\ \A n \in DOMAIN Known : groups[n].gid = Known[n]

\* A group of the AD has the gid of the line; only jobs that write the ledger
\* first let the AD be without it.
AdGidsInv ==
  \A n \in Names :
    /\ ad[n].gid \in {0, groups[n].gid}
    /\ (\A j \in mix : GroupOf[j] = n /\ KindOf[j] \in LedgerFirst =>
                         loc[j].pc = "new") => ad[n].gid = groups[n].gid

\* Where a job can be, and the gids that it relies on there, or that a join
\* will rely on when it goes on after the steps that are recorded as done.
Placed(j) ==
  LET g == GroupOf[j]
  IN /\ loc[j].pc = "line"    => KindOf[j] = "join"
     /\ loc[j].pc = "group"   => KindOf[j] \in LedgerFirst
     /\ loc[j].pc = "ledger"  => KindOf[j] \notin LedgerFirst
     /\ loc[j].pc = "members" => loc[j].left \subseteq MembersOf[j]
     /\ loc[j].pc \in {"line", "group"} => loc[j].gid = groups[g].gid
     /\ KindOf[j] = "join" =>
          /\ loc[j].pc = "line" => loc[j].next = "line"
          /\ loc[j].pc \in {"group", "members"} =>
               loc[j].next = "group" /\ loc[j].gid = groups[g].gid
          /\ loc[j].next # "line" => groups[g].gid # 0
          /\ loc[j].next = "trigger" => ad[g].gid # 0
     /\ loc[j].pc \in {"members", "ledger", "trigger", "ok"} =>
          groups[g].gid # 0 /\ (KindOf[j] \in LedgerFirst => ad[g].gid # 0)
PlacesInv == \A j \in mix : Placed(j)

\* A job that is the only one about its group so far has brought these
\* members in or out of a table.
Sole(j) == \A i \in mix \ {j} : GroupOf[i] = GroupOf[j] => loc[i].pc = "new"
Took(members, j, S) == IF KindOf[j] = "remove" THEN S \cap members = {}
                                               ELSE S \subseteq members
InLedger(j) == Took(groups[GroupOf[j]].members, j, MembersOf[j])
InAd(j)     == Took(ad[GroupOf[j]].members, j, MembersOf[j])
Whole(j) ==
  /\ loc[j].pc = "group"   => InLedger(j)
  /\ loc[j].pc = "members" =>
       /\ Took(ad[GroupOf[j]].members, j, MembersOf[j] \ loc[j].left)
       /\ KindOf[j] \in LedgerFirst => InLedger(j)
  /\ loc[j].pc = "ledger"  => InAd(j)
  /\ loc[j].pc \in {"trigger", "ok"} => InAd(j) /\ InLedger(j)
  /\ KindOf[j] = "join" => /\ loc[j].next # "line"   => InLedger(j)
                           /\ loc[j].next = "trigger" => InAd(j)
WholeInv == \A j \in mix : Sole(j) => Whole(j)

BothInv == LinesInv /\ AdGidsInv /\ PlacesInv /\ WholeInv

\* What the property says, in these words.
LEMMA BothEnough ==
  ASSUME ConstantsOK, TypeInv, BothInv PROVE DoneMeansBoth
<1> SUFFICES ASSUME NEW j \in mix, loc[j].pc = "ok", Sole(j)
             PROVE  \A table \in {groups, ad} :
                      LET g == GroupOf[j]
                      IN /\ table[g].gid = groups[g].gid /\ table[g].gid # 0
                         /\ IF KindOf[j] = "remove"
                            THEN MembersOf[j] \cap table[g].members = {}
                            ELSE MembersOf[j] \subseteq table[g].members
  BY DEF DoneMeansBoth, Sole
<1> DEFINE g == GroupOf[j]
<1>1. g \in Names BY JobsMix DEF ConstantsOK
<1>2. InAd(j) /\ InLedger(j) BY DEF BothInv, WholeInv, Whole
<1>3. groups[g].gid # 0 /\ (KindOf[j] \in LedgerFirst => ad[g].gid # 0)
  BY DEF BothInv, PlacesInv, Placed
<1>4. ad[g].gid = groups[g].gid
  <2>1. CASE KindOf[j] \in LedgerFirst
    BY <1>1, <1>3, <2>1 DEF BothInv, AdGidsInv
  <2>2. CASE KindOf[j] \notin LedgerFirst
    <3>1. \A i \in mix : GroupOf[i] = g /\ KindOf[i] \in LedgerFirst =>
                           loc[i].pc = "new"
      BY <2>2 DEF Sole
    <3> QED BY <1>1, <3>1 DEF BothInv, AdGidsInv
  <2> QED BY <2>1, <2>2
<1> QED BY <1>2, <1>3, <1>4 DEF InAd, InLedger, Took

\* The job that a step is about.
LEMMA JobFacts ==
  ASSUME ConstantsOK, TypeInv, NEW j \in mix
  PROVE  /\ j \in Jobs /\ GroupOf[j] \in Names /\ MembersOf[j] \in SUBSET Users
         /\ loc[j] \in Local /\ LocOK(j, loc[j]) /\ loc \in [Jobs -> Local]
         /\ KindOf[j] \in Kinds
         /\ groups \in [Names -> Group] /\ ad \in [Names -> Group]
         /\ issued \in Nat
<1>1. mix \in Mixes /\ LocInv /\ LedgerInv /\ AdInv BY DEF TypeInv
<1>2. j \in Jobs BY <1>1 DEF ConstantsOK
<1>3. /\ GroupOf[j] \in Names /\ MembersOf[j] \in SUBSET Users
      /\ KindOf[j] \in Kinds /\ SharedMax \in Nat
  BY <1>2 DEF ConstantsOK
<1> QED BY <1>1, <1>2, <1>3 DEF LocInv, LedgerInv, AdInv

\* A step of one job, which leaves the lines and groups of others alone, and
\* gives its own a gid or leaves it.
LEMMA JobKeeps ==
  ASSUME ConstantsOK, TypeInv, BothInv, NEW j \in mix, NEW l,
         Set(j, l), l.pc # "new", UNCHANGED mix,
         \A n \in Names \ {GroupOf[j]} : groups'[n] = groups[n] /\ ad'[n] = ad[n],
         \/ groups'[GroupOf[j]].gid = groups[GroupOf[j]].gid
         \/ groups[GroupOf[j]].gid = 0 /\ KindOf[j] \in LedgerFirst,
         \/ ad'[GroupOf[j]].gid = ad[GroupOf[j]].gid
         \/ /\ ad'[GroupOf[j]].gid = groups[GroupOf[j]].gid
            /\ groups'[GroupOf[j]].gid = groups[GroupOf[j]].gid
            /\ KindOf[j] \in LedgerFirst,
         Placed(j)', Sole(j) => Whole(j)'
  PROVE  AdGidsInv' /\ PlacesInv' /\ WholeInv'
<1> DEFINE g == GroupOf[j]
<1>1. loc'[j] = l /\ \A i \in mix \ {j} : loc'[i] = loc[i]
  BY JobFacts DEF Set
<1>2. g \in Names BY JobFacts
<1>3. AdGidsInv'
  <2> SUFFICES ASSUME NEW n \in Names
               PROVE  /\ ad'[n].gid \in {0, groups'[n].gid}
                      /\ (\A i \in mix : GroupOf[i] = n /\ KindOf[i] \in LedgerFirst =>
                            loc'[i].pc = "new") => ad'[n].gid = groups'[n].gid
    BY DEF AdGidsInv
  <2>1. /\ ad[n].gid \in {0, groups[n].gid}
        /\ (\A i \in mix : GroupOf[i] = n /\ KindOf[i] \in LedgerFirst =>
              loc[i].pc = "new") => ad[n].gid = groups[n].gid
    BY DEF BothInv, AdGidsInv
  <2>2. CASE n # g
    <3>1. \A i \in mix : GroupOf[i] = n => loc'[i] = loc[i] BY <1>1, <2>2
    <3> QED BY <2>1, <2>2, <3>1
  <2>3. CASE n = g /\ KindOf[j] \in LedgerFirst BY <1>1, <2>1, <2>3
  <2>4. CASE n = g /\ KindOf[j] \notin LedgerFirst
    <3>1. \A i \in mix : GroupOf[i] = n /\ KindOf[i] \in LedgerFirst =>
                           loc'[i] = loc[i]
      BY <1>1, <2>4
    <3> QED BY <2>1, <2>4, <3>1
  <2> QED BY <2>2, <2>3, <2>4
<1>4. PlacesInv'
  <2> SUFFICES ASSUME NEW i \in mix PROVE Placed(i)' BY DEF PlacesInv
  <2>1. CASE i = j BY <2>1
  <2>2. CASE i # j
    <3>1. loc'[i] = loc[i] /\ Placed(i) /\ LocOK(i, loc[i]) /\ GroupOf[i] \in Names
      BY <1>1, <2>2, JobFacts DEF BothInv, PlacesInv
    <3>2. CASE GroupOf[i] # g BY <3>1, <3>2 DEF Placed
    <3>3. CASE GroupOf[i] = g
      <4>1. 0 \notin Gids BY DEF Gids
      <4>2. ad[g].gid \in {0, groups[g].gid} BY <1>2 DEF BothInv, AdGidsInv
      <4>3. /\ groups[g].gid # 0 => groups'[g].gid = groups[g].gid
            /\ ad[g].gid # 0 => ad'[g].gid # 0
        BY <4>2
      <4>4. KindOf[i] = "join" /\ loc[i].pc = "members" => loc[i].gid # 0
        BY <3>1, <4>1 DEF LocOK, Working, Final
      <4>5. loc[i].pc \in {"line", "group"} => loc[i].gid # 0
        BY <3>1, <4>1 DEF LocOK
      <4> HIDE DEF g
      <4> QED BY <3>1, <3>3, <4>3, <4>4, <4>5 DEF Placed
    <3> QED BY <3>2, <3>3
  <2> QED BY <2>1, <2>2
<1>5. WholeInv'
  <2> SUFFICES ASSUME NEW i \in mix, Sole(i)' PROVE Whole(i)' BY DEF WholeInv
  <2>1. CASE i = j
    <3>1. Sole(j) BY <1>1, <2>1 DEF Sole
    <3> QED BY <2>1, <3>1
  <2>2. CASE i # j
    <3>1. GroupOf[i] # g BY <1>1, <2>2 DEF Sole
    <3>2. Sole(i) BY <1>1, <3>1 DEF Sole
    <3>3. Whole(i) /\ loc'[i] = loc[i] /\ GroupOf[i] \in Names
      BY <1>1, <2>2, <3>2, JobFacts DEF BothInv, WholeInv
    <3> QED BY <3>1, <3>3 DEF Whole, InAd, InLedger, Took
  <2> QED BY <2>1, <2>2
<1> QED BY <1>3, <1>4, <1>5

\* Lines that keep their gids.
LEMMA LinesStay ==
  ASSUME ConstantsOK, TypeInv, LinesInv, issued' \in Nat, issued' >= issued,
         \A n \in Names : groups'[n].gid = groups[n].gid
  PROVE  LinesInv'
<1>1. \A n \in Names : groups[n].gid \in Nat
  BY DEF TypeInv, LedgerInv, Group, ConstantsOK
<1>2. issued \in Nat BY DEF TypeInv, LedgerInv, ConstantsOK
<1>3. DOMAIN Known \subseteq Names BY DEF ConstantsOK
<1> QED BY <1>1, <1>2, <1>3 DEF LinesInv

\* A line that gets a gid that no line has.
LEMMA LineAdded ==
  ASSUME ConstantsOK, TypeInv, LinesInv, NEW g \in Names, NEW gid \in Gids,
         NEW members, Write(g, gid, members), Issue(gid), groups[g].gid = 0,
         \A n \in Names : groups[n].gid # gid
  PROVE  LinesInv'
<1>1. /\ \A n \in Names : groups[n].gid \in Nat
      /\ groups \in [Names -> Group] /\ issued \in Nat /\ gid \in Nat
  BY DEF TypeInv, LedgerInv, Group, ConstantsOK, Gids
<1>2. groups'[g].gid = gid /\ \A n \in Names \ {g} : groups'[n] = groups[n]
  BY <1>1 DEF Write
<1>3. issued' \in Nat /\ issued' >= issued /\ issued' >= gid BY <1>1 DEF Issue
<1>4. g \notin DOMAIN Known
  <2>1. \A n \in DOMAIN Known : groups[n].gid = Known[n] /\ Known[n] \in Gids
    BY DEF LinesInv, ConstantsOK
  <2>2. 0 \notin Gids BY DEF Gids
  <2> QED BY <2>1, <2>2
<1>5. \A n \in Names : groups'[n].gid <= issued' BY <1>1, <1>2, <1>3 DEF LinesInv
<1>6. \A m, n \in Names : groups'[m].gid = groups'[n].gid /\ groups'[n].gid # 0
                            => m = n
  BY <1>2 DEF LinesInv
<1>7. \A n \in DOMAIN Known : groups'[n].gid = Known[n]
  BY <1>2, <1>4 DEF LinesInv, ConstantsOK
<1> QED BY <1>5, <1>6, <1>7 DEF LinesInv

\* The gid of a line that is not there is of no line.
LEMMA LineGidFresh ==
  ASSUME ConstantsOK, TypeInv, LinesInv, NEW j \in mix, ~Clash(j),
         groups[GroupOf[j]].gid = 0
  PROVE  LineGid(j) \in Gids /\ \A n \in Names : groups[n].gid # LineGid(j)
<1>1. j \in Jobs BY JobFacts
<1>2. LineGid(j) \in Gids BY <1>1, LineGidOK
<1>3. CASE GidOf[j] # 0 BY <1>3 DEF LineGid, Clash
<1>4. CASE GidOf[j] = 0
  <2>1. LineGid(j) = issued + 1 BY <1>4 DEF LineGid
  <2>2. issued \in Nat /\ \A n \in Names : groups[n].gid \in Nat
    BY DEF TypeInv, LedgerInv, Group, ConstantsOK
  <2> QED BY <1>2, <2>1, <2>2 DEF LinesInv
<1> QED BY <1>2, <1>3, <1>4

\* The next gid after all that were given out is of no line.
LEMMA NextFresh ==
  ASSUME ConstantsOK, TypeInv, LinesInv
  PROVE  \A n \in Names : groups[n].gid # issued + 1
<1>1. issued \in Nat /\ \A n \in Names : groups[n].gid \in Nat
  BY DEF TypeInv, LedgerInv, Group, ConstantsOK
<1> QED BY <1>1 DEF LinesInv

\* A job that is set to a place where nothing is asked of it but what a join
\* has behind it.
LEMMA NothingAsked ==
  ASSUME ConstantsOK, TypeInv, BothInv, NEW j \in mix, NEW l, Set(j, l),
         l.pc \in {"start", "fail"}, UNCHANGED groups,
         KindOf[j] = "join" => l.next = "line" \/ (l.next = loc[j].next /\ UNCHANGED ad)
  PROVE  Placed(j)' /\ (Sole(j) => Whole(j)') /\ l.pc # "new"
<1>1. loc'[j] = l BY JobFacts DEF Set
<1>2. Placed(j) /\ (Sole(j) => Whole(j)) BY DEF BothInv, PlacesInv, WholeInv
<1>3. Placed(j)' BY <1>1, <1>2 DEF Placed
<1>4. Sole(j) => Whole(j)' BY <1>1, <1>2 DEF Whole, InAd, InLedger, Took
<1> QED BY <1>3, <1>4

\* Such a step, with the ledger's lines as they are, and the AD too, or
\* with a command on the job's own group.
LEMMA BackKeepsBoth ==
  ASSUME ConstantsOK, TypeInv, BothInv, NEW j \in mix, NEW l, Set(j, l),
         l.pc \in {"start", "fail"}, UNCHANGED <<mix, groups>>,
         KindOf[j] = "join" => l.next = "line" \/ (l.next = loc[j].next /\ UNCHANGED ad),
         issued' \in Nat, issued' >= issued,
         \A n \in Names \ {GroupOf[j]} : ad'[n] = ad[n],
         \/ ad'[GroupOf[j]].gid = ad[GroupOf[j]].gid
         \/ ad'[GroupOf[j]].gid = groups[GroupOf[j]].gid /\ KindOf[j] \in LedgerFirst
  PROVE  BothInv'
<1>1. LinesInv' BY LinesStay DEF BothInv
<1>2. Placed(j)' /\ (Sole(j) => Whole(j)') /\ l.pc # "new" BY NothingAsked
<1>3. AdGidsInv' /\ PlacesInv' /\ WholeInv' BY <1>2, JobKeeps
<1> QED BY <1>1, <1>3 DEF BothInv

\* Another attempt, after what may have been a command on the job's own group:
\* a join goes on with the step it was in, the others begin again.
LEMMA AgainBoth ==
  ASSUME ConstantsOK, TypeInv, BothInv, NEW j \in mix, Again(j),
         loc[j].pc \in {"start", "line", "group", "members", "ledger"},
         UNCHANGED <<mix, groups>>, loc[j].pc = "start" => UNCHANGED ad,
         issued' \in Nat, issued' >= issued,
         \A n \in Names \ {GroupOf[j]} : ad'[n] = ad[n],
         \/ ad'[GroupOf[j]].gid = ad[GroupOf[j]].gid
         \/ ad'[GroupOf[j]].gid = groups[GroupOf[j]].gid /\ KindOf[j] \in LedgerFirst
  PROVE  BothInv'
<1>1. loc[j] \in Local BY JobFacts
<1>2. CASE ~(loc[j].tries < MaxTries)
  <2> DEFINE l == [Blank EXCEPT !.pc = "fail"]
  <2>1. Set(j, l) /\ l.pc \in {"start", "fail"} /\ l.next = "line"
    BY <1>2 DEF Again, End, Blank
  <2> HIDE DEF l
  <2> QED BY <2>1, BackKeepsBoth
<1>3. CASE loc[j].tries < MaxTries
  <2> DEFINE l == [loc[j] EXCEPT !.pc = Step(j), !.left = {}, !.tries = @ + 1]
  <2>1. /\ Set(j, l) /\ l.pc = Step(j) /\ l.next = loc[j].next
        /\ l.gid = loc[j].gid /\ l.left = {}
    BY <1>1, <1>3 DEF Again, Local
  <2> HIDE DEF l
  <2>2. CASE loc[j].pc = "start" \/ KindOf[j] # "join"
    <3>1. Step(j) = "start" BY <2>2 DEF Step
    <3> QED BY <2>1, <2>2, <3>1, BackKeepsBoth
  <2>3. CASE loc[j].pc # "start" /\ KindOf[j] = "join"
    <3>1. Placed(j) /\ (Sole(j) => Whole(j)) BY DEF BothInv, PlacesInv, WholeInv
    <3>2. loc'[j] = l BY <2>1, JobFacts DEF Set
    <3>3. Step(j) = loc[j].next /\ loc[j].next \in {"line", "group"}
          /\ (loc[j].next = "line" => loc[j].pc = "line")
      BY <2>3, <3>1 DEF Step, Placed, LedgerFirst
    <3>4. loc[j].gid = groups[GroupOf[j]].gid
      BY <2>3, <3>1 DEF Placed, LedgerFirst
    <3>5. Placed(j)'
      BY <2>1, <2>3, <3>1, <3>2, <3>3, <3>4 DEF Placed, LedgerFirst
    <3>6. Sole(j) => Whole(j)'
      <4>1. Sole(j) /\ loc[j].next # "line" => InLedger(j)'
        BY <2>3, <3>1 DEF Whole, InLedger, Took
      <4> QED BY <2>1, <3>2, <3>3, <4>1 DEF Whole
    <3>7. LinesInv' BY LinesStay DEF BothInv
    <3>8. l.pc # "new" BY <2>1, <3>3
    <3>9. AdGidsInv' /\ PlacesInv' /\ WholeInv'
      BY <2>1, <3>5, <3>6, <3>8, JobKeeps
    <3> QED BY <3>7, <3>9 DEF BothInv
  <2> QED BY <2>2, <2>3
<1> QED BY <1>2, <1>3

\* A job that is refused.
LEMMA EndsBoth ==
  ASSUME ConstantsOK, TypeInv, BothInv, NEW j \in mix, End(j, "fail"),
         UNCHANGED <<mix, groups, issued, ad>>
  PROVE  BothInv'
<1> DEFINE l == [Blank EXCEPT !.pc = "fail"]
<1>1. Set(j, l) /\ l.pc \in {"start", "fail"} /\ l.next = "line" BY DEF End, Blank
<1>2. issued \in Nat BY JobFacts
<1>3. issued' \in Nat /\ issued' >= issued BY <1>2
<1> HIDE DEF l
<1> QED BY <1>1, <1>3, BackKeepsBoth

\* What a number recorded as given out is.
LEMMA IssueGrows ==
  ASSUME ConstantsOK, TypeInv, NEW gid \in Gids, Issue(gid) \/ issued' = issued
  PROVE  issued' \in Nat /\ issued' >= issued
BY DEF TypeInv, LedgerInv, Issue, Gids, ConstantsOK

-----------------------------------------------------------------------------
(* The steps of the jobs.                                                  *)

LEMMA RegisterBoth ==
  ASSUME ConstantsOK, TypeInv, BothInv, NEW j \in Jobs, Register(j)
  PROVE  BothInv'
<1> DEFINE l == [loc[j] EXCEPT !.pc = "start"]
<1>1. j \in mix /\ Set(j, l) /\ UNCHANGED <<mix, groups, issued, ad>>
  BY DEF Register, At, Go, ledger
<1>2. l.pc = "start" /\ l.next = loc[j].next BY <1>1, JobFacts DEF Local
<1>3. issued \in Nat BY <1>1, JobFacts
<1> HIDE DEF l
<1> QED BY <1>1, <1>2, <1>3, BackKeepsBoth

\* The line of a new group has the members that the AD will get.
LEMMA CreateLineBoth ==
  ASSUME ConstantsOK, TypeInv, BothInv, NEW j \in Jobs, CreateLine(j)
  PROVE  BothInv'
<1>1. /\ j \in mix /\ KindOf[j] = "create" /\ loc[j].pc = "start"
      /\ UNCHANGED <<mix, ad>>
  BY DEF CreateLine, At
<1> DEFINE g == GroupOf[j]
<1>2. /\ g \in Names /\ loc[j] \in Local /\ groups \in [Names -> Group]
      /\ issued \in Nat
  BY <1>1, JobFacts
<1>3. CASE Clash(j)
  <2>1. End(j, "fail") /\ UNCHANGED <<groups, issued>>
    BY <1>3 DEF CreateLine, ledger
  <2> QED BY <1>1, <2>1, EndsBoth
<1>4. CASE ~Clash(j)
  <2> DEFINE gid == LineGid(j)
  <2>1. gid \in Gids BY <1>1, <1>4, LineGidOK
  <2>2. groups[g].gid # 0 => gid = groups[g].gid BY DEF LineGid
  <2>3. groups[g].gid = 0 => \A n \in Names : groups[n].gid # gid
    BY <1>1, <1>4, LineGidFresh DEF BothInv
  <2> HIDE DEF gid
  <2>4. CASE /\ Issue(gid) /\ Write(g, gid, MembersOf[j])
             /\ Set(j, [loc[j] EXCEPT !.pc = "group", !.gid = gid])
    <3> DEFINE l == [loc[j] EXCEPT !.pc = "group", !.gid = gid]
    <3>1. /\ l.pc = "group" /\ l.gid = gid
          /\ loc'[j] = l /\ Set(j, l)
      BY <1>1, <1>2, <2>4, JobFacts DEF Local, Set
    <3> HIDE DEF l
    <3>2. /\ groups'[g].gid = gid /\ groups'[g].members = MembersOf[j]
          /\ \A n \in Names \ {g} : groups'[n] = groups[n]
      BY <1>2, <2>4 DEF Write
    <3>3. LinesInv'
      <4>1. CASE groups[g].gid = 0
        BY <1>2, <2>1, <2>3, <2>4, <4>1, LineAdded DEF BothInv
      <4>2. CASE groups[g].gid # 0
        <5>1. \A n \in Names : groups'[n].gid = groups[n].gid BY <2>2, <3>2, <4>2
        <5>2. issued' \in Nat /\ issued' >= issued BY <2>1, <2>4, IssueGrows
        <5> QED BY <5>1, <5>2, LinesStay DEF BothInv
      <4> QED BY <4>1, <4>2
    <3>4. Placed(j)' BY <1>1, <3>1, <3>2 DEF Placed, LedgerFirst
    <3>5. Whole(j)' BY <1>1, <3>1, <3>2 DEF Whole, InLedger, Took
    <3>6. AdGidsInv' /\ PlacesInv' /\ WholeInv'
      BY <1>1, <2>2, <3>1, <3>2, <3>4, <3>5, JobKeeps DEF LedgerFirst
    <3> QED BY <3>3, <3>6 DEF BothInv
  <2>5. CASE Again(j) /\ UNCHANGED groups /\ (issued' = issued \/ Issue(gid))
    <3>1. issued' \in Nat /\ issued' >= issued BY <2>1, <2>5, IssueGrows
    <3> QED BY <1>1, <2>5, <3>1, AgainBoth
  <2> QED BY <1>4, <2>4, <2>5 DEF CreateLine, gid
<1> QED BY <1>3, <1>4

\* The gid of a group that a provision job asks for is that of its line, which
\* is there from now on.
LEMMA JoinResolveBoth ==
  ASSUME ConstantsOK, GidsFit, TypeInv, BothInv, NEW j \in Jobs, JoinResolve(j)
  PROVE  BothInv'
<1>1. /\ j \in mix /\ KindOf[j] = "join" /\ loc[j].pc = "start"
      /\ UNCHANGED <<mix, ad>>
  BY DEF JoinResolve, At
<1>5. Placed(j) /\ (Sole(j) => Whole(j))
  BY <1>1 DEF BothInv, PlacesInv, WholeInv
<1> DEFINE g   == GroupOf[j]
           gid == IF GidOf[j] # 0 THEN GidOf[j] ELSE LineGid(j)
<1>2. /\ g \in Names /\ loc[j] \in Local /\ groups \in [Names -> Group]
      /\ issued \in Nat
  BY <1>1, JobFacts
<1>3. CASE gid \notin Gids
  <2>1. End(j, "fail") /\ UNCHANGED <<groups, issued>>
    BY <1>3 DEF JoinResolve, ledger
  <2> QED BY <1>1, <2>1, EndsBoth
<1>4. CASE gid \in Gids
  <2>1. GidOf[j] # 0 => groups[g].gid = gid /\ groups[g].gid # 0
    BY <1>1, <1>2, <1>4 DEF GidsFit, BothInv, LinesInv
  <2>2. groups[g].gid # 0 => gid = groups[g].gid BY <2>1 DEF LineGid
  <2>3. groups[g].gid = 0 => \A n \in Names : groups[n].gid # gid
    BY <2>1, NextFresh DEF LineGid, BothInv
  <2>4. \/ /\ IF groups[g].gid # 0 \/ GidOf[j] # 0 THEN UNCHANGED ledger
              ELSE Issue(gid) /\ Write(g, gid, {})
           /\ Set(j, [loc[j] EXCEPT !.pc = loc[j].next, !.gid = gid, !.tries = 0])
        \/ Again(j) /\ UNCHANGED groups /\ (issued' = issued \/ Issue(gid))
    BY <1>4 DEF JoinResolve
  <2> HIDE DEF gid
  <2>5. CASE /\ IF groups[g].gid # 0 \/ GidOf[j] # 0 THEN UNCHANGED ledger
                ELSE Issue(gid) /\ Write(g, gid, {})
             /\ Set(j, [loc[j] EXCEPT !.pc = loc[j].next, !.gid = gid, !.tries = 0])
    <3> DEFINE l == [loc[j] EXCEPT !.pc = loc[j].next, !.gid = gid, !.tries = 0]
    <3>1. /\ l.pc = loc[j].next /\ l.next = loc[j].next /\ l.gid = gid
          /\ l.next \in {"line", "group", "trigger"} /\ l.pc # "new"
          /\ loc'[j] = l /\ Set(j, l)
      BY <1>1, <1>2, <2>5, JobFacts DEF Local, Set
    <3> HIDE DEF l
    <3>3. CASE groups[g].gid # 0
      <4>1. groups' = groups /\ issued' = issued BY <2>5, <3>3 DEF ledger
      <4>2. LinesInv' BY <1>2, <4>1, LinesStay DEF BothInv
      <4>3. Placed(j)'
        BY <1>1, <1>5, <2>2, <3>1, <3>3, <4>1 DEF Placed, LedgerFirst
      <4>4. Sole(j) => Whole(j)'
        BY <1>1, <1>5, <3>1, <4>1 DEF Whole, InAd, InLedger, Took
      <4>5. AdGidsInv' /\ PlacesInv' /\ WholeInv'
        BY <1>1, <3>1, <4>1, <4>3, <4>4, JobKeeps
      <4> QED BY <4>2, <4>5 DEF BothInv
    <3>4. CASE groups[g].gid = 0
      <4>1. Issue(gid) /\ Write(g, gid, {}) BY <2>1, <2>5, <3>4
      <4>2. /\ groups'[g].gid = gid
            /\ \A n \in Names \ {g} : groups'[n] = groups[n]
        BY <1>2, <4>1 DEF Write
      <4>3. LinesInv' BY <1>2, <1>4, <2>3, <3>4, <4>1, LineAdded DEF BothInv
      <4>6. loc[j].next = "line" BY <1>1, <1>5, <3>4 DEF Placed
      <4>4. Placed(j)' /\ Whole(j)' BY <1>1, <3>1, <4>2, <4>6 DEF Placed, Whole
      <4>5. AdGidsInv' /\ PlacesInv' /\ WholeInv'
        BY <1>1, <3>1, <3>4, <4>2, <4>4, JobKeeps DEF LedgerFirst
      <4> QED BY <4>3, <4>5 DEF BothInv
    <3> QED BY <3>3, <3>4
  <2>6. CASE Again(j) /\ UNCHANGED groups /\ (issued' = issued \/ Issue(gid))
    <3>1. issued' \in Nat /\ issued' >= issued BY <1>4, <2>6, IssueGrows
    <3> QED BY <1>1, <2>6, <3>1, AgainBoth
  <2> QED BY <2>4, <2>5, <2>6
<1> QED BY <1>3, <1>4

\* The line with the gid of the job is that of its group.
LEMMA JoinLineBoth ==
  ASSUME ConstantsOK, TypeInv, BothInv, NEW j \in Jobs, JoinLine(j)
  PROVE  BothInv'
<1>1. j \in mix /\ loc[j].pc = "line" /\ UNCHANGED <<mix, ad>>
  BY DEF JoinLine, At
<1> DEFINE g  == GroupOf[j]
           of == {n \in Names : groups[n].gid = loc[j].gid}
<1>2. /\ g \in Names /\ loc[j] \in Local /\ groups \in [Names -> Group]
      /\ issued \in Nat /\ loc[j].gid \in Gids
  BY <1>1, JobFacts DEF LocOK
<1>3. KindOf[j] = "join" /\ loc[j].gid = groups[g].gid
  BY <1>1 DEF BothInv, PlacesInv, Placed
<1>4. of = {g}
  <2>1. 0 \notin Gids BY DEF Gids
  <2> QED BY <1>2, <1>3, <2>1 DEF BothInv, LinesInv
<1>5. \/ /\ groups' = [n \in Names |-> IF n \in of
                 THEN [groups[n] EXCEPT !.members = @ \cup MembersOf[j]]
                 ELSE groups[n]]
         /\ UNCHANGED issued
         /\ Set(j, [loc[j] EXCEPT !.pc = "group", !.next = "group", !.tries = 0])
      \/ Again(j) /\ UNCHANGED <<groups, issued>>
  BY <1>4 DEF JoinLine
<1> HIDE DEF of
<1>6. CASE /\ groups' = [n \in Names |-> IF n \in of
                   THEN [groups[n] EXCEPT !.members = @ \cup MembersOf[j]]
                   ELSE groups[n]]
           /\ UNCHANGED issued
           /\ Set(j, [loc[j] EXCEPT !.pc = "group", !.next = "group", !.tries = 0])
  <2> DEFINE l == [loc[j] EXCEPT !.pc = "group", !.next = "group", !.tries = 0]
  <2>1. /\ l.pc = "group" /\ l.gid = loc[j].gid /\ l.next = "group"
        /\ loc'[j] = l /\ Set(j, l)
    BY <1>1, <1>2, <1>6, JobFacts DEF Local, Set
  <2> HIDE DEF l
  <2>2. /\ \A n \in Names \ {g} : groups'[n] = groups[n]
        /\ groups'[g] = [groups[g] EXCEPT !.members = @ \cup MembersOf[j]]
    BY <1>2, <1>4, <1>6
  <2>3. groups'[g].gid = groups[g].gid
        /\ groups'[g].members = groups[g].members \cup MembersOf[j]
    BY <1>2, <2>2 DEF Group
  <2>4. LinesInv' BY <1>2, <1>6, <2>2, <2>3, LinesStay DEF BothInv
  <2>8. groups[g].gid # 0 BY <1>2, <1>3 DEF Gids
  <2>5. Placed(j)' BY <1>1, <1>3, <2>1, <2>3, <2>8 DEF Placed, LedgerFirst
  <2>6. Whole(j)' BY <1>1, <1>3, <2>1, <2>3 DEF Whole, InLedger, Took
  <2>7. AdGidsInv' /\ PlacesInv' /\ WholeInv'
    BY <1>1, <2>1, <2>2, <2>3, <2>5, <2>6, JobKeeps
  <2> QED BY <2>4, <2>7 DEF BothInv
<1>7. CASE Again(j) /\ UNCHANGED <<groups, issued>>
  <2>1. issued' \in Nat /\ issued' >= issued BY <1>2, <1>7
  <2> QED BY <1>1, <1>7, <2>1, AgainBoth
<1> QED BY <1>5, <1>6, <1>7

\* The AD gets the group of the line; its members are still to come.
LEMMA AdGroupBoth ==
  ASSUME ConstantsOK, TypeInv, BothInv, NEW j \in Jobs, AdGroup(j)
  PROVE  BothInv'
<1>1. j \in mix /\ loc[j].pc = "group" /\ UNCHANGED <<mix, groups, issued>>
  BY DEF AdGroup, At, ledger
<1> DEFINE g    == GroupOf[j]
           Made == ad' = [ad EXCEPT ![g].gid = loc[j].gid]
<1>2. /\ g \in Names /\ loc[j] \in Local /\ ad \in [Names -> Group]
      /\ issued \in Nat /\ loc[j].gid # 0
  BY <1>1, JobFacts DEF LocOK, Gids
<1>3. /\ KindOf[j] \in LedgerFirst /\ loc[j].gid = groups[g].gid
      /\ KindOf[j] = "join" => loc[j].next = "group"
  BY <1>1 DEF BothInv, PlacesInv, Placed
<1>4. Made => /\ ad'[g].gid = groups[g].gid /\ ad'[g].members = ad[g].members
              /\ \A n \in Names \ {g} : ad'[n] = ad[n]
  BY <1>2, <1>3 DEF Group
<1>5. issued' \in Nat /\ issued' >= issued BY <1>1, <1>2
<1>6. CASE Made /\ Set(j, [loc[j] EXCEPT !.pc = "members", !.left = MembersOf[j]])
  <2> DEFINE l == [loc[j] EXCEPT !.pc = "members", !.left = MembersOf[j]]
  <2>1. /\ l.pc = "members" /\ l.left = MembersOf[j] /\ l.next = loc[j].next
        /\ l.gid = loc[j].gid /\ loc'[j] = l /\ Set(j, l)
    BY <1>1, <1>2, <1>6, JobFacts DEF Local, Set
  <2> HIDE DEF l
  <2>2. LinesInv' BY <1>1, <1>5, LinesStay DEF BothInv
  <2>3. Placed(j)' BY <1>1, <1>2, <1>3, <1>4, <1>6, <2>1 DEF Placed
  <2>4. Sole(j) => Whole(j)'
    <3>1. Sole(j) => InLedger(j) BY <1>1 DEF BothInv, WholeInv, Whole
    <3>2. KindOf[j] # "remove" BY <1>3 DEF LedgerFirst
    <3> QED BY <1>1, <1>3, <2>1, <3>1, <3>2 DEF Whole, InLedger, Took
  <2>5. AdGidsInv' /\ PlacesInv' /\ WholeInv'
    BY <1>1, <1>3, <1>4, <1>6, <2>1, <2>3, <2>4, JobKeeps
  <2> QED BY <2>2, <2>5 DEF BothInv
<1>7. CASE (Made \/ UNCHANGED ad) /\ Again(j)
  <2> HIDE DEF Made
  <2> QED BY <1>1, <1>3, <1>4, <1>5, <1>7, AgainBoth
<1> QED BY <1>6, <1>7 DEF AdGroup

\* A job about one user goes on only when the group has its line.
LEMMA MemberStartBoth ==
  ASSUME ConstantsOK, TypeInv, BothInv, NEW j \in Jobs, MemberStart(j)
  PROVE  BothInv'
<1>1. /\ j \in mix /\ KindOf[j] \in {"add", "remove"}
      /\ UNCHANGED <<mix, groups, issued, ad>>
  BY DEF MemberStart, At, ledger
<1>2. CASE Accepted(j)
  <2> DEFINE l == [loc[j] EXCEPT !.pc = "members", !.left = MembersOf[j]]
  <2>1. l.pc = "members" /\ l.left = MembersOf[j] /\ loc'[j] = l /\ Set(j, l)
    BY <1>1, <1>2, JobFacts DEF MemberStart, Local, Set
  <2> HIDE DEF l
  <2>2. issued \in Nat BY <1>1, JobFacts
  <2>3. LinesInv' BY <1>1, <2>2, LinesStay DEF BothInv
  <2>4. KindOf[j] \notin LedgerFirst /\ groups[GroupOf[j]].gid # 0
    BY <1>1, <1>2 DEF Accepted, LedgerFirst
  <2>5. Placed(j)' BY <1>1, <2>1, <2>4 DEF Placed
  <2>6. Whole(j)'
    <3>1. MembersOf[j] \ l.left = {} BY <2>1
    <3> QED BY <1>1, <2>1, <2>4, <3>1 DEF Whole, Took, LedgerFirst
  <2>7. AdGidsInv' /\ PlacesInv' /\ WholeInv' BY <1>1, <2>1, <2>5, <2>6, JobKeeps
  <2> QED BY <2>3, <2>7 DEF BothInv
<1>3. CASE ~Accepted(j)
  <2>1. End(j, "fail") BY <1>3 DEF MemberStart
  <2> QED BY <1>1, <2>1, EndsBoth
<1> QED BY <1>2, <1>3

\* A command on the AD brings one member more in or out.
LEMMA AdMemberBoth ==
  ASSUME ConstantsOK, TypeInv, BothInv, NEW j \in Jobs, AdMember(j)
  PROVE  BothInv'
<1>1. j \in mix /\ loc[j].pc = "members" /\ UNCHANGED <<mix, groups, issued>>
  BY DEF AdMember, At, ledger
<1> DEFINE g       == GroupOf[j]
           Done(u) == ad' = [ad EXCEPT ![g].members =
                        IF KindOf[j] = "remove" THEN @ \ {u} ELSE @ \cup {u}]
<1>2. PICK u \in loc[j].left :
        \/ Done(u) /\ Set(j, [loc[j] EXCEPT !.left = @ \ {u}])
        \/ (Done(u) \/ UNCHANGED ad) /\ Again(j)
  BY DEF AdMember
<1>3. /\ g \in Names /\ loc[j] \in Local /\ ad \in [Names -> Group]
      /\ issued \in Nat
  BY <1>1, JobFacts
<1>4. /\ loc[j].left \subseteq MembersOf[j] /\ groups[g].gid # 0
      /\ KindOf[j] \in LedgerFirst => ad[g].gid # 0
      /\ KindOf[j] = "join" => loc[j].next = "group" /\ loc[j].gid = groups[g].gid
  BY <1>1 DEF BothInv, PlacesInv, Placed
<1>5. Done(u) => /\ ad'[g].gid = ad[g].gid
                 /\ ad'[g].members = IF KindOf[j] = "remove"
                       THEN ad[g].members \ {u} ELSE ad[g].members \cup {u}
                 /\ \A n \in Names \ {g} : ad'[n] = ad[n]
  BY <1>3 DEF Group
<1>6. issued' \in Nat /\ issued' >= issued BY <1>1, <1>3
<1> HIDE DEF Done
<1>7. CASE Done(u) /\ Set(j, [loc[j] EXCEPT !.left = @ \ {u}])
  <2> DEFINE l == [loc[j] EXCEPT !.left = @ \ {u}]
  <2>1. /\ l.pc = "members" /\ l.left = loc[j].left \ {u} /\ l.next = loc[j].next
        /\ l.gid = loc[j].gid /\ loc'[j] = l /\ Set(j, l)
    BY <1>1, <1>3, <1>7, JobFacts DEF Local, Set
  <2> HIDE DEF l
  <2>2. LinesInv' BY <1>1, <1>6, LinesStay DEF BothInv
  <2>3. Placed(j)' BY <1>1, <1>4, <1>5, <1>7, <2>1 DEF Placed
  <2>4. Sole(j) => Whole(j)'
    <3> SUFFICES ASSUME Sole(j) PROVE Whole(j)' OBVIOUS
    <3>1. /\ Took(ad[g].members, j, MembersOf[j] \ loc[j].left)
          /\ KindOf[j] \in LedgerFirst => InLedger(j)
      BY <1>1 DEF BothInv, WholeInv, Whole
    <3>2. PICK S : S = MembersOf[j] \ l.left OBVIOUS
    <3>3. Took(ad'[g].members, j, S)
      BY <1>5, <1>7, <2>1, <3>1, <3>2 DEF Took
    <3>4. KindOf[j] \in LedgerFirst => InLedger(j)'
      BY <1>1, <3>1 DEF InLedger, Took
    <3> QED BY <1>4, <2>1, <3>2, <3>3, <3>4 DEF Whole, Took, LedgerFirst
  <2>5. AdGidsInv' /\ PlacesInv' /\ WholeInv'
    BY <1>1, <1>5, <1>7, <2>1, <2>3, <2>4, JobKeeps
  <2> QED BY <2>2, <2>5 DEF BothInv
<1>8. CASE (Done(u) \/ UNCHANGED ad) /\ Again(j)
  BY <1>1, <1>5, <1>6, <1>8, AgainBoth
<1> QED BY <1>2, <1>7, <1>8

\* With all members through, the AD is as the job wants it.
LEMMA AdMembersDoneBoth ==
  ASSUME ConstantsOK, TypeInv, BothInv, NEW j \in Jobs, AdMembersDone(j)
  PROVE  BothInv'
<1>1. /\ j \in mix /\ loc[j].pc = "members" /\ loc[j].left = {}
      /\ UNCHANGED <<mix, groups, issued, ad>>
  BY DEF AdMembersDone, At, ledger
<1>2. PICK l : /\ Set(j, l)
               /\ IF KindOf[j] \in LedgerFirst THEN l.pc \in {"trigger", "ok"}
                                               ELSE l.pc = "ledger"
  <2>1. loc[j] \in Local /\ KindOf[j] \in Kinds BY <1>1, JobFacts
  <2>2. CASE KindOf[j] = "create"
    <3>1. Set(j, [Blank EXCEPT !.pc = "ok"]) BY <2>2 DEF AdMembersDone, End
    <3>2. [Blank EXCEPT !.pc = "ok"].pc = "ok" BY DEF Blank
    <3> QED BY <2>2, <3>1, <3>2 DEF LedgerFirst
  <2>3. CASE KindOf[j] = "join"
    <3>1. Set(j, [loc[j] EXCEPT !.pc = "trigger", !.next = "trigger"])
      BY <2>3 DEF AdMembersDone
    <3>2. [loc[j] EXCEPT !.pc = "trigger", !.next = "trigger"].pc = "trigger"
      BY <2>1 DEF Local
    <3> QED BY <2>3, <3>1, <3>2 DEF LedgerFirst
  <2>4. CASE KindOf[j] \notin {"create", "join"}
    <3>1. Set(j, [loc[j] EXCEPT !.pc = "ledger"]) BY <2>4 DEF AdMembersDone, Go
    <3>2. [loc[j] EXCEPT !.pc = "ledger"].pc = "ledger" BY <2>1 DEF Local
    <3> QED BY <2>4, <3>1, <3>2 DEF LedgerFirst
  <2> QED BY <2>2, <2>3, <2>4
<1>3. loc'[j] = l BY <1>1, <1>2, JobFacts DEF Set
<1>4. issued \in Nat BY <1>1, JobFacts
<1>5. LinesInv' BY <1>1, <1>4, LinesStay DEF BothInv
<1>6. /\ groups[GroupOf[j]].gid # 0
      /\ KindOf[j] \in LedgerFirst => ad[GroupOf[j]].gid # 0
  BY <1>1 DEF BothInv, PlacesInv, Placed
<1>7. Placed(j)' BY <1>1, <1>2, <1>3, <1>6 DEF Placed, LedgerFirst
<1>8. Sole(j) => Whole(j)'
  <2>1. MembersOf[j] \ loc[j].left = MembersOf[j] BY <1>1
  <2>2. Sole(j) => InAd(j) /\ (KindOf[j] \in LedgerFirst => InLedger(j))
    BY <1>1, <2>1 DEF BothInv, WholeInv, Whole, InAd
  <2> QED BY <1>1, <1>2, <1>3, <2>2 DEF Whole, InAd, InLedger, Took, LedgerFirst
<1>9. AdGidsInv' /\ PlacesInv' /\ WholeInv'
  BY <1>1, <1>2, <1>7, <1>8, JobKeeps
<1> QED BY <1>5, <1>9 DEF BothInv

\* The line gets what the AD has, or has it already.
LEMMA LedgerMemberBoth ==
  ASSUME ConstantsOK, TypeInv, BothInv, NEW j \in Jobs, LedgerMember(j)
  PROVE  BothInv'
<1>1. j \in mix /\ loc[j].pc = "ledger" /\ UNCHANGED <<mix, ad>>
  BY DEF LedgerMember, At
<1> DEFINE g       == GroupOf[j]
           members == IF KindOf[j] = "remove" THEN groups[g].members \ MembersOf[j]
                                              ELSE groups[g].members \cup MembersOf[j]
<1>2. /\ g \in Names /\ loc[j] \in Local /\ groups \in [Names -> Group]
      /\ issued \in Nat
  BY <1>1, JobFacts
<1>3. groups[g].gid # 0 /\ KindOf[j] \notin LedgerFirst
  BY <1>1 DEF BothInv, PlacesInv, Placed
<1>4. CASE /\ IF groups[g].gid = 0 \/ members = groups[g].members
              THEN UNCHANGED ledger
              ELSE Write(g, groups[g].gid, members) /\ UNCHANGED issued
           /\ Go(j, "trigger")
  <2> DEFINE l == [loc[j] EXCEPT !.pc = "trigger"]
  <2>1. l.pc = "trigger" /\ loc'[j] = l /\ Set(j, l)
    BY <1>1, <1>2, <1>4, JobFacts DEF Go, Local, Set
  <2> HIDE DEF l
  <2>2. /\ groups'[g].gid = groups[g].gid /\ groups'[g].members = members
        /\ \A n \in Names \ {g} : groups'[n] = groups[n]
        /\ issued' = issued
    <3> HIDE DEF members
    <3>1. CASE members = groups[g].members BY <1>4, <3>1 DEF ledger
    <3>2. CASE members # groups[g].members
      <4>1. /\ groups' = [groups EXCEPT ![g] =
                             [gid |-> groups[g].gid, members |-> members]]
            /\ issued' = issued
        BY <1>3, <1>4, <3>2 DEF Write
      <4> QED BY <1>2, <4>1
    <3> QED BY <3>1, <3>2
  <2>3. LinesInv' BY <1>2, <2>2, LinesStay DEF BothInv
  <2>4. Placed(j)' BY <1>1, <1>3, <2>1, <2>2 DEF Placed, LedgerFirst
  <2>5. Sole(j) => Whole(j)'
    <3>1. Sole(j) => InAd(j) BY <1>1 DEF BothInv, WholeInv, Whole
    <3>2. InLedger(j)' BY <2>2 DEF InLedger, Took
    <3>3. Sole(j) => InAd(j)' BY <1>1, <3>1 DEF InAd, Took
    <3> QED BY <1>3, <2>1, <3>2, <3>3 DEF Whole, LedgerFirst
  <2>6. AdGidsInv' /\ PlacesInv' /\ WholeInv'
    BY <1>1, <2>1, <2>2, <2>4, <2>5, JobKeeps
  <2> QED BY <2>3, <2>6 DEF BothInv
<1>5. CASE UNCHANGED ledger /\ Again(j)
  <2>1. UNCHANGED <<groups, issued>> BY <1>5 DEF ledger
  <2>2. issued' \in Nat /\ issued' >= issued BY <1>2, <2>1
  <2> QED BY <1>1, <1>5, <2>1, <2>2, AgainBoth
<1> QED BY <1>4, <1>5 DEF LedgerMember

LEMMA TriggerBoth ==
  ASSUME ConstantsOK, TypeInv, BothInv, NEW j \in Jobs, Trigger(j)
  PROVE  BothInv'
<1>1. /\ j \in mix /\ loc[j].pc = "trigger" /\ End(j, "ok")
      /\ UNCHANGED <<mix, groups, issued, ad>>
  BY DEF Trigger, At, ledger
<1> DEFINE l == [Blank EXCEPT !.pc = "ok"]
<1>2. l.pc = "ok" /\ l.next = "line" /\ loc'[j] = l /\ Set(j, l)
  BY <1>1, JobFacts DEF End, Blank, Set
<1> HIDE DEF l
<1>3. issued \in Nat BY <1>1, JobFacts
<1>4. LinesInv' BY <1>1, <1>3, LinesStay DEF BothInv
<1>5. Placed(j)'
  <2>1. Placed(j) BY <1>1 DEF BothInv, PlacesInv
  <2> QED BY <1>1, <1>2, <2>1 DEF Placed
<1>6. Sole(j) => Whole(j)'
  <2>1. Sole(j) => InAd(j) /\ InLedger(j)
    BY <1>1 DEF BothInv, WholeInv, Whole
  <2> QED BY <1>1, <1>2, <2>1 DEF Whole, InAd, InLedger, Took
<1>7. AdGidsInv' /\ PlacesInv' /\ WholeInv'
  BY <1>1, <1>2, <1>5, <1>6, JobKeeps
<1> QED BY <1>4, <1>7 DEF BothInv

LEMMA WorkerBoth ==
  ASSUME ConstantsOK, GidsFit, TypeInv, BothInv, NEW j \in Jobs, Worker(j)
  PROVE  BothInv'
BY CreateLineBoth, JoinResolveBoth, JoinLineBoth, AdGroupBoth, MemberStartBoth,
   AdMemberBoth, AdMembersDoneBoth, LedgerMemberBoth, TriggerBoth DEF Worker

-----------------------------------------------------------------------------
(* The other steps, and what is always so.                                 *)

\* A step that is no job's leaves all of this alone.
LEMMA OthersBoth ==
  ASSUME BothInv, UNCHANGED <<mix, groups, issued, ad, loc>>
  PROVE  BothInv'
<1>1. LinesInv' BY DEF BothInv, LinesInv
<1>2. AdGidsInv' BY DEF BothInv, AdGidsInv
<1>3. PlacesInv' BY DEF BothInv, PlacesInv, Placed
<1>4. WholeInv'
  BY DEF BothInv, WholeInv, Whole, Sole, InAd, InLedger, Took
<1> QED BY <1>1, <1>2, <1>3, <1>4 DEF BothInv

LEMMA CrashBoth ==
  ASSUME ConstantsOK, TypeInv, BothInv, Crash PROVE BothInv'
<1>1. UNCHANGED <<mix, groups, issued, ad>> BY DEF Crash, ledger
<1>2. ASSUME NEW j \in mix,
             Set(j, [Blank EXCEPT !.pc = "start", !.next = loc[j].next])
      PROVE  BothInv'
  <2> DEFINE l == [Blank EXCEPT !.pc = "start", !.next = loc[j].next]
  <2>1. Set(j, l) /\ l.pc \in {"start", "fail"} /\ l.next = loc[j].next
    BY <1>2 DEF Blank
  <2>2. issued \in Nat BY JobFacts
  <2>3. issued' \in Nat /\ issued' >= issued BY <1>1, <2>2
  <2> HIDE DEF l
  <2> QED BY <1>1, <2>1, <2>3, BackKeepsBoth
<1>3. CASE UNCHANGED loc BY <1>1, <1>3, OthersBoth
<1> QED BY <1>2, <1>3 DEF Crash

LEMMA BothInit == ASSUME ConstantsOK, GidsFit, Init PROVE BothInv
<1>1. /\ \A n \in DOMAIN Known : n \in Names /\ Known[n] \in Gids
      /\ mix \subseteq Jobs
  BY DEF Init, ConstantsOK
<1>2. /\ \A n \in DOMAIN Known : groups[n].gid = Known[n]
      /\ \A n \in Names \ DOMAIN Known : groups[n].gid = 0
  BY <1>1 DEF Init, None
<1>3. issued \in Nat /\ \A n \in DOMAIN Known : Known[n] <= issued
  BY DEF Init, ConstantsOK
<1>4. LinesInv
  <2>1. \A m, n \in Names : groups[m].gid = groups[n].gid /\ groups[n].gid # 0
                              => m = n
    BY <1>2 DEF GidsFit
  <2>2. \A n \in Names : groups[n].gid <= issued
    <3> SUFFICES ASSUME NEW n \in Names PROVE groups[n].gid <= issued OBVIOUS
    <3>1. CASE n \in DOMAIN Known BY <1>2, <1>3, <3>1
    <3>2. CASE n \notin DOMAIN Known BY <1>2, <1>3, <3>2
    <3> QED BY <3>1, <3>2
  <2> QED BY <1>2, <2>1, <2>2 DEF LinesInv
<1>5. ad = groups BY DEF Init
<1>6. AdGidsInv BY <1>5 DEF AdGidsInv
<1>7. \A j \in mix : loc[j].pc = "new" /\ loc[j].next = "line"
  BY <1>1 DEF Init, Blank
<1>8. PlacesInv /\ WholeInv BY <1>7 DEF PlacesInv, Placed, WholeInv, Whole
<1> QED BY <1>4, <1>6, <1>8 DEF BothInv

LEMMA BothStep ==
  ASSUME ConstantsOK, GidsFit, TypeInv, BothInv, [Next]_vars PROVE BothInv'
<1>1. ASSUME NEW j \in Jobs, Register(j) \/ Worker(j) PROVE BothInv'
  BY <1>1, RegisterBoth, WorkerBoth
<1>2. CASE CronJob
  <2>1. UNCHANGED <<mix, groups, issued, ad, loc>>
    BY <1>2 DEF CronJob, CronIdmap, Reconcile, Begin, ReadWanted, ReadKnown,
                AskNas, Flush, WriteState, Still, ledger
  <2> QED BY <2>1, OthersBoth
<1>3. ASSUME NEW r \in Loops, Loop(r) PROVE BothInv'
  <2>1. UNCHANGED <<mix, groups, issued, ad, loc>>
    BY <1>3 DEF Loop, GiveUp, Release, Reconcile, Begin, ReadWanted, ReadKnown,
                AskNas, Flush, WriteState, Still, ledger
  <2> QED BY <2>1, OthersBoth
<1>4. CASE Expire BY <1>4, OthersBoth DEF Expire, ledger
<1>5. ASSUME NEW g \in Names, SendIdmap(g) PROVE BothInv'
  BY <1>5, OthersBoth DEF SendIdmap, ledger
<1>6. ASSUME NEW u \in Users, Learn(u) \/ Connect(u) \/ Lapse(u) PROVE BothInv'
  BY <1>6, OthersBoth DEF Learn, Connect, Lapse, ledger
<1>7. CASE Crash BY <1>7, CrashBoth
<1>8. CASE UNCHANGED vars BY <1>8, OthersBoth DEF vars, ledger
<1> QED BY <1>1, <1>2, <1>3, <1>4, <1>5, <1>6, <1>7, <1>8 DEF Next

\* A job that ended well has left the group, while no other job about it was
\* registered, with one gid and its members in or out in the ledger and in
\* the AD alike: for any number of jobs of any kind and about any groups,
\* whatever fails or crashes, with side by side jobs about other groups.
THEOREM DoneInBoth == ASSUME GidsFit PROVE Spec => []DoneMeansBoth
<1>1. Init => BothInv BY ConstantsOK, BothInit
<1>2. TypeInv /\ BothInv /\ [Next]_vars => BothInv' BY ConstantsOK, BothStep
<1>3. TypeInv /\ BothInv => DoneMeansBoth BY ConstantsOK, BothEnough
<1> QED BY <1>1, <1>2, <1>3, TypeInvAlways, PTL DEF Spec
=============================================================================
