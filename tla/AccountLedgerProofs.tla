------------------------ MODULE AccountLedgerProofs ------------------------
(***************************************************************************)
(* Proofs about AccountLedger, for every value of its constants:           *)
(*   TypeCorrect     Spec => []TypeOK                                      *)
(*   NoUidTwice      Spec => NeverReissued                                 *)
(*   OneUidOnePerson Spec => []UidOfOnePerson                              *)
(*   TeamsOutlive    Spec => []TeamsStay                                   *)
(* The inductive invariant says where the uid in a worker's hands comes    *)
(* from: it was given to the person before, or nobody else ever had it.    *)
(***************************************************************************)
EXTENDS AccountLedger, TLAPS

Acc(j, u) == [name |-> NameOf[j], uid |-> u]

\* nobody but j's person ever had uid u
Sole(j, u) == \A g \in given : g.uid = u => g.name = NameOf[j]

\* nobody but n ever had any of n's uids
Alone(n) == \A g, h \in given : g.name = n /\ h.uid = g.uid => h.name = n

Holding == {"mark", "passwd"}
Rolling == {"undo", "undo_shadow", "undo_group"}

\* what is recorded, or in memory, about a finished account step and a home
ContextOK(j, c) ==
  /\ "account" \in c.done => Acc(j, c.uid) \in given
  /\ c.made => Alone(NameOf[j])

WorkerOK(j, l) ==
  /\ ContextOK(j, l)
  /\ l.pc = "issue" /\ l.ret # 0 => Acc(j, l.ret) \in given
  /\ l.pc = "issue" /\ l.ret # 0 /\ ~l.shared => Sole(j, l.ret)
  /\ l.pc \in Holding => l.mk \in 1..issued /\ Sole(j, l.mk)
  /\ l.pc \in {"group", "shadow", "sudoers", "log"} => Acc(j, l.mk) \in given
  /\ l.pc \in Rolling => l.then # ""
  /\ l.pc \in Rolling /\ l.then = "judged" => Acc(j, l.mk) \in given
  /\ l.pc \in Rolling /\ l.then \in {"home", "mismatch"} => Acc(j, l.uid) \in given
  /\ l.pc = "home" => Acc(j, l.uid) \in given
  /\ l.pc = "end" => l.out # ""

WorkersOK == \A j \in Jobs, o \in Owners :
               /\ WorkerOK(j, loc[<<j, o>>])
               /\ loc[<<j, o>>].pc \in Holding => lock = <<j, o>>

\* lines and homes have uids that were given; what two persons share are homes
\* from before, which nobody removes
StoresOK ==
  /\ \A g \in given : g.uid <= issued
  /\ \A e \in passwd : [name |-> e.name, uid |-> e.uid] \in given
  /\ \A n \in Names : home[n] \in Uids => [name |-> n, uid |-> home[n]] \in given
  /\ \A g, h \in given : g.uid = h.uid /\ g.name # h.name => home[g.name] = g.uid
  /\ \A j \in Jobs : ContextOK(j, saved[j])

UidInv == TypeOK /\ WorkersOK /\ StoresOK

-----------------------------------------------------------------------------
(* What the worker's memory is after the endings, retries and rollbacks *)

LEMMA OffOK ==
  ASSUME NEW j PROVE WorkerOK(j, Off) /\ Off.pc \notin Holding
  BY DEF Off, WorkerOK, ContextOK, Holding, Rolling

\* A memory with nothing in hand: only its context and its verdict matter.
EmptyHanded == PCs \ (Holding \cup Rolling
                      \cup {"issue", "group", "shadow", "sudoers", "log", "home", "end"})

LEMMA EmptyHandedOK ==
  ASSUME NEW j, NEW m, ContextOK(j, m),
         m.pc \in EmptyHanded \/ (m.pc = "end" /\ m.out # "")
  PROVE  WorkerOK(j, m) /\ m.pc \notin Holding
  <1>1. m.pc \notin Holding \cup Rolling
                  \cup {"issue", "group", "shadow", "sudoers", "log", "home"}
    BY DEF EmptyHanded, Holding, Rolling
  <1>2. m.pc = "end" => m.out # ""
    BY DEF EmptyHanded
  <1> QED BY <1>1, <1>2 DEF WorkerOK

LEMMA Ends ==
  ASSUME NEW j, NEW l \in Local, NEW v \in Verdicts, ContextOK(j, l)
  PROVE  /\ Ending(l, v) \in Local /\ WorkerOK(j, Ending(l, v))
         /\ Ending(l, v).pc = "end"
  <1>1. v # ""
    BY DEF Verdicts
  <1>2. Ending(l, v) \in Local
    BY DEF Local, Ending, PCs
  <1>3. Ending(l, v).pc = "end" /\ Ending(l, v).out = v
    BY DEF Local, Ending
  <1>4. ContextOK(j, Ending(l, v))
    BY DEF Local, Ending, ContextOK
  <1>5. WorkerOK(j, Ending(l, v))
    BY <1>1, <1>3, <1>4, EmptyHandedOK
  <1> QED BY <1>2, <1>3, <1>5

LEMMA Fails ==
  ASSUME NEW j, NEW l \in Local, ContextOK(j, l)
  PROVE  /\ Failing(l) \in Local /\ WorkerOK(j, Failing(l))
         /\ Failing(l).pc \notin Holding
  <1>1. CASE "krb" \in l.done
    <2>1. Failing(l) = [l EXCEPT !.pc = "comp"]
      BY <1>1 DEF Failing
    <2>2. Failing(l) \in Local /\ Failing(l).pc = "comp"
      BY <2>1 DEF Local, PCs
    <2>3. ContextOK(j, Failing(l))
      BY <2>1 DEF Local, ContextOK
    <2>4. Failing(l).pc \in EmptyHanded
      BY <2>2 DEF EmptyHanded, PCs, Holding, Rolling
    <2>5. WorkerOK(j, Failing(l)) /\ Failing(l).pc \notin Holding
      BY <2>3, <2>4, EmptyHandedOK
    <2> QED BY <2>2, <2>5
  <1>2. CASE "krb" \notin l.done
    BY <1>2, Ends DEF Failing, Verdicts, Holding
  <1> QED BY <1>1, <1>2

LEMMA Agains ==
  ASSUME ConstantsOK, NEW j, NEW l \in Local, ContextOK(j, l),
         NEW pc \in {"lookup", "delete", "home", "krb"},
         pc = "home" => Acc(j, l.uid) \in given
  PROVE  /\ Again(l, pc) \in Local /\ WorkerOK(j, Again(l, pc))
         /\ Again(l, pc).pc \notin Holding
  <1>1. CASE l.tries < MaxAttempts
    <2>a. l.tries \in 1..MaxAttempts /\ MaxAttempts \in Nat
      BY DEF ConstantsOK, Local
    <2>1. l.tries + 1 \in 1..MaxAttempts
      BY <1>1, <2>a
    <2>2. Again(l, pc) = [l EXCEPT !.pc = pc, !.tries = @ + 1]
      BY <1>1 DEF Again
    <2>b. pc \in PCs
      BY DEF PCs
    <2>3. Again(l, pc) \in Local
      BY <2>1, <2>2, <2>b DEF Local
    <2>4. Again(l, pc).pc = pc /\ Again(l, pc).uid = l.uid
      BY <2>2 DEF Local
    <2>5. ContextOK(j, Again(l, pc))
      BY <2>2 DEF Local, ContextOK
    <2>6. CASE pc = "home"
      <3>1. Again(l, pc).pc = "home" /\ Acc(j, Again(l, pc).uid) \in given
        BY <2>4, <2>6
      <3> QED BY <2>3, <2>5, <3>1 DEF WorkerOK, Holding, Rolling
    <2>7. CASE pc # "home"
      <3>1. Again(l, pc).pc \in EmptyHanded
        BY <2>4, <2>7 DEF EmptyHanded, PCs, Holding, Rolling
      <3>2. WorkerOK(j, Again(l, pc)) /\ Again(l, pc).pc \notin Holding
        BY <2>5, <3>1, EmptyHandedOK
      <3> QED BY <2>3, <3>2
    <2> QED BY <2>6, <2>7
  <1>2. CASE ~(l.tries < MaxAttempts)
    BY <1>2, Ends DEF Again, Verdicts, Holding
  <1> QED BY <1>1, <1>2

LEMMA Undoes ==
  ASSUME ConstantsOK, NEW j, NEW l \in Local, ContextOK(j, l),
         NEW then \in {"account", "home", "krb", "mismatch"},
         then \in {"home", "mismatch"} => Acc(j, l.uid) \in given
  PROVE  /\ Undoing(l, then) \in Local /\ WorkerOK(j, Undoing(l, then))
         /\ Undoing(l, then).pc \notin Holding
  <1>0. 0 \in 0..UidMax
    BY DEF ConstantsOK
  <1>1. Undoing(l, then) \in Local
    BY <1>0 DEF Local, Undoing, PCs
  <1>2. /\ Undoing(l, then).pc = "undo" /\ Undoing(l, then).then = then
        /\ Undoing(l, then).uid = l.uid
    BY DEF Local, Undoing
  <1>3. ContextOK(j, Undoing(l, then))
    BY DEF Local, Undoing, ContextOK
  <1>4. Undoing(l, then).then \in {"home", "mismatch"}
          => Acc(j, Undoing(l, then).uid) \in given
    BY <1>2
  <1> QED BY <1>1, <1>2, <1>3, <1>4 DEF WorkerOK, Holding, Rolling

LEMMA Goes ==
  ASSUME NEW j, NEW l \in Local, ContextOK(j, l),
         NEW pc \in {"lookup", "krb", "record", "rewind", "pod", "comp", "judge",
                    "check", "delete", "del_shadow", "del_group", "del_log",
                    "left_shadow", "left_group"}
  PROVE  /\ [l EXCEPT !.pc = pc] \in Local /\ WorkerOK(j, [l EXCEPT !.pc = pc])
         /\ [l EXCEPT !.pc = pc].pc \notin Holding
  <1>1. [l EXCEPT !.pc = pc] \in Local /\ [l EXCEPT !.pc = pc].pc = pc
    BY ZenonT(60) DEF Local, PCs
  <1>2. pc \notin Holding \cup Rolling \cup {"issue", "group", "shadow", "sudoers", "log", "home", "end"}
    BY DEF Holding, Rolling
  <1>3. ContextOK(j, [l EXCEPT !.pc = pc])
    BY DEF Local, ContextOK
  <1> QED BY <1>1, <1>2, <1>3 DEF WorkerOK

\* what is known of a worker's memory stays true while given does
LEMMA GivenStays ==
  ASSUME NEW j, NEW m \in Local, WorkerOK(j, m), given' = given,
         issued \in Nat, issued' \in Nat, issued <= issued'
  PROVE  WorkerOK(j, m)'
  <1>1. m.pc \in Holding => m.mk \in 1..issued'
    <2>1. m.mk \in 1..issued => m.mk \in 1..issued'
      OBVIOUS
    <2> QED BY <2>1 DEF WorkerOK
  <1> QED BY <1>1 DEF WorkerOK, ContextOK, Sole, Alone, Acc

\* A worker moves while the record of given uids stays: its own new memory is
\* all there is to show.
LEMMA WorkerMoves ==
  ASSUME TypeOK, WorkersOK, NEW j \in Jobs, NEW o \in Owners, NEW m \in Local,
         Become(j, o, m), WorkerOK(j, m)', m.pc \in Holding => lock' = <<j, o>>,
         lock' = lock \/ lock \in {None, <<j, o>>},
         given' = given, issued' \in Nat, issued <= issued', None \notin Workers
  PROVE  loc' \in [Workers -> Local] /\ WorkersOK'
  <1>1. loc \in [Workers -> Local] /\ <<j, o>> \in Workers
    BY DEF TypeOK, Workers
  <1>2. loc' \in [Workers -> Local]
    BY <1>1 DEF Become
  <1>3. ASSUME NEW k \in Jobs, NEW p \in Owners
        PROVE  /\ WorkerOK(k, loc[<<k, p>>])'
               /\ loc'[<<k, p>>].pc \in Holding => lock' = <<k, p>>
    <2>1. CASE <<k, p>> = <<j, o>>
      BY <2>1, <1>1 DEF Become
    <2>2. CASE <<k, p>> # <<j, o>>
      <3>1. loc'[<<k, p>>] = loc[<<k, p>>]
        BY <2>2, <1>1 DEF Become, Workers
      <3>2. WorkerOK(k, loc[<<k, p>>]) /\ loc[<<k, p>>] \in Local
        BY <1>1 DEF WorkersOK, Workers
      <3>3. WorkerOK(k, loc[<<k, p>>])'
        <4>1. PICK m2 \in Local : m2 = loc[<<k, p>>]
          BY <3>2
        <4>2. WorkerOK(k, m2)'
          BY <3>2, <4>1, GivenStays DEF TypeOK
        <4>3. m2 = loc'[<<k, p>>]
          BY <3>1, <4>1
        <4> QED BY <4>2, <4>3 DEF WorkerOK, ContextOK
      <3>4. CASE loc[<<k, p>>].pc \in Holding
        <4>1. lock = <<k, p>> /\ lock # None
          BY <3>4 DEF WorkersOK, Workers
        <4> QED BY <2>2, <3>1, <3>3, <4>1
      <3> QED BY <3>1, <3>3, <3>4
    <2> QED BY <2>1, <2>2
  <1> QED BY <1>2, <1>3 DEF WorkersOK

LEMMA StoresStay ==
  ASSUME TypeOK, StoresOK, given' = given, issued' \in Nat, issued <= issued',
         passwd' \subseteq passwd, home' = home, saved' = saved
  PROVE  StoresOK'
  <1>1. \A g \in given' : g.uid <= issued'
    BY DEF TypeOK, StoresOK, Account, Uids
  <1>2. \A j \in Jobs : ContextOK(j, saved[j])'
    BY DEF StoresOK, ContextOK, Alone, Acc
  <1> QED BY <1>1, <1>2 DEF StoresOK

\* An action that moves one worker, removes lines at most, and gives nothing out.
LEMMA QuietMove ==
  ASSUME ConstantsOK, UidInv, NEW j \in Jobs, NEW o \in Owners, NEW m \in Local,
         Become(j, o, m), WorkerOK(j, m), m.pc \in Holding => lock' = <<j, o>>,
         lock' = lock \/ lock \in {None, <<j, o>>},
         UNCHANGED <<given, issued, home, saved>>, passwd' \subseteq passwd
  PROVE  loc' \in [Workers -> Local] /\ WorkersOK' /\ StoresOK'
  <1>1. issued \in Nat /\ issued' \in Nat /\ issued <= issued'
    BY DEF UidInv, TypeOK
  <1>2. WorkerOK(j, m)'
    BY <1>1, GivenStays
  <1>3. None \notin Workers
    BY DEF ConstantsOK
  <1>4. loc' \in [Workers -> Local] /\ WorkersOK'
    BY <1>1, <1>2, <1>3, WorkerMoves DEF UidInv
  <1>5. StoresOK'
    BY <1>1, StoresStay DEF UidInv
  <1> QED BY <1>4, <1>5

-----------------------------------------------------------------------------
(* One lemma per action *)

\* the types of what the uids do not depend on
RestOK ==
  /\ \A g \in group : g.gid \in Nat /\ g.members \subseteq Names
  /\ shadow \in [Names -> Seq(Provisions)]
  /\ sudoers \subseteq Names
  /\ pods \subseteq Provisions
  /\ evidence \in [Names -> BOOLEAN]
  /\ job \in [Jobs -> {"new", "setpw"} \cup Queued \cup Verdicts]
  /\ expected \in [Provisions -> 0..UidMax]
  /\ known \in [Names -> 0..UidMax]
  /\ lease \in [Jobs -> Owners \cup {None}]
  /\ crashes \in 0..MaxCrashes /\ faults \in 0..MaxFaults

\* QuietMove, and the rest has its types: the invariant stays
LEMMA Quiet ==
  ASSUME ConstantsOK, UidInv, NEW j \in Jobs, NEW o \in Owners, NEW m \in Local,
         Become(j, o, m), WorkerOK(j, m), m.pc \in Holding => lock' = <<j, o>>,
         lock' = lock \/ lock' = None \/ lock' = <<j, o>>,
         lock \notin {None, <<j, o>>} => lock' = lock,
         UNCHANGED <<given, issued, home, saved>>, passwd' \subseteq passwd,
         RestOK'
  PROVE  UidInv'
  <1>1. loc' \in [Workers -> Local] /\ WorkersOK' /\ StoresOK'
    BY QuietMove
  <1>2. lock' \in Workers \cup {None}
    BY DEF UidInv, TypeOK, Workers
  <1> QED BY <1>1, <1>2 DEF UidInv, TypeOK, RestOK

\* the worker's memory before the step
LEMMA Memory ==
  ASSUME UidInv, NEW j \in Jobs, NEW o \in Owners
  PROVE  /\ loc[<<j, o>>] \in Local /\ WorkerOK(j, loc[<<j, o>>])
         /\ ContextOK(j, loc[<<j, o>>]) /\ <<j, o>> \in Workers
         /\ loc[<<j, o>>].pc \in Holding => lock = <<j, o>>
  BY DEF UidInv, TypeOK, WorkersOK, WorkerOK, Workers

\* one more fault
LEMMA FaultOK ==
  ASSUME ConstantsOK, UidInv, NEW f, Fault(f)
  PROVE  crashes' \in 0..MaxCrashes /\ faults' \in 0..MaxFaults
  BY DEF ConstantsOK, UidInv, TypeOK, Fault

LEMMA InitOK == ASSUME ConstantsOK, Init PROVE UidInv
  <1>1. 1 \in 1..MaxAttempts /\ 0 \in 0..MaxRewinds /\ 0 \in 0..UidMax
        /\ 0 \in 0..MaxCrashes /\ 0 \in 0..MaxFaults /\ Legacy \in 0..UidMax
        /\ 1..Legacy \subseteq Uids /\ Uids \subseteq 0..UidMax
        /\ None \notin Uids /\ \A u \in 1..Legacy : u <= Legacy
    BY DEF ConstantsOK, Uids
  <1>2. Off \in Local /\ Nothing \in Saved
    BY <1>1 DEF Off, Nothing, Local, Saved, PCs
  <1>3. given \subseteq Account
    BY <1>1 DEF Init, Account
  <1>4. TypeOK
    <2>1. \A g \in group : g.gid \in Nat /\ g.members \subseteq Names
      BY DEF Init, ConstantsOK
    <2>2. known \in [Names -> 0..UidMax] /\ home \in [Names -> 0..UidMax \cup {None}]
      BY <1>1 DEF Init
    <2>3. /\ job \in [Jobs -> {"new", "setpw"} \cup Queued \cup Verdicts]
          /\ lock \in Workers \cup {None}
          /\ lease \in [Jobs -> Owners \cup {None}] /\ saved \in [Jobs -> Saved]
          /\ loc \in [Workers -> Local]
      BY <1>2 DEF Init
    <2>4. /\ passwd \subseteq Line /\ sudoers \subseteq Names /\ pods \subseteq Provisions
          /\ shadow \in [Names -> Seq(Provisions)] /\ evidence \in [Names -> BOOLEAN]
      BY DEF Init
    <2>5. /\ issued \in 0..UidMax /\ expected \in [Provisions -> 0..UidMax]
          /\ crashes \in 0..MaxCrashes /\ faults \in 0..MaxFaults
      BY <1>1 DEF Init
    <2> QED BY <1>3, <2>1, <2>2, <2>3, <2>4, <2>5 DEF TypeOK
  <1>5. WorkersOK
    BY ZenonT(40) DEF Init, WorkersOK, WorkerOK, ContextOK, Off, Holding, Rolling, Workers
  <1>6. StoresOK
    BY <1>1 DEF Init, StoresOK, ContextOK, Nothing
  <1> QED BY <1>4, <1>5, <1>6 DEF UidInv

LEMMA NoMove ==
  ASSUME UidInv,
         UNCHANGED <<loc, lock, given, issued, home, saved, passwd>>
  PROVE  WorkersOK' /\ StoresOK'
  <1>1. StoresOK'
    BY StoresStay DEF UidInv, TypeOK
  <1>2. ASSUME NEW k \in Jobs, NEW p \in Owners
        PROVE  WorkerOK(k, loc[<<k, p>>])'
    <2>1. <<k, p>> \in Workers
      BY DEF Workers
    <2>2. PICK m \in Local : m = loc[<<k, p>>]
      BY <2>1 DEF UidInv, TypeOK
    <2>3. WorkerOK(k, m)'
      BY <2>2, GivenStays DEF UidInv, TypeOK, WorkersOK
    <2> QED BY <2>2, <2>3 DEF WorkerOK, ContextOK
  <1>3. WorkersOK'
    BY <1>2 DEF UidInv, WorkersOK
  <1> QED BY <1>1, <1>3


LEMMA RegisterRevokeOK ==
  ASSUME UidInv, NEW j \in Revokes, RegisterRevoke(j) PROVE UidInv'
  <1>1. TypeOK'
    BY DEF UidInv, TypeOK, RegisterRevoke, files, nas, jobctl, counts, Queued, Jobs
  <1>2. WorkersOK' /\ StoresOK'
    BY NoMove DEF RegisterRevoke, files, nas, jobctl
  <1> QED BY <1>1, <1>2 DEF UidInv

LEMMA RegisterProvisionOK ==
  ASSUME ConstantsOK, UidInv, NEW j \in Provisions, RegisterProvision(j)
  PROVE  UidInv'
  <1>1. NameOf[j] \in Names /\ 0 \in 0..UidMax
    BY DEF ConstantsOK, Jobs
  <1>2. expected' \in [Provisions -> 0..UidMax]
    BY <1>1 DEF UidInv, TypeOK, RegisterProvision
  <1>3. job' \in [Jobs -> {"new", "setpw"} \cup Queued \cup Verdicts]
    BY DEF UidInv, TypeOK, RegisterProvision, Queued, Jobs
  <1>4. TypeOK'
    BY <1>2, <1>3 DEF UidInv, TypeOK, RegisterProvision, files, nas, jobctl, counts
  <1>5. WorkersOK' /\ StoresOK'
    BY NoMove DEF RegisterProvision, files, nas, jobctl
  <1> QED BY <1>4, <1>5 DEF UidInv

LEMMA AdoptAccountOK ==
  ASSUME ConstantsOK, UidInv, NEW j \in Provisions, AdoptAccount(j)
  PROVE  UidInv'
  <1>1. NameOf[j] \in Names /\ shadow[NameOf[j]] \in Seq(Provisions)
    BY DEF ConstantsOK, Jobs, UidInv, TypeOK
  <1>2. shadow' \in [Names -> Seq(Provisions)]
    <2>1. shadow[NameOf[j]] # << >> =>
            [shadow[NameOf[j]] EXCEPT ![1] = j] \in Seq(Provisions)
      BY <1>1
    <2> QED BY <1>1, <2>1 DEF UidInv, TypeOK, AdoptAccount
  <1>3. TypeOK'
    BY <1>2 DEF UidInv, TypeOK, AdoptAccount, nas, jobctl, counts, Queued, Jobs
  <1>4. WorkersOK' /\ StoresOK'
    BY NoMove DEF AdoptAccount, nas, jobctl
  <1> QED BY <1>3, <1>4 DEF UidInv

LEMMA RemovePodOK ==
  ASSUME UidInv, NEW j \in Provisions, RemovePod(j) PROVE UidInv'
  <1>1. TypeOK'
    BY DEF UidInv, TypeOK, RemovePod, files, orders, jobctl, counts
  <1>2. WorkersOK' /\ StoresOK'
    BY NoMove DEF RemovePod, files, jobctl
  <1> QED BY <1>1, <1>2 DEF UidInv

\* what a job that starts has in memory is what was recorded for it
LEMMA TakeOK ==
  ASSUME ConstantsOK, UidInv, NEW j \in Jobs, NEW o \in Owners, Take(j, o)
  PROVE  UidInv'
  <1> DEFINE s  == saved[j]
             m0 == CASE job[j] = "revoke" /\ s.done = {} -> "check"
                     [] job[j] = "reuse"               -> "pod"
                     [] OTHER                          -> FirstStep(s.done)
             m  == [Off EXCEPT !.done = s.done, !.uid = s.uid, !.mk = s.mk,
                               !.made = s.made, !.pc = m0]
  <1>1. s \in Saved /\ ContextOK(j, s)
    BY DEF UidInv, TypeOK, StoresOK
  <1>2. m0 \in {"check", "delete", "pod", "krb", "home", "judge"}
        /\ (m0 = "home" => "account" \in s.done)
    BY <1>1 DEF FirstStep, Saved, Steps
  <1>3. 1 \in 1..MaxAttempts /\ 0 \in 0..MaxRewinds /\ 0 \in 0..UidMax
    BY DEF ConstantsOK
  <1>4. m \in Local
    BY <1>1, <1>2, <1>3 DEF Off, Local, Saved, PCs
  <1>5. WorkerOK(j, m) /\ m.pc \notin Holding
    BY <1>1, <1>2 DEF Off, WorkerOK, ContextOK, Saved, Holding, Rolling
  <1>6. Become(j, o, m) /\ UNCHANGED <<given, issued, home, saved, passwd, lock>>
    BY DEF Take, Become, files, nas
  <1>7. loc' \in [Workers -> Local] /\ WorkersOK' /\ StoresOK'
    <2> HIDE DEF m
    <2> QED BY <1>4, <1>5, <1>6, QuietMove
  <1>8. crashes' \in 0..MaxCrashes /\ faults' \in 0..MaxFaults
    BY DEF UidInv, TypeOK, Take, Fault, counts, ConstantsOK
  <1>9. TypeOK'
    BY <1>6, <1>7, <1>8 DEF UidInv, TypeOK, Take, files, nas, orders
  <1> QED BY <1>7, <1>9 DEF UidInv

LEMMA CrashOK ==
  ASSUME ConstantsOK, UidInv, NEW o \in Owners, Crash(o)
  PROVE  UidInv'
  <1>1. 1 \in 1..MaxAttempts /\ 0 \in 0..MaxRewinds /\ 0 \in 0..UidMax
    BY DEF ConstantsOK
  <1>2. Off \in Local
    BY <1>1 DEF Off, Local, PCs
  <1>3. loc' \in [Workers -> Local]
    BY <1>2 DEF Crash, UidInv, TypeOK
  <1>4. crashes' \in 0..MaxCrashes
    BY DEF Crash, UidInv, TypeOK, ConstantsOK
  <1>5. TypeOK'
    BY <1>3, <1>4 DEF Crash, UidInv, TypeOK, files, nas, orders, jobctl
  <1>6. StoresOK'
    BY StoresStay DEF Crash, UidInv, TypeOK, files, nas, jobctl
  <1>7. ASSUME NEW k \in Jobs, NEW p \in Owners
        PROVE  /\ WorkerOK(k, loc[<<k, p>>])'
               /\ loc'[<<k, p>>].pc \in Holding => lock' = <<k, p>>
    <2>1. <<k, p>> \in Workers /\ <<k, p>>[2] = p
      BY DEF Workers
    <2>2. CASE p = o
      <3>1. loc'[<<k, p>>] = Off
        BY <2>1, <2>2 DEF Crash
      <3>2. WorkerOK(k, Off)'
        BY <1>2, OffOK, GivenStays DEF UidInv, TypeOK, Crash
      <3> QED BY <3>1, <3>2, OffOK DEF WorkerOK, ContextOK
    <2>3. CASE p # o
      <3>1. loc'[<<k, p>>] = loc[<<k, p>>]
        BY <2>1, <2>3 DEF Crash
      <3>2. WorkerOK(k, loc[<<k, p>>])
            /\ (loc[<<k, p>>].pc \in Holding => lock = <<k, p>>)
        BY DEF UidInv, WorkersOK
      <3>3. lock = <<k, p>> => lock' = lock
        BY <2>1, <2>3 DEF Crash
      <3>4. PICK m \in Local : m = loc[<<k, p>>]
        BY <2>1 DEF UidInv, TypeOK
      <3>5. WorkerOK(k, m)'
        BY <3>2, <3>4, GivenStays DEF UidInv, TypeOK, Crash
      <3>6. WorkerOK(k, loc[<<k, p>>])'
        BY <3>1, <3>4, <3>5 DEF WorkerOK, ContextOK
      <3> QED BY <3>1, <3>2, <3>3, <3>6
    <2> QED BY <2>2, <2>3
  <1>8. WorkersOK'
    BY <1>7 DEF WorkersOK
  <1> QED BY <1>5, <1>6, <1>8 DEF UidInv
LEMMA JudgeOK ==
  ASSUME ConstantsOK, UidInv, NEW j \in Provisions, NEW o \in Owners, Judge(j, o)
  PROVE  UidInv'
  <1> DEFINE l == loc[<<j, o>>]
  <1>1. j \in Jobs /\ l \in Local /\ WorkerOK(j, l) /\ ContextOK(j, l)
    BY Memory DEF Jobs
  <1>2. RestOK' /\ UNCHANGED <<given, issued, home, saved>>
    BY DEF UidInv, TypeOK, RestOK, Judge, nas, orders, jobctl, counts
  <1>3. Marked(j, l) # {} => Acc(j, l.mk) \in given
    BY DEF UidInv, StoresOK, Marked, LinesOf, Acc
  <1> HIDE DEF l
  <1>4. CASE Goto(j, o, "lookup") /\ UNCHANGED <<passwd, lock>>
    <2>1. /\ [l EXCEPT !.pc = "lookup"] \in Local
          /\ WorkerOK(j, [l EXCEPT !.pc = "lookup"])
          /\ [l EXCEPT !.pc = "lookup"].pc \notin Holding
      BY ZenonT(60), <1>1, Goes DEF Local
    <2> QED BY <1>1, <1>2, <1>4, <2>1, Quiet DEF Goto, l
  <1>5. CASE /\ Marked(j, l) # {} /\ UNCHANGED <<passwd, lock>>
             /\ Become(j, o, [l EXCEPT !.pc = "log", !.uid = l.mk])
    <2> DEFINE m == [l EXCEPT !.pc = "log", !.uid = l.mk]
    <2>1. m \in Local /\ WorkerOK(j, m) /\ m.pc \notin Holding
      BY ZenonT(60), <1>1, <1>3, <1>5 DEF Local, PCs, WorkerOK, ContextOK, Holding, Rolling
    <2> QED BY <1>1, <1>2, <1>5, <2>1, Quiet
  <1>6. CASE /\ Marked(j, l) # {} /\ Acquire(j, o) /\ passwd' = Without(NameOf[j])
             /\ Become(j, o, [l EXCEPT !.pc = "undo_shadow", !.gid = l.mk,
                                       !.then = "judged"])
    <2> DEFINE m == [l EXCEPT !.pc = "undo_shadow", !.gid = l.mk, !.then = "judged"]
    <2>a. m \in Local
      BY <1>1 DEF Local, PCs
    <2>b. WorkerOK(j, m) /\ m.pc \notin Holding
      BY <1>1, <1>3, <1>6 DEF Local, WorkerOK, ContextOK, Holding, Rolling
    <2>1. m \in Local /\ WorkerOK(j, m) /\ m.pc \notin Holding
      BY <2>a, <2>b
    <2> QED BY <1>1, <1>2, <1>6, <2>1, Quiet DEF Acquire, Free, Without
  <1> QED BY <1>4, <1>5, <1>6 DEF Judge, Locked, l

\* the home found on the NAS was given to the person, and shared or not
LEMMA LookupOK ==
  ASSUME ConstantsOK, UidInv, NEW j \in Provisions, NEW o \in Owners, Lookup(j, o)
  PROVE  UidInv'
  <1> DEFINE l     == loc[<<j, o>>]
             n     == NameOf[j]
             owner == home[n]
             back  == LinesOf(n) = {} /\ owner \in {l.uid, expected[j]} \ {0}
             sh    == back /\ \E k \in Names \ {n} : home[k] = owner
             m     == [l EXCEPT !.pc = "issue", !.ret = IF back THEN owner ELSE 0,
                                !.shared = sh]
  <1>1. j \in Jobs /\ l \in Local /\ WorkerOK(j, l) /\ ContextOK(j, l)
    BY Memory DEF Jobs
  <1>2. RestOK' /\ UNCHANGED <<given, issued, home, saved, passwd, lock>>
    BY DEF UidInv, TypeOK, RestOK, Lookup, files, nas, orders, jobctl, counts
  <1>3. n \in Names /\ l.uid \in 0..UidMax /\ expected[j] \in 0..UidMax
    BY <1>1 DEF Local, UidInv, TypeOK, ConstantsOK
  <1>4. back => owner \in Uids /\ Acc(j, owner) \in given
    BY <1>3, ConstantsOK DEF UidInv, StoresOK, Acc, Uids, ConstantsOK
  <1>5. back /\ ~sh => Sole(j, owner)
    BY <1>3, <1>4 DEF UidInv, TypeOK, StoresOK, Acc, Sole, Account
  <1>6. m \in Local /\ WorkerOK(j, m) /\ m.pc \notin Holding
    <2>1. (IF back THEN owner ELSE 0) \in 0..UidMax /\ sh \in BOOLEAN
      BY <1>4 DEF ConstantsOK, Uids
    <2> HIDE DEF sh
    <2>a. "judge" \in PCs /\ "issue" \in PCs
      BY DEF PCs
    <2>2. m \in Local
      BY <1>1, <2>1, <2>a DEF Local
    <2> HIDE DEF back, owner
    <2>3. WorkerOK(j, m) /\ m.pc \notin Holding
      BY <1>1, <1>4, <1>5 DEF Local, WorkerOK, ContextOK, Holding, Rolling
    <2> QED BY <2>2, <2>3
  <1>7. Become(j, o, m)
    BY DEF Lookup
  <1> HIDE DEF m
  <1> QED BY <1>1, <1>2, <1>6, <1>7, Quiet
\* A new uid is above all that were given; a returning person's was nobody else's.
LEMMA IssueOK ==
  ASSUME ConstantsOK, UidInv, NEW j \in Provisions, NEW o \in Owners, Issue(j, o)
  PROVE  UidInv'
  <1> DEFINE l == loc[<<j, o>>]
  <1>1. j \in Jobs /\ l \in Local /\ WorkerOK(j, l) /\ ContextOK(j, l)
    BY Memory DEF Jobs
  <1>2. RestOK' /\ UNCHANGED <<given, home, saved, passwd>> /\ l.pc = "issue" /\ lock = None
    BY DEF UidInv, TypeOK, RestOK, Issue, files, nas, orders, jobctl, counts, At, Free
  <1> HIDE DEF l
  <1>3. CASE Become(j, o, Failing(l)) /\ UNCHANGED <<issued, lock>>
    BY <1>1, <1>2, <1>3, Fails, Quiet
  <1>4. CASE Become(j, o, Again(l, "lookup")) /\ UNCHANGED <<issued, lock>>
    BY <1>1, <1>2, <1>4, Agains, Quiet
  <1>5. ASSUME NEW u \in Uids, IF l.ret # 0 THEN u = l.ret ELSE IsNextUid(u),
               ~(l.ret # 0 /\ ReclaimConflict(j, l.ret, l.shared)),
               issued' = Larger(issued, u),
               Become(j, o, [l EXCEPT !.pc = "mark", !.mk = u]), lock' = <<j, o>>
        PROVE  UidInv'
    <2>1. issued \in 0..UidMax /\ u \in 1..UidMax /\ UidMax \in Nat
      BY DEF UidInv, TypeOK, Uids, ConstantsOK
    <2>2. issued' \in 0..UidMax /\ issued <= issued' /\ u \in 1..issued' /\ issued' \in Nat
      BY <2>1, <1>5 DEF Larger
    <2>3. Sole(j, u)
      <3>1. CASE l.ret # 0
        BY <3>1, <1>1, <1>2, <1>5 DEF ReclaimConflict, WorkerOK
      <3>2. CASE l.ret = 0
        <4>1. u > issued
          BY <3>2, <1>5 DEF IsNextUid, Fresh
        <4>2. \A g \in given : g.uid <= issued /\ g.uid \in Nat
          BY DEF UidInv, TypeOK, StoresOK, Account, Uids
        <4> QED BY <4>1, <4>2, <2>1 DEF Sole
      <3> QED BY <3>1, <3>2
    <2>4. [l EXCEPT !.pc = "mark", !.mk = u] \in Local
      <3>1. u \in 0..UidMax
        BY <2>1
      <3> QED BY <1>1, <3>1 DEF Local, PCs
    <2>a. PICK m \in Local : m = [l EXCEPT !.pc = "mark", !.mk = u]
      BY <2>4
    <2>5. WorkerOK(j, m)'
      <3>1. m.pc = "mark" /\ m.mk = u /\ m.done = l.done /\ m.made = l.made /\ m.uid = l.uid
        BY <1>1, <2>a DEF Local
      <3>2. ContextOK(j, m)'
        BY <3>1, <1>1, <1>2 DEF ContextOK, Alone, Acc
      <3> QED BY <3>1, <3>2, <2>2, <2>3, <1>2 DEF WorkerOK, Sole, Holding, Rolling
    <2>6. loc' \in [Workers -> Local] /\ WorkersOK'
      <3>1. None \notin Workers
        BY DEF ConstantsOK
      <3>2. Become(j, o, m)
        BY <1>5, <2>a
      <3> QED BY <3>1, <3>2, <1>1, <1>2, <1>5, <2>2, <2>5, WorkerMoves DEF UidInv
    <2>7. StoresOK'
      BY <1>2, <2>2, StoresStay DEF UidInv
    <2>8. lock' \in Workers \cup {None}
      BY <1>1, <1>5 DEF Workers
    <2> QED BY <1>2, <2>2, <2>6, <2>7, <2>8 DEF UidInv, TypeOK, RestOK
  <1> QED BY <1>3, <1>4, <1>5 DEF Issue, l

\* an action that records what the worker has in memory
LEMMA Records ==
  ASSUME ConstantsOK, UidInv, NEW j \in Jobs, NEW o \in Owners, NEW l \in Local,
         ContextOK(j, l), NEW pc \in PCs,
         RecordStep(j, o, l, pc), WorkerOK(j, [l EXCEPT !.pc = pc]),
         pc \in Holding /\ lease[j] = o => lock' = <<j, o>>,
         lock' = lock \/ lock' = None \/ lock' = <<j, o>>,
         lock \notin {None, <<j, o>>} => lock' = lock,
         UNCHANGED <<given, issued, home, passwd>>, RestOK'
  PROVE  UidInv'
  <1>1. CASE lease[j] = o
    <2> DEFINE m == [l EXCEPT !.pc = pc]
    <2>1. m \in Local /\ m.pc = pc
      BY DEF Local
    <2>2. saved' = [saved EXCEPT ![j] = Recorded(l)] /\ Become(j, o, m)
      BY <1>1 DEF RecordStep
    <2>3. Recorded(l) \in Saved /\ ContextOK(j, Recorded(l))
      BY DEF Local, Saved, Recorded, ContextOK
    <2>4. issued \in Nat /\ issued' \in Nat /\ issued <= issued'
      BY DEF UidInv, TypeOK
    <2>5. None \notin Workers
      BY DEF ConstantsOK
    <2>6. m.pc \in Holding => lock' = <<j, o>>
      BY <1>1, <2>1
    <2>7. WorkerOK(j, m)
      OBVIOUS
    <2> HIDE DEF m
    <2>8. WorkerOK(j, m)'
      BY <2>1, <2>4, <2>7, GivenStays
    <2>9. loc' \in [Workers -> Local] /\ WorkersOK'
      BY <2>1, <2>2, <2>4, <2>5, <2>6, <2>8, WorkerMoves DEF UidInv
    <2>10. saved' \in [Jobs -> Saved] /\ \A k \in Jobs : ContextOK(k, saved'[k])
      BY <2>2, <2>3 DEF UidInv, TypeOK, StoresOK
    <2>11. \A k \in Jobs : ContextOK(k, saved[k])'
      BY <2>10 DEF ContextOK, Alone, Acc
    <2>12. StoresOK'
      BY <2>11 DEF UidInv, StoresOK
    <2>13. lock' \in Workers \cup {None}
      BY DEF UidInv, TypeOK, Workers
    <2> QED BY <2>9, <2>10, <2>12, <2>13 DEF UidInv, TypeOK, RestOK
  <1>2. CASE lease[j] # o
    <2>1. Become(j, o, Off) /\ UNCHANGED saved
      BY <1>2 DEF RecordStep
    <2>2. Off \in Local
      <3>1. 1 \in 1..MaxAttempts /\ 0 \in 0..MaxRewinds /\ 0 \in 0..UidMax
        BY DEF ConstantsOK
      <3> QED BY <3>1 DEF Off, Local, PCs
    <2> QED BY <2>1, <2>2, OffOK, Quiet
  <1> QED BY <1>1, <1>2

LEMMA MarkOK ==
  ASSUME ConstantsOK, UidInv, NEW j \in Provisions, NEW o \in Owners, Mark(j, o)
  PROVE  UidInv'
  <1> DEFINE l == loc[<<j, o>>]
  <1>1. j \in Jobs /\ l \in Local /\ WorkerOK(j, l) /\ ContextOK(j, l)
    BY Memory DEF Jobs
  <1>2. /\ RestOK' /\ UNCHANGED <<given, issued, home, passwd>>
        /\ l.pc = "mark" /\ lock = <<j, o>>
    BY DEF UidInv, TypeOK, RestOK, Mark, files, nas, orders, counts, At, Mine
  <1>3. RecordStep(j, o, l, "passwd") /\ lock' = IF lease[j] = o THEN lock ELSE None
    BY DEF Mark
  <1> HIDE DEF l
  <1>4. WorkerOK(j, [l EXCEPT !.pc = "passwd"]) /\ "passwd" \in PCs
    BY <1>1, <1>2 DEF Local, WorkerOK, ContextOK, Holding, Rolling, PCs
  <1> QED BY <1>1, <1>2, <1>3, <1>4, Records
\* A uid that nobody else ever had is given out: nothing that was known breaks.
LEMMA GivenGrows ==
  ASSUME NEW j, NEW u, Sole(j, u), given' = given \cup {Acc(j, u)}
  PROVE  /\ \A k, c : ContextOK(k, c) => (Acc(k, c.uid) \in given => Acc(k, c.uid) \in given')
         /\ \A n : Alone(n) => Alone(n)'
         /\ \A k, v : Acc(k, v) \in given /\ Sole(k, v) => Sole(k, v)'
  <1>1. \A n : Alone(n) => Alone(n)'
    BY DEF Alone, Sole, Acc
  <1>2. \A k, v : Acc(k, v) \in given /\ Sole(k, v) => Sole(k, v)'
    BY DEF Sole, Acc
  <1> QED BY <1>1, <1>2

LEMMA WorkerGrows ==
  ASSUME NEW j, NEW u, Sole(j, u), given' = given \cup {Acc(j, u)},
         NEW k, NEW m \in Local, WorkerOK(k, m), m.pc \notin Holding
  PROVE  WorkerOK(k, m)'
  <1>1. ContextOK(k, m)'
    BY GivenGrows DEF WorkerOK, ContextOK, Acc
  <1>2. m.pc = "issue" /\ m.ret # 0 /\ ~m.shared => Sole(k, m.ret)'
    BY GivenGrows DEF WorkerOK
  <1> QED BY <1>1, <1>2 DEF WorkerOK, Acc

LEMMA WritePasswdOK ==
  ASSUME ConstantsOK, UidInv, NEW j \in Provisions, NEW o \in Owners, WritePasswd(j, o)
  PROVE  UidInv'
  <1> DEFINE l == loc[<<j, o>>]
  <1>1. /\ j \in Jobs /\ l \in Local /\ WorkerOK(j, l) /\ ContextOK(j, l)
        /\ <<j, o>> \in Workers
    BY Memory DEF Jobs
  <1>2. /\ RestOK' /\ UNCHANGED <<issued, home, saved>>
        /\ l.pc = "passwd" /\ lock = <<j, o>> /\ lock' = None
    BY DEF UidInv, TypeOK, RestOK, WritePasswd, nas, orders, jobctl, counts, At,
           Mine, Release
  <1>3. PICK u \in 1..issued : u = l.mk /\ Sole(j, u)
    BY <1>1, <1>2 DEF WorkerOK, Holding
  <1>4. u \in Uids /\ NameOf[j] \in Names
    BY <1>1 DEF UidInv, TypeOK, Uids, ConstantsOK
  <1>5. /\ passwd' = passwd \cup {[name |-> NameOf[j], uid |-> u, by |-> j]}
        /\ given' = given \cup {Acc(j, u)}
    BY <1>3 DEF WritePasswd, Acc
  <1>6. passwd' \subseteq Line /\ given' \subseteq Account
    BY <1>4, <1>5 DEF UidInv, TypeOK, Line, Account, Acc
  <1>7. StoresOK'
    <2>1. \A g \in given' : g.uid <= issued'
      BY <1>2, <1>5 DEF UidInv, StoresOK, Acc
    <2>2. ASSUME NEW e \in passwd'
          PROVE  [name |-> e.name, uid |-> e.uid] \in given'
      <3>1. CASE e \in passwd
        BY <3>1, <1>5 DEF UidInv, StoresOK
      <3>2. CASE e = [name |-> NameOf[j], uid |-> u, by |-> j]
        BY <3>2, <1>5 DEF Acc
      <3> QED BY <3>1, <3>2, <1>5
    <2>3. \A n \in Names : home'[n] \in Uids => [name |-> n, uid |-> home'[n]] \in given'
      BY <1>2, <1>5 DEF UidInv, StoresOK
    <2>4. \A g, h \in given' : g.uid = h.uid /\ g.name # h.name => home'[g.name] = g.uid
      BY <1>2, <1>3, <1>5 DEF UidInv, StoresOK, Sole, Acc
    <2>5. \A k \in Jobs : ContextOK(k, saved[k])'
      BY <1>2, <1>3, <1>5, GivenGrows DEF UidInv, StoresOK, ContextOK
    <2> QED BY <2>1, <2>2, <2>3, <2>4, <2>5 DEF StoresOK
  <1>8. PICK m \in Local : m = [l EXCEPT !.pc = "group"]
    BY <1>1 DEF Local, PCs
  <1>9. WorkerOK(j, m)'
    <2>1. m.pc = "group" /\ m.mk = u /\ m.done = l.done /\ m.made = l.made /\ m.uid = l.uid
      BY <1>1, <1>3, <1>8 DEF Local
    <2>2. ContextOK(j, m)'
      BY <2>1, <1>1, <1>3, <1>5, GivenGrows DEF ContextOK, Acc
    <2> QED BY <2>1, <2>2, <1>5 DEF WorkerOK, Holding, Rolling, Acc
  <1>10. Become(j, o, m)
    BY <1>8 DEF WritePasswd, Goto
  <1>11. loc' = [loc EXCEPT ![<<j, o>>] = m] /\ loc \in [Workers -> Local]
    BY <1>10 DEF Become, UidInv, TypeOK
  <1>12. loc' \in [Workers -> Local]
    BY <1>11
  <1>13. ASSUME NEW k \in Jobs, NEW p \in Owners
         PROVE  WorkerOK(k, loc[<<k, p>>])' /\ loc'[<<k, p>>].pc \notin Holding
    <2>1. CASE <<k, p>> = <<j, o>>
      <3>1. loc'[<<k, p>>] = m /\ k = j
        BY <2>1, <1>1, <1>11
      <3>2. m.pc = "group"
        BY <1>1, <1>8 DEF Local
      <3> QED BY <3>1, <3>2, <1>9 DEF Holding, WorkerOK, ContextOK
    <2>2. CASE <<k, p>> # <<j, o>>
      <3>1. loc'[<<k, p>>] = loc[<<k, p>>]
        BY <2>2, <1>11 DEF Workers
      <3>2. PICK w \in Local : w = loc[<<k, p>>] /\ WorkerOK(k, w)
        BY Memory
      <3>3. w.pc \notin Holding
        BY <3>2, <2>2, <1>2, Memory
      <3>4. WorkerOK(k, w)'
        BY <3>2, <3>3, <1>3, <1>5, WorkerGrows
      <3> QED BY <3>1, <3>2, <3>3, <3>4 DEF WorkerOK, ContextOK
    <2> QED BY <2>1, <2>2
  <1>14. WorkersOK'
    BY <1>13 DEF WorkersOK
  <1> QED BY <1>2, <1>6, <1>7, <1>12, <1>14 DEF UidInv, TypeOK, RestOK
\* The groups after a creation or a removal are groups still.
LEMMA GroupsOK ==
  ASSUME ConstantsOK, UidInv
  PROVE  /\ \A n, own : \A g \in GroupsWithout(n, own) :
                g.gid \in Nat /\ g.members \subseteq Names
         /\ \A j \in Provisions, u \in Nat : \A g \in GroupsWith(j, u) :
                g.gid \in Nat /\ g.members \subseteq Names
  <1>1. ASSUME NEW n, NEW own, NEW g \in GroupsWithout(n, own)
        PROVE  g.gid \in Nat /\ g.members \subseteq Names
    <2>1. PICK h \in group : g = [h EXCEPT !.members = @ \ {n}]
      BY DEF GroupsWithout
    <2>2. h.gid \in Nat /\ h.members \subseteq Names
      BY DEF UidInv, TypeOK
    <2> QED BY <2>1, <2>2
  <1>2. ASSUME NEW j \in Provisions, NEW u \in Nat, NEW g \in GroupsWith(j, u)
        PROVE  g.gid \in Nat /\ g.members \subseteq Names
    <2> DEFINE primary == [name |-> PgName[j], gid |-> u, members |-> {}]
               own == IF \E h \in group : h.gid = u THEN {} ELSE {primary}
    <2>0. NameOf[j] \in Names /\ Supp[j] \subseteq Teams
          /\ \A t \in Teams : TeamGid[t] \in Nat
      BY DEF ConstantsOK, Jobs
    <2>1. \/ \E h \in group \cup own :
               g = IF h.gid \in {TeamGid[t] : t \in Supp[j]}
                     THEN [h EXCEPT !.members = @ \cup {NameOf[j]}] ELSE h
          \/ \E t \in Supp[j] :
               g = [name |-> t, gid |-> TeamGid[t], members |-> {NameOf[j]}]
      BY Zenon DEF GroupsWith
    <2>2. ASSUME NEW h \in group \cup own
          PROVE  h.gid \in Nat /\ h.members \subseteq Names
      BY DEF UidInv, TypeOK
    <2>3. CASE \E h \in group \cup own :
                 g = IF h.gid \in {TeamGid[t] : t \in Supp[j]}
                       THEN [h EXCEPT !.members = @ \cup {NameOf[j]}] ELSE h
      <3>1. PICK h \in group \cup own :
                 g = IF h.gid \in {TeamGid[t] : t \in Supp[j]}
                       THEN [h EXCEPT !.members = @ \cup {NameOf[j]}] ELSE h
        BY <2>3
      <3> HIDE DEF own
      <3> QED BY <2>0, <2>2, <3>1
    <2>4. CASE \E t \in Supp[j] :
                 g = [name |-> t, gid |-> TeamGid[t], members |-> {NameOf[j]}]
      BY <2>0, <2>4
    <2> QED BY <2>1, <2>3, <2>4
  <1> QED BY <1>1, <1>2
LEMMA WriteGroupOK ==
  ASSUME ConstantsOK, UidInv, NEW j \in Provisions, NEW o \in Owners, WriteGroup(j, o)
  PROVE  UidInv'
  <1> DEFINE l == loc[<<j, o>>]
  <1>1. j \in Jobs /\ l \in Local /\ WorkerOK(j, l) /\ ContextOK(j, l)
    BY Memory DEF Jobs
  <1>2. UNCHANGED <<given, issued, home, saved, passwd, lock>> /\ l.pc = "group"
    BY DEF WriteGroup, nas, jobctl, At, Locked
  <1>3. RestOK'
    <2>1. l.mk \in Nat
      <3> HIDE DEF l
      <3>1. l.mk \in 0..UidMax
        BY <1>1 DEF Local
      <3> QED BY <3>1
    <2>2. group' = group \/ group' = GroupsWith(j, l.mk)
      BY DEF WriteGroup
    <2>3. \A g \in group' : g.gid \in Nat /\ g.members \subseteq Names
      BY <2>1, <2>2, GroupsOK DEF UidInv, TypeOK
    <2> QED BY <2>3 DEF UidInv, TypeOK, RestOK, WriteGroup, nas, orders, jobctl, counts
  <1> HIDE DEF l
  <1>4. CASE Become(j, o, Undoing(l, "account"))
    BY <1>1, <1>2, <1>3, <1>4, Undoes, Quiet
  <1>5. CASE Goto(j, o, "shadow")
    <2>1. [l EXCEPT !.pc = "shadow"] \in Local
      BY <1>1 DEF Local, PCs
    <2>2. /\ WorkerOK(j, [l EXCEPT !.pc = "shadow"])
          /\ [l EXCEPT !.pc = "shadow"].pc \notin Holding
      BY <1>1, <1>2 DEF Local, WorkerOK, ContextOK, Holding, Rolling
    <2> QED BY <1>1, <1>2, <1>3, <1>5, <2>1, <2>2, Quiet DEF Goto, l
  <1> QED BY <1>4, <1>5 DEF WriteGroup, l

LEMMA WriteShadowOK ==
  ASSUME ConstantsOK, UidInv, NEW j \in Provisions, NEW o \in Owners, WriteShadow(j, o)
  PROVE  UidInv'
  <1> DEFINE l == loc[<<j, o>>]
  <1>1. j \in Jobs /\ l \in Local /\ WorkerOK(j, l) /\ ContextOK(j, l)
    BY Memory DEF Jobs
  <1>2. UNCHANGED <<given, issued, home, saved, passwd, lock>> /\ l.pc = "shadow"
    BY DEF WriteShadow, nas, jobctl, At, Locked
  <1>3. RestOK'
    <2>1. Append(shadow[NameOf[j]], j) \in Seq(Provisions)
      BY <1>1 DEF UidInv, TypeOK, ConstantsOK
    <2>2. shadow' \in [Names -> Seq(Provisions)]
      BY <2>1 DEF UidInv, TypeOK, WriteShadow
    <2> QED BY <2>2 DEF UidInv, TypeOK, RestOK, WriteShadow, nas, orders, jobctl, counts
  <1>4. Become(j, o, [l EXCEPT !.pc = "sudoers"])
    BY DEF WriteShadow, Goto
  <1> HIDE DEF l
  <1>5. [l EXCEPT !.pc = "sudoers"] \in Local
    BY <1>1 DEF Local, PCs
  <1>6. /\ WorkerOK(j, [l EXCEPT !.pc = "sudoers"])
        /\ [l EXCEPT !.pc = "sudoers"].pc \notin Holding
    BY <1>1, <1>2 DEF Local, WorkerOK, ContextOK, Holding, Rolling
  <1> QED BY <1>1, <1>2, <1>3, <1>4, <1>5, <1>6, Quiet

LEMMA WriteSudoersOK ==
  ASSUME ConstantsOK, UidInv, NEW j \in Provisions, NEW o \in Owners, WriteSudoers(j, o)
  PROVE  UidInv'
  <1> DEFINE l == loc[<<j, o>>]
  <1>1. j \in Jobs /\ l \in Local /\ WorkerOK(j, l) /\ ContextOK(j, l)
    BY Memory DEF Jobs
  <1>2. UNCHANGED <<given, issued, home, saved, passwd, lock>> /\ l.pc = "sudoers"
    BY DEF WriteSudoers, nas, jobctl, At
  <1>3. RestOK'
    <2>1. NameOf[j] \in Names
      BY <1>1 DEF ConstantsOK
    <2> QED BY <2>1 DEF UidInv, TypeOK, RestOK, WriteSudoers, nas, orders, jobctl, counts
  <1>4. Become(j, o, [l EXCEPT !.pc = "log"])
    BY DEF WriteSudoers, Goto
  <1> HIDE DEF l
  <1>5. [l EXCEPT !.pc = "log"] \in Local
    BY <1>1 DEF Local, PCs
  <1>6. /\ WorkerOK(j, [l EXCEPT !.pc = "log"])
        /\ [l EXCEPT !.pc = "log"].pc \notin Holding
    BY <1>1, <1>2 DEF Local, WorkerOK, ContextOK, Holding, Rolling
  <1> QED BY <1>1, <1>2, <1>3, <1>4, <1>5, <1>6, Quiet

\* the finished account step: its uid was given to the person
LEMMA LogCreatedOK ==
  ASSUME ConstantsOK, UidInv, NEW j \in Provisions, NEW o \in Owners, LogCreated(j, o)
  PROVE  UidInv'
  <1> DEFINE l == loc[<<j, o>>]
             m == [l EXCEPT !.pc = "record", !.uid = l.mk, !.done = @ \cup {"account"}]
  <1>1. j \in Jobs /\ l \in Local /\ WorkerOK(j, l) /\ ContextOK(j, l)
    BY Memory DEF Jobs
  <1>2. /\ UNCHANGED <<given, issued, home, saved, passwd, lock>> /\ l.pc = "log"
        /\ Become(j, o, m)
    BY DEF LogCreated, files, nas, jobctl, At
  <1>3. RestOK'
    <2>1. crashes' \in 0..MaxCrashes /\ faults' \in 0..MaxFaults
      BY FaultOK DEF LogCreated, UidInv, TypeOK, counts
    <2> QED BY <2>1 DEF UidInv, TypeOK, RestOK, LogCreated, files, nas, orders, jobctl
  <1> HIDE DEF l
  <1>4. m \in Local
    BY <1>1 DEF Local, PCs, Steps
  <1>5. WorkerOK(j, m) /\ m.pc \notin Holding
    BY <1>1, <1>2 DEF Local, WorkerOK, ContextOK, Holding, Rolling
  <1> HIDE DEF m
  <1> QED BY <1>1, <1>2, <1>3, <1>4, <1>5, Quiet

\* the worker drops its lock, if it has it
LEMMA LetGo ==
  ASSUME NEW j, NEW o, lock' = IF Mine(j, o) THEN None ELSE lock
  PROVE  /\ lock' = lock \/ lock' = None
         /\ lock \notin {None, <<j, o>>} => lock' = lock
  BY DEF Mine

LEMMA FailsEarlyOK ==
  ASSUME ConstantsOK, UidInv, NEW j \in Provisions, NEW o \in Owners, FailsEarly(j, o)
  PROVE  UidInv'
  <1> DEFINE l == loc[<<j, o>>]
  <1>1. j \in Jobs /\ l \in Local /\ WorkerOK(j, l) /\ ContextOK(j, l)
    BY Memory DEF Jobs
  <1>2. /\ UNCHANGED <<given, issued, home, saved, passwd>>
        /\ lock' = (IF Mine(j, o) THEN None ELSE lock)
        /\ Become(j, o, Again(l, "lookup"))
    BY DEF FailsEarly, files, nas, jobctl
  <1>3. RestOK'
    <2>1. crashes' \in 0..MaxCrashes /\ faults' \in 0..MaxFaults
      BY FaultOK DEF FailsEarly
    <2> QED BY <2>1 DEF UidInv, TypeOK, RestOK, FailsEarly, files, nas, orders, jobctl
  <1> HIDE DEF l
  <1> QED BY <1>1, <1>2, <1>3, LetGo, Agains, Quiet

LEMMA FailsLateOK ==
  ASSUME ConstantsOK, UidInv, NEW j \in Provisions, NEW o \in Owners, FailsLate(j, o)
  PROVE  UidInv'
  <1> DEFINE l == loc[<<j, o>>]
  <1>1. j \in Jobs /\ l \in Local /\ WorkerOK(j, l) /\ ContextOK(j, l)
    BY Memory DEF Jobs
  <1>2. /\ UNCHANGED <<given, issued, home, saved, passwd, lock>>
        /\ Become(j, o, Undoing(l, "account"))
    BY DEF FailsLate, files, nas, jobctl
  <1>3. RestOK'
    <2>1. crashes' \in 0..MaxCrashes /\ faults' \in 0..MaxFaults
      BY FaultOK DEF FailsLate
    <2> QED BY <2>1 DEF UidInv, TypeOK, RestOK, FailsLate, files, nas, orders, jobctl
  <1> HIDE DEF l
  <1> QED BY <1>1, <1>2, <1>3, Undoes, Quiet

LEMMA JudgeFailsOK ==
  ASSUME ConstantsOK, UidInv, NEW j \in Provisions, NEW o \in Owners, JudgeFails(j, o)
  PROVE  UidInv'
  <1> DEFINE l == loc[<<j, o>>]
  <1>1. j \in Jobs /\ l \in Local /\ WorkerOK(j, l) /\ ContextOK(j, l)
    BY Memory DEF Jobs
  <1>2. /\ UNCHANGED <<given, issued, home, saved, passwd, lock>>
        /\ Become(j, o, Ending(l, "DEGRADED"))
    BY DEF JudgeFails, files, nas, jobctl
  <1>3. RestOK'
    <2>1. crashes' \in 0..MaxCrashes /\ faults' \in 0..MaxFaults
      BY FaultOK DEF JudgeFails
    <2> QED BY <2>1 DEF UidInv, TypeOK, RestOK, JudgeFails, files, nas, orders, jobctl
  <1> HIDE DEF l
  <1>4. /\ Ending(l, "DEGRADED") \in Local /\ WorkerOK(j, Ending(l, "DEGRADED"))
        /\ Ending(l, "DEGRADED").pc \notin Holding
    BY <1>1, Ends DEF Verdicts, Holding
  <1> QED BY <1>1, <1>2, <1>3, <1>4, Quiet
-----------------------------------------------------------------------------
(* The rollback *)

LEMMA UndoPasswdOK ==
  ASSUME ConstantsOK, UidInv, NEW j \in Provisions, NEW o \in Owners, UndoPasswd(j, o)
  PROVE  UidInv'
  <1> DEFINE l == loc[<<j, o>>]
  <1>1. j \in Jobs /\ l \in Local /\ WorkerOK(j, l) /\ ContextOK(j, l)
    BY Memory DEF Jobs
  <1>2. /\ UNCHANGED <<given, issued, home, saved>> /\ passwd' \subseteq passwd
        /\ lock = None /\ lock' = <<j, o>> /\ l.pc = "undo"
        /\ Become(j, o, [l EXCEPT !.pc = "undo_shadow"])
    BY DEF UndoPasswd, nas, jobctl, At, Acquire, Free, Goto, Without
  <1>3. RestOK'
    BY DEF UidInv, TypeOK, RestOK, UndoPasswd, nas, orders, jobctl, counts
  <1> HIDE DEF l
  <1>4. [l EXCEPT !.pc = "undo_shadow"] \in Local
    BY <1>1 DEF Local, PCs
  <1>5. /\ WorkerOK(j, [l EXCEPT !.pc = "undo_shadow"])
        /\ [l EXCEPT !.pc = "undo_shadow"].pc \notin Holding
    BY <1>1, <1>2 DEF Local, WorkerOK, ContextOK, Holding, Rolling
  <1> QED BY <1>1, <1>2, <1>3, <1>4, <1>5, Quiet

LEMMA UndoShadowOK ==
  ASSUME ConstantsOK, UidInv, NEW j \in Provisions, NEW o \in Owners, UndoShadow(j, o)
  PROVE  UidInv'
  <1> DEFINE l == loc[<<j, o>>]
  <1>1. j \in Jobs /\ l \in Local /\ WorkerOK(j, l) /\ ContextOK(j, l)
    BY Memory DEF Jobs
  <1>2. /\ UNCHANGED <<given, issued, home, saved, passwd, lock>>
        /\ l.pc = "undo_shadow" /\ Become(j, o, [l EXCEPT !.pc = "undo_group"])
    BY DEF UndoShadow, nas, jobctl, At, Goto
  <1>3. RestOK'
    <2>a. << >> \in Seq(Provisions)
      OBVIOUS
    <2>1. shadow' \in [Names -> Seq(Provisions)]
      BY <2>a DEF UidInv, TypeOK, UndoShadow
    <2> QED BY <2>1 DEF UidInv, TypeOK, RestOK, UndoShadow, nas, orders, jobctl, counts
  <1> HIDE DEF l
  <1>4. [l EXCEPT !.pc = "undo_group"] \in Local
    BY <1>1 DEF Local, PCs
  <1>5. /\ WorkerOK(j, [l EXCEPT !.pc = "undo_group"])
        /\ [l EXCEPT !.pc = "undo_group"].pc \notin Holding
    BY <1>1, <1>2 DEF Local, WorkerOK, ContextOK, Holding, Rolling
  <1> QED BY <1>1, <1>2, <1>3, <1>4, <1>5, Quiet

LEMMA UndoGroupOK ==
  ASSUME ConstantsOK, UidInv, NEW j \in Provisions, NEW o \in Owners, UndoGroup(j, o)
  PROVE  UidInv'
  <1> DEFINE l == loc[<<j, o>>]
  <1>1. j \in Jobs /\ l \in Local /\ WorkerOK(j, l) /\ ContextOK(j, l)
    BY Memory DEF Jobs
  <1>2. /\ UNCHANGED <<given, issued, home, saved, passwd>> /\ l.pc = "undo_group"
        /\ lock = <<j, o>> /\ lock' = None
    BY DEF UndoGroup, nas, jobctl, At, Mine, Release
  <1>3. RestOK'
    <2>1. \A g \in group' : g.gid \in Nat /\ g.members \subseteq Names
      BY GroupsOK DEF UndoGroup
    <2> QED BY <2>1 DEF UidInv, TypeOK, RestOK, UndoGroup, nas, orders, jobctl, counts
  <1> DEFINE m0 ==
        CASE l.then = "account"  -> Again(l, "lookup")
          [] l.then = "mismatch" -> Failing(l)
          [] l.then = "judged"   -> [l EXCEPT !.pc = "lookup", !.uid = l.mk]
          [] l.then \in {"home", "krb"} ->
               IF l.rewinds < MaxRewinds
                 THEN [l EXCEPT !.pc = "rewind", !.rewinds = @ + 1, !.done = {}, !.tries = 1]
                 ELSE Ending(l, "DEGRADED")
  <1>4. Become(j, o, m0)
    BY DEF UndoGroup
  <1> HIDE DEF l
  <1>5. CASE l.then = "account"
    <2>m. m0 = Again(l, "lookup")
      BY <1>5
    <2>1. Become(j, o, Again(l, "lookup"))
      BY <1>4, <2>m
    <2> QED BY <2>1, <1>1, <1>2, <1>3, Agains, Quiet
  <1>6. CASE l.then = "mismatch"
    <2>m. m0 = Failing(l)
      BY <1>6
    <2>1. Become(j, o, Failing(l))
      BY <1>4, <2>m
    <2> QED BY <2>1, <1>1, <1>2, <1>3, Fails, Quiet
  <1>7. CASE l.then = "judged"
    <2>m. m0 = [l EXCEPT !.pc = "lookup", !.uid = l.mk]
      BY <1>7
    <2>1. Become(j, o, [l EXCEPT !.pc = "lookup", !.uid = l.mk])
      BY <1>4, <2>m
    <2>2. [l EXCEPT !.pc = "lookup", !.uid = l.mk] \in Local
      BY <1>1 DEF Local, PCs
    <2>3. /\ WorkerOK(j, [l EXCEPT !.pc = "lookup", !.uid = l.mk])
          /\ [l EXCEPT !.pc = "lookup", !.uid = l.mk].pc \notin Holding
      BY <1>1, <1>2, <1>7 DEF Local, WorkerOK, ContextOK, Holding, Rolling
    <2> QED BY <2>1, <2>2, <2>3, <1>1, <1>2, <1>3, Quiet
  <1>8. CASE l.then \in {"home", "krb"} /\ l.rewinds < MaxRewinds
    <2> DEFINE m == [l EXCEPT !.pc = "rewind", !.rewinds = @ + 1, !.done = {}, !.tries = 1]
    <2>m. m0 = m
      BY <1>8
    <2>1. Become(j, o, m)
      BY <1>4, <2>m
    <2>2. MaxRewinds \in Nat /\ 1 \in 1..MaxAttempts
      BY DEF ConstantsOK
    <2>a. l.rewinds \in 0..MaxRewinds
      BY <1>1 DEF Local
    <2>3. l.rewinds + 1 \in 0..MaxRewinds
      BY <2>2, <2>a, <1>8
    <2>4. m \in Local
      BY <1>1, <2>2, <2>3 DEF Local, PCs
    <2>5. WorkerOK(j, m) /\ m.pc \notin Holding
      BY <1>1 DEF Local, WorkerOK, ContextOK, Holding, Rolling
    <2> HIDE DEF m
    <2> QED BY <2>1, <2>4, <2>5, <1>1, <1>2, <1>3, Quiet
  <1>9. CASE l.then \in {"home", "krb"} /\ ~(l.rewinds < MaxRewinds)
    <2>m. m0 = Ending(l, "DEGRADED")
      BY <1>9
    <2>1. Become(j, o, Ending(l, "DEGRADED"))
      BY <1>4, <2>m
    <2>2. /\ Ending(l, "DEGRADED") \in Local /\ WorkerOK(j, Ending(l, "DEGRADED"))
          /\ Ending(l, "DEGRADED").pc \notin Holding
      BY <1>1, Ends DEF Verdicts, Holding
    <2> QED BY <2>1, <2>2, <1>1, <1>2, <1>3, Quiet
  <1>10. l.then \in {"account", "mismatch", "judged", "home", "krb"}
    BY <1>1, <1>2 DEF Local, WorkerOK, Rolling
  <1> QED BY <1>5, <1>6, <1>7, <1>8, <1>9, <1>10

LEMMA UndoFailsOK ==
  ASSUME ConstantsOK, UidInv, NEW j \in Provisions, NEW o \in Owners, UndoFails(j, o)
  PROVE  UidInv'
  <1> DEFINE l == loc[<<j, o>>]
  <1>1. j \in Jobs /\ l \in Local /\ WorkerOK(j, l) /\ ContextOK(j, l)
    BY Memory DEF Jobs
  <1>2. /\ UNCHANGED <<given, issued, home, saved, passwd>> /\ l.pc \in Rolling
        /\ lock' = (IF Mine(j, o) THEN None ELSE lock)
    BY DEF UndoFails, files, nas, jobctl, Rolling
  <1>3. RestOK'
    <2>1. crashes' \in 0..MaxCrashes /\ faults' \in 0..MaxFaults
      BY FaultOK DEF UndoFails
    <2> QED BY <2>1 DEF UidInv, TypeOK, RestOK, UndoFails, files, nas, orders, jobctl
  <1>4. Become(j, o,
          CASE l.then = "judged"             -> Ending(l, "DEGRADED")
            [] l.then = "account"            -> Again(l, "lookup")
            [] l.then \in {"home", "mismatch"} -> Again(l, "home")
            [] l.then = "krb"                -> Again(l, "krb"))
    BY DEF UndoFails
  <1> HIDE DEF l
  <1>5. l.then \in {"judged", "account", "home", "mismatch", "krb"}
    BY <1>1, <1>2 DEF Local, WorkerOK
  <1>6. CASE l.then = "judged"
    <2>1. Become(j, o, Ending(l, "DEGRADED"))
      BY <1>4, <1>6
    <2>2. /\ Ending(l, "DEGRADED") \in Local /\ WorkerOK(j, Ending(l, "DEGRADED"))
          /\ Ending(l, "DEGRADED").pc \notin Holding
      BY <1>1, Ends DEF Verdicts, Holding
    <2> QED BY <2>1, <2>2, <1>1, <1>2, <1>3, LetGo, Quiet
  <1>7. CASE l.then = "account"
    <2>1. Become(j, o, Again(l, "lookup"))
      BY <1>4, <1>7
    <2> QED BY <2>1, <1>1, <1>2, <1>3, LetGo, Agains, Quiet
  <1>8. CASE l.then \in {"home", "mismatch"}
    <2>1. Become(j, o, Again(l, "home"))
      BY <1>4, <1>8
    <2>2. Acc(j, l.uid) \in given
      BY <1>1, <1>2, <1>8 DEF WorkerOK
    <2> QED BY <2>1, <2>2, <1>1, <1>2, <1>3, LetGo, Agains, Quiet
  <1>9. CASE l.then = "krb"
    <2>1. Become(j, o, Again(l, "krb"))
      BY <1>4, <1>9
    <2> QED BY <2>1, <1>1, <1>2, <1>3, LetGo, Agains, Quiet
  <1> QED BY <1>5, <1>6, <1>7, <1>8, <1>9

LEMMA RecordRewindOK ==
  ASSUME ConstantsOK, UidInv, NEW j \in Provisions, NEW o \in Owners, RecordRewind(j, o)
  PROVE  UidInv'
  <1> DEFINE l == loc[<<j, o>>]
  <1>1. j \in Jobs /\ l \in Local /\ WorkerOK(j, l) /\ ContextOK(j, l)
    BY Memory DEF Jobs
  <1>2. /\ UNCHANGED <<given, issued, home, passwd, lock>> /\ RestOK'
        /\ RecordStep(j, o, l, "judge")
    BY DEF UidInv, TypeOK, RestOK, RecordRewind, files, nas, orders, counts
  <1> HIDE DEF l
  <1>3. WorkerOK(j, [l EXCEPT !.pc = "judge"]) /\ "judge" \in PCs /\ "judge" \notin Holding
    BY <1>1, Goes DEF PCs, Holding
  <1> QED BY <1>1, <1>2, <1>3, Records
-----------------------------------------------------------------------------
(* The later steps *)

\* A person without a home shares no uid with anybody.
LEMMA NoHome ==
  ASSUME ConstantsOK, UidInv, NEW n \in Names, home[n] = None
  PROVE  Alone(n)
  <1>1. \A g \in given : g.uid \in Nat /\ g.uid # None
    BY DEF UidInv, TypeOK, Account, Uids, ConstantsOK
  <1> QED BY <1>1 DEF UidInv, StoresOK, Alone

\* The home of a person whose uids are nobody else's is made or removed.
LEMMA HomeMove ==
  ASSUME ConstantsOK, UidInv, NEW j \in Provisions, NEW o \in Owners, NEW m \in Local,
         Become(j, o, m), WorkerOK(j, m), m.pc \notin Holding, Alone(NameOf[j]),
         NEW w \in 0..UidMax \cup {None}, w \in Uids => Acc(j, w) \in given,
         home' = [home EXCEPT ![NameOf[j]] = w],
         UNCHANGED <<given, issued, saved, passwd, lock>>, RestOK'
  PROVE  UidInv'
  <1>1. j \in Jobs /\ NameOf[j] \in Names /\ None \notin Workers
    BY DEF Jobs, ConstantsOK
  <1>2. issued \in Nat /\ issued' \in Nat /\ issued <= issued'
    BY DEF UidInv, TypeOK
  <1>3. WorkerOK(j, m)'
    BY <1>2, GivenStays
  <1>4. loc' \in [Workers -> Local] /\ WorkersOK'
    BY <1>1, <1>2, <1>3, WorkerMoves DEF UidInv
  <1>5. home' \in [Names -> 0..UidMax \cup {None}]
    BY DEF UidInv, TypeOK
  <1>6. StoresOK'
    <2>1. \A n \in Names : home'[n] \in Uids => [name |-> n, uid |-> home'[n]] \in given'
      BY <1>1 DEF UidInv, TypeOK, StoresOK, Acc
    <2>2. \A g, h \in given' : g.uid = h.uid /\ g.name # h.name => home'[g.name] = g.uid
      BY <1>1 DEF UidInv, TypeOK, StoresOK, Alone
    <2>3. \A k \in Jobs : ContextOK(k, saved[k])'
      BY DEF UidInv, StoresOK, ContextOK, Alone, Acc
    <2> QED BY <2>1, <2>2, <2>3 DEF UidInv, StoresOK
  <1> QED BY <1>4, <1>5, <1>6 DEF UidInv, TypeOK, RestOK

LEMMA CreateHomeOK ==
  ASSUME ConstantsOK, UidInv, NEW j \in Provisions, NEW o \in Owners, CreateHome(j, o)
  PROVE  UidInv'
  <1> DEFINE l == loc[<<j, o>>]
             n == NameOf[j]
  <1>1. j \in Jobs /\ l \in Local /\ WorkerOK(j, l) /\ ContextOK(j, l) /\ n \in Names
    BY Memory DEF Jobs, ConstantsOK
  <1>2. /\ UNCHANGED <<issued, saved, passwd, lock>> /\ l.pc = "home" /\ RestOK'
    BY DEF UidInv, TypeOK, RestOK, CreateHome, files, orders, jobctl, counts, At
  <1> HIDE DEF l
  <1>3. Acc(j, l.uid) \in given
    BY <1>1, <1>2 DEF WorkerOK
  <1>4. CASE /\ home[n] = None /\ home' = [home EXCEPT ![n] = l.uid]
             /\ given' = given \cup {[name |-> n, uid |-> l.uid]}
             /\ Become(j, o, [l EXCEPT !.pc = "record", !.made = TRUE,
                                       !.done = @ \cup {"home"}])
    <2> DEFINE m == [l EXCEPT !.pc = "record", !.made = TRUE, !.done = @ \cup {"home"}]
    <2>1. given' = given
      BY <1>3, <1>4 DEF Acc
    <2>2. Alone(n)
      BY <1>1, <1>4, NoHome
    <2>3. m \in Local /\ l.uid \in 0..UidMax \cup {None}
      BY <1>1 DEF Local, PCs, Steps
    <2>4. WorkerOK(j, m) /\ m.pc \notin Holding
      BY <1>1, <2>2 DEF Local, WorkerOK, ContextOK, Holding, Rolling
    <2> HIDE DEF m
    <2>5. Become(j, o, m)
      BY <1>4 DEF m
    <2> QED BY <1>2, <1>3, <1>4, <2>1, <2>2, <2>3, <2>4, <2>5, HomeMove
  <1>5. CASE /\ Become(j, o, [l EXCEPT !.pc = "record", !.done = @ \cup {"home"}])
             /\ UNCHANGED <<home, given>>
    <2> DEFINE m == [l EXCEPT !.pc = "record", !.done = @ \cup {"home"}]
    <2>1. m \in Local
      BY <1>1 DEF Local, PCs, Steps
    <2>2. WorkerOK(j, m) /\ m.pc \notin Holding
      BY <1>1 DEF Local, WorkerOK, ContextOK, Holding, Rolling
    <2> HIDE DEF m
    <2>3. Become(j, o, m)
      BY <1>5 DEF m
    <2> QED BY <1>1, <1>2, <1>5, <2>1, <2>2, <2>3, Quiet
  <1>6. CASE Become(j, o, Undoing(l, "mismatch")) /\ UNCHANGED <<home, given>>
    BY <1>1, <1>2, <1>3, <1>6, Undoes, Quiet
  <1> QED BY <1>4, <1>5, <1>6 DEF CreateHome, l

LEMMA HomeFailsOK ==
  ASSUME ConstantsOK, UidInv, NEW j \in Provisions, NEW o \in Owners, HomeFails(j, o)
  PROVE  UidInv'
  <1> DEFINE l == loc[<<j, o>>]
             n == NameOf[j]
  <1>1. j \in Jobs /\ l \in Local /\ WorkerOK(j, l) /\ ContextOK(j, l) /\ n \in Names
    BY Memory DEF Jobs, ConstantsOK
  <1>2. RestOK' /\ UNCHANGED <<issued, saved, passwd, lock>> /\ l.pc = "home"
    <2>1. crashes' \in 0..MaxCrashes /\ faults' \in 0..MaxFaults
      BY FaultOK DEF HomeFails
    <2> QED BY <2>1 DEF UidInv, TypeOK, RestOK, HomeFails, files, orders, jobctl, At
  <1> HIDE DEF l
  <1>3. Acc(j, l.uid) \in given
    BY <1>1, <1>2 DEF WorkerOK
  <1>4. CASE UNCHANGED <<home, given>> /\ Become(j, o, Undoing(l, "home"))
    BY <1>1, <1>2, <1>3, <1>4, Undoes, Quiet
  <1>5. CASE /\ home[n] = None
             /\ \E owner \in {0, l.uid} : home' = [home EXCEPT ![n] = owner]
             /\ given' = IF home'[n] = 0 THEN given
                         ELSE given \cup {[name |-> n, uid |-> l.uid]}
             /\ Become(j, o, [Undoing(l, "home") EXCEPT !.made = TRUE])
    <2>1. PICK owner \in {0, l.uid} : home' = [home EXCEPT ![n] = owner]
      BY <1>5
    <2>2. given' = given
      BY <1>3, <1>5 DEF Acc
    <2>3. Alone(n)
      BY <1>1, <1>5, NoHome
    <2> DEFINE m == [Undoing(l, "home") EXCEPT !.made = TRUE]
    <2>4. Undoing(l, "home") \in Local /\ WorkerOK(j, Undoing(l, "home"))
      BY <1>1, <1>3, Undoes
    <2>5. Undoing(l, "home").pc = "undo"
      BY <1>1 DEF Undoing, Local
    <2> DEFINE v == Undoing(l, "home")
    <2> HIDE DEF v
    <2>6. [v EXCEPT !.made = TRUE] \in Local
      BY <2>4 DEF Local, v
    <2>7. v \in Local /\ WorkerOK(j, v) /\ v.pc = "undo"
      BY <2>4, <2>5 DEF v
    <2>8. WorkerOK(j, [v EXCEPT !.made = TRUE])
      BY <2>3, <2>7 DEF Local, WorkerOK, ContextOK, Holding, Rolling
    <2>9. [v EXCEPT !.made = TRUE].pc \notin Holding
      BY <2>7 DEF Local, Holding
    <2>10. Become(j, o, [v EXCEPT !.made = TRUE])
      BY <1>5 DEF v
    <2>a. 0 \in 0..UidMax /\ 0 \notin Uids
      BY DEF ConstantsOK, Uids
    <2>b. l.uid \in 0..UidMax
      BY <1>1 DEF Local
    <2>11. 0 \in 0..UidMax /\ l.uid \in 0..UidMax /\ 0 \notin Uids
      BY <2>a, <2>b
    <2>12. owner \in 0..UidMax \cup {None} /\ (owner \in Uids => Acc(j, owner) \in given)
      BY <2>1, <2>11, <1>3
    <2> QED BY <1>2, <2>1, <2>2, <2>3, <2>6, <2>8, <2>9, <2>10, <2>12, HomeMove
  <1> QED BY <1>4, <1>5 DEF HomeFails, l

LEMMA CreatePrincipalOK ==
  ASSUME ConstantsOK, UidInv, NEW j \in Provisions, NEW o \in Owners, CreatePrincipal(j, o)
  PROVE  UidInv'
  <1> DEFINE l == loc[<<j, o>>]
             m == [l EXCEPT !.pc = "record", !.done = @ \cup {"krb"}]
  <1>1. j \in Jobs /\ l \in Local /\ WorkerOK(j, l) /\ ContextOK(j, l)
    BY Memory DEF Jobs
  <1>2. /\ UNCHANGED <<given, issued, home, saved, passwd, lock>> /\ RestOK'
        /\ Become(j, o, m)
    BY DEF UidInv, TypeOK, RestOK, CreatePrincipal, files, nas, orders, jobctl, counts
  <1> HIDE DEF l
  <1>3. m \in Local
    BY <1>1 DEF Local, PCs, Steps
  <1>4. WorkerOK(j, m) /\ m.pc \notin Holding
    BY <1>1 DEF Local, WorkerOK, ContextOK, Holding, Rolling
  <1> HIDE DEF m
  <1> QED BY <1>1, <1>2, <1>3, <1>4, Quiet

\* only the home that the job made is removed, and that one is shared by nobody
LEMMA PrincipalFailsOK ==
  ASSUME ConstantsOK, UidInv, NEW j \in Provisions, NEW o \in Owners, PrincipalFails(j, o)
  PROVE  UidInv'
  <1> DEFINE l == loc[<<j, o>>]
             n == NameOf[j]
  <1>1. j \in Jobs /\ l \in Local /\ WorkerOK(j, l) /\ ContextOK(j, l) /\ n \in Names
    BY Memory DEF Jobs, ConstantsOK
  <1>2. RestOK' /\ UNCHANGED <<given, issued, saved, passwd, lock>>
    <2>1. crashes' \in 0..MaxCrashes /\ faults' \in 0..MaxFaults
      BY FaultOK DEF PrincipalFails
    <2> QED BY <2>1 DEF UidInv, TypeOK, RestOK, PrincipalFails, files, orders, jobctl
  <1> HIDE DEF l
  <1>3. Undoing(l, "krb") \in Local /\ WorkerOK(j, Undoing(l, "krb"))
        /\ Undoing(l, "krb").pc \notin Holding
    BY <1>1, Undoes
  <1>4. CASE Become(j, o, Undoing(l, "krb")) /\ UNCHANGED home
    BY <1>1, <1>2, <1>3, <1>4, Quiet
  <1>5. CASE /\ l.made /\ home' = [home EXCEPT ![n] = None]
             /\ Become(j, o, [Undoing(l, "krb") EXCEPT !.made = FALSE])
    <2>1. Alone(n)
      BY <1>1, <1>5 DEF ContextOK
    <2> DEFINE v == Undoing(l, "krb")
    <2>2. v.pc = "undo"
      BY <1>1 DEF Undoing, Local
    <2> HIDE DEF v
    <2>3. v \in Local /\ WorkerOK(j, v)
      BY <1>3 DEF v
    <2>4. [v EXCEPT !.made = FALSE] \in Local
      BY <2>3 DEF Local
    <2>5. WorkerOK(j, [v EXCEPT !.made = FALSE])
      BY <2>2, <2>3 DEF Local, WorkerOK, ContextOK, Holding, Rolling
    <2>6. [v EXCEPT !.made = FALSE].pc \notin Holding
      BY <2>2, <2>3 DEF Local, Holding
    <2>7. Become(j, o, [v EXCEPT !.made = FALSE])
      BY <1>5 DEF v
    <2>8. None \in 0..UidMax \cup {None} /\ None \notin Uids
      BY DEF ConstantsOK, Uids
    <2> QED BY <1>2, <1>5, <2>1, <2>4, <2>5, <2>6, <2>7, <2>8, HomeMove
  <1> QED BY <1>4, <1>5 DEF PrincipalFails, l
\* how a job goes on that has a verdict
LEMMA EndsQuiet ==
  ASSUME NEW j, NEW l \in Local, NEW v \in Verdicts, ContextOK(j, l)
  PROVE  /\ Ending(l, v) \in Local /\ WorkerOK(j, Ending(l, v))
         /\ Ending(l, v).pc \notin Holding
  BY Ends DEF Holding

LEMMA CreatePodOK ==
  ASSUME ConstantsOK, UidInv, NEW j \in Provisions, NEW o \in Owners, CreatePod(j, o)
  PROVE  UidInv'
  <1> DEFINE l == loc[<<j, o>>]
  <1>1. j \in Jobs /\ l \in Local /\ WorkerOK(j, l) /\ ContextOK(j, l)
    BY Memory DEF Jobs
  <1>2. UNCHANGED <<given, issued, home, saved, passwd, lock>> /\ RestOK'
    BY DEF UidInv, TypeOK, RestOK, CreatePod, files, orders, jobctl, counts
  <1> HIDE DEF l
  <1>3. CASE Become(j, o, Ending(l, "SUCCESS"))
    <2>1. "SUCCESS" \in Verdicts
      BY DEF Verdicts
    <2> QED BY <1>1, <1>2, <1>3, <2>1, EndsQuiet, Quiet
  <1>4. CASE Become(j, o, Failing(l))
    BY <1>1, <1>2, <1>4, Fails, Quiet
  <1> QED BY <1>3, <1>4 DEF CreatePod, l

LEMMA PodFailsOK ==
  ASSUME ConstantsOK, UidInv, NEW j \in Provisions, NEW o \in Owners, PodFails(j, o)
  PROVE  UidInv'
  <1> DEFINE l == loc[<<j, o>>]
  <1>1. j \in Jobs /\ l \in Local /\ WorkerOK(j, l) /\ ContextOK(j, l)
    BY Memory DEF Jobs
  <1>2. UNCHANGED <<given, issued, home, saved, passwd, lock>> /\ RestOK'
    <2>1. crashes' \in 0..MaxCrashes /\ faults' \in 0..MaxFaults
      BY FaultOK DEF PodFails
    <2> QED BY <2>1 DEF UidInv, TypeOK, RestOK, PodFails, files, nas, orders, jobctl
  <1> HIDE DEF l
  <1>3. CASE Become(j, o, Ending(l, "DEGRADED"))
    <2>1. "DEGRADED" \in Verdicts
      BY DEF Verdicts
    <2> QED BY <1>1, <1>2, <1>3, <2>1, EndsQuiet, Quiet
  <1>4. CASE Become(j, o, Failing(l))
    BY <1>1, <1>2, <1>4, Fails, Quiet
  <1> QED BY <1>3, <1>4 DEF PodFails, l

LEMMA RecordOK ==
  ASSUME ConstantsOK, UidInv, NEW j \in Jobs, NEW o \in Owners, Record(j, o)
  PROVE  UidInv'
  <1> DEFINE l == loc[<<j, o>>]
             m == [l EXCEPT !.tries = 1]
             pc == FirstStep(l.done)
  <1>1. l \in Local /\ WorkerOK(j, l) /\ ContextOK(j, l)
    BY Memory
  <1>2. /\ UNCHANGED <<given, issued, home, passwd, lock>> /\ RestOK'
        /\ RecordStep(j, o, m, pc)
    BY DEF UidInv, TypeOK, RestOK, Record, files, nas, orders, counts
  <1> HIDE DEF l
  <1>3. pc \in {"delete", "pod", "krb", "home", "judge"}
        /\ (pc = "home" => "account" \in l.done)
    BY DEF FirstStep
  <1>4. 1 \in 1..MaxAttempts
    BY DEF ConstantsOK
  <1>5. m \in Local /\ ContextOK(j, m) /\ m.done = l.done /\ m.uid = l.uid
    BY <1>1, <1>4 DEF Local, ContextOK
  <1> HIDE DEF m, pc
  <1>6. pc \in PCs /\ pc \notin Holding
    BY <1>3 DEF PCs, Holding
  <1>7. WorkerOK(j, [m EXCEPT !.pc = pc])
    <2>1. [m EXCEPT !.pc = pc].pc = pc /\ ContextOK(j, [m EXCEPT !.pc = pc])
          /\ [m EXCEPT !.pc = pc].uid = l.uid
      BY <1>5 DEF Local, ContextOK
    <2>2. pc = "home" => Acc(j, l.uid) \in given
      BY <1>1, <1>3 DEF ContextOK
    <2> QED BY <2>1, <2>2, <1>3 DEF WorkerOK, Holding, Rolling
  <1> QED BY <1>2, <1>5, <1>6, <1>7, Records

LEMMA RecordFailsOK ==
  ASSUME ConstantsOK, UidInv, NEW j \in Jobs, NEW o \in Owners, RecordFails(j, o)
  PROVE  UidInv'
  <1> DEFINE l == loc[<<j, o>>]
  <1>1. l \in Local /\ WorkerOK(j, l) /\ ContextOK(j, l)
    BY Memory
  <1>2. /\ UNCHANGED <<given, issued, home, saved, passwd, lock>> /\ RestOK'
        /\ Become(j, o, Failing(l))
    <2>1. crashes' \in 0..MaxCrashes /\ faults' \in 0..MaxFaults
      BY FaultOK DEF RecordFails
    <2> QED BY <2>1 DEF UidInv, TypeOK, RestOK, RecordFails, files, nas, orders, jobctl
  <1> HIDE DEF l
  <1> QED BY <1>1, <1>2, Fails, Quiet

-----------------------------------------------------------------------------
(* The deletion *)

LEMMA CheckRevocableOK ==
  ASSUME ConstantsOK, UidInv, NEW j \in Jobs, NEW o \in Owners, CheckRevocable(j, o)
  PROVE  UidInv'
  <1> DEFINE l == loc[<<j, o>>]
  <1>1. l \in Local /\ WorkerOK(j, l) /\ ContextOK(j, l)
    BY Memory
  <1>2. UNCHANGED <<given, issued, home, saved, passwd, lock>> /\ RestOK'
    BY DEF UidInv, TypeOK, RestOK, CheckRevocable, files, nas, orders, jobctl, counts
  <1> HIDE DEF l
  <1>3. CASE Become(j, o, [l EXCEPT !.pc = "record", !.done = {"check"}])
    <2> DEFINE m == [l EXCEPT !.pc = "record", !.done = {"check"}]
    <2>1. m \in Local
      BY <1>1 DEF Local, PCs, Steps
    <2>2. WorkerOK(j, m) /\ m.pc \notin Holding
      BY <1>1 DEF Local, WorkerOK, ContextOK, Holding, Rolling
    <2> HIDE DEF m
    <2>3. Become(j, o, m)
      BY <1>3 DEF m
    <2> QED BY <1>1, <1>2, <2>1, <2>2, <2>3, Quiet
  <1>4. CASE Become(j, o, [l EXCEPT !.pc = "delete"])
    <2> DEFINE m == [l EXCEPT !.pc = "delete"]
    <2>1. m \in Local /\ WorkerOK(j, m) /\ m.pc \notin Holding
      BY <1>1, Goes
    <2> HIDE DEF m
    <2>2. Become(j, o, m)
      BY <1>4 DEF m
    <2> QED BY <1>1, <1>2, <2>1, <2>2, Quiet
  <1>5. CASE Become(j, o, Ending(l, IF j \in Revokes THEN "IN_USE" ELSE "HELD"))
    <2>1. (IF j \in Revokes THEN "IN_USE" ELSE "HELD") \in Verdicts
      BY DEF Verdicts
    <2> QED BY <1>1, <1>2, <1>5, <2>1, EndsQuiet, Quiet
  <1> QED BY <1>3, <1>4, <1>5 DEF CheckRevocable, l

LEMMA DeletePasswdOK ==
  ASSUME ConstantsOK, UidInv, NEW j \in Jobs, NEW o \in Owners, DeletePasswd(j, o)
  PROVE  UidInv'
  <1> DEFINE l == loc[<<j, o>>]
  <1>1. l \in Local /\ WorkerOK(j, l) /\ ContextOK(j, l)
    BY Memory
  <1>2. /\ UNCHANGED <<given, issued, home, saved>> /\ RestOK' /\ lock = None
        /\ passwd' \subseteq passwd
    BY DEF UidInv, TypeOK, RestOK, DeletePasswd, nas, orders, jobctl, counts, Free,
           Without
  <1> HIDE DEF l
  <1>3. CASE /\ lock' = <<j, o>>
             /\ \E e \in LinesOf(NameOf[j]) :
                   Become(j, o, [l EXCEPT !.pc = "del_shadow", !.gid = e.uid])
    <2>1. PICK e \in LinesOf(NameOf[j]) :
            Become(j, o, [l EXCEPT !.pc = "del_shadow", !.gid = e.uid])
      BY <1>3
    <2>2. e.uid \in Uids /\ Uids \subseteq 0..UidMax
      BY DEF LinesOf, UidInv, TypeOK, Line, Uids, ConstantsOK
    <2> DEFINE m == [l EXCEPT !.pc = "del_shadow", !.gid = e.uid]
    <2>3. m \in Local
      BY <1>1, <2>2 DEF Local, PCs
    <2>4. WorkerOK(j, m) /\ m.pc \notin Holding
      BY <1>1 DEF Local, WorkerOK, ContextOK, Holding, Rolling
    <2> HIDE DEF m
    <2>5. Become(j, o, m)
      BY <2>1 DEF m
    <2> QED BY <1>2, <1>3, <2>3, <2>4, <2>5, Quiet
  <1>4. CASE lock' = <<j, o>> /\ Goto(j, o, "left_shadow")
    <2> DEFINE m == [l EXCEPT !.pc = "left_shadow"]
    <2>1. m \in Local /\ WorkerOK(j, m) /\ m.pc \notin Holding
      BY <1>1, Goes
    <2> HIDE DEF m
    <2>2. Become(j, o, m)
      BY <1>4 DEF Goto, m, l
    <2> QED BY <1>2, <1>4, <2>1, <2>2, Quiet
  <1>5. ASSUME NEW v \in Verdicts, Become(j, o, Ending(l, v)), UNCHANGED <<lock, passwd>>
        PROVE  UidInv'
    BY <1>1, <1>2, <1>5, EndsQuiet, Quiet
  <1>6. "UNVERIFIED" \in Verdicts /\ "FAIL" \in Verdicts
    BY DEF Verdicts
  <1> QED BY <1>3, <1>4, <1>5, <1>6 DEF DeletePasswd, l

LEMMA DeleteShadowOK ==
  ASSUME ConstantsOK, UidInv, NEW j \in Jobs, NEW o \in Owners, DeleteShadow(j, o)
  PROVE  UidInv'
  <1> DEFINE l  == loc[<<j, o>>]
             pc == IF At(j, o, "del_shadow") THEN "del_group" ELSE "left_group"
             m  == [l EXCEPT !.pc = pc]
  <1>1. l \in Local /\ WorkerOK(j, l) /\ ContextOK(j, l)
    BY Memory
  <1>2. UNCHANGED <<given, issued, home, saved, passwd, lock>> /\ Become(j, o, m)
    BY DEF DeleteShadow, nas, jobctl, Goto
  <1>3. RestOK'
    <2>1. << >> \in Seq(Provisions)
      OBVIOUS
    <2>2. shadow' \in [Names -> Seq(Provisions)]
      BY <2>1 DEF UidInv, TypeOK, DeleteShadow
    <2> QED BY <2>2 DEF UidInv, TypeOK, RestOK, DeleteShadow, nas, orders, jobctl, counts
  <1> HIDE DEF l
  <1>4. pc \in {"del_group", "left_group"}
    OBVIOUS
  <1> HIDE DEF pc
  <1>5. m \in Local /\ WorkerOK(j, m) /\ m.pc \notin Holding
    BY <1>1, <1>4, Goes
  <1> HIDE DEF m
  <1> QED BY <1>2, <1>3, <1>5, Quiet

LEMMA DeleteGroupOK ==
  ASSUME ConstantsOK, UidInv, NEW j \in Jobs, NEW o \in Owners, DeleteGroup(j, o)
  PROVE  UidInv'
  <1> DEFINE l == loc[<<j, o>>]
             m == [l EXCEPT !.pc = "del_log"]
  <1>1. l \in Local /\ WorkerOK(j, l) /\ ContextOK(j, l)
    BY Memory
  <1>2. UNCHANGED <<given, issued, home, saved, passwd, lock>> /\ Become(j, o, m)
    BY DEF DeleteGroup, nas, jobctl, Goto
  <1>3. RestOK'
    <2>1. \A g \in group' : g.gid \in Nat /\ g.members \subseteq Names
      BY GroupsOK DEF DeleteGroup
    <2> QED BY <2>1 DEF UidInv, TypeOK, RestOK, DeleteGroup, nas, orders, jobctl, counts
  <1> HIDE DEF l
  <1>4. m \in Local /\ WorkerOK(j, m) /\ m.pc \notin Holding
    BY <1>1, Goes
  <1> HIDE DEF m
  <1> QED BY <1>2, <1>3, <1>4, Quiet

LEMMA LogDeletedOK ==
  ASSUME ConstantsOK, UidInv, NEW j \in Jobs, NEW o \in Owners, LogDeleted(j, o)
  PROVE  UidInv'
  <1> DEFINE l == loc[<<j, o>>]
             v == IF j \in Revokes THEN "SUCCESS" ELSE "FAIL"
  <1>1. l \in Local /\ WorkerOK(j, l) /\ ContextOK(j, l)
    BY Memory
  <1>2. /\ UNCHANGED <<given, issued, home, saved, passwd>>
        /\ lock = <<j, o>> /\ lock' = None /\ Become(j, o, Ending(l, v))
    BY DEF LogDeleted, files, nas, jobctl, Release, Mine
  <1>3. RestOK'
    <2>1. crashes' \in 0..MaxCrashes /\ faults' \in 0..MaxFaults
      BY FaultOK DEF LogDeleted, UidInv, TypeOK, counts
    <2> QED BY <2>1 DEF UidInv, TypeOK, RestOK, LogDeleted, files, nas, orders, jobctl
  <1> HIDE DEF l
  <1>4. v \in Verdicts
    BY DEF Verdicts
  <1> HIDE DEF v
  <1> QED BY <1>1, <1>2, <1>3, <1>4, EndsQuiet, Quiet

LEMMA RemoveLeftoversOK ==
  ASSUME ConstantsOK, UidInv, NEW j \in Jobs, NEW o \in Owners, RemoveLeftovers(j, o)
  PROVE  UidInv'
  <1> DEFINE l == loc[<<j, o>>]
  <1>1. l \in Local /\ WorkerOK(j, l) /\ ContextOK(j, l)
    BY Memory
  <1>2. /\ UNCHANGED <<given, issued, home, saved, passwd>>
        /\ lock = <<j, o>> /\ lock' = None /\ Become(j, o, Ending(l, "SUCCESS"))
    BY DEF RemoveLeftovers, nas, jobctl, Release, Mine
  <1>3. RestOK'
    <2>1. \A g \in group' : g.gid \in Nat /\ g.members \subseteq Names
      BY GroupsOK DEF RemoveLeftovers
    <2> QED BY <2>1 DEF UidInv, TypeOK, RestOK, RemoveLeftovers, nas, orders, jobctl, counts
  <1> HIDE DEF l
  <1>4. "SUCCESS" \in Verdicts
    BY DEF Verdicts
  <1> QED BY <1>1, <1>2, <1>3, <1>4, EndsQuiet, Quiet

LEMMA AfterDelete ==
  ASSUME ConstantsOK, NEW j, NEW l \in Local, ContextOK(j, l)
  PROVE  /\ AfterDeleteFailed(j, l) \in Local /\ WorkerOK(j, AfterDeleteFailed(j, l))
         /\ AfterDeleteFailed(j, l).pc \notin Holding
  <1>1. CASE j \in Revokes
    BY <1>1, Agains DEF AfterDeleteFailed
  <1>2. CASE j \notin Revokes
    <2>1. "HELD" \in Verdicts
      BY DEF Verdicts
    <2> QED BY <1>2, <2>1, EndsQuiet DEF AfterDeleteFailed
  <1> QED BY <1>1, <1>2

LEMMA DeleteFailsOK ==
  ASSUME ConstantsOK, UidInv, NEW j \in Jobs, NEW o \in Owners, DeleteFails(j, o)
  PROVE  UidInv'
  <1> DEFINE l == loc[<<j, o>>]
  <1>1. l \in Local /\ WorkerOK(j, l) /\ ContextOK(j, l)
    BY Memory
  <1>2. /\ UNCHANGED <<given, issued, home, saved, passwd>>
        /\ lock' = (IF Mine(j, o) THEN None ELSE lock)
        /\ Become(j, o, AfterDeleteFailed(j, l))
    BY DEF DeleteFails, files, nas, jobctl
  <1>3. RestOK'
    <2>1. crashes' \in 0..MaxCrashes /\ faults' \in 0..MaxFaults
      BY FaultOK DEF DeleteFails
    <2> QED BY <2>1 DEF UidInv, TypeOK, RestOK, DeleteFails, files, nas, orders, jobctl
  <1> HIDE DEF l
  <1> QED BY <1>1, <1>2, <1>3, LetGo, AfterDelete, Quiet

LEMMA DeleteGivesUpOK ==
  ASSUME ConstantsOK, UidInv, NEW j \in Jobs, NEW o \in Owners, DeleteGivesUp(j, o)
  PROVE  UidInv'
  <1> DEFINE l == loc[<<j, o>>]
  <1>1. l \in Local /\ WorkerOK(j, l) /\ ContextOK(j, l)
    BY Memory
  <1>2. /\ UNCHANGED <<given, issued, home, saved, passwd>>
        /\ lock' = (IF Mine(j, o) THEN None ELSE lock)
        /\ Become(j, o, AfterDeleteFailed(j, l))
    BY DEF DeleteGivesUp, files, nas, jobctl
  <1>3. RestOK'
    <2>1. crashes' \in 0..MaxCrashes /\ faults' \in 0..MaxFaults
      BY FaultOK DEF DeleteGivesUp
    <2> QED BY <2>1 DEF UidInv, TypeOK, RestOK, DeleteGivesUp, files, nas, orders, jobctl
  <1> HIDE DEF l
  <1> QED BY <1>1, <1>2, <1>3, LetGo, AfterDelete, Quiet
-----------------------------------------------------------------------------
(* The end, and the whole *)

LEMMA EndOK ==
  ASSUME ConstantsOK, UidInv, NEW j \in Jobs, NEW o \in Owners, End(j, o)
  PROVE  UidInv'
  <1> DEFINE l == loc[<<j, o>>]
             n == NameOf[j]
             pick == CHOOSE u \in Uids : \E e \in LinesOf(n) : e.uid = u
             u0 == IF l.uid # 0 THEN l.uid ELSE pick
  <1>1. l \in Local /\ WorkerOK(j, l) /\ ContextOK(j, l) /\ n \in Names
    BY Memory DEF ConstantsOK
  <1>2. /\ UNCHANGED <<given, issued, home, saved, passwd, lock>>
        /\ Become(j, o, Off) /\ l.pc = "end"
    BY DEF End, files, nas, At
  <1>3. l.out \in Verdicts /\ l.uid \in 0..UidMax
    <2> HIDE DEF l
    <2> QED BY <1>1, <1>2 DEF Local, WorkerOK
  <1>4. job' \in [Jobs -> {"new", "setpw"} \cup Queued \cup Verdicts]
    BY <1>3 DEF End, UidInv, TypeOK
  <1>5. known' \in [Names -> 0..UidMax]
    <2>1. CASE LinesOf(n) # {} /\ known' = [known EXCEPT ![n] = u0]
      <3>1. \E u \in Uids : \E e \in LinesOf(n) : e.uid = u
        BY <2>1 DEF LinesOf, UidInv, TypeOK, Line
      <3>2. pick \in Uids
        BY <3>1
      <3>3. Uids \subseteq 0..UidMax
        BY DEF Uids, ConstantsOK
      <3> HIDE DEF l, pick
      <3>4. u0 \in 0..UidMax
        BY <1>3, <3>2, <3>3
      <3> HIDE DEF u0
      <3> QED BY <2>1, <3>4 DEF UidInv, TypeOK
    <2>2. CASE known' = known
      BY <2>2 DEF UidInv, TypeOK
    <2> QED BY <2>1, <2>2 DEF End
  <1>6. lease' \in [Jobs -> Owners \cup {None}]
    BY DEF End, UidInv, TypeOK
  <1>7. RestOK'
    BY <1>4, <1>5, <1>6 DEF UidInv, TypeOK, RestOK, End, files, nas, counts
  <1>8. Off \in Local
    <2>1. 1 \in 1..MaxAttempts /\ 0 \in 0..MaxRewinds /\ 0 \in 0..UidMax
      BY DEF ConstantsOK
    <2> QED BY <2>1 DEF Off, Local, PCs
  <1> QED BY <1>2, <1>7, <1>8, OffOK, Quiet

LEMMA WorkOK ==
  ASSUME ConstantsOK, UidInv, NEW j \in Jobs, NEW o \in Owners, Work(j, o)
  PROVE  UidInv'
  <1>1. CASE j \in Provisions /\ CreateStep(j, o)
    BY <1>1, JudgeOK, LookupOK, IssueOK, MarkOK, WritePasswdOK, WriteGroupOK,
       WriteShadowOK, WriteSudoersOK, LogCreatedOK, FailsEarlyOK, FailsLateOK,
       JudgeFailsOK DEF CreateStep
  <1>2. CASE j \in Provisions /\ UndoStep(j, o)
    BY <1>2, UndoPasswdOK, UndoShadowOK, UndoGroupOK, UndoFailsOK, RecordRewindOK
       DEF UndoStep
  <1>3. CASE j \in Provisions /\ LaterStep(j, o)
    BY <1>3, CreateHomeOK, HomeFailsOK, CreatePrincipalOK, PrincipalFailsOK,
       CreatePodOK, PodFailsOK DEF LaterStep
  <1>4. CASE DeleteStep(j, o)
    BY <1>4, CheckRevocableOK, DeletePasswdOK, DeleteShadowOK, DeleteGroupOK,
       LogDeletedOK, RemoveLeftoversOK, DeleteFailsOK, DeleteGivesUpOK DEF DeleteStep
  <1>5. CASE Record(j, o) \/ RecordFails(j, o) \/ End(j, o)
    BY <1>5, RecordOK, RecordFailsOK, EndOK
  <1> QED BY <1>1, <1>2, <1>3, <1>4, <1>5 DEF Work

LEMMA StepOK == ASSUME ConstantsOK, UidInv, [Next]_vars PROVE UidInv'
  <1>1. CASE UNCHANGED vars
    <2>1. TypeOK'
      BY <1>1 DEF UidInv, TypeOK, vars, files, nas, orders, jobctl, counts
    <2>2. WorkersOK' /\ StoresOK'
      BY <1>1, NoMove DEF vars, files, nas, jobctl
    <2> QED BY <2>1, <2>2 DEF UidInv
  <1>2. ASSUME NEW j \in Revokes, RegisterRevoke(j) PROVE UidInv'
    BY <1>2, RegisterRevokeOK
  <1>3. ASSUME NEW j \in Provisions,
               RegisterProvision(j) \/ AdoptAccount(j) \/ RemovePod(j)
        PROVE  UidInv'
    BY <1>3, RegisterProvisionOK, AdoptAccountOK, RemovePodOK
  <1>4. ASSUME NEW j \in Jobs, NEW o \in Owners, Take(j, o) \/ Work(j, o)
        PROVE  UidInv'
    BY <1>4, TakeOK, WorkOK
  <1>5. ASSUME NEW o \in Owners, Crash(o) PROVE UidInv'
    BY <1>5, CrashOK
  <1> QED BY <1>1, <1>2, <1>3, <1>4, <1>5 DEF Next, Idle

LEMMA Invariance == Spec => []UidInv
  <1>1. Init => UidInv
    BY InitOK, ConstantsOK
  <1>2. UidInv /\ [Next]_vars => UidInv'
    BY StepOK, ConstantsOK
  <1> QED BY <1>1, <1>2, PTL DEF Spec

\* Every variable keeps its type, whatever crashes and fails.
THEOREM TypeCorrect == Spec => []TypeOK
  <1>1. UidInv => TypeOK
    BY DEF UidInv
  <1> QED BY <1>1, Invariance, PTL

\* The only new lines of passwd are those of WritePasswd.
LEMMA NewLines ==
  ASSUME [Next]_vars
  PROVE  \/ passwd' \subseteq passwd
         \/ \E j \in Provisions, o \in Owners : WritePasswd(j, o)
  <1>1. ASSUME NEW j, NEW o, CreateStep(j, o), ~WritePasswd(j, o)
        PROVE  passwd' \subseteq passwd
    BY <1>1 DEF CreateStep, Judge, Lookup, Issue, Mark, WriteGroup, WriteShadow,
       WriteSudoers, LogCreated, FailsEarly, FailsLate, JudgeFails, Without, files
  <1>2. ASSUME NEW j, NEW o, UndoStep(j, o) \/ LaterStep(j, o)
        PROVE  passwd' \subseteq passwd
    BY <1>2 DEF UndoStep, UndoPasswd, UndoShadow, UndoGroup, UndoFails, RecordRewind,
       LaterStep, CreateHome, HomeFails, CreatePrincipal, PrincipalFails, CreatePod,
       PodFails, Without, files
  <1>3. ASSUME NEW j, NEW o,
               DeleteStep(j, o) \/ Record(j, o) \/ RecordFails(j, o) \/ End(j, o)
        PROVE  passwd' \subseteq passwd
    BY <1>3 DEF DeleteStep, CheckRevocable, DeletePasswd, DeleteShadow, DeleteGroup,
       LogDeleted, RemoveLeftovers, DeleteFails, DeleteGivesUp, Record, RecordFails,
       End, Without, files
  <1>4. ASSUME NEW j, RegisterRevoke(j) \/ RegisterProvision(j) \/ AdoptAccount(j)
                      \/ RemovePod(j)
        PROVE  passwd' \subseteq passwd
    BY <1>4 DEF RegisterRevoke, RegisterProvision, AdoptAccount, RemovePod, files
  <1>5. ASSUME NEW j, NEW o, Take(j, o) PROVE passwd' \subseteq passwd
    BY <1>5 DEF Take, files
  <1>6. ASSUME NEW o, Crash(o) PROVE passwd' \subseteq passwd
    BY <1>6 DEF Crash, files
  <1>7. CASE UNCHANGED vars
    BY <1>7 DEF vars, files
  <1> QED BY <1>1, <1>2, <1>3, <1>4, <1>5, <1>6, <1>7 DEF Next, Work, Idle

\* No uid is ever given to a second person: not after the account was deleted,
\* its rollback was cut off, or a controller died between the issued-id record
\* and the line in passwd.
THEOREM NoUidTwice == Spec => NeverReissued
  <1> DEFINE New == \A e \in passwd' \ passwd :
                      \A g \in given : g.uid = e.uid => g.name = e.name
  <1>1. ASSUME UidInv, [Next]_vars PROVE New
    <2>1. ASSUME NEW j \in Provisions, NEW o \in Owners, WritePasswd(j, o)
          PROVE  New
      <3>1. loc[<<j, o>>] \in Local /\ WorkerOK(j, loc[<<j, o>>])
        BY <1>1, Memory DEF Jobs
      <3>2. loc[<<j, o>>].pc = "passwd"
        BY <2>1 DEF WritePasswd, At
      <3>3. Sole(j, loc[<<j, o>>].mk)
        BY <3>1, <3>2 DEF WorkerOK, Holding
      <3>4. passwd' = passwd \cup {[name |-> NameOf[j], uid |-> loc[<<j, o>>].mk, by |-> j]}
        BY <2>1 DEF WritePasswd
      <3> QED BY <3>3, <3>4 DEF Sole
    <2> QED BY <1>1, <2>1, NewLines
  <1>2. UidInv /\ [Next]_vars => [New]_vars
    BY <1>1
  <1> QED BY <1>2, Invariance, PTL DEF Spec, NeverReissued

-----------------------------------------------------------------------------
(* Team groups outlive everything: the lines of the group file are lines,    *)
(* and nothing that is removed is a team's                                   *)

GroupLine == [name : Teams \cup {PgName[j] : j \in Provisions}, gid : Nat,
              members : SUBSET Names]
TeamInv   == group \subseteq GroupLine /\ TeamsStay

IsTeam(g) == \E t \in Teams : g.name = t /\ g.gid = TeamGid[t]

\* one person leaves all groups, and some that are no team's go
LEMMA TeamsSurvive ==
  ASSUME TeamInv, NEW n, NEW own, \A g \in own : ~IsTeam(g),
         group' = GroupsWithout(n, own)
  PROVE  TeamInv'
  <1>1. ASSUME NEW g \in group
        PROVE  /\ [g EXCEPT !.members = @ \ {n}] \in GroupLine
               /\ [g EXCEPT !.members = @ \ {n}].name = g.name
               /\ [g EXCEPT !.members = @ \ {n}].gid = g.gid
    <2>1. g \in GroupLine
      BY DEF TeamInv
    <2> QED BY <2>1 DEF GroupLine
  <1>2. group' \subseteq GroupLine
    BY <1>1 DEF GroupsWithout
  <1>3. ASSUME NEW t \in Teams
        PROVE  \E g \in group' : g.name = t /\ g.gid = TeamGid[t]
    <2>1. PICK g \in group : g.name = t /\ g.gid = TeamGid[t]
      BY DEF TeamInv, TeamsStay
    <2>2. g \notin own
      BY <2>1 DEF IsTeam
    <2>3. [g EXCEPT !.members = @ \ {n}] \in group'
      BY <2>2 DEF GroupsWithout
    <2> QED BY <1>1, <2>1, <2>3
  <1> QED BY <1>2, <1>3 DEF TeamInv, TeamsStay

\* a new member and a personal group are added, and teams that were lost
LEMMA TeamsJoined ==
  ASSUME ConstantsOK, TeamInv, NEW j \in Provisions, NEW u \in Nat,
         group' = GroupsWith(j, u)
  PROVE  TeamInv'
  <1> DEFINE gids    == {TeamGid[t] : t \in Supp[j]}
             primary == [name |-> PgName[j], gid |-> u, members |-> {}]
             own     == IF \E g \in group : g.gid = u THEN {} ELSE {primary}
             With(g) == IF g.gid \in gids
                          THEN [g EXCEPT !.members = @ \cup {NameOf[j]}] ELSE g
             lost    == {t \in Supp[j] : ~\E g \in group : g.gid = TeamGid[t]}
             Lost(t) == [name |-> t, gid |-> TeamGid[t], members |-> {NameOf[j]}]
  <1>1. NameOf[j] \in Names /\ Supp[j] \subseteq Teams /\ lost \subseteq Teams
        /\ \A t \in Teams : TeamGid[t] \in Nat
    BY DEF ConstantsOK, Jobs
  <1>2. group \cup own \subseteq GroupLine
    BY DEF TeamInv, GroupLine
  <1>3. ASSUME NEW g \in GroupLine
        PROVE  With(g) \in GroupLine /\ With(g).name = g.name /\ With(g).gid = g.gid
    <2>1. /\ [g EXCEPT !.members = @ \cup {NameOf[j]}] \in GroupLine
          /\ [g EXCEPT !.members = @ \cup {NameOf[j]}].name = g.name
          /\ [g EXCEPT !.members = @ \cup {NameOf[j]}].gid = g.gid
      BY <1>1 DEF GroupLine
    <2> QED BY <2>1
  <1>4. \A t \in lost : Lost(t) \in GroupLine
    BY <1>1 DEF GroupLine
  <1>5. group' = {With(g) : g \in group \cup own} \cup {Lost(t) : t \in lost}
    BY Zenon DEF GroupsWith
  <1> HIDE DEF With, Lost, lost, own
  <1>6. group' \subseteq GroupLine
    BY <1>2, <1>3, <1>4, <1>5
  <1>7. ASSUME NEW t \in Teams
        PROVE  \E g \in group' : g.name = t /\ g.gid = TeamGid[t]
    <2>1. PICK g \in group : g.name = t /\ g.gid = TeamGid[t]
      BY DEF TeamInv, TeamsStay
    <2>2. With(g) \in group'
      BY <1>5
    <2>3. With(g).name = t /\ With(g).gid = TeamGid[t]
      BY <1>2, <1>3, <2>1
    <2> QED BY <2>2, <2>3
  <1> QED BY <1>6, <1>7 DEF TeamInv, TeamsStay

\* these are all the actions that write the group file
LEMMA GroupWrites ==
  ASSUME [Next]_vars
  PROVE  \/ group' = group
         \/ \E j \in Provisions, o \in Owners : WriteGroup(j, o) \/ UndoGroup(j, o)
         \/ \E j \in Jobs, o \in Owners : DeleteGroup(j, o) \/ RemoveLeftovers(j, o)
  <1>1. ASSUME NEW j, NEW o, CreateStep(j, o), ~WriteGroup(j, o)
        PROVE  group' = group
    BY <1>1 DEF CreateStep, Judge, Lookup, Issue, Mark, WritePasswd, WriteShadow,
       WriteSudoers, LogCreated, FailsEarly, FailsLate, JudgeFails, files
  <1>2. ASSUME NEW j, NEW o, UndoStep(j, o) \/ LaterStep(j, o), ~UndoGroup(j, o)
        PROVE  group' = group
    BY <1>2 DEF UndoStep, UndoPasswd, UndoShadow, UndoFails, RecordRewind,
       LaterStep, CreateHome, HomeFails, CreatePrincipal, PrincipalFails, CreatePod,
       PodFails, files
  <1>3. ASSUME NEW j, NEW o,
               DeleteStep(j, o) \/ Record(j, o) \/ RecordFails(j, o) \/ End(j, o),
               ~DeleteGroup(j, o), ~RemoveLeftovers(j, o)
        PROVE  group' = group
    BY <1>3 DEF DeleteStep, CheckRevocable, DeletePasswd, DeleteShadow, LogDeleted,
       DeleteFails, DeleteGivesUp, Record, RecordFails, End, files
  <1>4. ASSUME NEW j, RegisterRevoke(j) \/ RegisterProvision(j) \/ AdoptAccount(j)
                      \/ RemovePod(j)
        PROVE  group' = group
    BY <1>4 DEF RegisterRevoke, RegisterProvision, AdoptAccount, RemovePod, files
  <1>5. ASSUME NEW j, NEW o, Take(j, o) PROVE group' = group
    BY <1>5 DEF Take, files
  <1>6. ASSUME NEW o, Crash(o) PROVE group' = group
    BY <1>6 DEF Crash, files
  <1>7. CASE UNCHANGED vars
    BY <1>7 DEF vars, files
  <1> QED BY <1>1, <1>2, <1>3, <1>4, <1>5, <1>6, <1>7 DEF Next, Work, Idle

LEMMA TeamStep ==
  ASSUME ConstantsOK, UidInv, TeamInv, [Next]_vars PROVE TeamInv'
  <1>0. \A t \in Teams : t \notin Names /\ TeamGid[t] > UidMax /\ TeamGid[t] \in Nat
    BY DEF ConstantsOK
  <1>1. ASSUME NEW j \in Jobs, NEW o \in Owners
        PROVE  /\ NameOf[j] \in Names
               /\ loc[<<j, o>>].gid \in 0..UidMax /\ loc[<<j, o>>].mk \in 0..UidMax
    <2>1. loc[<<j, o>>] \in Local
      BY Memory
    <2> QED BY <2>1 DEF ConstantsOK, Local
  <1>2. UidMax \in Nat
    BY DEF ConstantsOK
  <1>3. CASE group' = group
    BY <1>3 DEF TeamInv, TeamsStay
  <1>4. ASSUME NEW j \in Provisions, NEW o \in Owners, WriteGroup(j, o)
        PROVE  TeamInv'
    <2>1. j \in Jobs
      BY DEF Jobs
    <2>2. loc[<<j, o>>].mk \in Nat
      BY <1>1, <1>2, <2>1
    <2>3. group' = group \/ group' = GroupsWith(j, loc[<<j, o>>].mk)
      BY <1>4 DEF WriteGroup
    <2> QED BY <1>3, <2>2, <2>3, TeamsJoined
  <1>5. ASSUME NEW j \in Provisions, NEW o \in Owners, UndoGroup(j, o)
        PROVE  TeamInv'
    <2> DEFINE own == {g \in group : g.name = NameOf[j] \/ g.gid = loc[<<j, o>>].gid}
    <2>1. j \in Jobs
      BY DEF Jobs
    <2>2. \A g \in own : ~IsTeam(g)
      BY <1>0, <1>1, <1>2, <2>1 DEF IsTeam
    <2>3. group' = GroupsWithout(NameOf[j], own)
      BY <1>5 DEF UndoGroup
    <2> QED BY <2>2, <2>3, TeamsSurvive
  <1>6. ASSUME NEW j \in Jobs, NEW o \in Owners, DeleteGroup(j, o)
        PROVE  TeamInv'
    <2> DEFINE own == {g \in group : g.gid = loc[<<j, o>>].gid}
    <2>2. \A g \in own : ~IsTeam(g)
      BY <1>0, <1>1, <1>2 DEF IsTeam
    <2>3. group' = GroupsWithout(NameOf[j], own)
      BY <1>6 DEF DeleteGroup
    <2> QED BY <2>2, <2>3, TeamsSurvive
  <1>7. ASSUME NEW j \in Jobs, NEW o \in Owners, RemoveLeftovers(j, o)
        PROVE  TeamInv'
    <2> DEFINE own == {g \in group : g.name = NameOf[j]}
    <2>2. \A g \in own : ~IsTeam(g)
      BY <1>0, <1>1 DEF IsTeam
    <2>3. group' = GroupsWithout(NameOf[j], own)
      BY <1>7 DEF RemoveLeftovers
    <2> QED BY <2>2, <2>3, TeamsSurvive
  <1> QED BY <1>3, <1>4, <1>5, <1>6, <1>7, GroupWrites

LEMMA TeamInit == Init => TeamInv
  <1> SUFFICES ASSUME Init PROVE TeamInv
    OBVIOUS
  <1> DEFINE Line0(t) == [name |-> t, gid |-> TeamGid[t], members |-> {}]
  <1>1. group = {Line0(t) : t \in Teams}
    BY DEF Init
  <1>2. \A t \in Teams : TeamGid[t] \in Nat
    BY ConstantsOK DEF ConstantsOK
  <1>3. \A t \in Teams : /\ Line0(t) \in GroupLine
                         /\ Line0(t).name = t /\ Line0(t).gid = TeamGid[t]
    BY <1>2 DEF GroupLine
  <1> HIDE DEF Line0
  <1> QED BY <1>1, <1>3 DEF TeamInv, TeamsStay

\* Team groups outlive their last member, through every rollback, deletion and
\* removal of leftovers: their gids are no person's and their names nobody's.
THEOREM TeamsOutlive == Spec => []TeamsStay
  <1>1. UidInv /\ TeamInv /\ [Next]_vars => TeamInv'
    BY TeamStep, ConstantsOK
  <1>2. TeamInv => TeamsStay
    BY DEF TeamInv
  <1> QED BY TeamInit, <1>1, <1>2, Invariance, PTL DEF Spec

-----------------------------------------------------------------------------
(* A uid belongs to one person: only the checks of Issue, which hold until   *)
(* the lock is released, put a line into passwd                              *)

LineInv ==
  /\ \A e \in passwd : /\ e.uid \notin SystemIds
                       /\ \A g \in given : g.uid = e.uid => g.name = e.name
  /\ \A e, f \in passwd : e.name = f.name => e = f
  /\ \A j \in Jobs, o \in Owners : loc[<<j, o>>].pc \in Holding =>
       LinesOf(NameOf[j]) = {} /\ loc[<<j, o>>].mk \notin SystemIds

\* one worker moves, and not into the section under the lock
LetsGo(j, o) == \E m : Become(j, o, m) /\ m.pc \notin Holding

\* so do the endings, retries and rollbacks
LEMMA Leaves ==
  ASSUME NEW j, NEW o, NEW l \in Local
  PROVE  /\ \A v : Become(j, o, Ending(l, v)) => LetsGo(j, o)
         /\ Become(j, o, Failing(l)) => LetsGo(j, o)
         /\ \A pc : pc \notin Holding /\ Become(j, o, Again(l, pc)) => LetsGo(j, o)
         /\ \A t : Become(j, o, Undoing(l, t)) => LetsGo(j, o)
         /\ Become(j, o, AfterDeleteFailed(j, l)) => LetsGo(j, o)
  <1>0. "end" \notin Holding /\ "comp" \notin Holding /\ "undo" \notin Holding
        /\ "delete" \notin Holding
    BY DEF Holding
  <1>1. \A v : Ending(l, v).pc = "end"
    BY DEF Local, Ending
  <1>2. Failing(l).pc \in {"comp", "end"}
    <2>1. [l EXCEPT !.pc = "comp"].pc = "comp"
      BY DEF Local
    <2> QED BY <1>1, <2>1 DEF Failing
  <1>3. ASSUME NEW pc PROVE Again(l, pc).pc \in {pc, "end"}
    <2>1. [l EXCEPT !.pc = pc, !.tries = @ + 1].pc = pc
      BY DEF Local
    <2> QED BY <1>1, <2>1 DEF Again
  <1>4. \A t : Undoing(l, t).pc = "undo"
    BY DEF Local, Undoing
  <1>5. AfterDeleteFailed(j, l).pc \in {"delete", "end"}
    BY <1>1, <1>3 DEF AfterDeleteFailed
  <1>6. ASSUME NEW m, Become(j, o, m), m.pc \notin Holding PROVE LetsGo(j, o)
    BY <1>6 DEF LetsGo
  <1> QED BY <1>0, <1>1, <1>2, <1>3, <1>4, <1>5, <1>6

LEMMA GoesOn ==
  ASSUME NEW j, NEW o, loc[<<j, o>>] \in Local, NEW pc, pc \notin Holding, Goto(j, o, pc)
  PROVE  LetsGo(j, o)
  <1>1. [loc[<<j, o>>] EXCEPT !.pc = pc].pc = pc
    BY DEF Local
  <1> QED BY <1>1 DEF LetsGo, Goto

LEMMA RecordLetsGo ==
  ASSUME NEW j, NEW o, NEW l \in Local, NEW pc, pc \notin Holding, RecordStep(j, o, l, pc)
  PROVE  LetsGo(j, o)
  <1>1. [l EXCEPT !.pc = pc].pc = pc
    BY DEF Local
  <1>2. Off.pc \notin Holding
    BY DEF Off, Holding
  <1> QED BY <1>1, <1>2 DEF RecordStep, LetsGo

LEMMA CreateLetsGo ==
  ASSUME NEW j, NEW o, loc[<<j, o>>] \in Local, CreateStep(j, o),
         ~Issue(j, o), ~Mark(j, o)
  PROVE  LetsGo(j, o)
  <1> DEFINE l == loc[<<j, o>>]
  <1>0. \A pc : pc \in {"lookup", "issue", "log", "undo_shadow", "group", "shadow",
                        "sudoers", "record", "end", "undo"} => pc \notin Holding
    BY DEF Holding
  <1>1. CASE Judge(j, o)
    <2>1. /\ [l EXCEPT !.pc = "log", !.uid = l.mk].pc = "log"
          /\ [l EXCEPT !.pc = "undo_shadow", !.gid = l.mk, !.then = "judged"].pc = "undo_shadow"
      BY DEF Local
    <2> QED BY <1>0, <1>1, <2>1, GoesOn DEF Judge, LetsGo
  <1>2. CASE Lookup(j, o)
    <2>1. PICK r, s : Become(j, o, [l EXCEPT !.pc = "issue", !.ret = r, !.shared = s])
      BY <1>2 DEF Lookup
    <2>2. [l EXCEPT !.pc = "issue", !.ret = r, !.shared = s].pc = "issue"
      BY DEF Local
    <2> QED BY <1>0, <2>1, <2>2 DEF LetsGo
  <1>3. CASE WritePasswd(j, o) \/ WriteShadow(j, o) \/ WriteSudoers(j, o)
    BY <1>0, <1>3, GoesOn DEF WritePasswd, WriteShadow, WriteSudoers
  <1>4. CASE WriteGroup(j, o)
    BY <1>0, <1>4, Leaves, GoesOn DEF WriteGroup
  <1>5. CASE LogCreated(j, o)
    <2>1. [l EXCEPT !.pc = "record", !.uid = l.mk, !.done = @ \cup {"account"}].pc = "record"
      BY DEF Local
    <2> QED BY <1>0, <1>5, <2>1 DEF LogCreated, LetsGo
  <1>6. CASE FailsEarly(j, o) \/ FailsLate(j, o) \/ JudgeFails(j, o)
    BY <1>0, <1>6, Leaves DEF FailsEarly, FailsLate, JudgeFails
  <1> QED BY <1>1, <1>2, <1>3, <1>4, <1>5, <1>6 DEF CreateStep

LEMMA UndoLetsGo ==
  ASSUME NEW j, NEW o, loc[<<j, o>>] \in Local, WorkerOK(j, loc[<<j, o>>]), UndoStep(j, o)
  PROVE  LetsGo(j, o)
  <1> DEFINE l == loc[<<j, o>>]
  <1>0. \A pc : pc \in {"lookup", "undo_shadow", "undo_group", "rewind", "judge",
                        "end", "comp", "home", "krb"} => pc \notin Holding
    BY DEF Holding
  <1>1. CASE UndoPasswd(j, o) \/ UndoShadow(j, o)
    BY <1>0, <1>1, GoesOn DEF UndoPasswd, UndoShadow
  <1>2. l.pc \in Rolling => l.then \in {"account", "home", "krb", "mismatch", "judged"}
    BY DEF WorkerOK, Local
  <1>3. CASE UndoGroup(j, o)
    <2>1. l.pc \in Rolling
      BY <1>3 DEF UndoGroup, At, Rolling
    <2>2. /\ [l EXCEPT !.pc = "lookup", !.uid = l.mk].pc = "lookup"
          /\ [l EXCEPT !.pc = "rewind", !.rewinds = @ + 1, !.done = {}, !.tries = 1].pc = "rewind"
      BY DEF Local
    <2>3. \/ Become(j, o, Again(l, "lookup")) \/ Become(j, o, Failing(l))
          \/ Become(j, o, [l EXCEPT !.pc = "lookup", !.uid = l.mk])
          \/ Become(j, o, [l EXCEPT !.pc = "rewind", !.rewinds = @ + 1, !.done = {}, !.tries = 1])
          \/ Become(j, o, Ending(l, "DEGRADED"))
      BY <1>2, <1>3, <2>1 DEF UndoGroup
    <2> QED BY <1>0, <2>2, <2>3, Leaves DEF LetsGo
  <1>4. CASE UndoFails(j, o)
    <2>1. l.pc \in Rolling
      BY <1>4 DEF UndoFails, Rolling
    <2>2. \/ Become(j, o, Ending(l, "DEGRADED")) \/ Become(j, o, Again(l, "lookup"))
          \/ Become(j, o, Again(l, "home")) \/ Become(j, o, Again(l, "krb"))
      BY <1>2, <1>4, <2>1 DEF UndoFails
    <2> QED BY <1>0, <2>2, Leaves DEF LetsGo
  <1>5. CASE RecordRewind(j, o)
    BY <1>0, <1>5, RecordLetsGo DEF RecordRewind
  <1> QED BY <1>1, <1>3, <1>4, <1>5 DEF UndoStep

LEMMA LaterLetsGo ==
  ASSUME NEW j, NEW o, loc[<<j, o>>] \in Local, LaterStep(j, o)
  PROVE  LetsGo(j, o)
  <1> DEFINE l == loc[<<j, o>>]
  <1>0. \A pc : pc \in {"record", "undo", "end", "comp"} => pc \notin Holding
    BY DEF Holding
  <1>1. /\ [l EXCEPT !.pc = "record", !.made = TRUE, !.done = @ \cup {"home"}].pc = "record"
        /\ [l EXCEPT !.pc = "record", !.done = @ \cup {"home"}].pc = "record"
        /\ [l EXCEPT !.pc = "record", !.done = @ \cup {"krb"}].pc = "record"
        /\ [Undoing(l, "home") EXCEPT !.made = TRUE].pc = "undo"
        /\ [Undoing(l, "krb") EXCEPT !.made = FALSE].pc = "undo"
    BY DEF Local, Undoing
  <1>a. ASSUME NEW m, Become(j, o, m), m.pc \notin Holding PROVE LetsGo(j, o)
    BY <1>a DEF LetsGo
  <1>2. CASE CreateHome(j, o)
    <2>1. \/ Become(j, o, [l EXCEPT !.pc = "record", !.made = TRUE, !.done = @ \cup {"home"}])
          \/ Become(j, o, [l EXCEPT !.pc = "record", !.done = @ \cup {"home"}])
          \/ Become(j, o, Undoing(l, "mismatch"))
      BY <1>2 DEF CreateHome
    <2> QED BY <1>0, <1>1, <1>a, <2>1, Leaves
  <1>3. CASE HomeFails(j, o)
    <2>1. \/ Become(j, o, [Undoing(l, "home") EXCEPT !.made = TRUE])
          \/ Become(j, o, Undoing(l, "home"))
      BY <1>3 DEF HomeFails
    <2> QED BY <1>0, <1>1, <1>a, <2>1, Leaves
  <1>4. CASE CreatePrincipal(j, o) \/ PrincipalFails(j, o)
    <2>1. \/ Become(j, o, [l EXCEPT !.pc = "record", !.done = @ \cup {"krb"}])
          \/ Become(j, o, [Undoing(l, "krb") EXCEPT !.made = FALSE])
          \/ Become(j, o, Undoing(l, "krb"))
      BY <1>4 DEF CreatePrincipal, PrincipalFails
    <2>2. ASSUME NEW m, Become(j, o, m), m.pc \notin Holding PROVE LetsGo(j, o)
      BY <2>2 DEF LetsGo
    <2> QED BY <1>0, <1>1, <2>1, <2>2, Leaves
  <1>5. CASE CreatePod(j, o) \/ PodFails(j, o)
    BY <1>0, <1>5, Leaves DEF CreatePod, PodFails, LetsGo
  <1> QED BY <1>2, <1>3, <1>4, <1>5 DEF LaterStep

LEMMA DeleteLetsGo ==
  ASSUME NEW j, NEW o, loc[<<j, o>>] \in Local,
         DeleteStep(j, o) \/ Record(j, o) \/ RecordFails(j, o) \/ End(j, o)
  PROVE  LetsGo(j, o)
  <1> DEFINE l == loc[<<j, o>>]
  <1>0. \A pc : pc \in {"record", "delete", "end", "del_shadow", "left_shadow", "del_group",
                        "left_group", "del_log", "comp", "pod", "krb", "home", "judge"}
                  => pc \notin Holding
    BY DEF Holding
  <1>1. /\ [l EXCEPT !.pc = "record", !.done = {"check"}].pc = "record"
        /\ [l EXCEPT !.pc = "delete"].pc = "delete"
    BY DEF Local
  <1>2. CASE CheckRevocable(j, o)
    BY <1>0, <1>1, <1>2, Leaves DEF CheckRevocable, LetsGo
  <1>3. CASE DeletePasswd(j, o)
    <2>1. \/ \E e \in LinesOf(NameOf[j]) : Become(j, o, [l EXCEPT !.pc = "del_shadow", !.gid = e.uid])
          \/ Goto(j, o, "left_shadow") \/ Become(j, o, Ending(l, "UNVERIFIED"))
          \/ Become(j, o, Ending(l, "FAIL"))
      BY <1>3 DEF DeletePasswd
    <2>2. ASSUME NEW u, Become(j, o, [l EXCEPT !.pc = "del_shadow", !.gid = u])
          PROVE  LetsGo(j, o)
      <3>1. [l EXCEPT !.pc = "del_shadow", !.gid = u].pc = "del_shadow"
        BY DEF Local
      <3> QED BY <1>0, <2>2, <3>1 DEF LetsGo
    <2> QED BY <1>0, <2>1, <2>2, GoesOn, Leaves
  <1>4. CASE DeleteShadow(j, o) \/ DeleteGroup(j, o)
    BY <1>0, <1>4, GoesOn DEF DeleteShadow, DeleteGroup
  <1>5. CASE LogDeleted(j, o) \/ RemoveLeftovers(j, o)
    BY <1>0, <1>5, Leaves DEF LogDeleted, RemoveLeftovers, LetsGo
  <1>6. CASE DeleteFails(j, o) \/ DeleteGivesUp(j, o)
    BY <1>0, <1>6, Leaves DEF DeleteFails, DeleteGivesUp, LetsGo
  <1>7. CASE Record(j, o)
    <2>1. [l EXCEPT !.tries = 1] \in [pc : PCs, tries : {1}, rewinds : {l.rewinds}, done : {l.done},
             uid : {l.uid}, mk : {l.mk}, made : {l.made}, ret : {l.ret}, shared : {l.shared},
             gid : {l.gid}, then : {l.then}, out : {l.out}]
      BY DEF Local
    <2>2. [l EXCEPT !.tries = 1, !.pc = FirstStep(l.done)].pc = FirstStep(l.done)
      BY DEF Local
    <2>3. [[l EXCEPT !.tries = 1] EXCEPT !.pc = FirstStep(l.done)].pc = FirstStep(l.done)
      BY <2>1
    <2>4. FirstStep(l.done) \notin Holding /\ Off.pc \notin Holding
      BY <1>0 DEF FirstStep, Off, Holding
    <2> QED BY <1>7, <2>3, <2>4 DEF Record, RecordStep, LetsGo
  <1>8. CASE RecordFails(j, o)
    <2>1. Become(j, o, Failing(l))
      BY <1>8 DEF RecordFails
    <2> QED BY <2>1, Leaves
  <1>9. CASE End(j, o)
    <2>1. Become(j, o, Off)
      BY <1>9 DEF End
    <2> QED BY <2>1, OffOK DEF LetsGo
  <1> QED BY <1>2, <1>3, <1>4, <1>5, <1>6, <1>7, <1>8, <1>9 DEF DeleteStep

\* a name gets a line, or a uid is given, only by WritePasswd
LEMMA GivenOnce ==
  ASSUME ConstantsOK, UidInv, [Next]_vars
  PROVE  \/ given' = given
         \/ \E j \in Provisions, o \in Owners : WritePasswd(j, o)
  <1>1. ASSUME NEW j, NEW o, CreateStep(j, o), ~WritePasswd(j, o)
        PROVE  given' = given
    BY <1>1 DEF CreateStep, Judge, Lookup, Issue, Mark, WriteGroup, WriteShadow,
       WriteSudoers, LogCreated, FailsEarly, FailsLate, JudgeFails
  <1>2. ASSUME NEW j \in Provisions, NEW o \in Owners, CreateHome(j, o) \/ HomeFails(j, o)
        PROVE  given' = given
    <2>1. j \in Jobs
      BY DEF Jobs
    <2>2. Acc(j, loc[<<j, o>>].uid) \in given
      BY <1>2, <2>1, Memory DEF CreateHome, HomeFails, At, WorkerOK
    <2>3. \/ given' = given
          \/ given' = given \cup {Acc(j, loc[<<j, o>>].uid)}
      BY <1>2 DEF CreateHome, HomeFails, Acc
    <2> QED BY <2>2, <2>3
  <1>3. ASSUME NEW j, NEW o,
               UndoStep(j, o) \/ CreatePrincipal(j, o) \/ PrincipalFails(j, o)
               \/ CreatePod(j, o) \/ PodFails(j, o)
        PROVE  given' = given
    BY <1>3 DEF UndoStep, UndoPasswd, UndoShadow, UndoGroup, UndoFails, RecordRewind,
       CreatePrincipal, PrincipalFails, CreatePod, PodFails
  <1>4. ASSUME NEW j, NEW o,
               DeleteStep(j, o) \/ Record(j, o) \/ RecordFails(j, o) \/ End(j, o)
        PROVE  given' = given
    BY <1>4 DEF DeleteStep, CheckRevocable, DeletePasswd, DeleteShadow, DeleteGroup,
       LogDeleted, RemoveLeftovers, DeleteFails, DeleteGivesUp, Record, RecordFails, End
  <1>5. ASSUME NEW j, NEW o, RegisterRevoke(j) \/ RegisterProvision(j) \/ AdoptAccount(j)
                             \/ RemovePod(j) \/ Take(j, o) \/ Crash(o)
        PROVE  given' = given
    BY <1>5 DEF RegisterRevoke, RegisterProvision, AdoptAccount, RemovePod, Take, Crash
  <1>6. CASE UNCHANGED vars
    BY <1>6 DEF vars
  <1> QED BY <1>1, <1>2, <1>3, <1>4, <1>5, <1>6 DEF Next, Work, LaterStep, Idle

\* a worker that holds the checked name and uid held them before, or Issue just
\* found the name free and the uid not in use
LEMMA HoldingFrom ==
  ASSUME ConstantsOK, UidInv, LineInv, [Next]_vars, NEW j \in Jobs, NEW o \in Owners,
         loc'[<<j, o>>].pc \in Holding
  PROVE  LinesOf(NameOf[j]) = {} /\ loc'[<<j, o>>].mk \notin SystemIds
  <1> DEFINE w == <<j, o>>
             Kept == loc[w].pc \in Holding /\ loc'[w].mk = loc[w].mk
             Goal == LinesOf(NameOf[j]) = {} /\ loc'[w].mk \notin SystemIds
  <1>0. w \in Workers /\ loc \in [Workers -> Local]
    BY DEF Workers, UidInv, TypeOK
  <1>a. ASSUME Kept PROVE Goal
    BY <1>a DEF LineInv
  <1>b. ASSUME loc'[w] = loc[w] PROVE Goal
    BY <1>a, <1>b
  <1>1. ASSUME NEW k \in Jobs, NEW p \in Owners, LetsGo(k, p) PROVE Goal
    <2>1. <<k, p>> \in Workers
      BY DEF Workers
    <2>2. PICK m : Become(k, p, m) /\ m.pc \notin Holding
      BY <1>1 DEF LetsGo
    <2>3. CASE <<k, p>> = w
      BY <1>0, <2>2, <2>3 DEF Become
    <2>4. CASE <<k, p>> # w
      BY <1>0, <1>b, <2>1, <2>2, <2>4 DEF Become
    <2> QED BY <2>3, <2>4
  <1>2. ASSUME NEW k \in Provisions, NEW p \in Owners, Issue(k, p) PROVE Goal
    <2> DEFINE l == loc[<<k, p>>]
    <2>1. <<k, p>> \in Workers /\ l \in Local /\ k \in Jobs
      BY <1>0 DEF Workers, Jobs
    <2>2. CASE LetsGo(k, p)
      BY <1>1, <2>1, <2>2
    <2>3. CASE ~LetsGo(k, p)
      <3>0. "lookup" \notin Holding
        BY DEF Holding
      <3>1. LinesOf(NameOf[k]) = {} /\ ~(l.ret # 0 /\ ReclaimConflict(k, l.ret, l.shared))
        BY <1>2, <2>1, <2>3, <3>0, Leaves DEF Issue
      <3>2. PICK u \in Uids : /\ IF l.ret # 0 THEN u = l.ret ELSE IsNextUid(u)
                              /\ Become(k, p, [l EXCEPT !.pc = "mark", !.mk = u])
        BY <1>2, <2>1, <2>3, <3>0, Leaves DEF Issue
      <3>3. u \notin SystemIds
        BY <3>1, <3>2 DEF ReclaimConflict, UidsInUse, IsNextUid, Fresh
      <3>4. [l EXCEPT !.pc = "mark", !.mk = u].mk = u
        BY <2>1 DEF Local
      <3>5. CASE <<k, p>> = w
        <4>1. loc'[w].mk = u
          BY <1>0, <3>2, <3>4, <3>5 DEF Become
        <4>2. k = j
          BY <3>5
        <4> QED BY <3>1, <3>3, <4>1, <4>2
      <3>6. CASE <<k, p>> # w
        BY <1>0, <1>b, <3>2, <3>6 DEF Become
      <3> QED BY <3>5, <3>6
    <2> QED BY <2>2, <2>3
  <1>3. ASSUME NEW k \in Provisions, NEW p \in Owners, Mark(k, p) PROVE Goal
    <2> DEFINE l == loc[<<k, p>>]
    <2>1. <<k, p>> \in Workers /\ l \in Local
      BY <1>0 DEF Workers, Jobs
    <2>2. l.pc \in Holding
      BY <1>3 DEF Mark, At, Holding
    <2>3. [l EXCEPT !.pc = "passwd"].mk = l.mk
      BY <2>1 DEF Local
    <2>4. Become(k, p, [l EXCEPT !.pc = "passwd"]) \/ Become(k, p, Off)
      BY <1>3 DEF Mark, RecordStep
    <2>5. CASE <<k, p>> # w
      BY <1>0, <1>b, <2>4, <2>5 DEF Become
    <2>6. CASE <<k, p>> = w
      <3>1. CASE Become(k, p, [l EXCEPT !.pc = "passwd"])
        BY <1>0, <1>a, <2>2, <2>3, <2>6, <3>1 DEF Become
      <3>2. CASE Become(k, p, Off)
        BY <1>0, <2>6, <3>2, OffOK DEF Become
      <3> QED BY <2>4, <3>1, <3>2
    <2> QED BY <2>5, <2>6
  <1>4. ASSUME NEW k \in Jobs, NEW p \in Owners, Work(k, p) PROVE Goal
    <2>1. loc[<<k, p>>] \in Local /\ WorkerOK(k, loc[<<k, p>>])
      BY Memory
    <2>2. CASE k \in Provisions /\ CreateStep(k, p)
      BY <1>1, <1>2, <1>3, <2>1, <2>2, CreateLetsGo
    <2>3. CASE UndoStep(k, p) \/ LaterStep(k, p)
      BY <1>1, <2>1, <2>3, UndoLetsGo, LaterLetsGo
    <2>4. CASE DeleteStep(k, p) \/ Record(k, p) \/ RecordFails(k, p) \/ End(k, p)
      BY <1>1, <2>1, <2>4, DeleteLetsGo
    <2> QED BY <1>4, <2>2, <2>3, <2>4 DEF Work
  <1>5. ASSUME NEW k \in Jobs, NEW p \in Owners, Take(k, p) PROVE Goal
    <2> DEFINE s  == saved[k]
               pc == CASE job[k] = "revoke" /\ s.done = {} -> "check"
                       [] job[k] = "reuse"               -> "pod"
                       [] OTHER                          -> FirstStep(s.done)
               m  == [Off EXCEPT !.done = s.done, !.uid = s.uid, !.mk = s.mk,
                                 !.made = s.made, !.pc = pc]
    <2>1. Become(k, p, m)
      BY <1>5 DEF Take, Become
    <2>2. pc \in {"check", "delete", "pod", "krb", "home", "judge"}
      BY DEF FirstStep
    <2>3. m.pc = pc
      BY DEF Off
    <2>4. m.pc \notin Holding
      BY <2>2, <2>3 DEF Holding
    <2> QED BY <1>1, <2>1, <2>4 DEF LetsGo
  <1>6. ASSUME NEW p \in Owners, Crash(p) PROVE Goal
    <2>1. loc'[w] \in {Off, loc[w]}
      BY <1>0, <1>6 DEF Crash
    <2> QED BY <1>b, <2>1, OffOK
  <1>7. ASSUME UNCHANGED loc PROVE Goal
    BY <1>b, <1>7
  <1>8. ASSUME NEW k, RegisterRevoke(k) \/ RegisterProvision(k) \/ AdoptAccount(k)
                      \/ RemovePod(k)
        PROVE  UNCHANGED loc
    BY <1>8 DEF RegisterRevoke, RegisterProvision, AdoptAccount, RemovePod
  <1>9. CASE UNCHANGED vars
    BY <1>7, <1>9 DEF vars
  <1> QED BY <1>4, <1>5, <1>6, <1>7, <1>8, <1>9 DEF Next, Idle

LEMMA LineStep ==
  ASSUME ConstantsOK, UidInv, LineInv, [Next]_vars PROVE LineInv'
  <1>1. CASE \E j \in Provisions, o \in Owners : WritePasswd(j, o)
    <2>1. PICK j \in Provisions, o \in Owners : WritePasswd(j, o)
      BY <1>1
    <2> DEFINE n == NameOf[j]
               u == loc[<<j, o>>].mk
               line == [name |-> n, uid |-> u, by |-> j]
    <2>2. j \in Jobs /\ WorkerOK(j, loc[<<j, o>>])
      BY Memory DEF Jobs
    <2>3. loc[<<j, o>>].pc \in Holding
      BY <2>1 DEF WritePasswd, At, Holding
    <2>4. LinesOf(n) = {} /\ u \notin SystemIds /\ Sole(j, u)
      BY <2>2, <2>3 DEF LineInv, WorkerOK
    <2>5. passwd' = passwd \cup {line} /\ given' = given \cup {[name |-> n, uid |-> u]}
          /\ lock' = None
      BY <2>1 DEF WritePasswd, Release
    <2>6. \A k \in Jobs, p \in Owners : loc'[<<k, p>>].pc \notin Holding
      <3>1. UidInv' /\ None \notin Workers
        BY StepOK DEF ConstantsOK
      <3>2. ASSUME NEW k \in Jobs, NEW p \in Owners, loc'[<<k, p>>].pc \in Holding'
            PROVE  FALSE
        <4>1. lock' = <<k, p>> /\ <<k, p>> \in Workers
          BY <3>1, <3>2 DEF UidInv, WorkersOK, Workers
        <4> QED BY <2>5, <3>1, <4>1
      <3>3. Holding' = Holding
        BY DEF Holding
      <3> QED BY <3>2, <3>3
    <2>7. \A e \in passwd' : /\ e.uid \notin SystemIds
                             /\ \A g \in given' : g.uid = e.uid => g.name = e.name
      <3>1. \A e \in passwd : [name |-> e.name, uid |-> e.uid] \in given
        BY DEF UidInv, StoresOK
      <3>2. ASSUME NEW e \in passwd, e.uid = u PROVE e.name = n
        BY <2>4, <3>1, <3>2 DEF Sole
      <3> QED BY <2>4, <2>5, <3>2 DEF LineInv, Sole
    <2>8. \A e, f \in passwd' : e.name = f.name => e = f
      BY <2>4, <2>5 DEF LineInv, LinesOf
    <2> QED BY <2>6, <2>7, <2>8 DEF LineInv
  <1>2. CASE ~\E j \in Provisions, o \in Owners : WritePasswd(j, o)
    <2>1. passwd' \subseteq passwd /\ given' = given
      BY <1>2, NewLines, GivenOnce
    <2>2. ASSUME NEW j \in Jobs, NEW o \in Owners, loc'[<<j, o>>].pc \in Holding
          PROVE  LinesOf(NameOf[j])' = {} /\ loc'[<<j, o>>].mk \notin SystemIds
      BY <2>1, <2>2, HoldingFrom DEF LinesOf
    <2> QED BY <2>1, <2>2 DEF LineInv
  <1> QED BY <1>1, <1>2

LEMMA LineInit == Init => LineInv
  <1> SUFFICES ASSUME Init PROVE LineInv
    OBVIOUS
  <1>1. \A j \in Jobs, o \in Owners : loc[<<j, o>>] = Off
    BY DEF Init, Workers
  <1>2. passwd = {}
    BY DEF Init
  <1> QED BY <1>1, <1>2, OffOK DEF LineInv

\* A uid in passwd is used by one person: no other line has it, no system
\* account, and nobody else's home on the NAS belongs to it, even where two
\* persons' homes share a uid from before.
THEOREM OneUidOnePerson == Spec => []UidOfOnePerson
  <1>1. UidInv /\ LineInv /\ [Next]_vars => LineInv'
    BY LineStep, ConstantsOK
  <1>2. ASSUME UidInv, LineInv PROVE UidOfOnePerson
    <2>1. ASSUME NEW e \in passwd, NEW f \in passwd, f.uid = e.uid PROVE f = e
      <3>1. [name |-> f.name, uid |-> f.uid] \in given
        BY <1>2 DEF UidInv, StoresOK
      <3>2. f.name = e.name
        BY <1>2, <2>1, <3>1 DEF LineInv
      <3> QED BY <1>2, <3>2 DEF LineInv
    <2>2. ASSUME NEW e \in passwd, NEW n \in Names \ {e.name} PROVE home[n] # e.uid
      <3>1. e.uid \in Uids
        BY <1>2 DEF UidInv, TypeOK, Line
      <3>2. home[n] = e.uid => [name |-> n, uid |-> e.uid] \in given
        BY <1>2, <3>1 DEF UidInv, StoresOK
      <3> QED BY <1>2, <3>2 DEF LineInv
    <2> QED BY <1>2, <2>1, <2>2 DEF UidOfOnePerson, LineInv
  <1> QED BY LineInit, <1>1, <1>2, Invariance, PTL DEF Spec
=============================================================================
