-------------------------- MODULE JobProgressProofs --------------------------
(***************************************************************************)
(* What a verdict says of the outside, for any number of requests and      *)
(* controllers, with crashes between any two effects and rewinds, and any  *)
(* step tables that fit (MendTables, AccountFirst): SUCCESS means that the *)
(* effect of every step holds (SuccessMeansDone), FAIL that the account    *)
(* was taken back (FailureIsCompensated).                                  *)
(***************************************************************************)
EXTENDS JobEngineProofs

\* The errors the two properties do not survive (README 3.7): a cleanup that
\* leaves something behind, a controller cut off between a compensation and the
\* row that reports it.
Intact == "cleanup_fails" \notin FaultKinds /\ "cut_off" \notin FaultKinds

-----------------------------------------------------------------------------
(* Recorded progress and effects *)

\* The step whose record lets the loop pass d over
Key(d) == IF DeferTo[d] # 0 THEN DeferTo[d] ELSE d

\* Whatever the loop would pass over under D and is not in E (any more) shows: a
\* step from a on that it does not pass over needs a recorded step, no later
\* than that one, whose effect is gone.
Mend(a, D, E) ==
  \A d \in Steps : Skipped(d, D) /\ d \notin E =>
    \E u \in Steps : /\ u >= a /\ ~Skipped(u, D)
                     /\ \E m \in Needs[u] \cap D : m \notin E /\ m <= Key(d)

\* All before a is done or passed over, and what is to be recorded is.
Passed(a, D, E) ==
  \A d \in Steps : d < a => /\ d \in E \/ Skipped(d, D)
                            /\ Volatile(d) \/ d \in D

Durable(D) == \A s \in D : ~Volatile(s)

\* What verdict v promises of the effects E
Sound(v, E) ==
  /\ v = "SUCCESS" => E = Steps
  /\ AccountFirst /\ v = "FAIL" => Compensated \cap E = {}

\* With the account not recorded in D, there is none.
NoAccount(D, E) == AccountFirst /\ CompensateAt \notin D => Compensated \cap E = {}

\* A worker thread, whose registration has the effects E
TaskSound(t, E) ==
  /\ t.pc \in Starting => t.at = 1
  /\ t.pc = "run" => Passed(t.at, t.done, E) /\ Mend(t.at, t.done, E)
  /\ t.pc = "record" =>
       /\ ~Volatile(t.at) /\ t.at \in E
       /\ Passed(t.at, t.done, E) /\ Mend(t.at + 1, t.done, E)
  /\ t.pc = "rewound" =>
       /\ Passed(t.at, NewDone(t), E) /\ Mend(t.at, NewDone(t), E)
       /\ NoAccount(NewDone(t), E)
  /\ t.pc = "compensate" => t.out = "FAIL" /\ NoAccount(t.done, E)
  /\ t.pc \in {"end", "keep"} => Sound(t.out, E)

\* A failure is compensated, and neither a row nor the input says it yet.
Untold(t) == /\ t.pc \in {"end", "keep"} /\ t.out \in {"FAIL", "HELD"}
             /\ CompensateAt \in t.done
UntoldOf(k) == \E p \in Procs : task[p][k] # None /\ Untold(task[p][k])

Saved(j) == IF lease[j] = None THEN {} ELSE lease[j].done

\* What a controller that takes the job over finds
SavedSound(k, j) ==
  /\ reg[j] # "accepted" => lease[j] = None
  /\ Durable(Saved(j))
  /\ Unfinished(j) /\ ~KeptDone(k) /\ ~UntoldOf(k) => Mend(1, Saved(j), effects[j])

KeptSound(k) == KeptDone(k) => Sound(input[k].result, effects[input[k].reg])

HolderSound(p, k) ==
  /\ TaskSound(task[p][k], effects[task[p][k].job])
  /\ task[p][k].pc \in Holding => Owns(p, task[p][k].job)

JobSound(k) ==
  /\ \A j \in Regs : KeyOf[j] = k => SavedSound(k, j)
  /\ KeptSound(k)
  /\ \A p \in Procs : task[p][k] # None => HolderSound(p, k)

\* An end row is of an ended job, and says what is so of it.
RowSound(i) ==
  /\ rows[i].reg \in Regs /\ Ended(rows[i].reg)
  /\ Sound(rows[i].phase, effects[rows[i].reg])
RowsSound == \A i \in DOMAIN rows : rows[i].phase # "START" => RowSound(i)

Progress == RowsSound /\ \A k \in Keys : JobSound(k)

-----------------------------------------------------------------------------
(* The step loop on progress and effects: no state is left, only D and E *)

\* Up to the step that is next, all is done or passed over.
LEMMA PassedTo ==
  ASSUME NEW t \in Task, NEW E, Passed(t.at, t.done, E), NEW s \in Steps, IsNext(t, s)
  PROVE  Passed(s, t.done, E)
<1>1. ASSUME NEW d \in Steps, d < s, ~(d < t.at)
      PROVE  Skipped(d, t.done)
  <2>1. d \in Nat /\ s \in Nat /\ t.at \in Nat
    BY ConstantsOK DEF Steps, Task
  <2>2. d \notin Upcoming(t)
    <3>1. d \in Upcoming(t) => s <= d
      BY DEF IsNext
    <3>2. QED
      BY <1>1, <2>1, <3>1
  <2>3. d >= t.at
    BY <1>1, <2>1
  <2>4. QED
    BY <2>2, <2>3 DEF Upcoming
<1>2. \A d \in Steps : Skipped(d, t.done) => Volatile(d) \/ d \in t.done
  BY DEF Skipped, Volatile
<1>3. QED
  BY <1>1, <1>2 DEF Passed

LEMMA MendEarlier ==
  ASSUME NEW a \in Nat, NEW b \in Nat, a <= b, NEW D, NEW E, Mend(b, D, E)
  PROVE  Mend(a, D, E)
<1>1. \A u \in Steps : u >= b => u >= a
  BY ConstantsOK DEF Steps
<1>2. QED
  BY <1>1 DEF Mend

\* Nothing is passed over.
LEMMA MendNone ==
  ASSUME NEW a, NEW E
  PROVE  Mend(a, {}, E)
BY DEF Mend, Skipped

\* A step that succeeded was not the one that mends.
LEMMA MendSucceeds ==
  ASSUME NEW t \in Task, NEW E, Durable(t.done), Mend(t.at, t.done, E),
         NEW s \in Steps, IsNext(t, s), Needs[s] \subseteq E
  PROVE  Mend(s + 1, t.done, E \cup {s})
<1> DEFINE D == t.done
<1>1. SUFFICES ASSUME NEW d \in Steps, Skipped(d, D), d \notin E
               PROVE  \E u \in Steps : /\ u >= s + 1 /\ ~Skipped(u, D)
                        /\ \E m \in Needs[u] \cap D : m \notin E \cup {s} /\ m <= Key(d)
  BY DEF Mend
<1>2. PICK u \in Steps : /\ u >= t.at /\ ~Skipped(u, D)
                         /\ \E m \in Needs[u] \cap D : m \notin E /\ m <= Key(d)
  BY <1>1 DEF Mend
<1>3. PICK m \in Needs[u] \cap D : m \notin E /\ m <= Key(d)
  BY <1>2
<1>4. u >= s + 1
  <2>1. u \in Upcoming(t)
    BY <1>2 DEF Upcoming
  <2>2. s <= u
    BY <2>1 DEF IsNext
  <2>3. u # s
    BY <1>3
  <2>4. QED
    BY <2>2, <2>3, ConstantsOK DEF Steps
<1>5. m # s
  <2>1. ~Skipped(s, D)
    BY DEF IsNext, Upcoming
  <2>2. m \in D /\ ~Volatile(m)
    BY <1>3 DEF Durable
  <2>3. QED
    BY <2>1, <2>2 DEF Skipped, Volatile
<1>6. QED
  BY <1>2, <1>3, <1>4, <1>5

\* A record lets the partner of the step be passed over too; it was executed.
LEMMA MendRecord ==
  ASSUME MendTables, NEW s \in Steps, NEW D, NEW E, s \in E, ~Volatile(s),
         Passed(s, D, E), Mend(s + 1, D, E)
  PROVE  Passed(s + 1, D \cup {s}, E) /\ Mend(s + 1, D \cup {s}, E)
<1>1. s \in Nat /\ s # 0 /\ Steps \subseteq Nat
  BY ConstantsOK DEF Steps
<1>2. ASSUME NEW d \in Steps, DeferTo[d] = s
      PROVE  d < s
  <2>1. DeferTo[d] = d + 1 /\ d \in Nat
    BY <1>1, <1>2 DEF MendTables
  <2>2. QED
    BY <1>2, <2>1
<1>3. \A d \in Steps : Skipped(d, D) => Skipped(d, D \cup {s})
  BY DEF Skipped
<1>4. Passed(s + 1, D \cup {s}, E)
  <2>1. \A d \in Steps : d < s + 1 => d < s \/ d = s
    BY <1>1
  <2>2. QED
    BY <1>3, <2>1 DEF Passed
<1>5. ASSUME NEW d \in Steps, Skipped(d, D \cup {s}), d \notin E
      PROVE  \E u \in Steps : /\ u >= s + 1 /\ ~Skipped(u, D \cup {s})
               /\ \E m \in Needs[u] \cap (D \cup {s}) : m \notin E /\ m <= Key(d)
  <2>1. Skipped(d, D)
    <3>1. d = s \/ DeferTo[d] = s \/ Skipped(d, D)
      BY <1>5 DEF Skipped
    <3>2. QED
      BY <1>2, <1>5, <3>1 DEF Passed
  <2>2. PICK u \in Steps : /\ u >= s + 1 /\ ~Skipped(u, D)
                           /\ \E m \in Needs[u] \cap D : m \notin E /\ m <= Key(d)
    BY <1>5, <2>1 DEF Mend
  <2>3. ~Skipped(u, D \cup {s})
    <3>1. u # s /\ DeferTo[u] # s
      BY <1>1, <1>2, <2>2
    <3>2. QED
      BY <2>2, <3>1 DEF Skipped
  <2>4. QED
    BY <2>2, <2>3
<1>6. QED
  BY <1>4, <1>5 DEF Mend

\* What a failing step s takes back
Remade(s) == IF RewindTo[s] = 0 THEN {} ELSE RewindTo[s]..s

\* The progress saved before the failure still shows what is gone.
LEMMA MendFails ==
  ASSUME MendTables, NEW t \in Task, NEW E, Durable(t.done),
         Passed(t.at, t.done, E), Mend(t.at, t.done, E), NEW s \in Steps, IsNext(t, s)
  PROVE  Mend(1, t.done, E \ Remade(s))
<1> DEFINE D == t.done
           R == RewindTo[s]
<1>1. s \in Nat /\ R \in Nat /\ Steps \subseteq Nat /\ t.at \in Nat
      /\ \A u \in Steps : u >= 1
  BY ConstantsOK DEF Steps, Task
<1>2. SUFFICES ASSUME NEW d \in Steps, Skipped(d, D), d \notin E \ Remade(s)
               PROVE  \E u \in Steps : /\ u >= 1 /\ ~Skipped(u, D)
                        /\ \E m \in Needs[u] \cap D : m \notin E \ Remade(s) /\ m <= Key(d)
  BY DEF Mend
<1>3. CASE d \notin E
  <2>1. PICK u \in Steps : /\ u >= t.at /\ ~Skipped(u, D)
                           /\ \E m \in Needs[u] \cap D : m \notin E /\ m <= Key(d)
    BY <1>2, <1>3 DEF Mend
  <2>2. QED
    BY <1>1, <2>1
<1>4. CASE d \in Remade(s)
  <2>1. R # 0 /\ R <= d /\ d <= s
    BY <1>1, <1>4 DEF Remade
  <2>2. ~Skipped(s, D) /\ s \notin D /\ d # s
    BY <1>2 DEF IsNext, Upcoming, Skipped, Durable, Volatile
  <2>3. Key(d) \in D /\ ~Volatile(Key(d))
    BY <1>2 DEF Skipped, Key, Durable
  <2>4. Key(d) \in R..(s - 1)
    <3>1. Key(d) = d \/ Key(d) = d + 1
      BY DEF Key, MendTables
    <3>2. d \in Nat /\ Key(d) # s
      BY <1>1, <2>2, <2>3
    <3>3. QED
      BY <1>1, <2>1, <2>2, <3>1, <3>2
  <2>5. PICK m \in Needs[s] : ~Volatile(m) /\ R <= m /\ m <= Key(d)
    BY <2>1, <2>3, <2>4 DEF MendTables
  <2>6. m \in Steps /\ m < s /\ m \in Remade(s)
    <3>1. m \in Steps
      BY ConstantsOK
    <3>2. QED
      BY <1>1, <2>1, <2>4, <2>5, <3>1 DEF Remade
  <2>7. m \in D
    BY <2>5, <2>6, PassedTo DEF Passed
  <2>8. QED
    BY <1>1, <2>2, <2>5, <2>6, <2>7
<1>5. QED
  BY <1>2, <1>3, <1>4

\* After the restart, with the progress cut back to it
LEMMA MendRewinds ==
  ASSUME MendTables, NEW t \in Task, NEW E,
         Passed(t.at, t.done, E), Mend(t.at, t.done, E), NEW s \in Steps, IsNext(t, s),
         RewindTo[s] # 0, NEW D, D = {x \in t.done : x < RewindTo[s]}
  PROVE  /\ Passed(RewindTo[s], D, E \ Remade(s))
         /\ Mend(RewindTo[s], D, E \ Remade(s))
<1> DEFINE R == RewindTo[s]
           F == E \ Remade(s)
<1>1. s \in Nat /\ R \in Nat /\ R <= s /\ Steps \subseteq Nat /\ t.at \in Nat
      /\ t.done \subseteq Steps
  BY ConstantsOK DEF Steps, Task
<1>2. \A d \in Steps : d < R => d \notin Remade(s)
  BY <1>1 DEF Remade
<1>3. \A d \in Steps : d < R /\ Skipped(d, t.done) => Skipped(d, D)
  BY <1>1, TablesOK DEF Skipped
<1>4. Passed(R, D, F)
  <2>1. Passed(s, t.done, E)
    BY PassedTo
  <2>2. \A d \in Steps : d < R => d < s
    BY <1>1
  <2>3. QED
    BY <1>2, <1>3, <2>1, <2>2 DEF Passed
<1>5. ASSUME NEW d \in Steps, Skipped(d, D), d \notin F
      PROVE  \E u \in Steps : /\ u >= R /\ ~Skipped(u, D)
               /\ \E m \in Needs[u] \cap D : m \notin F /\ m <= Key(d)
  <2>1. Key(d) \in D /\ Key(d) < R /\ Skipped(d, t.done)
    BY <1>5 DEF Skipped, Key
  <2>2. d < R
    <3>1. Key(d) = d \/ Key(d) = d + 1
      BY DEF Key, MendTables
    <3>2. d \in Nat
      BY <1>1
    <3>3. QED
      BY <1>1, <2>1, <3>1, <3>2
  <2>3. d \notin E
    BY <1>2, <1>5, <2>2
  <2>4. PICK u \in Steps : /\ u >= t.at /\ ~Skipped(u, t.done)
                           /\ \E m \in Needs[u] \cap t.done : m \notin E /\ m <= Key(d)
    BY <2>1, <2>3 DEF Mend
  <2>5. PICK m \in Needs[u] \cap t.done : m \notin E /\ m <= Key(d)
    BY <2>4
  <2>6. m \in D
    <3>1. m \in Nat /\ Key(d) \in Nat
      BY <1>1, <2>1
    <3>2. m < R
      BY <1>1, <2>1, <2>5, <3>1
    <3>3. QED
      BY <3>2
  <2>7. u >= R
    <3>1. u \in Upcoming(t)
      BY <2>4 DEF Upcoming
    <3>2. s <= u
      BY <3>1 DEF IsNext
    <3>3. s \in Nat /\ R \in Nat /\ u \in Nat /\ R <= s
      BY <1>1
    <3>4. QED
      BY <3>2, <3>3
  <2>8. ~Skipped(u, D)
    BY <2>4 DEF Skipped
  <2>9. QED
    BY <2>5, <2>6, <2>7, <2>8
<1>6. QED
  BY <1>4, <1>5 DEF Mend

\* With nothing left to run, and nothing that mends, everything is there.
LEMMA AllDone ==
  ASSUME NEW t \in Task, NEW E \in SUBSET Steps, Passed(t.at, t.done, E),
         Mend(t.at, t.done, E), Upcoming(t) = {}
  PROVE  E = Steps
<1>1. \A u \in Steps : u >= t.at => Skipped(u, t.done)
  BY DEF Upcoming
<1>2. \A d \in Steps : d < t.at \/ d >= t.at
  BY ConstantsOK DEF Steps, Task
<1>3. \A d \in Steps : d \in E \/ Skipped(d, t.done)
  BY <1>1, <1>2 DEF Passed
<1>4. QED
  BY <1>1, <1>3 DEF Mend

\* A step that fails with the account not recorded is the first, and takes it
\* back; one that restarts before the record has it recorded, or is the first.
LEMMA AccountGone ==
  ASSUME NEW t \in Task, NEW E, Passed(t.at, t.done, E), NEW s \in Steps, IsNext(t, s),
         NEW D, D = t.done \/ (RewindTo[s] # 0 /\ D = {x \in t.done : x < RewindTo[s]})
  PROVE  NoAccount(D, E \ Remade(s))
<1>1. SUFFICES ASSUME AccountFirst, 1 \notin D
               PROVE  1 \in Remade(s)
  BY DEF NoAccount, AccountFirst
<1>2. s \in Nat /\ s >= 1 /\ 1 \in Steps /\ RewindTo[s] \in Nat /\ RewindTo[s] <= s
  BY ConstantsOK DEF Steps
<1>3. s > 1 => 1 \in t.done
  BY <1>1, <1>2, PassedTo DEF Passed, AccountFirst
<1>4. CASE s = 1
  BY <1>1, <1>4 DEF AccountFirst, Remade
<1>5. CASE s > 1
  <2>1. RewindTo[s] # 0 /\ ~(1 < RewindTo[s])
    BY <1>1, <1>3, <1>5
  <2>2. RewindTo[s] = 1
    BY <1>2, <2>1
  <2>3. QED
    BY <1>2, <2>2 DEF Remade
<1>6. QED
  BY <1>2, <1>4, <1>5

-----------------------------------------------------------------------------
(* What leaves the progress of a request as it is *)

\* The saved progress and the effects of the registrations of k stay.
SavedStays(k) ==
  \A j \in Regs : KeyOf[j] = k =>
    /\ effects'[j] = effects[j]
    /\ \/ lease'[j] = lease[j]
       \/ /\ lease[j] # None
          /\ \E b \in BOOLEAN : lease'[j] = [lease[j] EXCEPT !.live = b]

LEMMA LeaseStays ==
  ASSUME TypeInv, NEW k, SavedStays(k), NEW j \in Regs, KeyOf[j] = k
  PROVE  /\ Saved(j)' = Saved(j) /\ (lease'[j] = None <=> lease[j] = None)
         /\ \A p \in Procs : Owns(p, j)' <=> Owns(p, j)
<1>1. CASE lease'[j] = lease[j]
  BY <1>1 DEF Saved, Owns
<1>2. ASSUME lease[j] # None, NEW b \in BOOLEAN, lease'[j] = [lease[j] EXCEPT !.live = b]
      PROVE  /\ Saved(j)' = Saved(j) /\ (lease'[j] = None <=> lease[j] = None)
             /\ \A p \in Procs : Owns(p, j)' <=> Owns(p, j)
  <2>1. lease[j] \in Lease
    BY <1>2 DEF TypeInv, StoresOK
  <2>2. /\ lease'[j] \in Lease /\ lease'[j].done = lease[j].done
        /\ lease'[j].owner = lease[j].owner
    BY <1>2, <2>1 DEF Lease
  <2>3. lease'[j] # None
    BY <2>2, NoneOK
  <2>4. QED
    BY <1>2, <2>2, <2>3 DEF Saved, Owns
<1>3. QED
  BY <1>1, <1>2 DEF SavedStays

\* A thread that was just started promises nothing.
LEMMA NewSound ==
  ASSUME NEW i \in Regs, NEW E
  PROVE  TaskSound(NewTask(i), E) /\ NewTask(i).pc \notin Holding
BY DEF TaskSound, NewTask, Starting, Holding

LEMMA JobSame ==
  ASSUME TypeInv, NEW k \in Keys, RequestOK(k), JobSound(k), SavedStays(k),
         RegsStay(k), input'[k] = input[k], UntoldOf(k) => UntoldOf(k)',
         \A p \in Procs : \/ task'[p][k] \in {task[p][k], None}
                          \/ \E i \in Regs : task'[p][k] = NewTask(i)
  PROVE  JobSound(k)'
<1>1. KeptDone(k)' <=> KeptDone(k)
  BY DEF KeptDone
<1>2. ASSUME NEW j \in Regs, KeyOf[j] = k
      PROVE  SavedSound(k, j)'
  <2>1. SavedSound(k, j)
    BY <1>2 DEF JobSound
  <2>2. /\ Saved(j)' = Saved(j) /\ (lease'[j] = None <=> lease[j] = None)
        /\ effects'[j] = effects[j]
    BY <1>2, LeaseStays DEF SavedStays
  <2>3. reg'[j] = reg[j] /\ (Unfinished(j)' <=> Unfinished(j))
    BY <1>2 DEF RegsStay
  <2>4. QED
    BY <1>1, <2>1, <2>2, <2>3 DEF SavedSound
<1>3. KeptSound(k)'
  <2>1. SUFFICES ASSUME KeptDone(k)
                 PROVE  Sound(input'[k].result, effects'[input'[k].reg])
    BY <1>1 DEF KeptSound
  <2>2. input[k].reg \in Regs /\ KeyOf[input[k].reg] = k
    BY <2>1 DEF RequestOK, InputFits, KeptDone
  <2>3. QED
    BY <2>1, <2>2 DEF JobSound, KeptSound, SavedStays
<1>4. ASSUME NEW p \in Procs, task'[p][k] # None
      PROVE  HolderSound(p, k)'
  <2>1. CASE task'[p][k] = task[p][k]
    <3>1. PICK j \in Regs : j = task[p][k].job /\ KeyOf[j] = k
      BY <1>4, <2>1, Current DEF TypeInv, TaskOK, Task
    <3>2. HolderSound(p, k)
      BY <1>4, <2>1 DEF JobSound
    <3>a. effects'[j] = effects[j]
      BY <3>1 DEF SavedStays
    <3>3. Owns(p, j)' <=> Owns(p, j)
      BY <3>1, LeaseStays
    <3>4. QED
      BY <2>1, <3>1, <3>2, <3>a, <3>3 DEF HolderSound
  <2>2. ASSUME NEW i \in Regs, task'[p][k] = NewTask(i)
        PROVE  HolderSound(p, k)'
    BY <2>2, NewSound DEF HolderSound
  <2>3. QED
    BY <1>4, <2>1, <2>2
<1>5. QED
  BY <1>2, <1>3, <1>4 DEF JobSound

-----------------------------------------------------------------------------
(* A worker's step, for its own request *)

\* What is left to show
LEMMA WorkSound ==
  ASSUME TypeInv, OneController, NEW p \in Procs, NEW k \in Keys,
         task[p][k] # None, Moves(p, k),
         \A j \in Regs : KeyOf[j] = k => SavedSound(k, j)',
         KeptSound(k)',
         task'[p][k] # None => HolderSound(p, k)'
  PROVE  JobSound(k)'
<1>1. ASSUME NEW q \in Procs, task'[q][k] # None
      PROVE  HolderSound(q, k)'
  BY <1>1, OthersIdle DEF Moves
<1>2. QED
  BY <1>1 DEF JobSound

\* Whether a failure is untold is the worker's alone to say.
LEMMA UntoldNow ==
  ASSUME OneController, NEW p \in Procs, NEW k \in Keys, task[p][k] # None
  PROVE  UntoldOf(k) <=> Untold(task[p][k])
BY OthersIdle DEF UntoldOf

\* A thread that holds the lease works from the progress saved in it.
LEMMA HolderSaved ==
  ASSUME ProgressIsOwners, NEW p \in Procs, NEW k \in Keys, JobSound(k),
         task[p][k] # None, task[p][k].pc \in Holding
  PROVE  Saved(task[p][k].job) = task[p][k].done
BY FenceNow DEF JobSound, HolderSound, Saved, Owns

\* The job in hand is the only open one of its request.
LEMMA OnlyOpen ==
  ASSUME NEW k \in Keys, RequestOK(k), NEW j \in Regs, HeldBy(k, j),
         NEW q \in Regs, KeyOf[q] = k, q # j
  PROVE  ~Unfinished(q)
BY DEF RequestOK, RegOK, HeldBy

\* A thread that picks the job up, or drops it, leaves the saved progress as it is.
LEMMA PickSound ==
  ASSUME TypeInv, OneController, NEW p \in Procs, NEW k \in Keys,
         RequestOK(k), JobSound(k), task[p][k] # None, task[p][k].pc \notin {"end", "keep"},
         NEW u, Become(p, k, u), NEW j \in Regs, j = task[p][k].job,
         UNCHANGED <<input, rows, effects, reg>>,
         \A q \in Regs : q # j => lease'[q] = lease[q],
         Saved(j)' = Saved(j),
         u # None => /\ u.job = j /\ TaskSound(u, effects[j])
                     /\ u.pc \in Holding => Owns(p, j)'
  PROVE  JobSound(k)'
<1>1. Moves(p, k) /\ task'[p][k] = u
  BY Moved
<1>2. /\ KeptDone(k)' <=> KeptDone(k)
      /\ RegsStay(k) /\ ~UntoldOf(k)
  BY RegsSame, UntoldNow DEF KeptDone, Untold
<1>3. ASSUME NEW q \in Regs, KeyOf[q] = k
      PROVE  SavedSound(k, q)'
  <2>1. SavedSound(k, q) /\ reg[j] = "accepted"
    BY <1>3 DEF JobSound, RequestOK, TaskFits
  <2>2. Saved(q)' = Saved(q) /\ (q # j => lease'[q] = lease[q])
    BY DEF Saved
  <2>3. QED
    BY <1>2, <1>3, <2>1, <2>2 DEF SavedSound, RegsStay
<1>4. KeptSound(k)'
  BY <1>2 DEF JobSound, KeptSound
<1>5. ASSUME u # None
      PROVE  HolderSound(p, k)'
  BY <1>1, <1>5 DEF HolderSound
<1>6. QED
  BY <1>1, <1>3, <1>4, <1>5, WorkSound

\* While the job executes, what is saved and what is there are its own.
LEMMA StepSound ==
  ASSUME TypeInv, OneController, NEW p \in Procs, NEW k \in Keys,
         RequestOK(k), JobSound(k), task[p][k] # None, task[p][k].pc \in Executing,
         NEW u, u # None, Become(p, k, u), NEW j \in Regs, j = task[p][k].job, u.job = j,
         UNCHANGED <<rows, reg>>, ~KeptDone(k)',
         \A q \in Regs : q # j => lease'[q] = lease[q],
         lease'[j] = None <=> lease[j] = None,
         Owns(p, j) => Owns(p, j)',
         Durable(Saved(j)'),
         Untold(u) \/ Mend(1, Saved(j)', effects'[j]),
         TaskSound(u, effects'[j]),
         u.pc \in Holding => task[p][k].pc \in Holding
  PROVE  JobSound(k)'
<1>1. Moves(p, k) /\ task'[p][k] = u
  BY Moved
<1>2. HeldBy(k, j)
  BY DEF RequestOK, TaskFits
<1>3. ASSUME NEW q \in Regs, KeyOf[q] = k
      PROVE  SavedSound(k, q)'
  <2>1. SavedSound(k, q) /\ reg'[q] = reg[q] /\ (Unfinished(q)' <=> Unfinished(q))
    BY <1>3, RegsSame DEF JobSound, RegsStay
  <2>2. CASE q # j
    <3>1. ~Unfinished(q)' /\ Saved(q)' = Saved(q)
      BY <1>2, <1>3, <2>1, <2>2, OnlyOpen DEF Saved
    <3>2. QED
      BY <2>1, <2>2, <3>1 DEF SavedSound
  <2>3. CASE q = j
    <3>1. Untold(u) => UntoldOf(k)'
      BY <1>1 DEF UntoldOf, Untold
    <3>2. QED
      BY <2>1, <2>3, <3>1 DEF SavedSound
  <2>4. QED
    BY <2>2, <2>3
<1>4. KeptSound(k)'
  BY DEF KeptSound
<1>5. HolderSound(p, k)'
  BY <1>1 DEF JobSound, HolderSound
<1>6. QED
  BY <1>1, <1>3, <1>4, <1>5, WorkSound

\* The claim of the lease, and the load of the input
LEMMA ClaimSound ==
  ASSUME TypeInv, OneController, NEW p \in Procs, NEW k \in Keys,
         RequestOK(k), JobSound(k),
         ClaimRead(p, k) \/ ClaimInsert(p, k) \/ ClaimCas(p, k)
  PROVE  JobSound(k)'
<1> DEFINE t == task[p][k]
<1>1. /\ t # None /\ t \in Task /\ t.pc \in Claiming
      /\ t.job \in Regs /\ t.at = 1
  BY Current DEF ClaimRead, ClaimInsert, ClaimCas, At, Claiming, Task, TypeInv, JobSound,
                 HolderSound, TaskSound, Starting
<1>2. PICK j \in Regs : j = t.job
  BY <1>1
<1>3. ASSUME NEW u, u.at = 1, u.pc \in Starting
      PROVE  TaskSound(u, effects[j])
  BY <1>3 DEF TaskSound, Starting
<1>4. UNCHANGED <<input, rows, effects, reg>>
  BY DEF ClaimRead, ClaimInsert, ClaimCas, stores
<1>5. CASE lease' = lease /\ Become(p, k, None)
  <2>1. Saved(j)' = Saved(j)
    BY <1>5 DEF Saved
  <2>2. QED
    BY <1>1, <1>2, <1>4, <1>5, <2>1, PickSound DEF Claiming
<1>6. CASE ClaimRead(p, k) /\ ~Become(p, k, None)
  <2>1. lease' = lease
    BY <1>6 DEF ClaimRead, stores
  <2>2. PICK u \in {[t EXCEPT !.pc = "insert"],
                    [t EXCEPT !.pc = "cas", !.seen = lease[t.job].owner]} :
          Become(p, k, u)
    BY <1>6 DEF ClaimRead, Goto, Return
  <2>3. u.job = j /\ u.at = 1 /\ u.pc \in Starting /\ u.pc \notin Holding
    BY <1>1, <1>2, <2>2 DEF Task, Starting, Holding
  <2>4. Saved(j)' = Saved(j)
    BY <2>1 DEF Saved
  <2>5. QED
    BY <1>1, <1>2, <1>3, <1>4, <2>1, <2>2, <2>3, <2>4, PickSound DEF Claiming
<1>7. CASE ClaimInsert(p, k) /\ lease[j] = None
  <2> DEFINE l == [owner |-> p, live |-> TRUE, done |-> {}]
             u == [t EXCEPT !.pc = "load"]
  <2>1. Become(p, k, u) /\ lease' = [lease EXCEPT ![j] = l]
    BY <1>2, <1>7 DEF ClaimInsert, Goto
  <2>2. l \in Lease
    BY DEF Lease
  <2>3. lease'[j] = l /\ l # None /\ \A q \in Regs : q # j => lease'[q] = lease[q]
    BY <2>1, <2>2, NoneOK DEF TypeInv, StoresOK
  <2>4. Saved(j)' = Saved(j) /\ Owns(p, j)'
    BY <1>7, <2>3 DEF Saved, Owns
  <2>5. u.job = j /\ u.at = 1 /\ u.pc \in Starting
    BY <1>1, <1>2 DEF Task, Starting
  <2>6. QED
    BY <1>1, <1>2, <1>3, <1>4, <2>1, <2>3, <2>4, <2>5, PickSound DEF Claiming
<1>8. CASE ClaimCas(p, k) /\ CasMatches(p, j, t.seen)
  <2> DEFINE l == [lease[j] EXCEPT !.owner = p, !.live = TRUE]
             u == [t EXCEPT !.pc = "load", !.seen = None, !.done = lease[t.job].done]
  <2>1. Become(p, k, u) /\ lease' = [lease EXCEPT ![j].owner = p, ![j].live = TRUE]
    BY <1>2, <1>8 DEF ClaimCas
  <2>2. lease[j] # None /\ lease[j] \in Lease
    BY <1>8 DEF CasMatches, TypeInv, StoresOK
  <2>3. l \in Lease /\ l.owner = p /\ l.done = lease[j].done
    BY <2>2 DEF Lease
  <2>4. lease'[j] = l /\ l # None /\ \A q \in Regs : q # j => lease'[q] = lease[q]
    BY <2>1, <2>2, <2>3, NoneOK DEF TypeInv, StoresOK, Lease
  <2>5. Saved(j)' = Saved(j) /\ Owns(p, j)'
    BY <2>2, <2>3, <2>4 DEF Saved, Owns
  <2>6. u.job = j /\ u.at = 1 /\ u.pc \in Starting
    BY <1>1, <1>2 DEF Task, Starting
  <2>7. QED
    BY <1>1, <1>2, <1>3, <1>4, <2>1, <2>4, <2>5, <2>6, PickSound DEF Claiming
<1>9. QED
  BY <1>2, <1>5, <1>6, <1>7, <1>8 DEF ClaimRead, ClaimInsert, ClaimCas, Return, stores

LEMMA LoadSound ==
  ASSUME TypeInv, OneController, NEW p \in Procs, NEW k \in Keys,
         RequestOK(k), JobSound(k), LoadInput(p, k) \/ LookupEnd(p, k)
  PROVE  JobSound(k)'
<1> DEFINE t == task[p][k]
<1>1. /\ t # None /\ t \in Task /\ t.pc \in {"load", "lookup"} /\ TaskFits(k, t)
      /\ t.job \in Regs /\ t.at = 1
  BY Current DEF LoadInput, LookupEnd, At, Task, TypeInv, JobSound, RequestOK,
                 HolderSound, TaskSound, Starting
<1>2. PICK j \in Regs : j = t.job
  BY <1>1
<1>3. Owns(p, j)
  BY <1>1, <1>2 DEF JobSound, HolderSound, Holding
<1>4. UNCHANGED <<input, rows, lease, effects, reg>>
  BY DEF LoadInput, LookupEnd, stores
<1>5. Saved(j)' = Saved(j) /\ Owns(p, j)'
  BY <1>3, <1>4 DEF Saved, Owns
<1>6. \E u : /\ Become(p, k, u)
             /\ u # None => u.job = j /\ TaskSound(u, effects[j])
  <2>1. CASE Become(p, k, None)
    BY <2>1
  <2>2. ASSUME NEW pc \in {"lookup", "release"}, Goto(p, k, pc)
        PROVE  \E u : Become(p, k, u) /\ u.job = j /\ TaskSound(u, effects[j])
    <3>1. [t EXCEPT !.pc = pc].job = j /\ TaskSound([t EXCEPT !.pc = pc], effects[j])
      BY <1>1, <1>2 DEF Task, TaskSound, Starting
    <3>2. QED
      BY <2>2, <3>1 DEF Goto
  <2>3. CASE Become(p, k, [t EXCEPT !.pc = "mark", !.reg = input[k].reg])
    <3> DEFINE u == [t EXCEPT !.pc = "mark", !.reg = input[k].reg]
    <3>1. u.job = j /\ TaskSound(u, effects[j])
      BY <1>1, <1>2 DEF Task, TaskSound, Starting
    <3>2. QED
      BY <2>3, <3>1
  <2>4. CASE /\ input[k] # None /\ input[k].state = "done" /\ t.pc = "load"
             /\ Become(p, k, [t EXCEPT !.pc = "end", !.reg = input[k].reg,
                                       !.out = input[k].result])
    <3> DEFINE u == [t EXCEPT !.pc = "end", !.reg = input[k].reg, !.out = input[k].result]
    <3>1. Sound(input[k].result, effects[j])
      BY <1>1, <1>2, <2>4 DEF TaskFits, Picked, HeldBy, KeptDone, JobSound, KeptSound
    <3>2. u.job = j /\ u.pc = "end" /\ u.out = input[k].result
      BY <1>1, <1>2 DEF Task
    <3>3. TaskSound(u, effects[j])
      BY <3>1, <3>2 DEF TaskSound, Starting
    <3>4. QED
      BY <2>4, <3>2, <3>3
  <2>5. CASE Become(p, k, [t EXCEPT !.pc = "end", !.out = "MISSING"])
    <3> DEFINE u == [t EXCEPT !.pc = "end", !.out = "MISSING"]
    <3>1. u.job = j /\ u.pc = "end" /\ u.out = "MISSING"
      BY <1>1, <1>2 DEF Task
    <3>2. TaskSound(u, effects[j])
      BY <3>1 DEF TaskSound, Starting, Sound
    <3>3. QED
      BY <2>5, <3>1, <3>2
  <2>6. QED
    BY <2>1, <2>2, <2>3, <2>4, <2>5 DEF LoadInput, LookupEnd, Return, At
<1>7. QED
  BY <1>1, <1>2, <1>4, <1>5, <1>6, PickSound

\* What the worker has in hand while it executes
LEMMA InHand ==
  ASSUME TypeInv, ProgressIsOwners, NEW p \in Procs, NEW k \in Keys,
         RequestOK(k), JobSound(k), task[p][k] # None, task[p][k].pc \in Executing
  PROVE  LET t == task[p][k]
         IN /\ t \in Task /\ t.job \in Regs /\ KeyOf[t.job] = k /\ t.reg = t.job
            /\ effects[t.job] \in SUBSET Steps
            /\ TaskSound(t, effects[t.job]) /\ ~KeptDone(k) /\ HeldBy(k, t.job)
            /\ Unfinished(t.job) /\ Durable(Saved(t.job))
            /\ t.pc \in Holding => Saved(t.job) = t.done /\ Owns(p, t.job)
<1>1. /\ task[p][k] \in Task /\ task[p][k].job \in Regs /\ KeyOf[task[p][k].job] = k
      /\ TaskFits(k, task[p][k])
  BY Current DEF TypeInv, TaskOK, Task, RequestOK
<1>2. HolderSound(p, k) /\ SavedSound(k, task[p][k].job)
  BY <1>1 DEF JobSound
<1>3. task[p][k].pc \in Holding => Saved(task[p][k].job) = task[p][k].done
  BY HolderSaved
<1>4. QED
  BY <1>1, <1>2, <1>3 DEF TypeInv, StoresOK, HolderSound, SavedSound, TaskFits

\* mark_job_running leads into the loop with what was saved.
LEMMA MarkSound ==
  ASSUME TypeInv, ProgressIsOwners, OneController, NEW p \in Procs, NEW k \in Keys,
         RequestOK(k), JobSound(k), MarkRead(p, k) \/ MarkRunning(p, k)
  PROVE  JobSound(k)'
<1> DEFINE t == task[p][k]
<1>1. t # None /\ t.pc \in {"mark", "markset"}
  BY DEF MarkRead, MarkRunning, At
<1>2. t.pc \in Executing /\ t.pc \in Holding
  BY <1>1 DEF Executing, Holding
<1>3. PICK j \in Regs : j = t.job
  BY <1>1, <1>2, InHand
<1>4. /\ t \in Task /\ KeyOf[j] = k /\ TaskSound(t, effects[j]) /\ ~KeptDone(k)
      /\ HeldBy(k, j) /\ Unfinished(j) /\ Durable(t.done) /\ Saved(j) = t.done
      /\ Owns(p, j) /\ t.at = 1
  BY <1>1, <1>2, <1>3, InHand DEF TaskSound, Starting
<1>5. Mend(1, t.done, effects[j])
  <2>1. ~UntoldOf(k)
    BY <1>1, UntoldNow DEF Untold
  <2>2. QED
    BY <1>4, <2>1 DEF JobSound, SavedSound
<1>6. Passed(1, t.done, effects[j])
  <2>1. \A d \in Steps : ~(d < 1)
    BY ConstantsOK DEF Steps
  <2>2. QED
    BY <2>1 DEF Passed
<1>7. UNCHANGED <<rows, lease, effects, reg>>
  BY DEF MarkRead, MarkRunning, stores
<1>8. Saved(j)' = t.done /\ effects'[j] = effects[j] /\ (Owns(p, j) => Owns(p, j)')
  BY <1>4, <1>7 DEF Saved, Owns
<1>9. ~KeptDone(k)'
  <2>1. CASE MarkRead(p, k)
    BY <1>4, <2>1 DEF MarkRead, stores, KeptDone
  <2>2. CASE MarkRunning(p, k)
    <3>1. input'[k].state = "running"
      BY <2>2 DEF MarkRunning, TypeInv, StoresOK, InputOK
    <3>2. QED
      BY <3>1 DEF KeptDone
  <2>3. QED
    BY <2>1, <2>2
<1>10. \E u : /\ Become(p, k, u) /\ u # None /\ u.job = j
              /\ TaskSound(u, effects[j])
  <2>1. ASSUME NEW u \in {[t EXCEPT !.pc = "run"], [t EXCEPT !.pc = "run", !.seen = None]},
               Become(p, k, u)
        PROVE  /\ Become(p, k, u) /\ u # None /\ u.job = j
               /\ TaskSound(u, effects[j])
    <3>1. u \in Task /\ u.job = j /\ u.pc = "run" /\ u.done = t.done /\ u.at = 1
      BY <1>3, <1>4, <2>1 DEF Task, TaskPCs
    <3>2. TaskSound(u, effects[j])
      BY <1>5, <1>6, <3>1 DEF TaskSound, Starting
    <3>3. QED
      BY <2>1, <3>1, <3>2, NoneOK
  <2>2. ASSUME NEW q \in Regs,
               Become(p, k, [t EXCEPT !.pc = "markset", !.seen = q])
        PROVE  \E u : /\ Become(p, k, u) /\ u # None /\ u.job = j
                      /\ TaskSound(u, effects[j])
    <3> DEFINE u == [t EXCEPT !.pc = "markset", !.seen = q]
    <3>1. u \in Task /\ u.job = j /\ u.pc = "markset" /\ u.at = 1
      BY <1>3, <1>4 DEF Task, TaskPCs
    <3>2. TaskSound(u, effects[j])
      BY <3>1 DEF TaskSound, Starting
    <3>3. QED
      BY <2>2, <3>1, <3>2, NoneOK
  <2>3. CASE MarkRead(p, k)
    <3>1. input[k] # None /\ input[k].reg = j
      BY <1>4 DEF HeldBy
    <3>2. Become(p, k, [t EXCEPT !.pc = "markset", !.seen = j])
      BY <2>3, <3>1 DEF MarkRead
    <3>3. QED
      BY <2>2, <3>2
  <2>4. CASE MarkRunning(p, k)
    BY <2>1, <2>4 DEF MarkRunning
  <2>5. QED
    BY <2>3, <2>4
<1>11. QED
  BY <1>1, <1>2, <1>3, <1>4, <1>5, <1>7, <1>8, <1>9, <1>10, StepSound

\* A step of the loop changes the effects and the thread, no other store.
LEMMA LoopSound ==
  ASSUME TypeInv, ProgressIsOwners, OneController, NEW p \in Procs, NEW k \in Keys,
         RequestOK(k), JobSound(k), task[p][k] # None,
         task[p][k].pc \in {"run", "compensate"},
         UNCHANGED <<input, rows, lease, reg>>,
         NEW u \in Task, Become(p, k, u), u.job = task[p][k].job,
         Untold(u) \/ Mend(1, Saved(task[p][k].job), effects'[task[p][k].job]),
         TaskSound(u, effects'[task[p][k].job]),
         u.pc \in Holding => task[p][k].pc = "run"
  PROVE  JobSound(k)'
<1>1. task[p][k].pc \in Executing /\ (task[p][k].pc = "run" => task[p][k].pc \in Holding)
  BY DEF Executing, Holding
<1>2. PICK j \in Regs : j = task[p][k].job
  BY <1>1, InHand
<1>3. /\ ~KeptDone(k) /\ Durable(Saved(j))
  BY <1>1, <1>2, InHand
<1>4. /\ ~KeptDone(k)' /\ Saved(j)' = Saved(j) /\ (Owns(p, j) => Owns(p, j)')
  BY <1>3 DEF KeptDone, Saved, Owns
<1>5. u # None
  BY NoneOK
<1>6. QED
  BY <1>1, <1>2, <1>3, <1>4, <1>5, StepSound

LEMMA SucceedSound ==
  ASSUME TypeInv, ProgressIsOwners, OneController, NEW p \in Procs, NEW k \in Keys,
         RequestOK(k), JobSound(k), StepSucceeds(p, k)
  PROVE  JobSound(k)'
<1> DEFINE t == task[p][k]
<1>1. t # None /\ t.pc = "run" /\ t.pc \in Executing /\ t.pc \in Holding
  BY DEF StepSucceeds, At, Executing, Holding
<1>2. PICK j \in Regs : j = t.job
  BY <1>1, InHand
<1>3. /\ t \in Task /\ t.reg = j /\ effects[j] \in SUBSET Steps
      /\ Saved(j) = t.done /\ Durable(t.done)
      /\ Passed(t.at, t.done, effects[j]) /\ Mend(t.at, t.done, effects[j])
  BY <1>1, <1>2, InHand DEF TaskSound
<1>4. PICK s \in Steps :
        /\ IsNext(t, s) /\ Needs[s] \subseteq effects[j]
        /\ effects' = [effects EXCEPT ![j] = @ \cup {s}]
        /\ Become(p, k, IF Volatile(s)
               THEN [t EXCEPT !.at = s + 1, !.mem = @ \cup {s}]
               ELSE [t EXCEPT !.pc = "record", !.at = s, !.mem = @ \cup {s}])
  BY <1>3 DEF StepSucceeds, CanRun
<1>5. effects'[j] = effects[j] \cup {s}
  BY <1>4 DEF TypeInv, StoresOK
<1>6. Mend(s + 1, t.done, effects'[j])
  <2>1. PICK E : E = effects[j]
    OBVIOUS
  <2>2. Mend(s + 1, t.done, E \cup {s})
    BY <1>3, <1>4, <2>1, MendSucceeds
  <2>3. QED
    BY <1>5, <2>1, <2>2
<1>7. s \in Nat /\ s + 1 \in Nat /\ 1 \in Nat /\ 1 <= s + 1
      /\ s \in 1..(NSteps + 1) /\ s + 1 \in 1..(NSteps + 1)
  BY ConstantsOK DEF Steps
<1>8. Mend(1, t.done, effects'[j])
  BY <1>6, <1>7, MendEarlier
<1>9. Passed(s, t.done, effects'[j])
  <2>1. Passed(s, t.done, effects[j])
    BY <1>3, <1>4, PassedTo
  <2>2. QED
    BY <1>5, <2>1 DEF Passed
<1>10. UNCHANGED <<input, rows, lease, reg>>
  BY DEF StepSucceeds
<1>11. CASE Volatile(s)
  <2> DEFINE u == [t EXCEPT !.at = s + 1, !.mem = @ \cup {s}]
  <2>1. /\ u \in Task /\ u.job = j /\ u.pc = "run" /\ u.done = t.done /\ u.at = s + 1
    BY <1>1, <1>2, <1>3, <1>7 DEF Task
  <2>2. Passed(s + 1, t.done, effects'[j])
    <3>1. \A d \in Steps : d < s + 1 => d < s \/ d = s
      BY <1>7, ConstantsOK DEF Steps
    <3>2. QED
      BY <1>5, <1>9, <1>11, <3>1 DEF Passed
  <2>3. TaskSound(u, effects'[j])
    BY <1>6, <2>1, <2>2 DEF TaskSound, Starting
  <2>4. Become(p, k, u)
    BY <1>4, <1>11
  <2>5. QED
    BY <1>1, <1>2, <1>3, <1>8, <1>10, <2>1, <2>3, <2>4, LoopSound
<1>12. CASE ~Volatile(s)
  <2> DEFINE u == [t EXCEPT !.pc = "record", !.at = s, !.mem = @ \cup {s}]
  <2>1. /\ u \in Task /\ u.job = j /\ u.pc = "record" /\ u.done = t.done /\ u.at = s
    BY <1>1, <1>2, <1>3, <1>7 DEF Task, TaskPCs
  <2>2. TaskSound(u, effects'[j])
    BY <1>5, <1>6, <1>9, <1>12, <2>1 DEF TaskSound, Starting
  <2>3. Become(p, k, u)
    BY <1>4, <1>12
  <2>4. QED
    BY <1>1, <1>2, <1>3, <1>8, <1>10, <2>1, <2>2, <2>3, LoopSound
<1>13. QED
  BY <1>11, <1>12

LEMMA CleanedUp ==
  ASSUME Intact, TypeInv, NEW r \in Regs, NEW s \in Steps, CleansUp(r, s)
  PROVE  effects'[r] = effects[r] \ Remade(s)
BY DEF Intact, CleansUp, Fault, Remade, TypeInv, StoresOK

\* A failure, and a rewind, take back what was made and leave the saved progress.
LEMMA FailSound ==
  ASSUME Intact, MendTables, TypeInv, ProgressIsOwners, OneController,
         NEW p \in Procs, NEW k \in Keys, RequestOK(k), JobSound(k),
         StepFails(p, k) \/ StepRewinds(p, k)
  PROVE  JobSound(k)'
<1> DEFINE t == task[p][k]
<1>1. t # None /\ t.pc = "run" /\ t.pc \in Executing /\ t.pc \in Holding
  BY DEF StepFails, StepRewinds, At, Executing, Holding
<1>2. PICK j \in Regs : j = t.job
  BY <1>1, InHand
<1>3. PICK E : E = effects[j]
  OBVIOUS
<1>4. /\ t \in Task /\ t.reg = j
      /\ Saved(j) = t.done /\ Durable(t.done)
      /\ Passed(t.at, t.done, E) /\ Mend(t.at, t.done, E)
  BY <1>1, <1>2, <1>3, InHand DEF TaskSound
<1>5. UNCHANGED <<input, rows, lease, reg>>
  BY DEF StepFails, StepRewinds
<1>6. ASSUME NEW s \in Steps, IsNext(t, s), CleansUp(j, s)
      PROVE  effects'[j] = E \ Remade(s) /\ Mend(1, t.done, effects'[j])
  <2>1. effects'[j] = E \ Remade(s)
    BY <1>3, <1>6, CleanedUp
  <2>2. Mend(1, t.done, E \ Remade(s))
    BY <1>4, <1>6, MendFails
  <2>3. QED
    BY <2>1, <2>2
<1>7. CASE StepFails(p, k)
  <2> DEFINE u == [t EXCEPT !.pc = "compensate", !.out = "FAIL"]
  <2>1. PICK s \in Steps : IsNext(t, s) /\ CleansUp(j, s) /\ Become(p, k, u)
    BY <1>4, <1>7 DEF StepFails, CanRun
  <2>2. /\ u \in Task /\ u.job = j /\ u.pc = "compensate" /\ u.done = t.done
        /\ u.out = "FAIL"
    BY <1>2, <1>4 DEF Task, TaskPCs, Verdicts
  <2>3. NoAccount(t.done, E \ Remade(s))
    BY <1>4, <2>1, AccountGone
  <2>4. TaskSound(u, effects'[j]) /\ Mend(1, t.done, effects'[j])
    BY <1>6, <2>1, <2>2, <2>3 DEF TaskSound, Starting
  <2>5. QED
    BY <1>1, <1>2, <1>4, <1>5, <2>1, <2>2, <2>4, LoopSound
<1>8. CASE StepRewinds(p, k)
  <2>1. PICK s \in Steps :
          /\ IsNext(t, s) /\ RewindTo[s] # 0 /\ CleansUp(j, s)
          /\ Become(p, k,
               IF t.rewinds < MaxRewinds
               THEN [t EXCEPT !.pc = "rewound", !.at = RewindTo[s], !.rewinds = @ + 1]
               ELSE [t EXCEPT !.pc = "end", !.out = "DEGRADED"])
    BY <1>4, <1>8 DEF StepRewinds, CanRun
  <2>2. effects'[j] = E \ Remade(s) /\ Mend(1, t.done, effects'[j])
    BY <1>6, <2>1
  <2>3. CASE t.rewinds < MaxRewinds
    <3> DEFINE u == [t EXCEPT !.pc = "rewound", !.at = RewindTo[s], !.rewinds = @ + 1]
    <3>1. RewindTo[s] \in 1..(NSteps + 1) /\ t.rewinds + 1 \in 0..MaxRewinds
      <4>1. t.rewinds \in 0..MaxRewinds
        BY <1>4 DEF Task
      <4>2. t.rewinds + 1 \in 0..MaxRewinds
        BY <2>3, <4>1, ConstantsOK
      <4>3. RewindTo[s] \in 1..(NSteps + 1)
        BY <2>1, ConstantsOK DEF Steps
      <4>4. QED
        BY <4>2, <4>3
    <3>2. /\ u \in Task /\ u.job = j /\ u.pc = "rewound" /\ u.done = t.done
          /\ u.at = RewindTo[s]
      BY <1>2, <1>4, <3>1 DEF Task, TaskPCs
    <3>3. PICK D : D = {x \in t.done : x < RewindTo[s]}
      OBVIOUS
    <3>4. NewDone(u) = D
      BY <3>2, <3>3 DEF NewDone
    <3>5. Passed(RewindTo[s], D, E \ Remade(s)) /\ Mend(RewindTo[s], D, E \ Remade(s))
      BY <1>4, <2>1, <3>3, MendRewinds
    <3>6. NoAccount(D, E \ Remade(s))
      BY <1>4, <2>1, <3>3, AccountGone
    <3>7. TaskSound(u, effects'[j])
      BY <2>2, <3>2, <3>4, <3>5, <3>6 DEF TaskSound, Starting
    <3>8. QED
      BY <1>1, <1>2, <1>4, <1>5, <2>1, <2>2, <2>3, <3>2, <3>7, LoopSound
  <2>4. CASE ~(t.rewinds < MaxRewinds)
    <3> DEFINE u == [t EXCEPT !.pc = "end", !.out = "DEGRADED"]
    <3>1. u \in Task /\ u.job = j /\ u.pc = "end" /\ u.out = "DEGRADED"
      BY <1>2, <1>4 DEF Task, TaskPCs, Verdicts
    <3>2. TaskSound(u, effects'[j])
      BY <3>1 DEF TaskSound, Starting, Sound
    <3>3. QED
      BY <1>1, <1>2, <1>4, <1>5, <2>1, <2>2, <2>4, <3>1, <3>2, LoopSound DEF Holding
  <2>5. QED
    BY <2>3, <2>4
<1>9. QED
  BY <1>7, <1>8

\* A step whose result cannot be told may have had its effect.
LEMMA DegradeSound ==
  ASSUME TypeInv, ProgressIsOwners, OneController, NEW p \in Procs, NEW k \in Keys,
         RequestOK(k), JobSound(k), StepDegrades(p, k)
  PROVE  JobSound(k)'
<1> DEFINE t == task[p][k]
           u == [t EXCEPT !.pc = "end", !.out = "DEGRADED"]
<1>1. t # None /\ t.pc = "run" /\ t.pc \in Executing /\ t.pc \in Holding
  BY DEF StepDegrades, At, Executing, Holding
<1>2. PICK j \in Regs : j = t.job
  BY <1>1, InHand
<1>3. PICK E : E = effects[j]
  OBVIOUS
<1>4. /\ t \in Task /\ t.reg = j
      /\ Saved(j) = t.done /\ Durable(t.done) /\ Mend(t.at, t.done, E)
  BY <1>1, <1>2, <1>3, InHand DEF TaskSound
<1>5. Become(p, k, u) /\ UNCHANGED <<input, rows, lease, reg>>
  BY DEF StepDegrades
<1>6. u \in Task /\ u.job = j /\ u.pc = "end" /\ u.out = "DEGRADED"
  BY <1>2, <1>4 DEF Task, TaskPCs, Verdicts
<1>7. TaskSound(u, effects'[j])
  BY <1>6 DEF TaskSound, Starting, Sound
<1>8. t.at \in Nat /\ 1 \in Nat /\ 1 <= t.at
  BY <1>4, ConstantsOK DEF Task
<1>9. Mend(1, t.done, effects'[j])
  <2>1. PICK s \in Steps :
          /\ IsNext(t, s)
          /\ \/ effects' = effects
             \/ /\ Needs[s] \subseteq E
                /\ effects' = [effects EXCEPT ![j] = @ \cup {s}]
    BY <1>3, <1>4 DEF StepDegrades
  <2>2. CASE effects' = effects
    BY <1>3, <1>4, <1>8, <2>2, MendEarlier
  <2>3. CASE Needs[s] \subseteq E /\ effects' = [effects EXCEPT ![j] = @ \cup {s}]
    <3>1. effects'[j] = E \cup {s}
      BY <1>3, <2>3 DEF TypeInv, StoresOK
    <3>2. Mend(s + 1, t.done, E \cup {s})
      BY <1>4, <2>1, <2>3, MendSucceeds
    <3>3. s + 1 \in Nat /\ 1 <= s + 1
      BY ConstantsOK DEF Steps
    <3>4. QED
      BY <1>8, <3>1, <3>2, <3>3, MendEarlier
  <2>4. QED
    BY <2>1, <2>2, <2>3
<1>10. QED
  BY <1>1, <1>2, <1>4, <1>5, <1>6, <1>7, <1>9, LoopSound DEF Holding

LEMMA DoneSound ==
  ASSUME TypeInv, ProgressIsOwners, OneController, NEW p \in Procs, NEW k \in Keys,
         RequestOK(k), JobSound(k), StepsDone(p, k)
  PROVE  JobSound(k)'
<1> DEFINE t == task[p][k]
           u == [t EXCEPT !.pc = "end", !.out = "SUCCESS"]
<1>1. t # None /\ t.pc = "run" /\ t.pc \in Executing /\ t.pc \in Holding
  BY DEF StepsDone, At, Executing, Holding
<1>2. PICK j \in Regs : j = t.job
  BY <1>1, InHand
<1>3. PICK E \in SUBSET Steps : E = effects[j]
  BY <1>1, <1>2, InHand
<1>4. /\ t \in Task /\ Saved(j) = t.done
      /\ Passed(t.at, t.done, E) /\ Mend(t.at, t.done, E)
  BY <1>1, <1>2, <1>3, InHand DEF TaskSound
<1>5. /\ Become(p, k, u) /\ UNCHANGED <<input, rows, lease, reg, effects>>
      /\ Upcoming(t) = {}
  BY DEF StepsDone, stores
<1>6. u \in Task /\ u.job = j /\ u.pc = "end" /\ u.out = "SUCCESS"
  BY <1>2, <1>4 DEF Task, TaskPCs, Verdicts
<1>7. E = Steps
  BY <1>4, <1>5, AllDone
<1>8. TaskSound(u, effects'[j])
  BY <1>3, <1>5, <1>6, <1>7 DEF TaskSound, Starting, Sound
<1>9. Mend(1, t.done, effects'[j])
  BY <1>3, <1>5, <1>7 DEF Mend
<1>10. QED
  BY <1>1, <1>2, <1>4, <1>5, <1>6, <1>8, <1>9, LoopSound DEF Holding

\* The account goes if this job made it, and the verdict is not written yet; or
\* it is not there.
LEMMA CompensateSound ==
  ASSUME TypeInv, ProgressIsOwners, OneController, NEW p \in Procs, NEW k \in Keys,
         RequestOK(k), JobSound(k), Compensate(p, k)
  PROVE  JobSound(k)'
<1> DEFINE t == task[p][k]
           made == CompensateAt \in t.done
<1>1. t # None /\ t.pc = "compensate" /\ t.pc \in Executing
  BY DEF Compensate, At, Executing
<1>2. PICK j \in Regs : j = t.job
  BY <1>1, InHand
<1>3. PICK E : E = effects[j]
  OBVIOUS
<1>4. /\ t \in Task /\ t.reg = j /\ t.out = "FAIL" /\ NoAccount(t.done, E)
      /\ KeyOf[j] = k /\ Unfinished(j) /\ ~KeptDone(k)
  BY <1>1, <1>2, <1>3, InHand DEF TaskSound
<1>5. UNCHANGED <<input, rows, lease, reg>>
  BY DEF Compensate
<1>6. ~UntoldOf(k)
  BY <1>1, UntoldNow DEF Untold
<1>7. Mend(1, Saved(j), E)
  BY <1>3, <1>4, <1>6 DEF JobSound, SavedSound
<1>8. ASSUME NEW v \in {"FAIL", "HELD"}, Become(p, k, [t EXCEPT !.pc = "end", !.out = v]),
             v = "FAIL" => Sound(v, effects'[j]),
             made \/ effects' = effects
      PROVE  JobSound(k)'
  <2> DEFINE u == [t EXCEPT !.pc = "end", !.out = v]
  <2>a. "end" \in TaskPCs /\ v \in Verdicts
    BY DEF TaskPCs, Verdicts
  <2>1. u \in Task /\ u.job = j /\ u.pc = "end" /\ u.out = v /\ u.done = t.done
    BY <1>2, <1>4, <2>a DEF Task
  <2>2. TaskSound(u, effects'[j])
    BY <1>8, <2>1 DEF TaskSound, Starting, Sound
  <2>3. Untold(u) \/ Mend(1, Saved(j), effects'[j])
    BY <1>3, <1>7, <1>8, <2>1 DEF Untold
  <2>4. QED
    BY <1>1, <1>2, <1>5, <1>8, <2>1, <2>2, <2>3, LoopSound DEF Holding
<1>9. [t EXCEPT !.pc = "end"] = [t EXCEPT !.pc = "end", !.out = "FAIL"]
  BY <1>4 DEF Task
<1>10. CASE Goto(p, k, "end") /\ ~made /\ UNCHANGED effects
  <2>1. Sound("FAIL", effects'[j])
    BY <1>3, <1>4, <1>10 DEF Sound, NoAccount
  <2>2. QED
    BY <1>8, <1>9, <1>10, <2>1 DEF Goto
<1>11. CASE Goto(p, k, "end") /\ made /\ effects' = [effects EXCEPT ![j] = @ \ Compensated]
  <2>1. effects'[j] = E \ Compensated
    BY <1>3, <1>11 DEF TypeInv, StoresOK
  <2>2. Sound("FAIL", effects'[j])
    BY <2>1 DEF Sound
  <2>3. QED
    BY <1>8, <1>9, <1>11, <2>2 DEF Goto
<1>12. CASE made /\ Become(p, k, [t EXCEPT !.pc = "end", !.out = "HELD"])
  BY <1>8, <1>12
<1>13. QED
  BY <1>4, <1>10, <1>11, <1>12 DEF Compensate

\* record_step: what it writes is what was executed, or what is before the
\* restart; a failure of the log DB is a failure of the job.
LEMMA RecordSound ==
  ASSUME MendTables, TypeInv, ProgressIsOwners, OneController,
         NEW p \in Procs, NEW k \in Keys, RequestOK(k), JobSound(k), RecordStep(p, k)
  PROVE  JobSound(k)'
<1> DEFINE t == task[p][k]
<1>1. t # None /\ t.pc \in {"record", "rewound"} /\ t.pc \in Executing /\ t.pc \in Holding
  BY DEF RecordStep, At, Executing, Holding
<1>2. PICK j \in Regs : j = t.job
  BY <1>1, InHand
<1>3. PICK E : E = effects[j]
  OBVIOUS
<1>4. /\ t \in Task /\ TaskSound(t, E) /\ KeyOf[j] = k /\ Unfinished(j) /\ ~KeptDone(k)
      /\ Saved(j) = t.done /\ Durable(t.done) /\ Owns(p, j)
      /\ t.pc = "record" => t.at \in Steps
  BY <1>1, <1>2, <1>3, InHand, Current DEF TypeInv, TaskOK
<1>5. UNCHANGED <<input, rows, effects, reg>>
  BY DEF RecordStep
<1>6. ~KeptDone(k)' /\ effects'[j] = E
  BY <1>3, <1>4, <1>5 DEF KeptDone
<1>7. PICK D : D = NewDone(t)
  OBVIOUS
<1>8. /\ D \in SUBSET Steps /\ Durable(D)
      /\ D = IF t.pc = "record" THEN t.done \cup {t.at} ELSE {x \in t.done : x < t.at}
  BY <1>1, <1>4, <1>7 DEF NewDone, Task, TaskSound, Durable
<1>9. CASE Owns(p, j) /\ lease' = [lease EXCEPT ![j].done = D] /\ Become(p, k, Recorded(t))
  <2> DEFINE u == Recorded(t)
             l == [lease[j] EXCEPT !.done = D]
  <2>1. lease[j] # None /\ lease[j] \in Lease /\ lease[j].owner = p
    BY <1>4 DEF Owns, TypeInv, StoresOK
  <2>2. l \in Lease /\ l.done = D /\ l.owner = p
    BY <1>8, <2>1 DEF Lease
  <2>3. lease'[j] = l /\ l # None /\ \A q \in Regs : q # j => lease'[q] = lease[q]
    BY <1>9, <2>1, <2>2, NoneOK DEF TypeInv, StoresOK, Lease
  <2>4. Saved(j)' = D /\ Owns(p, j)'
    BY <2>2, <2>3 DEF Saved, Owns
  <2>5. /\ u.job = j /\ u.pc = "run" /\ u.done = D
        /\ u.at = IF t.pc = "record" THEN t.at + 1 ELSE t.at
    BY <1>2, <1>4, <1>7 DEF Recorded, Task
  <2>6. u # None
    <3>1. t.at \in 1..(NSteps + 1) /\ (t.pc = "record" => t.at + 1 \in 1..(NSteps + 1))
      <4>1. t.at \in 1..(NSteps + 1)
        BY <1>4 DEF Task
      <4>2. NSteps \in Nat /\ (t.pc = "record" => t.at \in 1..NSteps)
        BY <1>4, ConstantsOK DEF Steps
      <4>3. QED
        BY <4>1, <4>2
    <3>2. PICK a \in 1..(NSteps + 1) : a = IF t.pc = "record" THEN t.at + 1 ELSE t.at
      BY <3>1
    <3>3. u = [t EXCEPT !.pc = "run", !.done = D, !.at = a]
      BY <1>7, <3>2 DEF Recorded
    <3>4. t \in Task /\ D \in SUBSET Steps /\ "run" \in TaskPCs
      BY <1>4, <1>8 DEF TaskPCs
    <3>5. u \in Task
      BY <3>3, <3>4 DEF Task
    <3>6. QED
      BY <3>5, NoneOK
  <2>7. Passed(u.at, D, E) /\ Mend(u.at, D, E)
    <3>1. CASE t.pc = "record"
      <4>1. PICK s \in Steps : s = t.at
        BY <1>4, <3>1
      <4>2. /\ s \in E /\ ~Volatile(s) /\ Passed(s, t.done, E) /\ Mend(s + 1, t.done, E)
            /\ D = t.done \cup {s} /\ u.at = s + 1
        BY <1>4, <1>8, <2>5, <3>1, <4>1 DEF TaskSound
      <4>3. Passed(s + 1, t.done \cup {s}, E) /\ Mend(s + 1, t.done \cup {s}, E)
        BY <4>2, MendRecord
      <4>4. QED
        BY <4>2, <4>3
    <3>2. CASE t.pc = "rewound"
      BY <1>4, <1>7, <2>5, <3>2 DEF TaskSound
    <3>3. QED
      BY <1>1, <3>1, <3>2
  <2>8. TaskSound(u, effects'[j])
    BY <1>6, <2>5, <2>7 DEF TaskSound, Starting
  <2>9. Mend(1, D, effects'[j])
    <3>1. u.at \in Nat /\ 1 \in Nat /\ 1 <= u.at
      <4>1. t.at \in Nat /\ 1 <= t.at
        BY <1>4, ConstantsOK DEF Task
      <4>2. u.at = t.at \/ u.at = t.at + 1
        BY <2>5
      <4>3. QED
        BY <4>1, <4>2
    <3>2. QED
      BY <1>6, <2>7, <3>1, MendEarlier
  <2>10. QED
    BY <1>1, <1>2, <1>5, <1>6, <1>8, <1>9, <2>1, <2>3, <2>4, <2>5, <2>6, <2>8, <2>9,
       StepSound
<1>10. CASE /\ UNCHANGED lease
            /\ Become(p, k, [t EXCEPT !.pc = "compensate", !.out = "FAIL", !.done = NewDone(t)])
  <2> DEFINE u == [t EXCEPT !.pc = "compensate", !.out = "FAIL", !.done = D]
  <2>1. u \in Task /\ u.job = j /\ u.pc = "compensate" /\ u.out = "FAIL" /\ u.done = D
    BY <1>2, <1>4, <1>8 DEF Task, TaskPCs, Verdicts
  <2>2. NoAccount(D, E)
    <3>1. CASE t.pc = "rewound"
      BY <1>4, <1>7, <3>1 DEF TaskSound
    <3>2. CASE t.pc = "record"
      <4>1. SUFFICES ASSUME AccountFirst, 1 \notin D
                     PROVE  FALSE
        BY DEF NoAccount, AccountFirst
      <4>2. 1 \in Steps /\ ~(1 < t.at) /\ t.at # 1
        BY <1>4, <1>8, <3>2, <4>1, ConstantsOK DEF Steps, TaskSound, Passed, AccountFirst
      <4>3. t.at \in Nat /\ 1 <= t.at
        BY <1>4, ConstantsOK DEF Task
      <4>4. QED
        BY <4>2, <4>3
    <3>3. QED
      BY <1>1, <3>1, <3>2
  <2>3. TaskSound(u, effects'[j])
    BY <1>6, <2>1, <2>2 DEF TaskSound, Starting
  <2>4. Mend(1, t.done, effects'[j])
    <3>1. ~UntoldOf(k)
      BY <1>1, UntoldNow DEF Untold
    <3>2. QED
      BY <1>3, <1>4, <1>6, <3>1 DEF JobSound, SavedSound
  <2>5. Become(p, k, u) /\ u # None
    BY <1>7, <1>10, <2>1, NoneOK
  <2>6. Saved(j)' = t.done /\ Owns(p, j)'
    BY <1>4, <1>10 DEF Saved, Owns
  <2>7. QED
    BY <1>1, <1>2, <1>4, <1>5, <1>6, <1>10, <2>1, <2>3, <2>4, <2>5, <2>6, StepSound
       DEF Holding
<1>11. QED
  BY <1>2, <1>4, <1>7, <1>9, <1>10 DEF RecordStep

-----------------------------------------------------------------------------
(* The end of a job *)

LEMMA EndSound ==
  ASSUME TypeInv, OneController, NEW p \in Procs, NEW k \in Keys,
         RequestOK(k), JobSound(k), WriteEnd(p, k)
  PROVE  JobSound(k)'
<1> DEFINE t == task[p][k]
<1>1. /\ t # None /\ t \in Task /\ t.pc = "end" /\ KeyOf[t.job] = k /\ t.job \in Regs
      /\ t.out \in Verdicts /\ HolderSound(p, k)
  BY Current DEF WriteEnd, At, TypeInv, TaskOK, Task, Closing, JobSound
<1>2. PICK j \in Regs : j = t.job
  BY <1>1
<1>3. PICK v \in Verdicts : v = t.out
  BY <1>1
<1>4. PICK pc \in {"free", "keep"} :
        /\ Become(p, k, [t EXCEPT !.pc = pc])
        /\ \/ Log(v, j, t.reg)
           \/ pc = "keep" /\ UNCHANGED rows
  BY <1>2, <1>3 DEF WriteEnd, Goto
<1>5. UNCHANGED <<input, lease, effects, reg>>
  BY DEF WriteEnd
<1>6. Moves(p, k) /\ task'[p][k] = [t EXCEPT !.pc = pc]
  BY <1>4, Moved
<1>7. /\ task'[p][k].job = j /\ task'[p][k].pc = pc /\ task'[p][k].out = t.out
      /\ task'[p][k].done = t.done /\ task'[p][k] # None
  <2>1. task'[p][k] \in Task
    BY <1>1, <1>6 DEF Task, TaskPCs
  <2>2. QED
    BY <1>1, <1>2, <1>6, <2>1, NoneOK DEF Task
<1>8. ASSUME NEW q \in Regs, KeyOf[q] = k
      PROVE  SavedSound(k, q)'
  <2>1. SavedSound(k, q)
    BY <1>8 DEF JobSound
  <2>2. CASE Log(v, j, t.reg)
    <3>1. rows \in Seq(Row) /\ v # "START"
      BY DEF TypeInv, StoresOK, Verdicts
    <3>2. Unfinished(q)' <=> Unfinished(q) /\ KeyOf[q] # KeyOf[j]
      BY <2>2, <3>1, ClosesEnd
    <3>3. ~Unfinished(q)'
      BY <1>1, <1>2, <1>8, <3>2
    <3>4. QED
      BY <1>5, <2>1, <3>3 DEF SavedSound, Saved
  <2>3. CASE pc = "keep" /\ UNCHANGED rows
    <3>1. UntoldOf(k) => UntoldOf(k)'
      <4>1. UntoldOf(k) => Untold(t)
        BY <1>1, UntoldNow
      <4>2. Untold(t) => Untold(task'[p][k])
        BY <1>7, <2>3 DEF Untold
      <4>3. QED
        BY <1>7, <4>1, <4>2 DEF UntoldOf, Untold
    <3>2. (KeptDone(k)' <=> KeptDone(k)) /\ (Unfinished(q)' <=> Unfinished(q))
      BY <1>5, <2>3, JournalSame DEF KeptDone
    <3>3. QED
      BY <1>5, <2>1, <3>1, <3>2 DEF SavedSound, Saved
  <2>4. QED
    BY <1>4, <2>2, <2>3
<1>9. KeptSound(k)'
  BY <1>5 DEF JobSound, KeptSound, KeptDone
<1>10. HolderSound(p, k)'
  BY <1>1, <1>2, <1>5, <1>7 DEF HolderSound, TaskSound, Starting, Holding
<1>11. QED
  BY <1>1, <1>6, <1>8, <1>9, <1>10, WorkSound

\* mark_job_done: the result kept is the one the job ended with.
LEMMA KeepSound ==
  ASSUME Sheltered, TypeInv, OneController, NEW p \in Procs, NEW k \in Keys,
         RequestOK(k), JobSound(k), KeepResult(p, k)
  PROVE  JobSound(k)'
<1> DEFINE t == task[p][k]
<1>1. /\ t # None /\ t \in Task /\ t.pc = "keep" /\ t.job \in Regs /\ HeldBy(k, t.job)
      /\ HolderSound(p, k)
  BY Current DEF KeepResult, At, TypeInv, Task, RequestOK, TaskFits, JobSound
<1>2. PICK j \in Regs : j = t.job
  BY <1>1
<1>3. /\ Become(p, k, [t EXCEPT !.pc = "release"])
      /\ UNCHANGED <<rows, lease, effects, reg>>
  BY DEF KeepResult, Goto
<1>4. input'[k] = [state |-> "done", result |-> t.out, reg |-> j]
  BY <1>1, <1>2 DEF KeepResult, Fault, Sheltered, HeldBy, TypeInv, StoresOK, InputOK
<1>5. Moves(p, k) /\ task'[p][k] = [t EXCEPT !.pc = "release"]
  BY <1>3, Moved
<1>6. KeptDone(k)'
  <2>1. input'[k] \in Input
    BY <1>1, <1>4 DEF Input, Task
  <2>2. QED
    BY <1>4, <2>1, NoneOK DEF KeptDone
<1>7. ASSUME NEW q \in Regs, KeyOf[q] = k
      PROVE  SavedSound(k, q)'
  BY <1>3, <1>6, <1>7 DEF JobSound, SavedSound, Saved
<1>8. KeptSound(k)'
  BY <1>1, <1>2, <1>3, <1>4 DEF KeptSound, HolderSound, TaskSound
<1>9. HolderSound(p, k)'
  <2>1. task'[p][k].pc = "release"
    BY <1>1, <1>5 DEF Task
  <2>2. QED
    BY <2>1 DEF HolderSound, TaskSound, Starting, Holding
<1>10. QED
  BY <1>1, <1>5, <1>7, <1>8, <1>9, WorkSound

\* The input goes, and the lease, when no job of the request is open, or its
\* result waits in the input.
LEMMA FreeSound ==
  ASSUME TypeInv, OneController, NEW p \in Procs, NEW k \in Keys,
         RequestOK(k), JobSound(k), FreeInput(p, k)
  PROVE  JobSound(k)'
<1> DEFINE t == task[p][k]
<1>1. /\ t # None /\ t \in Task /\ t.pc = "free" /\ t.job \in Regs
      /\ HeldBy(k, t.job) /\ ~Unfinished(t.job) /\ KeyOf[t.job] = k
  BY Current DEF FreeInput, At, TypeInv, TaskOK, Task, RequestOK, TaskFits
<1>2. /\ Become(p, k, [t EXCEPT !.pc = "release"])
      /\ UNCHANGED <<rows, lease, effects, reg>>
      /\ input'[k] \in {input[k], None}
  BY DEF FreeInput, Goto, TypeInv, StoresOK, InputOK
<1>3. Moves(p, k) /\ task'[p][k] = [t EXCEPT !.pc = "release"]
  BY <1>2, Moved
<1>4. ASSUME NEW q \in Regs, KeyOf[q] = k
      PROVE  SavedSound(k, q)'
  <2>1. ~Unfinished(q)
    BY <1>1, <1>4, OnlyOpen
  <2>2. ~Unfinished(q)'
    BY <1>2, <2>1, JournalSame
  <2>3. QED
    BY <1>2, <1>4, <2>2 DEF JobSound, SavedSound, Saved
<1>5. KeptSound(k)'
  BY <1>2 DEF JobSound, KeptSound, KeptDone
<1>6. HolderSound(p, k)'
  <2>1. task'[p][k].pc = "release"
    BY <1>1, <1>3 DEF Task
  <2>2. QED
    BY <2>1 DEF HolderSound, TaskSound, Starting, Holding
<1>7. QED
  BY <1>1, <1>3, <1>4, <1>5, <1>6, WorkSound

LEMMA ReleaseSound ==
  ASSUME TypeInv, OneController, NEW p \in Procs, NEW k \in Keys,
         RequestOK(k), JobSound(k), Release(p, k)
  PROVE  JobSound(k)'
<1> DEFINE t == task[p][k]
<1>1. t # None /\ t.pc = "release" /\ t.job \in Regs
  BY Current DEF Release, At, TypeInv, Task
<1>2. /\ Become(p, k, None) /\ UNCHANGED <<input, rows, effects, reg>>
      /\ \A q \in Regs : lease'[q] = lease[q] \/ lease'[q] = None
  BY <1>1 DEF Release, Return, TypeInv, StoresOK
<1>3. Moves(p, k) /\ task'[p][k] = None
  BY <1>2, Moved
<1>4. ~UntoldOf(k)
  BY <1>1, UntoldNow DEF Untold
<1>5. ASSUME NEW q \in Regs, KeyOf[q] = k
      PROVE  SavedSound(k, q)'
  <2>1. SavedSound(k, q) /\ (Unfinished(q)' <=> Unfinished(q)) /\ (KeptDone(k)' <=> KeptDone(k))
    BY <1>2, <1>5, JournalSame DEF JobSound, KeptDone
  <2>2. CASE lease'[q] = lease[q]
    BY <1>2, <1>4, <2>1, <2>2 DEF SavedSound, Saved
  <2>3. CASE lease'[q] = None
    <3>1. Saved(q)' = {}
      BY <2>3 DEF Saved
    <3>2. QED
      BY <2>3, <3>1, MendNone DEF SavedSound, Durable
  <2>4. QED
    BY <1>2, <2>2, <2>3
<1>6. KeptSound(k)'
  BY <1>2 DEF JobSound, KeptSound, KeptDone
<1>7. QED
  BY <1>1, <1>3, <1>5, <1>6, WorkSound

-----------------------------------------------------------------------------
(* Every action *)

LEMMA WorkOwnSound ==
  ASSUME Sheltered, Intact, MendTables, TypeInv, ProgressIsOwners, OneController,
         NEW p \in Procs, NEW k \in Keys, RequestOK(k), JobSound(k), Work(p, k)
  PROVE  JobSound(k)'
BY ClaimSound, LoadSound, MarkSound, SucceedSound, FailSound, DegradeSound, RecordSound,
   DoneSound, CompensateSound, EndSound, KeepSound, FreeSound, ReleaseSound DEF Work

\* A worker writes nothing of another request.
LEMMA WorkStays ==
  ASSUME TypeInv, Protocol, NEW p \in Procs, NEW k \in Keys, Work(p, k),
         NEW l \in Keys, l # k
  PROVE  SavedStays(l)
<1> DEFINE t == task[p][k]
<1>1. t # None /\ t \in Task /\ KeyOf[t.job] = k /\ TaskFits(k, t)
  BY Current DEF Work, ClaimRead, ClaimInsert, ClaimCas, LoadInput, LookupEnd,
     MarkRead, MarkRunning, StepSucceeds, StepFails, StepDegrades, StepRewinds,
     RecordStep, StepsDone, Compensate, WriteEnd, KeepResult, FreeInput, Release,
     At, TypeInv, TaskOK, Protocol, RequestOK
<1>2. PICK j \in Regs : j = t.job
  BY <1>1 DEF Task
<1>3. effects' = effects \/ \E e : effects' = [effects EXCEPT ![j] = e]
  <2>1. CASE \/ StepSucceeds(p, k) \/ StepFails(p, k) \/ StepDegrades(p, k)
             \/ StepRewinds(p, k) \/ Compensate(p, k)
    <3>1. t.reg = j
      BY <1>1, <1>2, <2>1 DEF StepSucceeds, StepFails, StepDegrades, StepRewinds,
         Compensate, At, TaskFits, Executing
    <3>2. QED
      BY <2>1, <3>1 DEF StepSucceeds, StepFails, StepDegrades, StepRewinds, Compensate,
         CleansUp
  <2>2. QED
    BY <2>1 DEF Work, ClaimRead, ClaimInsert, ClaimCas, LoadInput, LookupEnd,
       MarkRead, MarkRunning, RecordStep, StepsDone, WriteEnd, KeepResult, FreeInput,
       Release, stores
<1>4. \A q \in Regs : q # j => lease'[q] = lease[q]
  BY <1>2 DEF Work, ClaimRead, ClaimInsert, ClaimCas, LoadInput, LookupEnd,
     MarkRead, MarkRunning, StepSucceeds, StepFails, StepDegrades, StepRewinds,
     RecordStep, StepsDone, Compensate, WriteEnd, KeepResult, FreeInput, Release,
     stores, TypeInv, StoresOK
<1>5. \A q \in Regs : q # j => effects'[q] = effects[q]
  BY <1>3 DEF TypeInv, StoresOK
<1>6. QED
  BY <1>1, <1>2, <1>4, <1>5 DEF SavedStays

LEMMA WorkJobs ==
  ASSUME Sheltered, Intact, MendTables, TypeInv, ProgressIsOwners, Protocol,
         NEW p \in Procs, NEW k \in Keys, Work(p, k), NEW l \in Keys, JobSound(l)
  PROVE  JobSound(l)'
<1>1. OneController /\ JournalOK /\ RequestOK(l)
  BY DEF Protocol
<1>2. CASE l = k
  BY <1>1, <1>2, WorkOwnSound
<1>3. CASE l # k
  <2>1. /\ RegsStay(l) /\ input'[l] = input[l]
        /\ \A q \in Procs : task'[q][l] = task[q][l]
    BY <1>1, <1>3, WorkElsewhere
  <2>2. UntoldOf(l) => UntoldOf(l)'
    BY <2>1 DEF UntoldOf, Untold
  <2>3. QED
    BY <1>1, <1>3, <2>1, <2>2, WorkStays, JobSame
<1>4. QED
  BY <1>2, <1>3

\* A registration is made while no job of the request is open; its own job is
\* the first under its number.
LEMMA RegisterJobs ==
  ASSUME Sheltered, TypeInv, Protocol, NEW r \in Regs, Register(r),
         NEW l \in Keys, JobSound(l)
  PROVE  JobSound(l)'
<1>1. UNCHANGED <<lease, effects, task>>
  BY DEF Register, SaveInput, WriteStart, UndoInput, ApiCrash, stores
<1>2. RequestOK(l) /\ JournalOK /\ rows \in Seq(Row)
  BY DEF Protocol, TypeInv, StoresOK
<1>3. UntoldOf(l)' <=> UntoldOf(l)
  BY <1>1 DEF UntoldOf, Untold
<1>4. CASE l # KeyOf[r]
  <2>1. SavedStays(l)
    BY <1>1 DEF SavedStays
  <2>2. QED
    BY <1>1, <1>2, <1>3, <1>4, <2>1, RegisterElsewhere, JobSame
<1>5. CASE l = KeyOf[r]
  <2>1. \A q \in Regs : reg[q] = "accepted" => reg'[q] = "accepted"
    BY DEF Register, SaveInput, WriteStart, UndoInput, ApiCrash, TypeInv, CtrlOK
  <2>2. ASSUME NEW q \in Regs, Unfinished(q)', ~Unfinished(q)
        PROVE  q = r /\ reg[q] # "accepted"
    <3>1. rows' = rows \/ (reg[r] = "saved" /\ Log("START", r, r))
      BY DEF Register, SaveInput, WriteStart, UndoInput, ApiCrash, stores
    <3>2. QED
      BY <1>2, <2>2, <3>1, JournalSame, OpensStart
  <2>3. CASE input'[l] = input[l]
    <3>1. KeptDone(l)' <=> KeptDone(l)
      BY <2>3 DEF KeptDone
    <3>2. ASSUME NEW q \in Regs, KeyOf[q] = l
          PROVE  SavedSound(l, q)'
      <4>1. SavedSound(l, q) /\ Saved(q)' = Saved(q)
        BY <1>1, <3>2 DEF JobSound, Saved
      <4>2. CASE Unfinished(q)' => Unfinished(q)
        BY <1>1, <1>3, <2>1, <3>1, <4>1, <4>2 DEF SavedSound
      <4>3. CASE Unfinished(q)' /\ ~Unfinished(q)
        <5>1. Saved(q)' = {}
          BY <2>2, <4>1, <4>3 DEF SavedSound, Saved
        <5>2. QED
          BY <1>1, <2>1, <4>1, <5>1, MendNone DEF SavedSound
      <4>4. QED
        BY <4>2, <4>3
    <3>3. KeptSound(l)'
      BY <1>1, <2>3, <3>1 DEF JobSound, KeptSound
    <3>4. ASSUME NEW p \in Procs, task'[p][l] # None
          PROVE  HolderSound(p, l)'
      BY <1>1, <3>4 DEF JobSound, HolderSound, Owns
    <3>5. QED
      BY <3>2, <3>3, <3>4 DEF JobSound
  <2>4. CASE input'[l] # input[l]
    <3>1. (SaveInput(r) /\ input[l] = None) \/ UndoInput(r)
      BY <1>5, <2>4 DEF Register, SaveInput, WriteStart, ApiCrash, stores
    <3>2. UNCHANGED rows
      BY <3>1 DEF SaveInput, UndoInput
    <3>3. ASSUME NEW q \in Regs, KeyOf[q] = l
          PROVE  ~Unfinished(q)
      <4>1. CASE SaveInput(r) /\ input[l] = None
        BY <1>2, <3>3, <4>1 DEF RequestOK, RegOK, HeldBy
      <4>2. CASE UndoInput(r)
        BY <1>2, <1>5, <3>3, <4>2, Registering DEF UndoInput
      <4>3. QED
        BY <3>1, <4>1, <4>2
    <3>4. ASSUME NEW q \in Regs, KeyOf[q] = l
          PROVE  SavedSound(l, q)'
      <4>1. ~Unfinished(q)'
        BY <3>2, <3>3, <3>4, JournalSame
      <4>2. QED
        BY <1>1, <2>1, <3>4, <4>1 DEF JobSound, SavedSound, Saved
    <3>5. ~KeptDone(l)'
      <4>1. input'[l] \in {None, [state |-> "queued", reg |-> r, result |-> None]}
        BY <1>5, <2>4, <3>1 DEF SaveInput, UndoInput, TypeInv, StoresOK, InputOK
      <4>2. QED
        BY <4>1 DEF KeptDone
    <3>6. ASSUME NEW p \in Procs, task'[p][l] # None
          PROVE  HolderSound(p, l)'
      BY <1>1, <3>6 DEF JobSound, HolderSound, Owns
    <3>7. QED
      BY <3>4, <3>5, <3>6 DEF JobSound, KeptSound
  <2>5. QED
    BY <2>3, <2>4
<1>6. QED
  BY <1>4, <1>5

\* A controller that dies is not between a compensation and its report.
LEMMA CrashJobs ==
  ASSUME Intact, TypeInv, Protocol, NEW p \in Procs, Crash(p), NEW l \in Keys, JobSound(l)
  PROVE  JobSound(l)'
<1>1. UNCHANGED <<input, rows, lease, effects, reg>> /\ Alive(p) /\ ~Unsaid(p)
  BY DEF Crash, stores, Fault, Intact
<1>2. ~UntoldOf(l)
  <2>1. SUFFICES ASSUME NEW q \in Procs, task[q][l] # None, Untold(task[q][l])
                 PROVE  FALSE
    BY DEF UntoldOf
  <2>2. q = p
    BY <1>1, <2>1 DEF Protocol, OneController
  <2>3. QED
    BY <1>1, <2>1, <2>2 DEF Unsaid, Untold
<1>3. \A q \in Procs : task'[q][l] \in {task[q][l], None}
  BY DEF Crash, TypeInv, TasksOK
<1>4. SavedStays(l) /\ RegsStay(l) /\ RequestOK(l)
  BY <1>1, RegsSame DEF SavedStays, Protocol
<1>5. QED
  BY <1>1, <1>2, <1>3, <1>4, JobSame

LEMMA ElseJobs ==
  ASSUME TypeInv, Protocol, NEW l \in Keys, JobSound(l),
         \/ \E p \in Procs : \/ Start(p) \/ Drain(p) \/ Exit(p)
                             \/ Poll(p) \/ Dispatch(p) \/ Renew(p)
         \/ \E j \in Regs : Expire(j)
         \/ UNCHANGED vars
  PROVE  JobSound(l)'
<1>1. UNCHANGED <<input, rows, effects, reg>>
  BY DEF Start, Drain, Exit, Poll, Dispatch, Renew, Expire, vars, stores
<1>2. RegsStay(l) /\ RequestOK(l)
  BY <1>1, RegsSame DEF Protocol
<1>3. SavedStays(l)
  <2>1. CASE lease' = lease
    BY <1>1, <2>1 DEF SavedStays
  <2>2. ASSUME NEW p \in Procs, Renew(p)
        PROVE  SavedStays(l)
    BY <1>1, <2>2 DEF Renew, SavedStays
  <2>3. ASSUME NEW j \in Regs, Expire(j)
        PROVE  SavedStays(l)
    BY <1>1, <2>3 DEF Expire, SavedStays, TypeInv, StoresOK
  <2>4. QED
    BY <2>1, <2>2, <2>3 DEF Start, Drain, Exit, Poll, Dispatch, vars, stores
<1>4. \A q \in Procs : \/ task'[q][l] = task[q][l]
                       \/ task[q][l] = None /\ \E i \in Regs : task'[q][l] = NewTask(i)
  <2>1. CASE task' = task
    BY <2>1
  <2>2. ASSUME NEW p \in Procs, Dispatch(p), task' # task
        PROVE  \A q \in Procs :
                 \/ task'[q][l] = task[q][l]
                 \/ task[q][l] = None /\ \E i \in Regs : task'[q][l] = NewTask(i)
    <3>1. PICK i \in snap[p] :
            KeyOf[i] \notin Running(p) /\ Become(p, KeyOf[i], NewTask(i))
      BY <2>2 DEF Dispatch, Become
    <3>2. i \in Regs /\ KeyOf[i] \in Keys
      BY ConstantsOK DEF TypeInv, CtrlOK
    <3>3. task[p][KeyOf[i]] = None
      BY <3>1, <3>2 DEF Running
    <3>4. Moves(p, KeyOf[i]) /\ task'[p][KeyOf[i]] = NewTask(i)
      BY <3>1, <3>2, Moved
    <3>5. ASSUME NEW q \in Procs
          PROVE  \/ task'[q][l] = task[q][l]
                 \/ task[q][l] = None /\ task'[q][l] = NewTask(i)
      <4>1. CASE q = p /\ l = KeyOf[i]
        BY <3>3, <3>4, <4>1
      <4>2. CASE q # p \/ l # KeyOf[i]
        BY <3>4, <4>2 DEF Moves
      <4>3. QED
        BY <4>1, <4>2
    <3>6. QED
      BY <3>2, <3>5
  <2>3. QED
    BY <2>1, <2>2 DEF Start, Drain, Exit, Poll, Renew, Expire, vars
<1>5. UntoldOf(l) => UntoldOf(l)'
  BY <1>4 DEF UntoldOf, Untold
<1>6. QED
  BY <1>1, <1>2, <1>3, <1>4, <1>5, JobSame

\* What a row says stays true as long as the job stays ended and nothing more is
\* done for it.
LEMMA RowKept ==
  ASSUME NEW i, RowSound(i), rows'[i] = rows[i],
         \A r \in Regs : Ended(r) => Ended(r)' /\ effects'[r] = effects[r]
  PROVE  RowSound(i)'
<1>1. PICK r \in Regs : r = rows[i].reg
  BY DEF RowSound
<1>2. Ended(r) /\ Sound(rows[i].phase, effects[r])
  BY <1>1 DEF RowSound
<1>3. Ended(r)' /\ effects'[r] = effects[r] /\ rows'[i].reg = r
  BY <1>1, <1>2
<1>4. QED
  BY <1>1, <1>2, <1>3 DEF RowSound

\* No step is taken for an ended job, and it stays ended.
LEMMA EndedStays ==
  ASSUME Sheltered, TypeInv, Protocol, [Next]_vars, NEW r \in Regs, Ended(r)
  PROVE  Ended(r)' /\ effects'[r] = effects[r]
<1>1. effects'[r] = effects[r]
  <2>1. CASE \E p \in Procs, k \in Keys : Work(p, k)
    BY <2>1, WorkEffects
  <2>2. CASE ~\E p \in Procs, k \in Keys : Work(p, k)
    BY <2>2 DEF Next, Register, SaveInput, WriteStart, UndoInput, ApiCrash,
       Start, Crash, Drain, Exit, Loop, Poll, Dispatch, Renew, Expire, stores, vars
  <2>3. QED
    BY <2>1, <2>2
<1>2. rows \in Seq(Row)
  BY DEF TypeInv, StoresOK
<1>3. ASSUME UNCHANGED rows
      PROVE  Ended(r)'
  <2>1. StartOf(r)' = StartOf(r) /\ (Unfinished(r)' <=> Unfinished(r))
    BY <1>3, JournalSame
  <2>2. QED
    BY <2>1 DEF Ended
<1>4. ASSUME NEW q \in Regs, WriteStart(q), Log("START", q, q)
      PROVE  Ended(r)'
  <2>1. reg[q] = "saved" /\ KeyOf[q] \in Keys
    BY <1>4, ConstantsOK DEF WriteStart
  <2>2. q # r
    BY <2>1 DEF Protocol, RequestOK, RegOK, Ended
  <2>3. QED
    BY <1>2, <1>4, <2>2, OpensStart DEF Ended
<1>5. ASSUME NEW p \in Procs, NEW k \in Keys, Work(p, k), ~UNCHANGED rows
      PROVE  Ended(r)'
  <2>1. At(p, k, "end") /\ Log(task[p][k].out, task[p][k].job, task[p][k].reg)
    BY <1>5, WorkRows
  <2>2. PICK v \in Verdicts, j \in Regs : v = task[p][k].out /\ j = task[p][k].job
    BY <2>1, Current DEF At, TypeInv, TaskOK, Task, Closing
  <2>3. StartOf(r)' = StartOf(r) /\ (Unfinished(r)' => Unfinished(r))
    BY <1>2, <2>1, <2>2, ClosesEnd DEF Verdicts
  <2>4. QED
    BY <2>3 DEF Ended
<1>6. Ended(r)'
  BY <1>3, <1>4, <1>5
     DEF Next, Register, SaveInput, WriteStart, UndoInput, ApiCrash, Start, Crash,
         Drain, Exit, Loop, Poll, Dispatch, Renew, Expire, stores, vars
<1>7. QED
  BY <1>1, <1>6

\* A new end row says what is so.
LEMMA RowWritten ==
  ASSUME TypeInv, Protocol, NEW p \in Procs, NEW k \in Keys, JobSound(k), Work(p, k),
         At(p, k, "end"), Log(task[p][k].out, task[p][k].job, task[p][k].reg),
         NEW n, n = Len(rows) + 1
  PROVE  RowSound(n)'
<1> DEFINE t == task[p][k]
<1>1. /\ t # None /\ t \in Task /\ KeyOf[t.job] = k /\ t.job \in Regs /\ t.out \in Verdicts
      /\ TaskFits(k, t) /\ HolderSound(p, k) /\ t.pc = "end" /\ RequestOK(k)
  BY Current DEF At, TypeInv, TaskOK, Task, Closing, Protocol, RequestOK, JobSound
<1>2. PICK j \in Regs, v \in Verdicts : j = t.job /\ v = t.out
  BY <1>1
<1>3. t.reg = j /\ reg[j] = "accepted" /\ Sound(v, effects[j])
  BY <1>1, <1>2 DEF TaskFits, HolderSound, TaskSound
<1>4. Log(v, j, j) /\ v # "START" /\ rows \in Seq(Row)
  BY <1>2, <1>3 DEF Verdicts, TypeInv, StoresOK
<1>5. rows'[Len(rows) + 1] = [phase |-> v, job |-> j, reg |-> j]
  BY <1>4, Appended
<1>6. StartOf(j) # {}
  BY <1>1, <1>2, <1>3 DEF RequestOK, RegOK
<1>7. Ended(j)'
  BY <1>4, <1>6, ClosesEnd DEF Ended
<1>8. effects'[j] = effects[j]
  BY <1>1, <1>4 DEF Work, ClaimRead, ClaimInsert, ClaimCas, LoadInput, LookupEnd,
     MarkRead, MarkRunning, StepSucceeds, StepFails, StepDegrades, StepRewinds,
     RecordStep, StepsDone, Compensate, WriteEnd, KeepResult, FreeInput, Release,
     stores, At
<1>9. rows'[n].reg = j /\ rows'[n].phase = v
  BY <1>5
<1>10. QED
  BY <1>3, <1>7, <1>8, <1>9 DEF RowSound

LEMMA RowsNext ==
  ASSUME Sheltered, TypeInv, Protocol, Progress, [Next]_vars
  PROVE  RowsSound'
<1>1. rows \in Seq(Row) /\ RowsSound /\ \A k \in Keys : JobSound(k)
  BY DEF TypeInv, StoresOK, Progress
<1>2. \A r \in Regs : Ended(r) => Ended(r)' /\ effects'[r] = effects[r]
  BY EndedStays
<1>3. ASSUME NEW i \in DOMAIN rows, rows'[i] = rows[i], rows[i].phase # "START"
      PROVE  RowSound(i)'
  <2>1. RowSound(i)
    BY <1>1, <1>3 DEF RowsSound
  <2>2. QED
    BY <1>2, <1>3, <2>1, RowKept
<1>4. CASE UNCHANGED rows
  BY <1>3, <1>4 DEF RowsSound
<1>5. ASSUME NEW r \in Regs, Log("START", r, r)
      PROVE  RowsSound'
  <2>1. PICK n : n = Len(rows) + 1
    OBVIOUS
  <2>2. /\ \A i \in DOMAIN rows' : i \in DOMAIN rows \/ i = n
        /\ \A i \in DOMAIN rows : rows'[i] = rows[i]
        /\ rows'[n].phase = "START"
    <3>1. /\ Len(rows) \in Nat
          /\ DOMAIN rows = 1..Len(rows) /\ DOMAIN rows' = 1..(Len(rows) + 1)
          /\ \A i \in DOMAIN rows : rows'[i] = rows[i]
          /\ rows'[Len(rows) + 1] = [phase |-> "START", job |-> r, reg |-> r]
      BY <1>1, <1>5, Appended
    <3>2. QED
      BY <2>1, <3>1
  <2>3. QED
    BY <1>3, <2>2 DEF RowsSound
<1>6. ASSUME NEW p \in Procs, NEW k \in Keys, Work(p, k), rows' # rows
      PROVE  RowsSound'
  <2>1. /\ At(p, k, "end")
        /\ Log(task[p][k].out, task[p][k].job, task[p][k].reg)
    BY <1>6, WorkRows
  <2>2. PICK n : n = Len(rows) + 1
    OBVIOUS
  <2>3. /\ \A i \in DOMAIN rows' : i \in DOMAIN rows \/ i = n
        /\ \A i \in DOMAIN rows : rows'[i] = rows[i]
    <3>1. PICK v, j, r : v = task[p][k].out /\ j = task[p][k].job /\ r = task[p][k].reg
      OBVIOUS
    <3>2. Log(v, j, r)
      BY <2>1, <3>1
    <3>3. /\ Len(rows) \in Nat
          /\ DOMAIN rows = 1..Len(rows) /\ DOMAIN rows' = 1..(Len(rows) + 1)
          /\ \A i \in DOMAIN rows : rows'[i] = rows[i]
      BY <1>1, <3>2, Appended
    <3>4. QED
      BY <2>2, <3>3
  <2>4. RowSound(n)'
    BY <1>1, <1>6, <2>1, <2>2, RowWritten
  <2>5. QED
    BY <1>3, <2>3, <2>4 DEF RowsSound
<1>7. QED
  BY <1>4, <1>5, <1>6
     DEF Next, Register, SaveInput, WriteStart, UndoInput, ApiCrash, Start, Crash,
         Drain, Exit, Loop, Poll, Dispatch, Renew, Expire, stores, vars

-----------------------------------------------------------------------------
(* The invariant, and what it says of the verdicts *)

LEMMA InitProgress == Init => Progress
<1>1. SUFFICES ASSUME Init
               PROVE  Progress
  OBVIOUS
<1>2. RowsSound
  BY <1>1 DEF Init, RowsSound
<1>3. ASSUME NEW k \in Keys
      PROVE  JobSound(k)
  <2>1. ASSUME NEW j \in Regs
        PROVE  SavedSound(k, j)
    <3>1. lease[j] = None /\ reg[j] = "new" /\ Saved(j) = {}
      BY <1>1 DEF Init, Saved
    <3>2. QED
      BY <3>1, MendNone DEF SavedSound, Durable
  <2>2. QED
    BY <1>1, <1>3, <2>1 DEF Init, JobSound, KeptSound, KeptDone
<1>4. QED
  BY <1>2, <1>3 DEF Progress

LEMMA NextProgress ==
  ASSUME Sheltered, Intact, MendTables, TypeInv, ProgressIsOwners, Protocol, Progress,
         [Next]_vars
  PROVE  Progress'
<1>1. ASSUME NEW l \in Keys
      PROVE  JobSound(l)'
  <2>1. JobSound(l)
    BY <1>1 DEF Progress
  <2>2. ASSUME NEW r \in Regs, Register(r)
        PROVE  JobSound(l)'
    BY <2>1, <2>2, RegisterJobs
  <2>3. ASSUME NEW p \in Procs, NEW k \in Keys, Work(p, k)
        PROVE  JobSound(l)'
    BY <2>1, <2>3, WorkJobs
  <2>4. ASSUME NEW p \in Procs, Crash(p)
        PROVE  JobSound(l)'
    BY <2>1, <2>4, CrashJobs
  <2>5. CASE \/ \E p \in Procs : \/ Start(p) \/ Drain(p) \/ Exit(p)
                                 \/ Poll(p) \/ Dispatch(p) \/ Renew(p)
             \/ \E j \in Regs : Expire(j)
             \/ UNCHANGED vars
    BY <2>1, <2>5, ElseJobs
  <2>6. QED
    BY <2>2, <2>3, <2>4, <2>5 DEF Next, Loop
<1>2. QED
  BY <1>1, RowsNext DEF Progress

LEMMA ProgressKept ==
  ASSUME Sheltered, Intact, MendTables
  PROVE  Spec => []Progress
<1>1. TypeInv /\ ProgressIsOwners /\ Protocol /\ Progress /\ [Next]_vars => Progress'
  BY NextProgress
<1>2. QED
  BY <1>1, InitProgress, ProtocolKept, Fencing, TypeInvariant, PTL DEF Spec

\* A job that admin_be reads as successful did all of its work: a SUCCESS row is
\* written by finish_job only when the loop of run_job found no step left, and a
\* step is passed over only for a record in job_control whose effect holds, be it
\* that the job was resumed after a crash, rewound or compensated in between.
THEOREM SuccessIsDone ==
  ASSUME Sheltered, Intact, MendTables
  PROVE  Spec => []SuccessMeansDone
<1>1. TypeInv /\ Progress => SuccessMeansDone
  <2>1. SUFFICES ASSUME Progress, NEW i \in DOMAIN rows, rows[i].phase = "SUCCESS"
                 PROVE  effects[rows[i].reg] = Steps
    BY DEF SuccessMeansDone
  <2>2. RowSound(i)
    BY <2>1 DEF Progress, RowsSound
  <2>3. QED
    BY <2>1, <2>2 DEF RowSound, Sound
<1>2. QED
  BY <1>1, ProgressKept, TypeInvariant, PTL

\* A FAIL row with no word of an account left behind means that there is none:
\* _compensate_provision ran with the account recorded in job_control and took it
\* back, or no account was recorded and the step that makes it took it back.
THEOREM FailureCompensated ==
  ASSUME Sheltered, Intact, MendTables, AccountFirst
  PROVE  Spec => []FailureIsCompensated
<1>1. Progress => FailureIsCompensated
  <2>1. SUFFICES ASSUME Progress, NEW i \in DOMAIN rows, rows[i].phase = "FAIL"
                 PROVE  Compensated \cap effects[rows[i].reg] = {}
    BY DEF FailureIsCompensated
  <2>2. RowSound(i)
    BY <2>1 DEF Progress, RowsSound
  <2>3. QED
    BY <2>1, <2>2 DEF RowSound, Sound
<1>2. QED
  BY <1>1, ProgressKept, PTL
=============================================================================
