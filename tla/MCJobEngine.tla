---------------------------- MODULE MCJobEngine ----------------------------
(***************************************************************************)
(* Model-checking values for JobEngine. The step list is the part of       *)
(* ACCOUNT_CREATE_STEPS + POD_CREATE_STEPS in which resume differs:        *)
(*   1 the account steps up to step_create_krb5_principal                  *)
(*   2 step_fetch_user_config  (ALWAYS_RERUN)                              *)
(*   3 step_build_pod_spec     (deferred to 4, reads the keytab Secret)    *)
(*   4 step_create_pod_k8s     (failure restarts from 3)                   *)
(*   5 step_wait_ready         (failure restarts from 3, needs the Pod)    *)
(* Reads: the user info of 2, the Pod spec of 3, the client object of 4.   *)
(***************************************************************************)
EXTENDS JobEngine, TLC

CONSTANTS r1, r2, k1, k2

OneKey  == [r \in Regs |-> k1]
TwoKeys == (r1 :> k1) @@ (r2 :> k2)

MCDeferTo     == <<0, 0, 4, 0, 0>>
MCRewindTo    == <<1, 0, 3, 3, 3>>
MCNeeds       == <<{}, {}, {1}, {3}, {4}>>
MCReads       == <<{}, {}, {2}, {2, 3}, {4}>>

\* Without the wait.
WaitlessDeferTo  == <<0, 0, 4, 0>>
WaitlessRewindTo == <<1, 0, 3, 3>>
WaitlessNeeds    == <<{}, {}, {1}, {3}>>
WaitlessReads    == <<{}, {}, {2}, {2, 3}>>

\* The shorter list: 1 account, 2 build (deferred to 3), 3 create_pod.
ShortDeferTo  == <<0, 3, 0>>
ShortRewindTo == <<1, 2, 2>>
ShortNeeds    == <<{}, {1}, {2}>>
ShortReads    == <<{}, {}, {2}>>

\* Two processes side by side: 1 build (deferred to 2), 2 create_pod.
PodDeferTo    == <<2, 0>>
PodRewindTo   == <<1, 1>>
PodNeeds      == <<{}, {1}>>
PodReads      == <<{}, {1}>>

\* The tables of the runs are of the kind the proofs are about.
ASSUME TablesMend == MendTables /\ AccountFirst

\* No definition tells two registrations, or two processes, apart.
Alike == Permutations(Regs) \cup Permutations(Procs)
=============================================================================
