-------------------------- MODULE MCAccountChanges --------------------------
(* Instances of AccountChanges for TLC.                                    *)
EXTENDS AccountChanges

MCJobs == {"b1", "b2", "r1", "port", "port2", "move", "pw1", "pw2"}
MCKind == [j \in MCJobs |-> CASE j \in {"b1", "b2"}      -> "block"
                              [] j = "r1"                -> "release"
                              [] j \in {"port", "port2"} -> "port"
                              [] j = "move"              -> "migrate"
                              [] j \in {"pw1", "pw2"}    -> "password"]
MCTarget == [j \in {"port", "port2", "move"} |-> "first"]

\* Access jobs among themselves and with what creates Services; two jobs for the
\* same port; password jobs with each other and with a migration.
AllMixes == {{"b1", "r1", "b2"}, {"b1", "r1", "port"}, {"b1", "r1", "move"},
             {"port", "port2"}, {"pw1", "pw2"}, {"pw1", "move"}}
AccessMixes   == {{"b1", "port"}}
PasswordMixes == {{"pw1", "move"}}
=============================================================================
