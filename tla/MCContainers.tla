---------------------------- MODULE MCContainers ----------------------------
(***************************************************************************)
(* Instances of Containers.  User u has Pods a and b on node n1, user v    *)
(* has Pod c there, user w has none; node n2 is free.  A behaviour         *)
(* registers one of the sets of jobs in Mixes.                             *)
(***************************************************************************)
EXTENDS Containers

MCJobs   == {"prov", "mig", "brev", "bdel", "port", "crev", "cprov", "wprov",
             "whome"}
MCOld    == {"a", "b", "c"}
MCNodes  == {"n1", "n2"}
MCBase   == {"ssh"}
MCKindOf == [j \in MCJobs |->
  CASE j \in {"prov", "cprov", "wprov"} -> "provision" [] j = "mig" -> "migrate"
    [] j \in {"brev", "crev"} -> "revoke" [] j = "bdel" -> "delete"
    [] j = "port" -> "port" [] j = "whome" -> "home"]
MCUserOf == [p \in MCJobs \cup MCOld |->
  CASE p \in {"c", "crev", "cprov"} -> "v" [] p \in {"wprov", "whome"} -> "w"
    [] OTHER -> "u"]
MCTargetOf == [j \in {"mig", "port", "brev", "bdel", "crev"} |->
  CASE j \in {"mig", "port"} -> "a" [] j = "crev" -> "c" [] OTHER -> "b"]
MCNodesOf  == [j \in MCJobs |-> IF j \in {"prov", "wprov"} THEN {"n1"} ELSE MCNodes]
MCWanted   == [j \in {"port"} |-> {"vnc"}]
MCOldNode  == [p \in MCOld |-> "n1"]
MCOldPorts == [p \in MCOld |->
  CASE p = "a" -> [i \in {"ssh", "web"} |-> IF i = "ssh" THEN 1 ELSE 4]
    [] p = "b" -> [i \in MCBase |-> 2] [] p = "c" -> [i \in MCBase |-> 3]]
MCPending  == {<<"v", "n2">>}
NoPending  == {}

\* Two creations; a port change and a creation; two jobs that empty n1 of
\* u's Pods; a revocation and a creation for the same user; the deletion of
\* an expired home and a creation that needs it.
PortMixes == {{"prov", "wprov"}, {"port", "prov"}, {"mig", "brev"},
              {"mig", "bdel"}, {"crev", "cprov"}, {"wprov", "whome"}}
\* A keytab removed while a new Pod needs it.
KeysMix  == {{"crev", "cprov"}}
HomeMix  == {{"wprov", "whome"}}
MigrationMix == {{"mig"}}
GraceMix     == {{"prov", "wprov"}}

\* A revocation of a that fails half-way, a port change of a, and a creation.
TriedMix    == {{"brev", "port", "prov"}}
TriedTarget == [MCTargetOf EXCEPT !["brev"] = "a"]
TriedWanted == [j \in {"port"} |-> {"web"}]
TriedPorts  == [MCOldPorts EXCEPT !["a"] = [i \in {"ssh", "web"} |->
                                             IF i = "ssh" THEN 4 ELSE 1]]
=============================================================================
