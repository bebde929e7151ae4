--------------------------- MODULE MCSharedGroups ---------------------------
(* Instances of SharedGroups for TLC: "g" exists with one member, "h" is    *)
(* new.  "found" creates it without members.                               *)
EXTENDS SharedGroups, TLC

MCJobs    == {"remove", "back", "create", "found", "addH", "join", "joinG",
               "revive"}
MCKind    == [j \in MCJobs |-> CASE j = "remove" -> "remove"
                                 [] j \in {"back", "addH"} -> "add"
                                 [] j \in {"create", "found"} -> "create"
                                 [] OTHER -> "join"]
MCGroup   == [j \in MCJobs |-> IF j \in {"remove", "back", "joinG"} THEN "g" ELSE "h"]
MCMembers == [j \in MCJobs |-> IF j = "found" THEN {} ELSE {"u"}]
MCGid     == [j \in MCJobs |-> CASE j = "joinG" -> 1 [] j = "revive" -> 2 [] OTHER -> 0]
MCKnown   == "g" :> 1
MCIn      == "g" :> {"u"}
MCMixes   == {{"remove", "back"}, {"joinG"}, {"create", "addH"},
               {"found", "addH"}, {"join"}, {"revive"}}
=============================================================================
