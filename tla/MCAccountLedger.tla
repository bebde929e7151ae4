-------------------------- MODULE MCAccountLedger --------------------------
(***************************************************************************)
(* Model-checking values for AccountLedger.                                *)
(***************************************************************************)
EXTENDS AccountLedger, TLC

CONSTANTS a, b, p1, p2, r1, r2, team, pg

AllForA   == [j \in Jobs |-> a]
OneEach   == [j \in Jobs |-> IF j = p2 THEN b ELSE a]
OwnGroup  == [j \in Provisions |-> NameOf[j]]
PgGroup   == [j \in Provisions |-> pg]
OneTeam   == team :> 100
NoTeams   == [t \in {} |-> 0]
InTeam    == [j \in Provisions |-> {team}]
InNoTeam  == [j \in Provisions |-> {}]
=============================================================================
