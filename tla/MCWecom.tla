------------------------------ MODULE MCWecom ------------------------------
(* The WeCom connections: small instances of WecomSync and of              *)
(* LegacyMigration, side by side.  A behaviour is one of them, the         *)
(* variables of the other standing still.                                  *)
EXTENDS WecomSync, LegacyMigration, TLC

VARIABLE part   \* the module whose behaviour it is

allVars == <<part, wecomVars, migrationVars>>

PartsInit ==
    /\ part \in {"sync", "migration"}
    /\ WecomInit /\ (part # "sync" => resource = "details")
    /\ MigrationInit /\ (part # "migration" => tenant[CHOOSE t \in Legacy : TRUE].status = "enabled")

\* Check-ins are listed whole, so that they have nothing to do with each other.
OneCheckin == resource = "records" => Cardinality({i \in Items : stamp[i] # None}) <= 1

InSync(A) == part = "sync" /\ A /\ OneCheckin' /\ UNCHANGED <<part, migrationVars>>
InMigration(A) == part = "migration" /\ A /\ UNCHANGED <<part, wecomVars>>

PartsNext == InSync(WecomNext) \/ InMigration(MigrationNext)

PartsSpec == PartsInit /\ [][PartsNext]_allVars

Symmetry == Permutations(Items)
=============================================================================
