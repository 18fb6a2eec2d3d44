----------------------------- MODULE MCService -----------------------------
(***************************************************************************)
(* Two parts of the Worker that share no state, for TLC: requests of any   *)
(* kind on one domain, which the environment lists as received by          *)
(* Cloudflare, and requests that initialize or migrate the database.  A    *)
(* behaviour is one of one part, chosen initially, while the other rests.  *)
(* MigrationStatements is extended so that TLC evaluates Script once.      *)
(***************************************************************************)
EXTENDS DomainSetup, MigrationStatements, TLC

CONSTANTS Versions, Direct, Links

VARIABLES part, version, tables, columns, indexes, labelled, exposed, shape, grants, given, run

Schema == INSTANCE SchemaMigration

ASSUME DomainSetupAssumption

ASSUME Schema!SchemaMigrationAssumption

schemaVars == <<version, tables, columns, indexes, labelled, exposed, shape, grants, given,
                run>>

\* A part that rests has one initial state.
MCInit ==
  /\ part \in {"schema", "domain"}
  /\ Init
  /\ Schema!Init
  /\ part # "schema" => version = 0
  /\ part # "domain" => ~row.enabled /\ row.mode = "cloudflare_email" /\ row.zone = NoZone

MCNext ==
  /\ UNCHANGED part
  /\ \/ part = "domain" /\ Next /\ UNCHANGED schemaVars
     \/ part = "schema" /\ Schema!Next /\ UNCHANGED vars

MCSpec == MCInit /\ [][MCNext]_<<part, vars, schemaVars>>

Symmetric == Permutations(Requests)

\* The database has what its recorded version promises (migrateDatabase, execute).
VersionMeansComplete == Schema!VersionMeansComplete

\* A migration that is left alone succeeds, whatever earlier ones have left (execute).
AloneSucceeds == Schema!AloneSucceeds
=============================================================================
