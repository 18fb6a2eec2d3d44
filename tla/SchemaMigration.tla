--------------------------- MODULE SchemaMigration ---------------------------
(***************************************************************************)
(* The initialization and the migration of the database (database.ts) on   *)
(* requests that overlap and may end after any statement.  A migration     *)
(* reads the recorded version, creates the missing tables as they are      *)
(* today, executes the patches above that version, completes the schema    *)
(* and records the new version; only the reconstruction of the             *)
(* authenticator tables is one batch.                                      *)
(***************************************************************************)
EXTENDS MigrationStatements

CONSTANTS
  Requests,   \* requests to initialize or to migrate, each made once
  Versions,   \* versions found at the start; 0 is none, an empty database
  Direct,     \* assignments of authenticators to users
  Links       \* links that users have saved

\* What the constants of an instance satisfy.
SchemaMigrationAssumption ==
  Versions \subseteq ({0} \cup 2..21) /\ Direct \cap Links = {}

VARIABLES
  version,    \* settings.db_version, 0 if there is none
  tables,     \* groups of tables that exist
  columns,    \* patches whose columns exist
  indexes,    \* versions whose indexes exist
  labelled,   \* the labels of the addresses are in their table
  exposed,    \* verification tokens that were public are still stored
  shape,      \* shape of the authenticator tables
  grants,     \* rows of user_authenticator_access
  given,      \* every one of them so far
  run

vars == <<version, tables, columns, indexes, labelled, exposed, shape, grants, given,
          run>>

-----------------------------------------------------------------------------
TypeOK ==
  /\ version \in 0..21
  /\ tables \subseteq Tables /\ columns \subseteq Altered /\ indexes \subseteq Indexed
  /\ labelled \in BOOLEAN /\ exposed \in BOOLEAN
  /\ shape \in {"absent", "legacy", "current"}
  /\ grants \subseteq given /\ given \subseteq Direct \cup Links
  /\ run \in [Requests ->
       [pc : {"idle", "open", "begin", "execute", "done", "failed", "killed"},
        from : Versions \cup {0, 9}, at : Positions \cup {0}, absent : BOOLEAN, alone : BOOLEAN]]

Idle == [pc |-> "idle", from |-> 0, at |-> 0, absent |-> FALSE, alone |-> FALSE]

\* A database of any version has what the versions up to it brought.
Init ==
  /\ version \in Versions
  /\ tables = {g \in Tables : Since[g] <= version}
  /\ columns = {t \in Altered : t <= version}
  /\ indexes = {t \in Indexed : t <= version}
  /\ labelled = (version >= 10)
  /\ exposed = (version = 12)
  /\ shape = IF version < 16 THEN "absent" ELSE IF version < 18 THEN "legacy" ELSE "current"
  /\ given \in IF shape = "absent" THEN {{}} ELSE SUBSET (Direct \cup Links)
  /\ grants = given
  /\ run = [r \in Requests |-> Idle]

-----------------------------------------------------------------------------
(* Requests.                                                               *)

Active(r) == run[r].pc \in {"open", "begin", "execute"}

Become(r, pc) == run' = [run EXCEPT ![r].pc = pc]

\* Requests that are under way at once are not alone.
Request(r) ==
  /\ run[r].pc = "idle"
  /\ \E pc \in {"open", "begin"} :
       run' = [q \in Requests |->
                 CASE q = r -> [Idle EXCEPT !.pc = pc,
                                            !.alone = \A o \in Requests : ~Active(o)]
                   [] q # r /\ Active(q) -> [run[q] EXCEPT !.alone = FALSE]
                   [] OTHER -> run[q]]
  /\ UNCHANGED <<version, tables, columns, indexes, labelled, exposed, shape, grants,
                 given>>

\* initializeDatabase leaves a database with a version alone.
Initialize(r) ==
  /\ run[r].pc = "open"
  /\ Become(r, IF version # 0 THEN "done" ELSE "begin")
  /\ UNCHANGED <<version, tables, columns, indexes, labelled, exposed, shape, grants,
                 given>>

Unsupported == version # 0 /\ (version < 2 \/ version > DBVersion)

\* migrateDatabase up to its first statement.
Migrate(r) ==
  /\ run[r].pc = "begin"
  /\ CASE Unsupported -> Become(r, "failed")
       [] version = DBVersion -> Become(r, "done")
       [] OTHER -> run' = [run EXCEPT ![r].pc = "execute", ![r].from = version,
                                      ![r].at = 1]
  /\ UNCHANGED <<version, tables, columns, indexes, labelled, exposed, shape, grants,
                 given>>

\* The request ends after any statement, or a statement fails.
Kill(r) ==
  /\ Active(r)
  /\ Become(r, "killed")
  /\ UNCHANGED <<version, tables, columns, indexes, labelled, exposed, shape, grants,
                 given>>

-----------------------------------------------------------------------------
(* Statements.                                                             *)

At(r, kind) == run[r].pc = "execute" /\ Script[run[r].at].kind = kind

Of(r) == Script[run[r].at].of

\* On to the next statement that applies, the n-th counted from this one.
Advance(r, n) ==
  \E j \in Positions :
    /\ Follows(run[r].from, run[r].at + n - 1, j)
    /\ run' = [run EXCEPT ![r].at = j, ![r].absent = FALSE]

\* A missing table is created as it is today.
CreateTable(r) ==
  /\ At(r, "table")
  /\ tables' = tables \cup {Of(r)}
  /\ columns' = IF Of(r) \in tables THEN columns ELSE columns \cup ColumnsOf[Of(r)]
  /\ shape' = IF Of(r) = "authenticators" /\ Of(r) \notin tables THEN "current" ELSE shape
  /\ Advance(r, 1)
  /\ UNCHANGED <<version, indexes, labelled, exposed, grants, given>>

\* execute asks for the columns of the table, and skips the statement or executes it.
LookForColumn(r) ==
  /\ At(r, "column") /\ ~run[r].absent
  /\ IF Of(r) \in columns
     THEN Advance(r, 1)
     ELSE run' = [run EXCEPT ![r].absent = TRUE]
  /\ UNCHANGED <<version, tables, columns, indexes, labelled, exposed, shape, grants,
                 given>>

\* A column that another request has added meanwhile is a duplicate.
AddColumn(r) ==
  /\ At(r, "column") /\ run[r].absent
  /\ IF Of(r) \in columns
     THEN Become(r, "failed") /\ UNCHANGED columns
     ELSE columns' = columns \cup {Of(r)} /\ Advance(r, 1)
  /\ UNCHANGED <<version, tables, indexes, labelled, exposed, shape, grants, given>>

\* An index needs the column it is on.
CreateIndex(r) ==
  /\ At(r, "index")
  /\ IF Of(r) \in Altered \ columns
     THEN Become(r, "failed") /\ UNCHANGED indexes
     ELSE indexes' = indexes \cup {Of(r)} /\ Advance(r, 1)
  /\ UNCHANGED <<version, tables, columns, labelled, exposed, shape, grants, given>>

MarkVersion(r) ==
  /\ At(r, "mark")
  /\ version' = IF version = 0 THEN 0 ELSE Of(r)   \* an UPDATE
  /\ Advance(r, 1)
  /\ UNCHANGED <<tables, columns, indexes, labelled, exposed, shape, grants, given>>

CopyLabels(r) ==
  /\ At(r, "copy")
  /\ labelled' = TRUE
  /\ Advance(r, 1)
  /\ UNCHANGED <<version, tables, columns, indexes, exposed, shape, grants, given>>

EraseTokens(r) ==
  /\ At(r, "erase")
  /\ exposed' = FALSE
  /\ Advance(r, 1)
  /\ UNCHANGED <<version, tables, columns, indexes, labelled, shape, grants, given>>

\* Mutant: the tables are rebuilt whether or not they still have an owner.
HasLegacy_Always == TRUE

\* hasLegacyAuthenticatorOwner
HasLegacy == shape = "legacy"

\* Without an owner the reconstruction is left out.
CheckOwner(r) ==
  /\ At(r, "check")
  /\ Advance(r, IF HasLegacy THEN 1 ELSE 3)
  /\ UNCHANGED <<version, tables, columns, indexes, labelled, exposed, shape, grants,
                 given>>

\* The tables must have the columns of the legacy shape.
CheckShapes(r) ==
  /\ At(r, "shapes")
  /\ IF shape = "legacy" THEN Advance(r, 1) ELSE Become(r, "failed")
  /\ UNCHANGED <<version, tables, columns, indexes, labelled, exposed, shape, grants,
                 given>>

\* The batch of reconcileAuthenticatorSources.  It joins every grant with its link;
\* assignments had a link of their own only in the legacy shape.  The tables are new, and
\* have no index until the schema is completed.
Rebuild(r) ==
  /\ At(r, "rebuild")
  /\ shape' = "current"
  /\ grants' = IF shape = "legacy" THEN grants ELSE grants \cap Links
  /\ indexes' = indexes \ OnAuthenticators
  /\ Advance(r, 1)
  /\ UNCHANGED <<version, tables, columns, labelled, exposed, given>>

RecordVersion(r) ==
  /\ At(r, "version")
  /\ version' = Of(r)
  /\ Become(r, "done")
  /\ UNCHANGED <<tables, columns, indexes, labelled, exposed, shape, grants, given>>

Execute(r) ==
  \/ CreateTable(r) \/ LookForColumn(r) \/ AddColumn(r) \/ CreateIndex(r)
  \/ MarkVersion(r) \/ CopyLabels(r) \/ EraseTokens(r)
  \/ CheckOwner(r) \/ CheckShapes(r) \/ Rebuild(r)
  \/ RecordVersion(r)

\* The Worker serves other requests meanwhile; it knows the current shape only.
Grant(g) ==
  /\ shape = "current" /\ "first" \in tables
  /\ g \notin given
  /\ grants' = grants \cup {g} /\ given' = given \cup {g}
  /\ UNCHANGED <<version, tables, columns, indexes, labelled, exposed, shape, run>>

-----------------------------------------------------------------------------
Next ==
  \/ \E r \in Requests : Request(r) \/ Initialize(r) \/ Migrate(r) \/ Execute(r) \/ Kill(r)
  \/ \E g \in Direct \cup Links : Grant(g)

Spec == Init /\ [][Next]_vars

-----------------------------------------------------------------------------
(* Properties.                                                             *)

\* A request that another one overlapped and that has not come to its end.
Overlapped(r) == run[r].pc \in {"execute", "failed", "killed"} /\ ~run[r].alone

\* The database has what the recorded version promises, whatever requests overlapped
\* or ended in between: a later migration starts above that version
\* (migrateDatabase, execute).  Only a second reconstruction of the authenticator
\* tables may leave them without their index.
VersionMeansComplete ==
  /\ \A t \in Altered : t <= version => t \in columns
  /\ version >= 10 => labelled
  /\ version >= 13 => ~exposed
  /\ version >= 18 => shape = "current"
  /\ version = DBVersion =>
       /\ tables = Tables
       /\ Indexed \ indexes \subseteq OnAuthenticators
       /\ Indexed = indexes \/ \E r \in Requests : Overlapped(r)

\* A migration that no other request overlaps and that is not killed succeeds,
\* whatever earlier ones have left (execute, hasLegacyAuthenticatorOwner).
AloneSucceeds ==
  \A r \in Requests :
    run[r].pc = "failed" /\ run[r].alone => Unsupported

\* db/README.md: the source migration "preserves real links, and stores direct assignment
\* and saved link sources": every row of user_authenticator_access outlives the
\* migrations (reconcileAuthenticatorSources).
AccessRowsKept == grants = given
=============================================================================
