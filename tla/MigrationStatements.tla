------------------------- MODULE MigrationStatements -------------------------
(***************************************************************************)
(* What the migration of the database executes (database.ts, db/), and     *)
(* what of it applies to the version it starts from.                       *)
(*                                                                         *)
(* The tables are grouped: those of the first version, those added since   *)
(* that no patch alters, the managed domains, and the three of the         *)
(* authenticators.  An element of a patch bears the number of the version  *)
(* that brought it.                                                        *)
(***************************************************************************)
EXTENDS Integers, Sequences

DBVersion == 20   \* DB_VERSION

Tables == {"first", "added", "authenticators", "domains"}

\* The version that brought a group of tables, and the columns patches add to it.
Since == [first |-> 2, added |-> 19, authenticators |-> 16, domains |-> 12]
ColumnsOf ==
  [first |-> {3, 4, 5, 7, 8, 9, 10, 20}, added |-> {}, authenticators |-> {},
   domains |-> {13}]
Altered == {3, 4, 5, 7, 8, 9, 10, 13, 20}
Indexed == {5, 6, 8, 10, 11, 12, 14, 15, 17, 19}
OnAuthenticators == {17}

-----------------------------------------------------------------------------
(* The statements of a migration.                                          *)

Statement(kind, of) == [kind |-> kind, of |-> of]

\* The missing tables are created first.  The patches follow in the order of their
\* versions; the one of version 9 records it by an UPDATE, which execute does not skip.
\* At last the schema is completed, whose tables exist by then.
Script ==
  <<Statement("table", "first"), Statement("table", "authenticators"),
    Statement("table", "added"), Statement("table", "domains"),

    Statement("column", 3), Statement("column", 4),
    Statement("column", 5), Statement("index", 5),
    Statement("index", 6), Statement("column", 7),
    Statement("column", 8), Statement("index", 8),
    Statement("column", 9), Statement("mark", 9),
    Statement("column", 10), Statement("index", 10), Statement("copy", 10),
    Statement("index", 11), Statement("index", 12),
    Statement("column", 13), Statement("erase", 13),
    Statement("index", 14), Statement("index", 15),
    Statement("check", 18), Statement("shapes", 18), Statement("rebuild", 18),
    Statement("column", 20),

    Statement("index", 5), Statement("index", 6), Statement("index", 8),
    Statement("index", 10), Statement("index", 11), Statement("index", 12),
    Statement("index", 14), Statement("index", 15), Statement("index", 17),
    Statement("index", 19), Statement("version", DBVersion)>>

Positions == 1..38
Patching  == 5..27

\* Mutant: an off-by-one in the comparison leaves the next patch out.
Applies_OneLate(from, i) == i \in Patching => from + 1 < Script[i].of

\* Patches of versions up to the one found are left out.
Applies(from, i) == i \in Patching => from < Script[i].of

\* The statement after position i is that at position j.
Follows(from, i, j) ==
  /\ j > i /\ Applies(from, j)
  /\ \A k \in (i + 1)..(j - 1) : ~Applies(from, k)
=============================================================================
