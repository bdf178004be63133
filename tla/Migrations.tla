------------------------------ MODULE Migrations -------------------------------
(***************************************************************************)
(* internal/kernel/db/migrate.go: every instance brings the schema of a    *)
(* module up to its release when it starts.  Instances of different        *)
(* releases start at the same time, stop, and start again.                 *)
(*                                                                         *)
(* A script is one step with its row in schema_migrations, as both are in  *)
(* one transaction, DDL included.  Rows from before there were checksums   *)
(* have none.                                                              *)
(***************************************************************************)
EXTENDS Integers, Sequences, FiniteSets

CONSTANTS
    Starters,   \* instances of the service
    ReleaseOf,  \* instance -> its files, in the order of their names: [version, checksum]
    Legacy,     \* versions that may have been applied without a checksum
    NoChecksum,
    MaxStops    \* bound on failures and stops

Versions == UNION {{ReleaseOf[i][n].version : n \in DOMAIN ReleaseOf[i]} : i \in Starters}

Checksums == UNION {{ReleaseOf[i][n].checksum : n \in DOMAIN ReleaseOf[i]} : i \in Starters}

ASSUME MigrationsAssumption ==
    /\ ReleaseOf \in [Starters -> Seq([version : Versions, checksum : Checksums])]
    /\ NoChecksum \notin Checksums
    /\ Legacy \subseteq Versions /\ MaxStops \in Nat

VARIABLES
    schema,    \* schema_migrations: version -> [applied, checksum]
    starter,   \* instance -> [step, next]
    scripts,   \* history: the scripts that were committed, in their order: [version, checksum]
    stops

migrateVars == <<schema, starter, scripts, stops>>

NotApplied == [applied |-> FALSE, checksum |-> NoChecksum]

Goes(i, step) == starter' = [starter EXCEPT ![i] = [step |-> step, next |-> 1]]

\* pg_advisory_lock of the session, which ends with its connection.
TakeMigrationLock(i) ==
    /\ starter[i].step = "new"
    /\ \A j \in Starters : starter[j].step # "migrating"
    /\ Goes(i, "migrating")
    /\ UNCHANGED <<schema, scripts, stops>>

Pending(i) == starter[i].step = "migrating" /\ starter[i].next <= Len(ReleaseOf[i])
File(i) == ReleaseOf[i][starter[i].next]

\* Mutant: the number of rows that were inserted is not looked at.
InsertedAlways(f) == TRUE

\* ON CONFLICT DO NOTHING has inserted the row.
Inserted(f) == ~schema[f.version].applied

\* The transaction of one file commits.
ApplyMigration(i) ==
    LET f == File(i)
    IN  /\ Inserted(f)
        /\ schema' = [schema EXCEPT ![f.version] = [applied |-> TRUE, checksum |-> f.checksum]]
        /\ scripts' = Append(scripts, f)

\* verifyChecksum; a checksum that is missing is filled in.
VerifyChecksum(i) ==
    LET f == File(i)
    IN  /\ ~Inserted(f)
        /\ schema[f.version].checksum \in {NoChecksum, f.checksum}
        /\ schema' = [schema EXCEPT ![f.version].checksum = f.checksum]
        /\ UNCHANGED scripts

MigrateFile(i) ==
    /\ Pending(i)
    /\ ApplyMigration(i) \/ VerifyChecksum(i)
    /\ starter' = [starter EXCEPT ![i].next = @ + 1]
    /\ UNCHANGED stops

\* "applied migration was modified".
Mismatch(i) ==
    /\ Pending(i)
    /\ ~Inserted(File(i))
    /\ schema[File(i).version].checksum \notin {NoChecksum, File(i).checksum}
    /\ Goes(i, "refused")
    /\ UNCHANGED <<schema, scripts, stops>>

\* A script fails, the instance stops, or the connection is lost, before or after the
\* transaction has committed.
MigrationFails(i) ==
    /\ Pending(i)
    /\ stops < MaxStops
    /\ stops' = stops + 1
    /\ ApplyMigration(i) \/ VerifyChecksum(i) \/ UNCHANGED <<schema, scripts>>
    /\ Goes(i, "stopped")

EndMigrations(i) ==
    /\ starter[i].step = "migrating"
    /\ starter[i].next > Len(ReleaseOf[i])
    /\ Goes(i, "up")
    /\ UNCHANGED <<schema, scripts, stops>>

\* An instance is started again.
Restart(i) ==
    /\ starter[i].step = "stopped"
    /\ Goes(i, "new")
    /\ UNCHANGED <<schema, scripts, stops>>

MigrationsInit ==
    /\ \E S \in SUBSET Legacy :
           schema = [v \in Versions |-> IF v \in S THEN [applied |-> TRUE, checksum |-> NoChecksum] ELSE NotApplied]
    /\ starter = [i \in Starters |-> [step |-> "new", next |-> 1]]
    /\ scripts = <<>>
    /\ stops = 0

MigrationsStep ==
    \E i \in Starters :
        TakeMigrationLock(i) \/ MigrateFile(i) \/ Mismatch(i) \/ MigrationFails(i) \/ EndMigrations(i) \/ Restart(i)

-------------------------------------------------------------------------------

\* No script runs twice, and an instance that is up has each of its own behind it, with
\* the text its release has, whichever releases start at the same time and stop half way;
\* of a script from before there were checksums the text is not known (Migrate).
MigratedOnce ==
    /\ \A m, n \in DOMAIN scripts : scripts[m].version = scripts[n].version => m = n
    /\ \A i \in Starters : starter[i].step = "up" =>
           \A n \in DOMAIN ReleaseOf[i] :
               LET f == ReleaseOf[i][n]
               IN  \/ \E m \in DOMAIN scripts : scripts[m] = f
                   \/ f.version \in Legacy /\ schema[f.version] = [applied |-> TRUE, checksum |-> f.checksum]
===============================================================================
