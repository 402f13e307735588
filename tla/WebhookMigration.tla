-------------------------- MODULE WebhookMigration ---------------------------
(***************************************************************************)
(* The start of the server over a database of the version before refunds:  *)
(* webhook_events and webhook_deliveries get the columns of the resource,  *)
(* their rows are filled, the old unique index goes and the schema         *)
(* creates the new one.  Every statement commits by itself; an instance    *)
(* that fails or dies is started again from the first statement, while     *)
(* other instances start too and one of the old version still writes.      *)
(***************************************************************************)
EXTENDS Naturals, Sequences

CONSTANTS
  Instances,           \* servers of this version that start
  Payments,            \* gateway_order_no's whose one event is stored
  RowIds,              \* bound: rows of a table
  MaxMigrationFaults,  \* bound: failed statements and processes that die
  MaxOldWrites         \* bound: rows the old version still writes

ASSUME MigrationAssumption == MaxMigrationFaults \in Nat /\ MaxOldWrites \in Nat

VARIABLES
  driver,           \* postgres or mysql
  tables,           \* of each table: has it the columns, are they required, its rows
  indexes,          \* unique indexes of webhook_events
  boot,             \* per instance, the statement it is at and what it saw before
  migrationFaults,
  oldWrites

migrationVars == <<driver, tables, indexes, boot, migrationFaults, oldWrites>>

-----------------------------------------------------------------------------
Tables == {"events", "deliveries"}
NoEntry == [order |-> "none", filled |-> FALSE]
Entries == {NoEntry} \cup [order : Payments, filled : BOOLEAN]

S(what, table) == [what |-> what, table |-> table]

\* Mutant: the old index is dropped first.
StatementsDropFirst ==
  <<S("drop", "events"), S("add", "events"), S("fill", "events"), S("require", "events"),
    S("add", "deliveries"), S("fill", "deliveries"), S("require", "deliveries"),
    S("create", "events")>>

\* Mutant: the rows of the deliveries are not filled.
StatementsFillEvents ==
  <<S("add", "events"), S("fill", "events"), S("require", "events"), S("drop", "events"),
    S("add", "deliveries"), S("require", "deliveries"), S("create", "events")>>

\* The statements of both drivers, in their order, and client.Schema.Create.  The
\* table of this one is that of its index.
Statements ==
  <<S("add", "events"), S("fill", "events"), S("require", "events"), S("drop", "events"),
    S("add", "deliveries"), S("fill", "deliveries"), S("require", "deliveries"),
    S("create", "events")>>

Serving == Len(Statements) + 1
Booting(i) == boot[i].next \in 1..Len(Statements)
Statement(i) == Statements[boot[i].next]

Stored(t) == {id \in RowIds : tables[t].rows[id] # NoEntry}
AllFilled(t) == \A id \in Stored(t) : tables[t].rows[id].filled
OneRowEach(t, ids) ==
  \A i, j \in ids : tables[t].rows[i].order = tables[t].rows[j].order => i = j

\* The database as the old version left it.
MigrationInit ==
  /\ driver \in {"postgres", "mysql"}
  /\ tables \in [Tables -> [column : {FALSE}, required : {FALSE},
                            rows : [RowIds -> {NoEntry} \cup [order : Payments, filled : {FALSE}]]]]
  /\ OneRowEach("events", Stored("events"))
  /\ indexes = {"legacy"}
  /\ boot = [i \in Instances |-> [next |-> 0, saw |-> "nothing"]]
  /\ migrationFaults = 0 /\ oldWrites = 0

-----------------------------------------------------------------------------
\* The container is started, and started again when the process ended.
Start(i) ==
  /\ boot[i].next = 0
  /\ boot' = [boot EXCEPT ![i] = [next |-> 1, saw |-> "nothing"]]
  /\ UNCHANGED <<driver, tables, indexes, migrationFaults, oldWrites>>

\* MySQL has no IF EXISTS: the catalog is asked in a query before.
LooksFirst(i) == driver = "mysql" /\ Statement(i).what \in {"add", "drop"} /\ boot[i].saw = "nothing"

Present(i) ==
  IF Statement(i).what = "add" THEN tables[Statement(i).table].column ELSE "legacy" \in indexes

Look(i) ==
  /\ Booting(i) /\ LooksFirst(i)
  /\ boot' = [boot EXCEPT ![i].saw = IF Present(i) THEN "present" ELSE "absent"]
  /\ UNCHANGED <<driver, tables, indexes, migrationFaults, oldWrites>>

\* What the statement of i does to table t; it may be that it has nothing to do.
AddColumn(t) == tables' = [tables EXCEPT ![t].column = TRUE] /\ UNCHANGED indexes

Fill(t) ==
  /\ tables' = [tables EXCEPT ![t].rows = [id \in RowIds |->
                  IF id \in Stored(t) THEN [@[id] EXCEPT !.filled = TRUE] ELSE NoEntry]]
  /\ UNCHANGED indexes

Require(t) == tables' = [tables EXCEPT ![t].required = TRUE] /\ UNCHANGED indexes

DropLegacy == indexes' = indexes \ {"legacy"} /\ UNCHANGED tables

CreateIndex == indexes' = indexes \cup {"resource"} /\ UNCHANGED tables

\* A statement fails on rows without a resource, on rows that are not unique, and in
\* MySQL if another instance was faster.
Refused(i) ==
  LET s == Statement(i)
  IN  \/ s.what = "require" /\ ~AllFilled(s.table)
      \/ s.what = "create" /\ ~OneRowEach("events", {id \in Stored("events") : tables["events"].rows[id].filled})
      \/ s.what = "add"  /\ boot[i].saw = "absent" /\ Present(i)
      \/ s.what = "drop" /\ boot[i].saw = "present" /\ ~Present(i)

Executed(i) ==
  LET s == Statement(i)
  IN  CASE s.what = "add"     -> AddColumn(s.table)
        [] s.what = "fill"    -> Fill(s.table)
        [] s.what = "require" -> Require(s.table)
        [] s.what = "drop"    -> DropLegacy
        [] s.what = "create"  -> CreateIndex

\* Mutant: the error of a statement is not looked at.
ExecuteRegardless(i) ==
  /\ Booting(i) /\ ~LooksFirst(i)
  /\ boot' = [boot EXCEPT ![i] = [next |-> @.next + 1, saw |-> "nothing"]]
  /\ IF Refused(i) THEN UNCHANGED <<tables, indexes>> ELSE Executed(i)
  /\ UNCHANGED <<driver, migrationFaults, oldWrites>>

\* execMigrationStatements, database.Open: the first error ends the process.
Execute(i) ==
  /\ Booting(i) /\ ~LooksFirst(i)
  /\ IF Refused(i)
       THEN /\ boot' = [boot EXCEPT ![i].next = 0]
            /\ UNCHANGED <<tables, indexes>>
       ELSE /\ boot' = [boot EXCEPT ![i] = [next |-> @.next + 1, saw |-> "nothing"]]
            /\ Executed(i)
  /\ UNCHANGED <<driver, migrationFaults, oldWrites>>

\* A statement fails for another reason, or the process dies.
BootFails(i) ==
  /\ boot[i].next # 0 /\ boot' = [boot EXCEPT ![i].next = 0]
  /\ migrationFaults < MaxMigrationFaults /\ migrationFaults' = migrationFaults + 1
  /\ UNCHANGED <<driver, tables, indexes, oldWrites>>

-----------------------------------------------------------------------------
Insert(t, entry) ==
  \E id \in RowIds \ Stored(t) : tables' = [tables EXCEPT ![t].rows[id] = entry]

\* The old version writes without a resource; its insert fails once that is required.
OldWrite(t, o) ==
  /\ oldWrites < MaxOldWrites /\ oldWrites' = oldWrites + 1
  /\ ~tables[t].required
  /\ (t = "events" /\ "legacy" \in indexes) => \A id \in Stored(t) : tables[t].rows[id].order # o
  /\ Insert(t, [order |-> o, filled |-> FALSE])
  /\ UNCHANGED <<driver, indexes, boot, migrationFaults>>

\* An instance that serves writes with one.
NewWrite(t, o) ==
  /\ \E i \in Instances : boot[i].next = Serving
  /\ (t = "events" /\ indexes # {}) => \A id \in Stored(t) : tables[t].rows[id].order # o
  /\ Insert(t, [order |-> o, filled |-> TRUE])
  /\ UNCHANGED <<driver, indexes, boot, migrationFaults, oldWrites>>

-----------------------------------------------------------------------------
BootStep(i) == Start(i) \/ Look(i) \/ Execute(i)

MigrationNext ==
  \/ \E i \in Instances : BootStep(i) \/ BootFails(i)
  \/ \E t \in Tables, o \in Payments : OldWrite(t, o) \/ NewWrite(t, o)

MigrationSpec == MigrationInit /\ [][MigrationNext]_migrationVars

\* restart: unless-stopped.
MigrationFairness == \A i \in Instances : WF_migrationVars(BootStep(i))

-----------------------------------------------------------------------------
(* Properties. *)

\* An instance serves only over tables whose rows all have their resource and a
\* webhook_events with the new index alone: errors, deaths, other instances and
\* late rows of the old version do not let it slip through half way.
ServesMigrated ==
  (\E i \in Instances : boot[i].next = Serving) =>
    /\ \A t \in Tables : tables[t].column /\ tables[t].required /\ AllFilled(t)
    /\ indexes = {"resource"}

\* At no time, with either index or none, an event is stored twice.
OneEventEach == OneRowEach("events", Stored("events"))

\* The server comes up, however often it failed half way and whoever else started.
InstanceServes == \A i \in Instances : <>(boot[i].next = Serving)

=============================================================================
