----------------------------- MODULE Inventory -----------------------------
(***************************************************************************)
(* How a collect stores a report (internal/app/app.go, storage.go,         *)
(* system.go): one transaction, statement by statement. Statements can     *)
(* fail; for some tables the error ends the transaction, for others it is  *)
(* ignored. A table is known by the report that its rows are from.         *)
(***************************************************************************)
EXTENDS Integers, Sequences

CONSTANTS
    MaxReports   \* bound: reports that are stored or fail

ASSUME ReportsAssumption == MaxReports \in Nat

(* The tables in the order in which the transaction writes them.           *)
Statements == <<"agents", "containers", "storage_volumes", "network_interfaces",
                "system_services", "absent_containers", "metric_samples">>

Tables == {Statements[i] : i \in 1..Len(Statements)}

(* "_, _ = tx.ExecContext(...)"                                            *)
Ignored == {"containers", "absent_containers", "metric_samples"}

(* A report: its number, and the tables whose primary key it breaks: df    *)
(* may name a file system and mount point twice.                           *)
Report == [number : 0..MaxReports, broken : SUBSET {"storage_volumes"}]

VARIABLES
    tables,   \* the last committed report of each table
    tx,       \* the transaction: the next statement and what it has written
    reports,  \* the number of reports so far
    skipped   \* history: tables whose statement the last commit went without

txVars == <<tables, tx, reports, skipped>>

NoTx == [next |-> 0, report |-> [number |-> 0, broken |-> {}], wrote |-> {}]

TxInit ==
    /\ tables = [t \in Tables |-> 0]
    /\ tx = NoTx
    /\ reports = 0
    /\ skipped = {}

(* The report has arrived: BeginTx.                                        *)
BeginTx(broken) ==
    /\ tx.next = 0
    /\ reports < MaxReports
    /\ reports' = reports + 1
    /\ tx' = [NoTx EXCEPT !.next = 1, !.report = [number |-> reports + 1, broken |-> broken]]
    /\ UNCHANGED <<tables, skipped>>

Writing == tx.next \in 1..Len(Statements)

Execute ==
    /\ Writing
    /\ Statements[tx.next] \notin tx.report.broken
    /\ tx' = [tx EXCEPT !.next = @ + 1, !.wrote = @ \union {Statements[tx.next]}]
    /\ UNCHANGED <<tables, reports, skipped>>

(* Mutant: a table's error does not end the transaction.                   *)
ErrorIgnored ==
    /\ Writing
    /\ tx' = IF Statements[tx.next] \in Ignored \union {"storage_volumes"}
             THEN [tx EXCEPT !.next = @ + 1] ELSE NoTx
    /\ UNCHANGED <<tables, reports, skipped>>

(* The database, or the primary key, refuses the statement.                *)
Error ==
    /\ Writing
    /\ tx' = IF Statements[tx.next] \in Ignored THEN [tx EXCEPT !.next = @ + 1] ELSE NoTx
    /\ UNCHANGED <<tables, reports, skipped>>

(* The context of the request has ended, or the process has.               *)
Rollback ==
    /\ tx.next > 0
    /\ tx' = NoTx
    /\ UNCHANGED <<tables, reports, skipped>>

Commit ==
    /\ tx.next > Len(Statements)
    /\ tables' = [t \in Tables |-> IF t \in tx.wrote THEN tx.report.number ELSE tables[t]]
    /\ skipped' = Ignored \ tx.wrote
    /\ tx' = NoTx
    /\ UNCHANGED reports

TxNext ==
    \/ \E broken \in SUBSET {"storage_volumes"} : BeginTx(broken)
    \/ Execute
    \/ Error
    \/ Rollback
    \/ Commit

TxSpec == TxInit /\ [][TxNext]_txVars

-----------------------------------------------------------------------------
(* An online machine shows one report: whatever statement of whatever      *)
(* collect failed, the tables of a machine are from the report that its    *)
(* row in agents is from; only the containers and metrics, whose errors    *)
(* are ignored (app.go 979, 994, 1005), may be missing from it.            *)
OneReport ==
    \A t \in Tables \ skipped : tables[t] = tables["agents"]

=============================================================================
