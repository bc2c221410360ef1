----------------------------- MODULE SchemaBoot -----------------------------
(***************************************************************************)
(* The schema of crypto.db that createTables (db.go) leaves behind at      *)
(* every start of bob-crypto-pilot: two ALTER TABLE statements whose       *)
(* errors are ignored, then the CREATE TABLE IF NOT EXISTS of all tables.  *)
(* The file starts empty, or as an older version left it, and is never     *)
(* removed.                                                                *)
(***************************************************************************)
EXTENDS Naturals

CONSTANTS MaxStarts,   \* bound: starts of the server
          MaxFaults    \* bound: failing statements and deaths while starting

\* The tables that got a column after their CREATE TABLE was written.
Added == [portfolios |-> "exchange", sim_trades |-> "fee"]
Tables == DOMAIN Added

VARIABLES
  table,    \* table[t]: "absent", "created" by its CREATE TABLE, "extended" by the ALTER
  pc,       \* "down", the statement a start runs next, or "serving"
  starts, faults

vars == <<table, pc, starts, faults>>

Init ==
  /\ table \in {[t \in Tables |-> "absent"], [t \in Tables |-> "created"]}
  /\ pc = "down" /\ starts = 0 /\ faults = 0

Start ==
  /\ pc = "down" /\ starts < MaxStarts
  /\ starts' = starts + 1
  /\ pc' = "portfolios"
  /\ UNCHANGED <<table, faults>>

\* ALTER TABLE t ADD COLUMN: an error when t is absent or has the column, ignored as any.
AddColumn(t, next) ==
  /\ pc = t /\ pc' = next
  /\ \/ /\ table' = [table EXCEPT ![t] = IF @ = "created" THEN "extended" ELSE @]
        /\ UNCHANGED faults
     \/ faults < MaxFaults /\ faults' = faults + 1 /\ UNCHANGED table
  /\ UNCHANGED starts

\* CREATE TABLE IF NOT EXISTS: sqlite3 runs the statements in order; an error ends
\* the start (log.Fatalf) with the tables of the statements before it.
CreateTables ==
  /\ pc = "create"
  /\ \/ /\ table' = [t \in Tables |-> IF table[t] = "absent" THEN "created" ELSE table[t]]
        /\ pc' = "serving" /\ UNCHANGED faults
     \/ /\ faults < MaxFaults /\ faults' = faults + 1 /\ pc' = "down"
        /\ \/ UNCHANGED table
           \/ table' = [table EXCEPT !.portfolios = IF @ = "absent" THEN "created" ELSE @]
  /\ UNCHANGED starts

Restart ==
  /\ pc = "serving" /\ pc' = "down"
  /\ UNCHANGED <<table, starts, faults>>

Next ==
  \/ Start
  \/ AddColumn("portfolios", "sim_trades") \/ AddColumn("sim_trades", "create")
  \/ CreateTables \/ Restart

Spec == Init /\ [][Next]_vars

\* db.go:44, "portfolios에 exchange 컬럼이 없으면 추가", and db.go:49, "sim_trades에 fee
\* 컬럼이 없으면 추가": a column that is missing is added.  CreatePortfolio and ExecuteTrade
\* name the columns in their INSERTs, so a server in which no statement has failed serves
\* with both.
ServesWithColumns ==
  pc = "serving" /\ faults = 0 => \A t \in Tables : table[t] = "extended"
=============================================================================
