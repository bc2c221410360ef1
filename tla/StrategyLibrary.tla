--------------------------- MODULE StrategyLibrary ---------------------------
(***************************************************************************)
(* The strategy library of bob-crypto-pilot: handlers/strategy.go over the *)
(* tables strategies, strategy_versions, strategy_history,                 *)
(* portfolio_strategies and portfolio_strategy_history, and the seeding of *)
(* db.go at every start.                                                   *)
(*                                                                         *)
(* A client is an HTTP request that net/http serves in a goroutine of its  *)
(* own.  Every statement on SQLite is one step; no handler opens a         *)
(* transaction, so the steps of all requests interleave, any statement may *)
(* return an error, and the process may die between two of them.           *)
(*                                                                         *)
(* Names and notes are naturals, 0 for the empty string.  The numeric      *)
(* columns of a strategy take no part in any decision and are left out.    *)
(***************************************************************************)
EXTENDS Naturals, Sequences

CONSTANTS Clients,       \* requests that can be in flight
          Keys,          \* rows of portfolio_strategies: a portfolio and a coin
          Names,         \* names and notes a body may give besides the empty one
          Notes,
          SeedName,      \* 'Box Hunter'
          SeedNotes,
          MaxIds,        \* bound: ids the strategies table assigns
          MaxRequests,   \* bound: requests of a behaviour
          MaxFaults      \* bound: failing statements and deaths of the process

ASSUME TextsAreNaturals == Names \subseteq Nat \ {0} /\ Notes \subseteq Nat \ {0}
ASSUME SeedAssumption == SeedName \in Nat \ {0} /\ SeedNotes \in Nat \ {0}
ASSUME BoundsAreNaturals == {MaxIds, MaxRequests, MaxFaults} \subseteq Nat

VARIABLES
  strategies,  \* strategies[i]: the row with id i, or NoRow
  lastId,      \* the last id AUTOINCREMENT has assigned
  versions,    \* versions[i]: rows of strategy_versions for strategy i, oldest first
  logged,      \* logged[i]: snapshot of the newest row of strategy_history that tells of
               \* a CREATE, UPDATE or DELETE of strategy i
  activated,   \* activated[k]: strategy_id of the newest row of strategy_history that
               \* tells of an ACTIVATE of key k, 0 for no such row
  active,      \* active[k]: strategy_id of k's row in portfolio_strategies, 0 for no row
  newest,      \* newest[k]: strategy_id of k's newest row in portfolio_strategy_history
  pc, call,    \* what each request does next, and its body
  seen,        \* seen[c]: the row of strategies the request has read
  up,          \* the process serves requests
  calm,        \* no two requests have overlapped and nothing has failed (history variable)
  was,         \* was[i]: every content row i has had (history variable)
  route,       \* route[k]: the handler that wrote k's row last (history variable)
  requests, faults

tables == <<strategies, lastId, versions, logged, activated, active, newest>>
ghosts == <<was, route>>
vars == <<tables, pc, call, seen, up, calm, ghosts, requests, faults>>

Ids == 1..MaxIds
NoRow == [name |-> 0, notes |-> 0, version |-> 0]
Exists(i) == i \in Ids /\ strategies[i] # NoRow
Content(row) == [version |-> row.version, notes |-> row.notes]

CreateCalls == [op : {"create"}, id : {0}, name : Names, notes : Notes \union {0}]
CreatedCalls == [op : {"create"}, id : Ids, name : Names, notes : Notes \union {0}]
UpdateCalls == [op : {"update"}, id : Ids, name : Names \union {0}, notes : Notes \union {0}]
DeleteCalls == [op : {"delete"}, id : Ids]
AssignCalls == [op : {"assign", "legacy"}, id : Ids, key : Keys]
ClearCalls  == [op : {"clear"}, key : Keys]
Calls == CreateCalls \union UpdateCalls \union DeleteCalls \union AssignCalls \union ClearCalls
NoCall == [op |-> "none", id |-> 0]

FirstStep == [create |-> "insert", update |-> "read", delete |-> "count",
              assign |-> "validate", legacy |-> "validate", clear |-> "clear"]

Init ==
  /\ strategies = [i \in Ids |-> NoRow] /\ lastId = 0
  /\ versions = [i \in Ids |-> << >>] /\ logged = [i \in Ids |-> NoRow]
  /\ activated = [k \in Keys |-> 0]
  /\ active = [k \in Keys |-> 0] /\ newest = [k \in Keys |-> 0]
  /\ pc = [c \in Clients |-> "idle"]
  /\ call = [c \in Clients |-> NoCall]
  /\ seen = [c \in Clients |-> NoRow]
  /\ up = FALSE /\ calm = TRUE
  /\ was = [i \in Ids |-> {}] /\ route = [k \in Keys |-> "none"]
  /\ requests = 0 /\ faults = 0

-----------------------------------------------------------------------------
Go(c, label) == pc' = [pc EXCEPT ![c] = label]
Busy == {c \in Clients : pc[c] # "idle"}

\* A statement returns a result, or an error.
DbAnswers == UNCHANGED <<faults, calm>>
DbFails == faults < MaxFaults /\ faults' = faults + 1 /\ calm' = FALSE

\* INSERT INTO strategies: a new id, version 1 by the column's default.
InsertRow(name, notes) ==
  LET row == [name |-> name, notes |-> notes, version |-> 1] IN
  /\ lastId < MaxIds
  /\ lastId' = lastId + 1
  /\ strategies' = [strategies EXCEPT ![lastId'] = row]
  /\ was' = [was EXCEPT ![lastId'] = {Content(row)}]

(* Starting: SeedBoxHunterStrategies before the routes are served. *)
Boot ==
  /\ ~ up
  /\ up' = TRUE
  /\ IF \E i \in Ids : strategies[i].name = SeedName
       THEN UNCHANGED <<strategies, lastId, was, faults, calm>>
       ELSE \/ InsertRow(SeedName, SeedNotes) /\ DbAnswers
            \/ DbFails /\ UNCHANGED <<strategies, lastId, was>>
  /\ UNCHANGED <<versions, logged, activated, active, newest, pc, call, seen, route, requests>>

\* The process dies: requests in flight are gone, tables stay.
Crash ==
  /\ up /\ faults < MaxFaults
  /\ faults' = faults + 1 /\ calm' = FALSE
  /\ up' = FALSE
  /\ pc' = [c \in Clients |-> "idle"]
  /\ UNCHANGED <<tables, call, seen, ghosts, requests>>

Request(c) ==
  /\ up /\ pc[c] = "idle" /\ requests < MaxRequests
  /\ requests' = requests + 1
  /\ calm' = (calm /\ Busy = {})
  /\ \E r \in Calls : call' = [call EXCEPT ![c] = r] /\ Go(c, FirstStep[r.op])
  /\ UNCHANGED <<tables, seen, up, ghosts, faults>>

-----------------------------------------------------------------------------
(* CreateStrategy: INSERT, fetchStrategyByID, recordStrategyHistory. *)
Insert(c) ==
  /\ pc[c] = "insert"
  /\ \/ /\ InsertRow(call[c].name, call[c].notes) /\ DbAnswers
        /\ call' = [call EXCEPT ![c].id = lastId']
        /\ Go(c, "fetch")
     \/ /\ DbFails /\ Go(c, "idle")
        /\ UNCHANGED <<strategies, lastId, was, call>>
  /\ UNCHANGED <<versions, logged, activated, active, newest, seen, up, route, requests>>

\* fetchStrategyByID: without a row, or with an error, the handler answers 404 or 500.
Reads(c, next) ==
  \/ /\ DbAnswers
     /\ IF Exists(call[c].id)
          THEN seen' = [seen EXCEPT ![c] = strategies[call[c].id]] /\ Go(c, next)
          ELSE Go(c, "idle") /\ UNCHANGED seen
  \/ DbFails /\ Go(c, "idle") /\ UNCHANGED seen

\* Mutant: the row logged is the one that was read before the UPDATE.
FetchNothing(c) ==
  /\ pc[c] = "fetch"
  /\ DbAnswers /\ Go(c, "log")
  /\ UNCHANGED <<tables, call, seen, up, ghosts, requests>>

Fetch(c) ==
  /\ pc[c] = "fetch"
  /\ Reads(c, "log")
  /\ UNCHANGED <<tables, call, up, ghosts, requests>>

\* recordStrategyHistory: an error is ignored.
LogRow(c) ==
  /\ pc[c] = "log"
  /\ Go(c, "idle")
  /\ \/ DbAnswers /\ logged' = [logged EXCEPT ![call[c].id] = seen[c]]
     \/ DbFails /\ UNCHANGED logged
  /\ UNCHANGED <<strategies, lastId, versions, activated, active, newest, call, seen, up, ghosts, requests>>

(* UpdateStrategy *)
ReadOld(c) ==
  /\ pc[c] = "read"
  /\ Reads(c, "snapshot")
  /\ UNCHANGED <<tables, call, up, ghosts, requests>>

NotesChanged(c) == call[c].notes # seen[c].notes

\* Mutant: the snapshot holds the notes of the request.
SnapshotOfNew(c) ==
  /\ pc[c] = "snapshot"
  /\ Go(c, "write")
  /\ versions' = [versions EXCEPT ![call[c].id] =
                    Append(@, [version |-> seen[c].version, notes |-> call[c].notes])]
  /\ DbAnswers
  /\ UNCHANGED <<strategies, lastId, logged, activated, active, newest, call, seen, up, ghosts, requests>>

\* Mutant: a change of notes takes no snapshot.
SnapshotNever(c) ==
  /\ pc[c] = "snapshot"
  /\ Go(c, "write")
  /\ DbAnswers
  /\ UNCHANGED <<tables, call, seen, up, ghosts, requests>>

\* Changed notes: the old content becomes a row of strategy_versions; an error is ignored.
Snapshot(c) ==
  /\ pc[c] = "snapshot"
  /\ Go(c, "write")
  /\ \/ /\ NotesChanged(c) /\ DbAnswers
        /\ versions' = [versions EXCEPT ![call[c].id] = Append(@, Content(seen[c]))]
     \/ NotesChanged(c) /\ DbFails /\ UNCHANGED versions
     \/ ~ NotesChanged(c) /\ DbAnswers /\ UNCHANGED versions
  /\ UNCHANGED <<strategies, lastId, logged, activated, active, newest, call, seen, up, ghosts, requests>>

\* Mutant: every update makes a version.
UpdatedAlways(c) ==
  [name    |-> IF call[c].name = 0 THEN seen[c].name ELSE call[c].name,
   notes   |-> call[c].notes,
   version |-> seen[c].version + 1]

\* The row the UPDATE writes: an empty name keeps the name that was read, the notes are
\* the body's, and the version is the one that was read, plus one for changed notes.
Updated(c) ==
  [name    |-> IF call[c].name = 0 THEN seen[c].name ELSE call[c].name,
   notes   |-> call[c].notes,
   version |-> seen[c].version + (IF NotesChanged(c) THEN 1 ELSE 0)]

\* UPDATE strategies: no row answers 404, an error 500.
Write(c) ==
  LET i == call[c].id IN
  /\ pc[c] = "write"
  /\ \/ /\ Exists(i) /\ DbAnswers
        /\ strategies' = [strategies EXCEPT ![i] = Updated(c)]
        /\ was' = [was EXCEPT ![i] = @ \union {Content(Updated(c))}]
        /\ Go(c, "fetch")
     \/ ~ Exists(i) /\ DbAnswers /\ Go(c, "idle") /\ UNCHANGED <<strategies, was>>
     \/ DbFails /\ Go(c, "idle") /\ UNCHANGED <<strategies, was>>
  /\ UNCHANGED <<lastId, versions, logged, activated, active, newest, call, seen, up, route, requests>>

-----------------------------------------------------------------------------
(* DeleteStrategy *)

\* Mutant: a strategy in use is deleted.
CountNothing(c) ==
  /\ pc[c] = "count"
  /\ DbAnswers /\ Go(c, "keep")
  /\ UNCHANGED <<tables, call, seen, up, ghosts, requests>>

\* SELECT COUNT(*) of the rows that use the strategy; an error counts as 0.
CountUses(c) ==
  /\ pc[c] = "count"
  /\ \/ DbAnswers /\ Go(c, IF \E k \in Keys : active[k] = call[c].id THEN "idle" ELSE "keep")
     \/ DbFails /\ Go(c, "keep")
  /\ UNCHANGED <<tables, call, seen, up, ghosts, requests>>

\* fetchStrategyByID for the log: without a row, or with an error, the zero Strategy.
Keep(c) ==
  /\ pc[c] = "keep"
  /\ Go(c, "drop")
  /\ \/ /\ DbAnswers
        /\ seen' = [seen EXCEPT ![c] = IF Exists(call[c].id) THEN strategies[call[c].id] ELSE NoRow]
     \/ DbFails /\ seen' = [seen EXCEPT ![c] = NoRow]
  /\ UNCHANGED <<tables, call, up, ghosts, requests>>

\* DELETE FROM strategies: an error answers 500, no row 404.
Drop(c) ==
  LET i == call[c].id IN
  /\ pc[c] = "drop"
  /\ \/ Exists(i) /\ DbAnswers /\ strategies' = [strategies EXCEPT ![i] = NoRow] /\ Go(c, "log")
     \/ ~ Exists(i) /\ DbAnswers /\ Go(c, "idle") /\ UNCHANGED strategies
     \/ DbFails /\ Go(c, "idle") /\ UNCHANGED strategies
  /\ UNCHANGED <<lastId, versions, logged, activated, active, newest, call, seen, up, ghosts, requests>>

-----------------------------------------------------------------------------
(* PatchPortfolioStrategy, and the legacy PatchCoinActiveStrategy *)

\* Mutant: the strategy is not looked up.
ValidateNothing(c) ==
  /\ pc[c] = "validate"
  /\ DbAnswers /\ Go(c, "upsert")
  /\ UNCHANGED <<tables, call, seen, up, ghosts, requests>>

\* SELECT COUNT(*) of the strategy; an error counts as 0 and answers 400.
Validate(c) ==
  /\ pc[c] = "validate"
  /\ \/ DbAnswers /\ Go(c, IF Exists(call[c].id) THEN "upsert" ELSE "idle")
     \/ DbFails /\ Go(c, "idle")
  /\ UNCHANGED <<tables, call, seen, up, ghosts, requests>>

\* Mutant: the legacy route ends without an ACTIVATE row.
UpsertUnlogged(c) ==
  LET k == call[c].key IN
  /\ pc[c] = "upsert"
  /\ Go(c, IF call[c].op = "assign" THEN "track" ELSE "idle")
  /\ DbAnswers
  /\ active' = [active EXCEPT ![k] = call[c].id]
  /\ route' = [route EXCEPT ![k] = call[c].op]
  /\ UNCHANGED <<strategies, lastId, versions, logged, activated, newest, call, seen, up, was, requests>>

\* The upsert of portfolio_strategies: an error is ignored.
Upsert(c) ==
  LET k == call[c].key IN
  /\ pc[c] = "upsert"
  /\ Go(c, IF call[c].op = "assign" THEN "track" ELSE "activate")
  /\ \/ /\ DbAnswers
        /\ active' = [active EXCEPT ![k] = call[c].id]
        /\ route' = [route EXCEPT ![k] = call[c].op]
     \/ DbFails /\ UNCHANGED <<active, route>>
  /\ UNCHANGED <<strategies, lastId, versions, logged, activated, newest, call, seen, up, was, requests>>

\* Mutant: the history is written for the first assignment of a key only.
TrackFirst(c) ==
  /\ pc[c] = "track"
  /\ Go(c, "activate")
  /\ newest' = [newest EXCEPT ![call[c].key] = IF @ = 0 THEN call[c].id ELSE @]
  /\ DbAnswers
  /\ UNCHANGED <<strategies, lastId, versions, logged, activated, active, call, seen, up, ghosts, requests>>

\* Only the new route writes portfolio_strategy_history: an error is ignored.
Track(c) ==
  /\ pc[c] = "track"
  /\ Go(c, "activate")
  /\ \/ DbAnswers /\ newest' = [newest EXCEPT ![call[c].key] = call[c].id]
     \/ DbFails /\ UNCHANGED newest
  /\ UNCHANGED <<strategies, lastId, versions, logged, activated, active, call, seen, up, ghosts, requests>>

\* recordStrategyHistory of both routes, with the assignment as its snapshot: an error
\* is ignored.
Activate(c) ==
  /\ pc[c] = "activate"
  /\ Go(c, "idle")
  /\ \/ DbAnswers /\ activated' = [activated EXCEPT ![call[c].key] = call[c].id]
     \/ DbFails /\ UNCHANGED activated
  /\ UNCHANGED <<strategies, lastId, versions, logged, active, newest, call, seen, up, ghosts, requests>>

\* RemoveCoinFromPortfolio and DeletePortfolio delete the row, an error is ignored.
Clear(c) ==
  LET k == call[c].key IN
  /\ pc[c] = "clear"
  /\ Go(c, "idle")
  /\ \/ /\ DbAnswers
        /\ active' = [active EXCEPT ![k] = 0]
        /\ route' = [route EXCEPT ![k] = "none"]
     \/ DbFails /\ UNCHANGED <<active, route>>
  /\ UNCHANGED <<strategies, lastId, versions, logged, activated, newest, call, seen, up, was, requests>>

Step(c) ==
  \/ Insert(c) \/ Fetch(c) \/ LogRow(c)
  \/ ReadOld(c) \/ Snapshot(c) \/ Write(c)
  \/ CountUses(c) \/ Keep(c) \/ Drop(c)
  \/ Validate(c) \/ Upsert(c) \/ Track(c) \/ Activate(c) \/ Clear(c)

Next == Boot \/ Crash \/ \E c \in Clients : Request(c) \/ Step(c)

Spec == Init /\ [][Next]_vars

-----------------------------------------------------------------------------
(* Properties *)

Rows == [name : Nat \ {0}, notes : Nat, version : Nat \ {0}]
Contents == [version : Nat \ {0}, notes : Nat]
Labels == {"idle", "insert", "fetch", "log", "read", "snapshot", "write", "count",
           "keep", "drop", "validate", "upsert", "track", "activate", "clear"}
Quiet == calm /\ Busy = {}

\* Every table keeps its columns' types (db.go), and a key refers to an id that the
\* strategies table has assigned.
TypeOK ==
  /\ lastId \in 0..MaxIds
  /\ strategies \in [Ids -> Rows \union {NoRow}]
  /\ \A i \in Ids : i > lastId => strategies[i] = NoRow
  /\ versions \in [Ids -> Seq(Contents)]
  /\ logged \in [Ids -> Rows \union {NoRow}]
  /\ activated \in [Keys -> 0..lastId]
  /\ active \in [Keys -> 0..lastId] /\ newest \in [Keys -> 0..lastId]
  /\ pc \in [Clients -> Labels]
  /\ call \in [Clients -> Calls \union CreatedCalls \union {NoCall}]
  /\ seen \in [Clients -> Rows \union {NoRow}]
  /\ up \in BOOLEAN /\ calm \in BOOLEAN
  /\ was \in [Ids -> SUBSET Contents]
  /\ requests \in Nat /\ faults \in Nat

\* Whatever interleaves or fails, a snapshot in strategy_versions shows a version and
\* notes the strategy really had together.
SnapshotWasCurrent ==
  \A i \in Ids : \A n \in DOMAIN versions[i] : versions[i][n] \in was[i]

\* As long as no statement has failed and the process has not died, concurrent updates
\* never leave a hole: every version below a strategy's own has a snapshot.
NoVersionGap ==
  faults = 0 =>
    \A i \in Ids : \A v \in 1..(strategies[i].version - 1) :
       \E n \in DOMAIN versions[i] : versions[i][n].version = v

\* ARCHITECTURE.md:284-285: requests one after another lose no notes.  The snapshots are
\* numbered 1, 2, ... up to the row's version, and each content the row has had is a
\* snapshot or the row itself.
NotesAreKept ==
  Quiet => \A i \in Ids : Exists(i) =>
    /\ Len(versions[i]) = strategies[i].version - 1
    /\ \A n \in DOMAIN versions[i] : versions[i][n].version = n
    /\ was[i] = {versions[i][n] : n \in DOMAIN versions[i]} \union {Content(strategies[i])}

\* strategy.go:368, "Block delete if active in any portfolio": a strategy a portfolio
\* uses exists.
ActiveExists == \A k \in Keys : active[k] # 0 => Exists(active[k])

\* Requests one after another delete no strategy in use and assign none that is gone.
NothingDangles == calm => ActiveExists

\* The newest row of portfolio_strategy_history, which price-check-collect.sh reports as a
\* key's strategy, is the one in portfolio_strategies when the key was assigned through
\* the route that writes the history.
HistoryShowsActive ==
  Quiet => \A k \in Keys : route[k] = "assign" => newest[k] = active[k]

\* strategy_history tells of both: rows of a CREATE, UPDATE or DELETE hold a strategy, rows
\* of an ACTIVATE an assignment.  Requests one after another: the newest of the former is
\* the strategy's row or, once it was deleted, a content it had.
LogShowsRow ==
  Quiet => \A i \in Ids : logged[i] # NoRow =>
    IF Exists(i) THEN logged[i] = strategies[i] ELSE Content(logged[i]) \in was[i]

\* Requests one after another: the newest ACTIVATE row of a key that has a strategy names
\* it, whichever of the two routes assigned it and however often it was removed between.
ActivationShown ==
  Quiet => \A k \in Keys : active[k] # 0 => activated[k] = active[k]
=============================================================================
