----------------------- MODULE StrategyLibrary_proofs -----------------------
(***************************************************************************)
(* Proofs about StrategyLibrary for every number of clients, strategies,   *)
(* keys and requests, every interleaving of their statements, any number   *)
(* of failing statements and of deaths of the process.                     *)
(***************************************************************************)
EXTENDS StrategyLibrary, SequenceTheorems, TLAPS

(***************************************************************************)
(* The properties are not inductive.  What a snapshot and an UPDATE write  *)
(* was read one or two statements earlier: LocalOK carries what was known  *)
(* then to the step that uses it.                                          *)
(***************************************************************************)
TableTypes ==
  /\ lastId \in 0..MaxIds
  /\ strategies \in [Ids -> Rows \union {NoRow}]
  /\ \A i \in Ids : i > lastId => strategies[i] = NoRow
  /\ versions \in [Ids -> Seq(Contents)]
  /\ logged \in [Ids -> Rows \union {NoRow}]
  /\ activated \in [Keys -> 0..lastId]
  /\ active \in [Keys -> 0..lastId] /\ newest \in [Keys -> 0..lastId]
  /\ was \in [Ids -> SUBSET Contents]
  /\ faults \in Nat

LocalTypes ==
  /\ pc \in [Clients -> Labels]
  /\ call \in [Clients -> Calls \union CreatedCalls \union {NoCall}]
  /\ seen \in [Clients -> Rows \union {NoRow}]
  /\ up \in BOOLEAN /\ calm \in BOOLEAN
  /\ requests \in Nat

\* The history variable was holds what each row of strategies shows.
RowWas ==
  \A i \in Ids :
    /\ strategies[i] # NoRow => Content(strategies[i]) \in was[i]
    /\ i > lastId => was[i] = {}

\* Strategy i has a snapshot of each of the versions 1..n.
Covered(i, n) == \A v \in 1..n : \E k \in DOMAIN versions[i] : versions[i][k].version = v

\* As long as no statement has failed, the versions below a row's own are covered.
RowCovered == faults = 0 => \A i \in Ids : Covered(i, strategies[i].version - 1)

TablesOK == TableTypes /\ RowWas /\ SnapshotWasCurrent /\ RowCovered

\* What request c knows of its body and of the row it has read.
CallFits(c) ==
  /\ pc[c] = "insert" => call[c] \in CreateCalls
  /\ pc[c] \in {"read", "snapshot", "write"} => call[c] \in UpdateCalls
  /\ pc[c] \in {"upsert", "track", "activate"} => call[c].id \in 0..lastId
SeenWas(c) ==
  pc[c] \in {"snapshot", "write"} => seen[c] \in Rows /\ Content(seen[c]) \in was[call[c].id]
WriteCovered(c) ==
  faults = 0 =>
    /\ pc[c] = "snapshot" => Covered(call[c].id, seen[c].version - 1)
    /\ pc[c] = "write" => Covered(call[c].id, Updated(c).version - 1)
LocalOK(c) == CallFits(c) /\ SeenWas(c) /\ WriteCovered(c)

IInv == TablesOK /\ LocalTypes /\ \A c \in Clients : LocalOK(c)

-----------------------------------------------------------------------------
(* Facts about the data. *)

\* The content of a row is a content, and NoRow is no row.
LEMMA RowContent ==
  /\ NoRow \notin Rows
  /\ \A row \in Rows : Content(row) \in Contents
BY DEF NoRow, Rows, Content, Contents

\* An INSERT makes a row of version 1.
LEMMA NewRow ==
  ASSUME NEW name \in Nat \ {0}, NEW notes \in Nat
  PROVE  /\ [name |-> name, notes |-> notes, version |-> 1] \in Rows
         /\ [name |-> name, notes |-> notes, version |-> 1].version = 1
BY DEF Rows

\* What an UPDATE writes is a row, and raises the version by one when notes change.
LEMMA UpdatedRow ==
  ASSUME NEW c \in Clients, call[c] \in UpdateCalls, seen[c] \in Rows
  PROVE  /\ Updated(c) \in Rows
         /\ Updated(c).version = seen[c].version + (IF NotesChanged(c) THEN 1 ELSE 0)
<1> DEFINE name == IF call[c].name = 0 THEN seen[c].name ELSE call[c].name
           version == seen[c].version + (IF NotesChanged(c) THEN 1 ELSE 0)
<1>1. call[c].name \in Nat /\ call[c].notes \in Nat
  <2>1. call[c].name \in Names \union {0} /\ call[c].notes \in Notes \union {0}
    BY DEF UpdateCalls
  <2>2. Names \union {0} \subseteq Nat /\ Notes \union {0} \subseteq Nat
    BY TextsAreNaturals
  <2> QED
    BY <2>1, <2>2
<1>2. seen[c].name \in Nat \ {0} /\ seen[c].version \in Nat \ {0}
  BY DEF Rows
<1>3. name \in Nat \ {0} /\ version \in Nat \ {0}
  BY <1>1, <1>2
<1>4. Updated(c) = [name |-> name, notes |-> call[c].notes, version |-> version]
  BY DEF Updated
<1> HIDE DEF name, version
<1>5. Updated(c) \in Rows /\ Updated(c).version = version
  BY <1>1, <1>3, <1>4 DEF Rows
<1> QED
  BY <1>5 DEF version

LEMMA InitIInv == Init => IInv
<1> SUFFICES ASSUME Init PROVE IInv
  OBVIOUS
<1>1. TableTypes
  BY BoundsAreNaturals DEF Init, TableTypes, Ids
<1>2. LocalTypes
  BY DEF Init, LocalTypes, Labels
<1>3. \A c \in Clients : LocalOK(c)
  BY DEF Init, LocalOK, CallFits, SeenWas, WriteCovered
<1>4. RowWas /\ SnapshotWasCurrent /\ RowCovered
  BY DEF Init, RowWas, SnapshotWasCurrent, RowCovered, Covered, NoRow
<1> QED
  BY <1>1, <1>2, <1>3, <1>4 DEF IInv, TablesOK

-----------------------------------------------------------------------------
(* What a step leaves alone. *)

\* Snapshots and contents are only added, ids only go up, faults only happen.
Grows ==
  /\ lastId <= lastId' /\ lastId' \in Nat
  /\ \A i \in Ids : was[i] \subseteq was'[i]
  /\ \A i \in Ids : \A k \in DOMAIN versions[i] :
       k \in DOMAIN versions'[i] /\ versions'[i][k] = versions[i][k]
  /\ faults' = 0 => faults = 0

\* What is covered stays covered.
LEMMA CoveredKept ==
  ASSUME Grows, NEW i \in Ids, NEW n, Covered(i, n)
  PROVE  Covered(i, n)'
BY DEF Grows, Covered

\* A step of request c keeps what the other requests know.
LEMMA OthersKeep ==
  ASSUME IInv, Grows, NEW c \in Clients, LocalOK(c)',
         \A d \in Clients \ {c} : pc'[d] = pc[d] /\ call'[d] = call[d] /\ seen'[d] = seen[d]
  PROVE  \A d \in Clients : LocalOK(d)'
<1> SUFFICES ASSUME NEW d \in Clients \ {c} PROVE LocalOK(d)'
  OBVIOUS
<1>1. LocalOK(d) /\ pc'[d] = pc[d] /\ call'[d] = call[d] /\ seen'[d] = seen[d]
  BY DEF IInv
<1>2. CallFits(d)'
  <2>1. lastId \in Nat
    BY DEF IInv, TablesOK, TableTypes
  <2> QED
    BY <1>1, <2>1 DEF LocalOK, CallFits, Grows
<1>3. pc[d] \in {"snapshot", "write"} => call[d].id \in Ids
  BY <1>1 DEF LocalOK, CallFits, UpdateCalls
<1>4. SeenWas(d)'
  BY <1>1, <1>3 DEF LocalOK, SeenWas, Grows
<1>5. Updated(d)' = Updated(d)
  BY <1>1 DEF Updated, NotesChanged
<1>6. WriteCovered(d)'
  BY <1>1, <1>3, <1>5, CoveredKept DEF LocalOK, WriteCovered, Grows
<1> QED
  BY <1>2, <1>4, <1>6 DEF LocalOK

\* DbAnswers and DbFails count failures only.
LEMMA Statement ==
  ASSUME IInv, DbAnswers \/ DbFails
  PROVE  faults' \in Nat /\ calm' \in BOOLEAN /\ (faults' = 0 => faults = 0)
<1>1. faults \in Nat /\ calm \in BOOLEAN
  BY DEF IInv, TablesOK, TableTypes, LocalTypes
<1>2. (faults' = faults /\ calm' = calm) \/ (faults' = faults + 1 /\ calm' = FALSE)
  BY DEF DbAnswers, DbFails
<1>3. faults' \in Nat /\ (faults' = 0 => faults = 0)
  BY <1>1, <1>2
<1>4. calm' \in BOOLEAN
  BY <1>1, <1>2
<1> QED
  BY <1>3, <1>4

LEMMA GrowsWithTables ==
  ASSUME IInv, UNCHANGED <<lastId, versions, was>>, faults' = 0 => faults = 0
  PROVE  Grows
BY DEF IInv, TablesOK, TableTypes, Grows

\* Tables that a step leaves alone stay as they should be.
LEMMA TablesKept ==
  ASSUME IInv, UNCHANGED <<strategies, lastId, versions, was>>,
         logged' \in [Ids -> Rows \union {NoRow}],
         activated' \in [Keys -> 0..lastId],
         active' \in [Keys -> 0..lastId], newest' \in [Keys -> 0..lastId],
         faults' \in Nat, faults' = 0 => faults = 0
  PROVE  TablesOK'
BY DEF IInv, TablesOK, TableTypes, RowWas, SnapshotWasCurrent, RowCovered, Covered

\* A statement of request c that changes neither strategies nor its snapshots.
LEMMA SideWrite ==
  ASSUME IInv, NEW c \in Clients, NEW l \in Labels, Go(c, l), DbAnswers \/ DbFails,
         UNCHANGED <<strategies, lastId, versions, call, was, up, requests>>,
         logged' \in [Ids -> Rows \union {NoRow}],
         activated' \in [Keys -> 0..lastId],
         active' \in [Keys -> 0..lastId], newest' \in [Keys -> 0..lastId],
         seen' \in [Clients -> Rows \union {NoRow}],
         \A d \in Clients \ {c} : seen'[d] = seen[d],
         LocalOK(c)'
  PROVE  IInv'
<1>1. TablesOK' /\ Grows
  BY Statement, TablesKept, GrowsWithTables
<1>2. LocalTypes'
  BY Statement DEF IInv, LocalTypes, Go
<1>3. \A d \in Clients : LocalOK(d)'
  BY <1>1, OthersKeep DEF Go, IInv, LocalTypes
<1> QED
  BY <1>1, <1>2, <1>3 DEF IInv

\* A statement of request c that changes no table.
LEMMA ReadOnly ==
  ASSUME IInv, NEW c \in Clients, NEW l \in Labels, Go(c, l), DbAnswers \/ DbFails,
         UNCHANGED <<tables, call, was, up, requests>>,
         seen' \in [Clients -> Rows \union {NoRow}],
         \A d \in Clients \ {c} : seen'[d] = seen[d],
         LocalOK(c)'
  PROVE  IInv'
BY SideWrite DEF tables, IInv, TablesOK, TableTypes

-----------------------------------------------------------------------------
(* The statements that only read. *)

\* A request that goes on to a step whose data are not its own knows nothing.
LEMMA NothingToKnow ==
  ASSUME NEW c \in Clients,
         pc'[c] \notin {"insert", "read", "snapshot", "write", "upsert", "track", "activate"}
  PROVE  LocalOK(c)'
BY DEF LocalOK, CallFits, SeenWas, WriteCovered

LEMMA FetchKeeps ==
  ASSUME IInv, NEW c \in Clients, Fetch(c) PROVE IInv'
<1>1. PICK l \in {"log", "idle"} : Go(c, l) /\ (DbAnswers \/ DbFails)
  BY DEF Fetch, Reads
<1>2. /\ seen' \in [Clients -> Rows \union {NoRow}]
      /\ \A d \in Clients \ {c} : seen'[d] = seen[d]
  BY DEF Fetch, Reads, Exists, IInv, TablesOK, TableTypes, LocalTypes
<1>3. LocalOK(c)'
  BY <1>1, NothingToKnow DEF Go, IInv, LocalTypes
<1> QED
  BY <1>1, <1>2, <1>3, ReadOnly DEF Fetch, Labels, ghosts

LEMMA ReadOldKeeps ==
  ASSUME IInv, NEW c \in Clients, ReadOld(c) PROVE IInv'
<1> DEFINE i == call[c].id
<1>1. PICK l \in {"snapshot", "idle"} : Go(c, l) /\ (DbAnswers \/ DbFails)
  BY DEF ReadOld, Reads
<1>2. /\ seen' \in [Clients -> Rows \union {NoRow}]
      /\ \A d \in Clients \ {c} : seen'[d] = seen[d]
  BY DEF ReadOld, Reads, Exists, IInv, TablesOK, TableTypes, LocalTypes
<1>3. LocalOK(c)'
  <2>1. CASE l = "idle"
    BY <1>1, <2>1, NothingToKnow DEF Go, IInv, LocalTypes
  <2>2. CASE l = "snapshot"
    <3>1. pc'[c] = "snapshot" /\ call'[c] = call[c] /\ call[c] \in UpdateCalls
      BY <1>1, <2>2 DEF Go, ReadOld, IInv, LocalTypes, LocalOK, CallFits
    <3>2. i \in Ids /\ strategies[i] # NoRow /\ seen'[c] = strategies[i]
      BY <1>1, <2>2 DEF Go, ReadOld, Reads, Exists, IInv, LocalTypes
    <3>3. CallFits(c)'
      BY <3>1 DEF CallFits
    <3>4. SeenWas(c)'
      <4>1. strategies[i] \in Rows /\ Content(strategies[i]) \in was[i]
        BY <3>2 DEF IInv, TablesOK, TableTypes, RowWas
      <4> QED
        BY <3>1, <3>2, <4>1 DEF SeenWas, ReadOld, ghosts
    <3>5. WriteCovered(c)'
      <4>1. faults' = 0 => Covered(i, strategies[i].version - 1)
        BY <1>1, <3>2, Statement DEF IInv, TablesOK, RowCovered
      <4>2. Covered(i, strategies[i].version - 1) => Covered(i, strategies[i].version - 1)'
        BY DEF ReadOld, tables, Covered
      <4> QED
        BY <3>1, <3>2, <4>1, <4>2 DEF WriteCovered, ReadOld, tables, Covered
    <3> QED
      BY <3>3, <3>4, <3>5 DEF LocalOK
  <2> QED
    BY <1>1, <2>1, <2>2
<1> QED
  BY <1>1, <1>2, <1>3, ReadOnly DEF ReadOld, Labels, ghosts

LEMMA CountUsesKeeps ==
  ASSUME IInv, NEW c \in Clients, CountUses(c) PROVE IInv'
<1>1. PICK l \in {"keep", "idle"} : Go(c, l) /\ (DbAnswers \/ DbFails)
  BY DEF CountUses
<1>2. LocalOK(c)'
  BY <1>1, NothingToKnow DEF Go, IInv, LocalTypes
<1> QED
  BY <1>1, <1>2, ReadOnly DEF CountUses, Labels, ghosts, IInv, LocalTypes

LEMMA KeepKeeps ==
  ASSUME IInv, NEW c \in Clients, Keep(c) PROVE IInv'
<1>1. /\ seen' \in [Clients -> Rows \union {NoRow}]
      /\ \A d \in Clients \ {c} : seen'[d] = seen[d]
  BY DEF Keep, Exists, IInv, TablesOK, TableTypes, LocalTypes
<1>2. LocalOK(c)'
  BY NothingToKnow DEF Keep, Go, IInv, LocalTypes
<1> QED
  BY <1>1, <1>2, ReadOnly DEF Keep, Labels, ghosts

LEMMA ValidateKeeps ==
  ASSUME IInv, NEW c \in Clients, Validate(c) PROVE IInv'
<1>1. PICK l \in {"upsert", "idle"} : Go(c, l) /\ (DbAnswers \/ DbFails)
  BY DEF Validate
<1>2. LocalOK(c)'
  <2>1. CASE l = "idle"
    BY <1>1, <2>1, NothingToKnow DEF Go, IInv, LocalTypes
  <2>2. CASE l = "upsert"
    <3>1. pc'[c] = "upsert" /\ call'[c] = call[c] /\ lastId' = lastId
      BY <1>1, <2>2 DEF Go, Validate, tables, IInv, LocalTypes
    <3>2. Exists(call[c].id)
      BY <1>1, <2>2 DEF Go, Validate, IInv, LocalTypes
    <3>3. call[c].id \in 0..lastId
      BY <3>2, BoundsAreNaturals DEF Exists, Ids, IInv, TablesOK, TableTypes
    <3> QED
      BY <3>1, <3>3 DEF LocalOK, CallFits, SeenWas, WriteCovered
  <2> QED
    BY <1>1, <2>1, <2>2
<1> QED
  BY <1>1, <1>2, ReadOnly DEF Validate, Labels, ghosts, IInv, LocalTypes

-----------------------------------------------------------------------------
(* The statements that write beside strategies and strategy_versions. *)

LEMMA LogRowKeeps ==
  ASSUME IInv, NEW c \in Clients, LogRow(c) PROVE IInv'
<1>1. logged' \in [Ids -> Rows \union {NoRow}]
  BY DEF LogRow, IInv, TablesOK, TableTypes, LocalTypes
<1>2. LocalOK(c)'
  BY NothingToKnow DEF LogRow, Go, IInv, LocalTypes
<1> QED
  BY <1>1, <1>2, SideWrite
  DEF LogRow, Labels, ghosts, IInv, TablesOK, TableTypes, LocalTypes

LEMMA UpsertKeeps ==
  ASSUME IInv, NEW c \in Clients, Upsert(c) PROVE IInv'
<1>1. PICK l \in {"track", "activate"} : Go(c, l)
  BY DEF Upsert
<1>2. call[c].id \in 0..lastId
  BY DEF Upsert, IInv, LocalOK, CallFits
<1>3. active' \in [Keys -> 0..lastId]
  BY <1>2 DEF Upsert, IInv, TablesOK, TableTypes
<1>4. LocalOK(c)'
  BY <1>1, <1>2 DEF Upsert, Go, IInv, LocalTypes, LocalOK, CallFits, SeenWas, WriteCovered
<1> QED
  BY <1>1, <1>3, <1>4, SideWrite DEF Upsert, Labels, IInv, TablesOK, TableTypes, LocalTypes

LEMMA TrackKeeps ==
  ASSUME IInv, NEW c \in Clients, Track(c) PROVE IInv'
<1>1. call[c].id \in 0..lastId
  BY DEF Track, IInv, LocalOK, CallFits
<1>2. newest' \in [Keys -> 0..lastId]
  BY <1>1 DEF Track, IInv, TablesOK, TableTypes
<1>3. LocalOK(c)'
  BY <1>1 DEF Track, Go, IInv, LocalTypes, LocalOK, CallFits, SeenWas, WriteCovered
<1> QED
  BY <1>2, <1>3, SideWrite DEF Track, Labels, ghosts, IInv, TablesOK, TableTypes, LocalTypes

LEMMA ActivateKeeps ==
  ASSUME IInv, NEW c \in Clients, Activate(c) PROVE IInv'
<1>1. call[c].id \in 0..lastId
  BY DEF Activate, IInv, LocalOK, CallFits
<1>2. activated' \in [Keys -> 0..lastId]
  BY <1>1 DEF Activate, IInv, TablesOK, TableTypes
<1>3. LocalOK(c)'
  BY NothingToKnow DEF Activate, Go, IInv, LocalTypes
<1> QED
  BY <1>2, <1>3, SideWrite DEF Activate, Labels, ghosts, IInv, TablesOK, TableTypes, LocalTypes

LEMMA ClearKeeps ==
  ASSUME IInv, NEW c \in Clients, Clear(c) PROVE IInv'
<1>1. active' \in [Keys -> 0..lastId]
  <2>1. 0 \in 0..lastId
    BY BoundsAreNaturals DEF IInv, TablesOK, TableTypes
  <2> QED
    BY <2>1 DEF Clear, IInv, TablesOK, TableTypes
<1>2. LocalOK(c)'
  BY NothingToKnow DEF Clear, Go, IInv, LocalTypes
<1> QED
  BY <1>1, <1>2, SideWrite DEF Clear, Labels, IInv, TablesOK, TableTypes, LocalTypes

-----------------------------------------------------------------------------
(* The statements that write strategies and strategy_versions. *)

\* A row is added with the next id, for Insert and for Boot.
LEMMA InsertRowKeeps ==
  ASSUME IInv, NEW name \in Nat \ {0}, NEW notes \in Nat, InsertRow(name, notes),
         UNCHANGED <<versions, logged, activated, active, newest, faults>>
  PROVE  TablesOK' /\ Grows
<1> DEFINE row == [name |-> name, notes |-> notes, version |-> 1]
<1>1. /\ row \in Rows /\ row.version = 1 /\ Content(row) \in Contents
      /\ lastId \in Nat /\ MaxIds \in Nat
  BY NewRow, RowContent, BoundsAreNaturals DEF IInv, TablesOK, TableTypes
<1> HIDE DEF row
<1>2. /\ lastId' = lastId + 1 /\ lastId' \in 1..MaxIds
      /\ strategies' = [strategies EXCEPT ![lastId'] = row]
      /\ was' = [was EXCEPT ![lastId'] = {Content(row)}]
  BY <1>1 DEF InsertRow, row
<1>3. lastId' \in Ids /\ was[lastId'] = {} /\ lastId <= lastId' /\ ~ lastId' <= lastId
  BY <1>1, <1>2 DEF Ids, IInv, TablesOK, RowWas
<1>4. Grows
  BY <1>1, <1>2, <1>3 DEF Grows, IInv, TablesOK, TableTypes
<1>5. TableTypes'
  <2>1. /\ activated' \in [Keys -> 0..lastId']
        /\ active' \in [Keys -> 0..lastId'] /\ newest' \in [Keys -> 0..lastId']
    BY <1>1, <1>2 DEF IInv, TablesOK, TableTypes
  <2>2. strategies' \in [Ids -> Rows \union {NoRow}] /\ was' \in [Ids -> SUBSET Contents]
    BY <1>1, <1>2 DEF IInv, TablesOK, TableTypes
  <2>3. \A i \in Ids : i > lastId' => strategies'[i] = NoRow
    BY <1>1, <1>2 DEF IInv, TablesOK, TableTypes, Ids
  <2> QED
    BY <1>2, <2>1, <2>2, <2>3 DEF IInv, TablesOK, TableTypes
<1>6. RowWas'
  <2> SUFFICES ASSUME NEW i \in Ids
      PROVE  /\ strategies'[i] # NoRow => Content(strategies'[i]) \in was'[i]
             /\ i > lastId' => was'[i] = {}
    BY DEF RowWas, Content
  <2>1. CASE i = lastId'
    BY <1>1, <1>2, <1>3, <2>1 DEF IInv, TablesOK, TableTypes
  <2>2. CASE i # lastId'
    <3>1. strategies'[i] = strategies[i] /\ was'[i] = was[i]
      BY <1>2, <2>2 DEF IInv, TablesOK, TableTypes
    <3>2. i > lastId' => i > lastId
      BY <1>1, <1>2 DEF Ids
    <3> QED
      BY <3>1, <3>2 DEF IInv, TablesOK, RowWas
  <2> QED
    BY <2>1, <2>2
<1>7. SnapshotWasCurrent'
  BY <1>4 DEF IInv, TablesOK, SnapshotWasCurrent, Grows
<1>8. RowCovered'
  <2> SUFFICES ASSUME faults = 0, NEW i \in Ids
      PROVE  Covered(i, strategies'[i].version - 1)
    BY DEF RowCovered, Covered
  <2>1. CASE i = lastId'
    <3>1. strategies'[i].version - 1 = 0
      BY <1>1, <1>2, <2>1 DEF IInv, TablesOK, TableTypes
    <3> QED
      BY <3>1 DEF Covered
  <2>2. CASE i # lastId'
    BY <1>2, <2>2 DEF IInv, TablesOK, TableTypes, RowCovered
  <2> QED
    BY <2>1, <2>2
<1> QED
  BY <1>4, <1>5, <1>6, <1>7, <1>8 DEF TablesOK

LEMMA InsertKeeps ==
  ASSUME IInv, NEW c \in Clients, Insert(c) PROVE IInv'
<1>1. CASE DbFails
  <2>1. ~ DbAnswers
    BY <1>1 DEF DbAnswers, DbFails, IInv, TablesOK, TableTypes
  <2>2. Go(c, "idle") /\ UNCHANGED <<tables, call, was, seen, up, requests>>
    BY <2>1 DEF Insert, tables
  <2>3. LocalOK(c)'
    BY <2>2, NothingToKnow DEF Go, IInv, LocalTypes
  <2> QED
    BY <1>1, <2>2, <2>3, ReadOnly DEF Labels, IInv, LocalTypes
<1>2. CASE DbAnswers
  <2>1. call[c] \in CreateCalls
    BY DEF Insert, IInv, LocalOK, CallFits
  <2>2. /\ call[c].name \in Names /\ call[c].notes \in Notes \union {0}
        /\ call[c].op = "create"
    BY <2>1 DEF CreateCalls
  <2>3. call[c].name \in Nat \ {0} /\ call[c].notes \in Nat
    <3>1. Names \subseteq Nat \ {0} /\ Notes \union {0} \subseteq Nat
      BY TextsAreNaturals
    <3> QED
      BY <2>2, <3>1
  <2>4. /\ InsertRow(call[c].name, call[c].notes) /\ Go(c, "fetch")
        /\ call' = [call EXCEPT ![c].id = lastId'] /\ calm' = calm
        /\ UNCHANGED <<versions, logged, activated, active, newest, faults, seen, up, requests>>
    BY <1>2 DEF Insert, DbAnswers, DbFails, IInv, TablesOK, TableTypes
  <2>5. TablesOK' /\ Grows
    BY <2>3, <2>4, InsertRowKeeps
  <2>6. LocalTypes'
    <3>1. lastId' \in Ids
      BY <2>4, BoundsAreNaturals DEF InsertRow, Ids, IInv, TablesOK, TableTypes
    <3>2. [call[c] EXCEPT !.id = lastId'] \in CreatedCalls
      BY <2>1, <3>1 DEF CreateCalls, CreatedCalls
    <3>3. call' \in [Clients -> Calls \union CreatedCalls \union {NoCall}]
      BY <2>4, <3>2 DEF IInv, LocalTypes
    <3> QED
      BY <2>4, <3>3 DEF IInv, LocalTypes, Go, Labels
  <2>7. LocalOK(c)'
    BY <2>4, NothingToKnow DEF Go, IInv, LocalTypes
  <2>8. \A d \in Clients : LocalOK(d)'
    BY <2>4, <2>5, <2>7, OthersKeep DEF Go, IInv, LocalTypes
  <2> QED
    BY <2>5, <2>6, <2>8 DEF IInv
<1> QED
  BY <1>1, <1>2 DEF Insert

LEMMA SnapshotKeeps ==
  ASSUME IInv, NEW c \in Clients, Snapshot(c) PROVE IInv'
<1> DEFINE i == call[c].id
           old == seen[c].version
<1>1. /\ pc[c] = "snapshot" /\ call[c] \in UpdateCalls /\ i \in Ids
      /\ seen[c] \in Rows /\ Content(seen[c]) \in was[i] /\ Content(seen[c]) \in Contents
      /\ old \in Nat \ {0}
  BY RowContent DEF Snapshot, IInv, LocalOK, CallFits, SeenWas, UpdateCalls, Rows
<1>2. /\ Go(c, "write") /\ (DbAnswers \/ DbFails)
      /\ UNCHANGED <<strategies, lastId, logged, activated, active, newest, call, seen, up, was, requests>>
  BY DEF Snapshot, ghosts
<1>3. pc'[c] = "write"
  BY <1>2 DEF Go, IInv, LocalTypes
<1>4. Updated(c)' = Updated(c) /\ Updated(c).version = old + (IF NotesChanged(c) THEN 1 ELSE 0)
  BY <1>1, <1>2, UpdatedRow DEF Updated, NotesChanged
<1>5. CallFits(c)' /\ SeenWas(c)'
  BY <1>1, <1>2, <1>3 DEF CallFits, SeenWas
<1>6. CASE (NotesChanged(c) => DbFails) /\ versions' = versions
  <2>1. faults' = 0 => ~ NotesChanged(c) /\ faults = 0
    <3>1. faults \in Nat /\ (faults' = 0 => faults = 0)
      BY <1>2, Statement DEF IInv, TablesOK, TableTypes
    <3>2. NotesChanged(c) => faults' = faults + 1
      BY <1>6 DEF DbFails
    <3> QED
      BY <3>1, <3>2
  <2>2. ~ NotesChanged(c) => Updated(c).version = old
    BY <1>1, <1>4
  <2>3. faults = 0 => Covered(i, old - 1)
    BY <1>1 DEF IInv, LocalOK, WriteCovered
  <2>4. Covered(i, old - 1) => Covered(i, old - 1)'
    BY <1>2, <1>6 DEF Covered
  <2>5. WriteCovered(c)'
    BY <1>2, <1>3, <1>4, <2>1, <2>2, <2>3, <2>4 DEF WriteCovered
  <2> QED
    BY <1>2, <1>5, <1>6, <2>5, SideWrite
    DEF LocalOK, Labels, IInv, TablesOK, TableTypes, LocalTypes
<1>7. CASE /\ NotesChanged(c) /\ DbAnswers
           /\ versions' = [versions EXCEPT ![i] = Append(@, Content(seen[c]))]
  <2> DEFINE grown == Append(versions[i], Content(seen[c]))
             top == Len(versions[i]) + 1
  <2>1. versions[i] \in Seq(Contents) /\ versions \in [Ids -> Seq(Contents)]
    BY <1>1 DEF IInv, TablesOK, TableTypes
  <2>2. /\ grown \in Seq(Contents) /\ top \in DOMAIN grown /\ grown[top] = Content(seen[c])
        /\ DOMAIN grown = DOMAIN versions[i] \union {top}
        /\ \A k \in DOMAIN versions[i] : grown[k] = versions[i][k]
    BY <1>1, <2>1, AppendProperties
  <2>3. versions'[i] = grown /\ versions' \in [Ids -> Seq(Contents)]
        /\ \A j \in Ids \ {i} : versions'[j] = versions[j]
    BY <1>1, <1>7, <2>1, <2>2
  <2> HIDE DEF grown, top
  <2>4. faults' = faults
    BY <1>7 DEF DbAnswers
  <2>5. Grows
    <3>1. lastId' = lastId /\ lastId \in Nat /\ was' = was
      BY <1>2 DEF IInv, TablesOK, TableTypes
    <3>2. ASSUME NEW j \in Ids, NEW k \in DOMAIN versions[j]
          PROVE  k \in DOMAIN versions'[j] /\ versions'[j][k] = versions[j][k]
      BY <2>2, <2>3, <3>2
    <3> QED
      BY <2>4, <3>1, <3>2 DEF Grows
  <2>6. TablesOK'
    <3>1. TableTypes'
      <4>1. UNCHANGED <<strategies, lastId, logged, activated, active, newest, was, faults>>
        BY <1>2, <2>4
      <4> QED
        BY <2>3, <4>1 DEF IInv, TablesOK, TableTypes
    <3>4. RowWas'
      BY <1>2 DEF IInv, TablesOK, RowWas
    <3>2. SnapshotWasCurrent'
      <4> SUFFICES ASSUME NEW j \in Ids, NEW n \in DOMAIN versions'[j]
                   PROVE  versions'[j][n] \in was[j]
        BY <1>2 DEF SnapshotWasCurrent
      <4>1. SnapshotWasCurrent
        BY DEF IInv, TablesOK
      <4>2. CASE j = i
        <5>1. CASE n = top
          BY <1>1, <2>2, <2>3, <4>2, <5>1
        <5>2. CASE n # top
          <6>1. n \in DOMAIN versions[i] /\ versions'[j][n] = versions[i][n]
            BY <2>2, <2>3, <4>2, <5>2
          <6> QED
            BY <1>1, <4>1, <4>2, <6>1 DEF SnapshotWasCurrent
        <5> QED
          BY <5>1, <5>2
      <4>3. CASE j # i
        BY <2>3, <4>1, <4>3 DEF SnapshotWasCurrent
      <4> QED
        BY <4>2, <4>3
    <3>3. RowCovered'
      BY <1>2, <2>4, <2>5, CoveredKept DEF IInv, TablesOK, RowCovered
    <3> QED
      BY <3>1, <3>2, <3>3, <3>4 DEF TablesOK
  <2>7. LocalTypes'
    BY <1>2, <1>7 DEF IInv, LocalTypes, Go, Labels, DbAnswers
  <2>8. WriteCovered(c)'
    <3>1. SUFFICES ASSUME faults' = 0
                   PROVE  Covered(call[c].id, Updated(c).version - 1)'
      BY <1>3 DEF WriteCovered
    <3>5. call'[c].id = i /\ Updated(c)'.version - 1 = old
      BY <1>1, <1>2, <1>4, <1>7
    <3>2. Covered(i, old - 1)'
      <4>1. Covered(i, old - 1)
        BY <1>1, <2>4, <3>1 DEF IInv, LocalOK, WriteCovered
      <4> QED
        BY <1>1, <1>2, <2>2, <2>3, <4>1 DEF Covered
    <3>3. grown[top].version = old
      BY <2>2 DEF Content
    <3>4. \A v \in 1..old : v \in 1..(old - 1) \/ v = old
      BY <1>1
    <3> QED
      BY <1>1, <1>2, <2>2, <2>3, <3>2, <3>3, <3>4, <3>5 DEF Covered
  <2>9. \A d \in Clients : LocalOK(d)'
    BY <1>2, <1>5, <2>5, <2>8, OthersKeep DEF LocalOK, Go, IInv, LocalTypes
  <2> QED
    BY <2>6, <2>7, <2>9 DEF IInv
<1> QED
  <2>1. \/ /\ NotesChanged(c) /\ DbAnswers
           /\ versions' = [versions EXCEPT ![i] = Append(@, Content(seen[c]))]
        \/ (NotesChanged(c) => DbFails) /\ versions' = versions
    BY DEF Snapshot
  <2> QED
    BY <2>1, <1>6, <1>7

LEMMA WriteKeeps ==
  ASSUME IInv, NEW c \in Clients, Write(c) PROVE IInv'
<1> DEFINE i == call[c].id
           row == Updated(c)
<1>1. /\ pc[c] = "write" /\ call[c] \in UpdateCalls /\ i \in Ids
      /\ row \in Rows /\ Content(row) \in Contents
  BY RowContent, UpdatedRow DEF Write, IInv, LocalOK, CallFits, SeenWas, UpdateCalls
<1>2. /\ DbAnswers \/ DbFails
      /\ UNCHANGED <<lastId, versions, logged, activated, active, newest, call, seen, up, requests>>
  BY DEF Write
<1>3. PICK l \in {"fetch", "idle"} : Go(c, l)
  BY DEF Write
<1>4. LocalOK(c)'
  BY <1>3, NothingToKnow DEF Go, IInv, LocalTypes
<1>5. CASE UNCHANGED <<strategies, was>>
  BY <1>2, <1>3, <1>4, <1>5, ReadOnly DEF Labels, tables, IInv, LocalTypes
<1>6. CASE /\ Exists(i) /\ DbAnswers
           /\ strategies' = [strategies EXCEPT ![i] = row]
           /\ was' = [was EXCEPT ![i] = @ \union {Content(row)}]
  <2>1. faults' = faults
    BY <1>6 DEF DbAnswers
  <2>2. TableTypes /\ RowWas /\ SnapshotWasCurrent /\ RowCovered
    BY DEF IInv, TablesOK
  <2>3. i <= lastId
    BY <1>1, <1>6, <2>2 DEF Exists, TableTypes, Ids
  <2>4. faults = 0 => Covered(i, row.version - 1)
    BY <1>1 DEF IInv, LocalOK, WriteCovered
  <2> HIDE DEF row
  <2>5. /\ strategies'[i] = row /\ was'[i] = was[i] \union {Content(row)}
        /\ \A j \in Ids \ {i} : strategies'[j] = strategies[j] /\ was'[j] = was[j]
    BY <1>1, <1>6, <2>2 DEF TableTypes
  <2>6. Grows
    <3>1. \A j \in Ids : was[j] \subseteq was'[j]
      BY <2>5
    <3> QED
      BY <1>2, <2>1, <2>2, <3>1 DEF Grows, TableTypes
  <2>7. TableTypes'
    <3>1. strategies' \in [Ids -> Rows \union {NoRow}] /\ was' \in [Ids -> SUBSET Contents]
      BY <1>1, <1>6, <2>2 DEF TableTypes
    <3>2. \A j \in Ids : j > lastId => strategies'[j] = NoRow
      BY <2>2, <2>3, <2>5 DEF TableTypes, Ids
    <3> QED
      BY <1>2, <2>1, <2>2, <3>1, <3>2 DEF TableTypes
  <2>8. RowWas'
    <3>1. ASSUME NEW j \in Ids
          PROVE  /\ strategies'[j] # NoRow => Content(strategies'[j]) \in was'[j]
                 /\ j > lastId => was'[j] = {}
      <4>1. CASE j = i
        BY <1>1, <2>2, <2>3, <2>5, <4>1 DEF TableTypes, Ids
      <4>2. CASE j # i
        BY <2>2, <2>5, <4>2 DEF RowWas
      <4> QED
        BY <4>1, <4>2
    <3> QED
      BY <1>2, <3>1 DEF RowWas, Content
  <2>9. SnapshotWasCurrent'
    BY <1>2, <2>2, <2>6 DEF SnapshotWasCurrent, Grows
  <2>10. RowCovered'
    <3>1. ASSUME faults = 0, NEW j \in Ids
          PROVE  Covered(j, strategies'[j].version - 1)
      BY <2>2, <2>4, <2>5, <3>1 DEF RowCovered
    <3> QED
      BY <1>2, <2>1, <3>1 DEF RowCovered, Covered
  <2>11. LocalTypes'
    BY <1>2, <1>3, <1>6 DEF IInv, LocalTypes, Go, Labels, DbAnswers
  <2>12. \A d \in Clients : LocalOK(d)'
    BY <1>2, <1>3, <1>4, <2>6, OthersKeep DEF Go, IInv, LocalTypes
  <2> QED
    BY <2>7, <2>8, <2>9, <2>10, <2>11, <2>12 DEF IInv, TablesOK
<1> QED
  BY <1>5, <1>6, Zenon DEF Write

LEMMA DropKeeps ==
  ASSUME IInv, NEW c \in Clients, Drop(c) PROVE IInv'
<1> DEFINE i == call[c].id
<1>1. /\ DbAnswers \/ DbFails
      /\ UNCHANGED <<lastId, versions, logged, activated, active, newest, call, seen, up, was, requests>>
  BY DEF Drop, ghosts
<1>2. PICK l \in {"log", "idle"} : Go(c, l)
  BY DEF Drop
<1>3. LocalOK(c)'
  BY <1>2, NothingToKnow DEF Go, IInv, LocalTypes
<1>4. CASE UNCHANGED strategies
  BY <1>1, <1>2, <1>3, <1>4, ReadOnly DEF Labels, tables, IInv, LocalTypes
<1>5. CASE i \in Ids /\ strategies' = [strategies EXCEPT ![i] = NoRow]
  <2>1. faults' \in Nat /\ (faults' = 0 => faults = 0) /\ calm' \in BOOLEAN
    BY <1>1, Statement
  <2>2. TableTypes /\ RowWas /\ SnapshotWasCurrent /\ RowCovered
    BY DEF IInv, TablesOK
  <2>3. /\ strategies'[i] = NoRow
        /\ \A j \in Ids \ {i} : strategies'[j] = strategies[j]
    BY <1>5, <2>2 DEF TableTypes
  <2>4. Grows
    BY <1>1, <2>1, GrowsWithTables
  <2>5. TableTypes'
    <3>1. strategies' \in [Ids -> Rows \union {NoRow}]
      BY <1>5, <2>2 DEF TableTypes
    <3>2. \A j \in Ids : j > lastId => strategies'[j] = NoRow
      BY <2>2, <2>3 DEF TableTypes
    <3>3. faults' \in Nat
      BY <2>1
    <3> QED
      BY <1>1, <2>2, <3>1, <3>2, <3>3 DEF TableTypes
  <2>6. RowWas'
    <3>1. ASSUME NEW j \in Ids
          PROVE  /\ strategies'[j] # NoRow => Content(strategies'[j]) \in was[j]
                 /\ j > lastId => was[j] = {}
      BY <2>2, <2>3 DEF RowWas
    <3> QED
      BY <1>1, <3>1 DEF RowWas, Content
  <2>7. SnapshotWasCurrent'
    BY <1>1, <2>2 DEF SnapshotWasCurrent
  <2>8. RowCovered'
    <3>1. ASSUME faults' = 0, NEW j \in Ids
          PROVE  Covered(j, strategies'[j].version - 1)
      <4>1. CASE j = i
        <5>1. strategies'[j].version - 1 = -1
          BY <2>3, <4>1 DEF NoRow
        <5> QED
          BY <5>1 DEF Covered
      <4>2. CASE j # i
        BY <2>1, <2>2, <2>3, <3>1, <4>2 DEF RowCovered
      <4> QED
        BY <4>1, <4>2
    <3> QED
      BY <1>1, <3>1 DEF RowCovered, Covered
  <2>9. LocalTypes'
    BY <1>1, <1>2, <2>1 DEF IInv, LocalTypes, Go, Labels
  <2>10. \A d \in Clients : LocalOK(d)'
    BY <1>1, <1>2, <1>3, <2>4, OthersKeep DEF Go, IInv, LocalTypes
  <2> QED
    BY <2>5, <2>6, <2>7, <2>8, <2>9, <2>10 DEF IInv, TablesOK
<1> QED
  BY <1>4, <1>5, Zenon DEF Drop, Exists

-----------------------------------------------------------------------------
(* Starting, dying and accepting a request. *)

\* A step of the process itself leaves what each request knows.
LEMMA AllKeep ==
  ASSUME IInv, Grows, UNCHANGED <<call, seen>>,
         \A d \in Clients : pc'[d] = pc[d] \/ pc'[d] = "idle"
  PROVE  \A d \in Clients : LocalOK(d)'
<1> SUFFICES ASSUME NEW d \in Clients PROVE LocalOK(d)'
  OBVIOUS
<1>1. CASE pc'[d] = "idle"
  BY <1>1, NothingToKnow
<1>2. CASE pc'[d] = pc[d]
  <2>1. LocalOK(d) /\ lastId \in Nat
    BY DEF IInv, TablesOK, TableTypes
  <2>2. CallFits(d)'
    BY <1>2, <2>1 DEF LocalOK, CallFits, Grows
  <2>3. pc[d] \in {"snapshot", "write"} => call[d].id \in Ids
    BY <2>1 DEF LocalOK, CallFits, UpdateCalls
  <2>4. SeenWas(d)'
    BY <1>2, <2>1, <2>3 DEF LocalOK, SeenWas, Grows
  <2>5. Updated(d)' = Updated(d)
    BY DEF Updated, NotesChanged
  <2>6. WriteCovered(d)'
    BY <1>2, <2>1, <2>3, <2>5, CoveredKept DEF LocalOK, WriteCovered, Grows
  <2> QED
    BY <2>2, <2>4, <2>6 DEF LocalOK
<1> QED
  BY <1>1, <1>2

LEMMA BootKeeps ==
  ASSUME IInv, Boot PROVE IInv'
<1>1. /\ up' = TRUE
      /\ UNCHANGED <<versions, logged, activated, active, newest, pc, call, seen, requests>>
  BY DEF Boot
<1>2. CASE InsertRow(SeedName, SeedNotes) /\ DbAnswers
  <2>1. TablesOK' /\ Grows
    BY <1>1, <1>2, InsertRowKeeps, SeedAssumption DEF DbAnswers
  <2>2. LocalTypes'
    BY <1>1, <1>2 DEF IInv, LocalTypes, DbAnswers
  <2> QED
    BY <1>1, <2>1, <2>2, AllKeep DEF IInv
<1>3. CASE (DbAnswers \/ DbFails) /\ UNCHANGED <<strategies, lastId, was>>
  <2>1. faults' \in Nat /\ (faults' = 0 => faults = 0) /\ calm' \in BOOLEAN
    BY <1>3, Statement
  <2>2. TablesOK' /\ Grows
    BY <1>1, <1>3, <2>1, TablesKept, GrowsWithTables DEF IInv, TablesOK, TableTypes
  <2>3. LocalTypes'
    BY <1>1, <2>1 DEF IInv, LocalTypes
  <2> QED
    BY <1>1, <2>2, <2>3, AllKeep DEF IInv
<1> QED
  BY <1>2, <1>3, Zenon DEF Boot, DbAnswers

LEMMA CrashKeeps ==
  ASSUME IInv, Crash PROVE IInv'
<1>1. faults' \in Nat /\ (faults' = 0 => faults = 0)
  BY DEF Crash, IInv, TablesOK, TableTypes
<1>2. /\ calm' = FALSE /\ up' = FALSE /\ pc' = [c \in Clients |-> "idle"]
      /\ UNCHANGED <<strategies, lastId, versions, logged, activated, active, newest, was>>
      /\ UNCHANGED <<call, seen, requests>>
  BY DEF Crash, tables, ghosts
<1>3. TablesOK' /\ Grows
  BY <1>1, <1>2, TablesKept, GrowsWithTables DEF IInv, TablesOK, TableTypes
<1>4. LocalTypes'
  BY <1>2 DEF IInv, LocalTypes, Labels
<1>5. \A d \in Clients : LocalOK(d)'
  BY <1>2, NothingToKnow
<1> QED
  BY <1>3, <1>4, <1>5 DEF IInv

\* The first step of a request fits its body.
LEMMA FirstStepFits ==
  ASSUME NEW r \in Calls
  PROVE  /\ FirstStep[r.op] \in Labels \ {"snapshot", "write", "upsert", "track", "activate"}
         /\ FirstStep[r.op] = "insert" => r \in CreateCalls
         /\ FirstStep[r.op] = "read" => r \in UpdateCalls
<1>1. CASE r \in CreateCalls
  <2>1. r.op = "create"
    BY <1>1 DEF CreateCalls
  <2> QED
    BY <1>1, <2>1 DEF FirstStep, Labels
<1>2. CASE r \in UpdateCalls
  <2>1. r.op = "update"
    BY <1>2 DEF UpdateCalls
  <2> QED
    BY <1>2, <2>1 DEF FirstStep, Labels
<1>3. CASE r \in DeleteCalls
  <2>1. r.op = "delete"
    BY <1>3 DEF DeleteCalls
  <2> QED
    BY <2>1 DEF FirstStep, Labels
<1>4. CASE r \in AssignCalls
  <2>1. r.op \in {"assign", "legacy"}
    BY <1>4 DEF AssignCalls
  <2> QED
    BY <2>1 DEF FirstStep, Labels
<1>5. CASE r \in ClearCalls
  <2>1. r.op = "clear"
    BY <1>5 DEF ClearCalls
  <2> QED
    BY <2>1 DEF FirstStep, Labels
<1> QED
  BY <1>1, <1>2, <1>3, <1>4, <1>5 DEF Calls

LEMMA RequestKeeps ==
  ASSUME IInv, NEW c \in Clients, Request(c) PROVE IInv'
<1>1. PICK r \in Calls : call' = [call EXCEPT ![c] = r] /\ Go(c, FirstStep[r.op])
  BY DEF Request
<1>2. /\ UNCHANGED <<strategies, lastId, versions, logged, activated, active, newest, was, faults>>
      /\ UNCHANGED <<seen, up>>
  BY DEF Request, tables, ghosts
<1>3. TablesOK' /\ Grows
  BY <1>2, TablesKept, GrowsWithTables DEF IInv, TablesOK, TableTypes
<1>4. pc'[c] = FirstStep[r.op] /\ call'[c] = r
  BY <1>1 DEF Go, IInv, LocalTypes
<1>5. LocalTypes'
  <2>1. requests' \in Nat
    BY DEF Request, IInv, LocalTypes
  <2>2. pc' \in [Clients -> Labels]
    BY <1>1, FirstStepFits DEF Go, IInv, LocalTypes
  <2>3. call' \in [Clients -> Calls \union CreatedCalls \union {NoCall}]
    BY <1>1 DEF IInv, LocalTypes
  <2>4. calm' \in BOOLEAN
    BY DEF Request, IInv, LocalTypes
  <2> QED
    BY <1>2, <2>1, <2>2, <2>3, <2>4 DEF IInv, LocalTypes
<1>6. LocalOK(c)'
  BY <1>4, FirstStepFits DEF LocalOK, CallFits, SeenWas, WriteCovered
<1>7. \A d \in Clients : LocalOK(d)'
  BY <1>1, <1>2, <1>3, <1>6, OthersKeep DEF Go, IInv, LocalTypes
<1> QED
  BY <1>3, <1>5, <1>7 DEF IInv

LEMMA NextIInv == IInv /\ [Next]_vars => IInv'
<1> SUFFICES ASSUME IInv, [Next]_vars PROVE IInv'
  OBVIOUS
<1>1. CASE Boot
  BY <1>1, BootKeeps
<1>2. CASE Crash
  BY <1>2, CrashKeeps
<1>3. ASSUME NEW c \in Clients, Request(c) PROVE IInv'
  BY <1>3, RequestKeeps
<1>4. ASSUME NEW c \in Clients, Step(c) PROVE IInv'
  BY <1>4, InsertKeeps, FetchKeeps, LogRowKeeps, ReadOldKeeps, SnapshotKeeps, WriteKeeps,
     CountUsesKeeps, KeepKeeps, DropKeeps, ValidateKeeps, UpsertKeeps, TrackKeeps, ActivateKeeps,
     ClearKeeps
  DEF Step
<1>5. CASE UNCHANGED vars
  BY <1>5 DEF vars, tables, ghosts, IInv, TablesOK, TableTypes, RowWas, SnapshotWasCurrent,
              RowCovered, Covered, LocalTypes, LocalOK, CallFits, SeenWas, WriteCovered,
              Updated, NotesChanged
<1> QED
  BY <1>1, <1>2, <1>3, <1>4, <1>5 DEF Next

-----------------------------------------------------------------------------
(* The theorems. *)

\* Every reachable state satisfies the invariant.
THEOREM LibraryInvariant == Spec => []IInv
BY InitIInv, NextIInv, PTL DEF Spec

\* The tables keep the types of their columns and refer to ids that were assigned.
THEOREM LibraryTypeCorrect == Spec => []TypeOK
<1>1. IInv => TypeOK
  BY DEF IInv, TablesOK, TableTypes, LocalTypes, TypeOK
<1> QED
  BY <1>1, LibraryInvariant, PTL

\* A snapshot in strategy_versions shows a version and notes that the strategy had
\* together, however the updates interleave and whatever fails (UpdateStrategy).
THEOREM SnapshotsCorrect == Spec => []SnapshotWasCurrent
<1>1. IInv => SnapshotWasCurrent
  BY DEF IInv, TablesOK
<1> QED
  BY <1>1, LibraryInvariant, PTL

\* Concurrent updates leave no version without a snapshot as long as no statement has
\* failed and the process has not died (UpdateStrategy).
THEOREM VersionsCorrect == Spec => []NoVersionGap
<1>1. IInv => NoVersionGap
  BY DEF IInv, TablesOK, RowCovered, Covered, NoVersionGap
<1> QED
  BY <1>1, LibraryInvariant, PTL

-----------------------------------------------------------------------------
(***************************************************************************)
(* Requests that come one after another and whose statements return        *)
(* results (calm): what the tables then say about each other.              *)
(***************************************************************************)

(***************************************************************************)
(* The properties speak of the moments between requests.  TurnOK says what *)
(* holds at every step of the only request in progress: which table it has *)
(* not written yet (Noting, Logging, Tracking, Activating), and that what  *)
(* it has read is still so (Knows).                                        *)
(***************************************************************************)

\* Request c has taken the snapshot of an UPDATE that changes i's notes.
Noting(i) == \E c \in Clients : pc[c] = "write" /\ call[c].id = i /\ NotesChanged(c)

\* A request has written row i and has still to log it.
Logging(i) == \E c \in Clients : pc[c] \in {"fetch", "log"} /\ call[c].id = i

\* A request has assigned key k and has still to write its history.
Tracking(k) == \E c \in Clients : pc[c] = "track" /\ call[c].key = k

\* A request has assigned key k and has still to log it.
Activating(k) == \E c \in Clients : pc[c] \in {"track", "activate"} /\ call[c].key = k

\* At most one request is in progress, and none before the server has started.
Alone ==
  /\ \A c, d \in Clients : pc[c] # "idle" /\ pc[d] # "idle" => c = d
  /\ ~ up => \A c \in Clients : pc[c] = "idle"

\* The snapshots of i are numbered up to its version, and every content it has had is kept.
Snapshots(i) == {versions[i][n] : n \in DOMAIN versions[i]}
NotesOf(i) ==
  Exists(i) =>
    /\ \A n \in DOMAIN versions[i] : versions[i][n].version = n
    /\ IF Noting(i)
         THEN Len(versions[i]) = strategies[i].version /\ was[i] = Snapshots(i)
         ELSE /\ Len(versions[i]) = strategies[i].version - 1
              /\ was[i] = Snapshots(i) \union {Content(strategies[i])}
\* The newest log row of i is the row, or a content of the deleted strategy.
Shows(i, row) ==
  IF Exists(i) THEN row = strategies[i] ELSE Content(row) \in was[i]
LogOf(i) == logged[i] # NoRow /\ ~ Logging(i) => Shows(i, logged[i])
\* An id that was never assigned has no snapshot and no log.
NothingOf(i) == i > lastId => versions[i] = << >> /\ logged[i] = NoRow
\* The history of an assigned key shows its strategy.
HistoryOf(k) == route[k] = "assign" /\ ~ Tracking(k) => newest[k] = active[k]
\* The newest ACTIVATE row of an assigned key shows its strategy.
ActivationOf(k) == active[k] # 0 /\ ~ Activating(k) => activated[k] = active[k]
KeyOK(k) == HistoryOf(k) /\ ActivationOf(k)

\* What the request in progress knows: nobody else has changed what it has read.
KindFits(c) ==
  /\ pc[c] \in {"count", "keep", "drop"} => call[c] \in DeleteCalls
  /\ pc[c] \in {"validate", "upsert", "track", "activate"} => call[c] \in AssignCalls
  /\ pc[c] = "clear" => call[c] \in ClearCalls
RowKnown(c) ==
  /\ pc[c] \in {"snapshot", "write", "fetch", "upsert"} => Exists(call[c].id)
  /\ pc[c] \in {"snapshot", "write"} => seen[c] = strategies[call[c].id]
  /\ pc[c] = "log" => call[c].id \in 1..lastId /\ Shows(call[c].id, seen[c])
  /\ pc[c] = "drop" /\ Exists(call[c].id) => seen[c] = strategies[call[c].id]
UseKnown(c) ==
  /\ pc[c] \in {"keep", "drop"} => \A k \in Keys : active[k] # call[c].id
  /\ pc[c] \in {"track", "activate"} => active[call[c].key] = call[c].id
Knows(c) == KindFits(c) /\ RowKnown(c) /\ UseKnown(c)

StrategyOK(i) == NotesOf(i) /\ LogOf(i) /\ NothingOf(i)
Routes == [Keys -> {"none", "assign", "legacy"}]

TurnOK ==
  /\ Alone
  /\ route \in Routes
  /\ \A c \in Clients : Knows(c)
  /\ \A i \in Ids : StrategyOK(i)
  /\ ActiveExists
  /\ \A k \in Keys : KeyOK(k)

CalmInv == calm => TurnOK

-----------------------------------------------------------------------------
(* The only request in progress. *)

\* A statement after which all is calm has returned a result.
LEMMA CalmStatement ==
  ASSUME DbAnswers \/ DbFails, calm' PROVE DbAnswers /\ calm
BY DEF DbAnswers, DbFails

LEMMA SoleRequest ==
  ASSUME IInv, TurnOK, NEW c \in Clients, pc[c] # "idle", NEW l \in Labels, Go(c, l)
  PROVE  /\ pc'[c] = l /\ up
         /\ \A d \in Clients \ {c} : pc[d] = "idle" /\ pc'[d] = "idle"
BY DEF IInv, LocalTypes, TurnOK, Alone, Go

\* Who has something left to write, before a step of c and after it.
LEMMA SoleWriter ==
  ASSUME IInv, TurnOK, NEW c \in Clients, pc[c] # "idle", NEW l \in Labels, Go(c, l)
  PROVE  /\ \A i \in Ids : Noting(i) <=> pc[c] = "write" /\ call[c].id = i /\ NotesChanged(c)
         /\ \A i \in Ids : Noting(i)' <=> l = "write" /\ call'[c].id = i /\ NotesChanged(c)'
         /\ \A i \in Ids : Logging(i) <=> pc[c] \in {"fetch", "log"} /\ call[c].id = i
         /\ \A i \in Ids : Logging(i)' <=> l \in {"fetch", "log"} /\ call'[c].id = i
         /\ \A k \in Keys : Tracking(k) <=> pc[c] = "track" /\ call[c].key = k
         /\ \A k \in Keys : Tracking(k)' <=> l = "track" /\ call'[c].key = k
         /\ \A k \in Keys : Activating(k) <=> pc[c] \in {"track", "activate"} /\ call[c].key = k
         /\ \A k \in Keys : Activating(k)' <=> l \in {"track", "activate"} /\ call'[c].key = k
<1>1. /\ pc'[c] = l
      /\ \A d \in Clients \ {c} : pc[d] = "idle" /\ pc'[d] = "idle"
  BY SoleRequest
<1>2. \A i \in Ids : Noting(i) <=> pc[c] = "write" /\ call[c].id = i /\ NotesChanged(c)
  BY <1>1 DEF Noting
<1>3. \A i \in Ids : Noting(i)' <=> l = "write" /\ call'[c].id = i /\ NotesChanged(c)'
  BY <1>1 DEF Noting
<1>4. \A i \in Ids : Logging(i) <=> pc[c] \in {"fetch", "log"} /\ call[c].id = i
  BY <1>1 DEF Logging
<1>5. \A i \in Ids : Logging(i)' <=> l \in {"fetch", "log"} /\ call'[c].id = i
  BY <1>1 DEF Logging
<1>6. \A k \in Keys : Tracking(k) <=> pc[c] = "track" /\ call[c].key = k
  BY <1>1 DEF Tracking
<1>7. \A k \in Keys : Tracking(k)' <=> l = "track" /\ call'[c].key = k
  BY <1>1 DEF Tracking
<1>8. \A k \in Keys : Activating(k) <=> pc[c] \in {"track", "activate"} /\ call[c].key = k
  BY <1>1 DEF Activating
<1>9. \A k \in Keys : Activating(k)' <=> l \in {"track", "activate"} /\ call'[c].key = k
  BY <1>1 DEF Activating
<1> QED
  BY <1>2, <1>3, <1>4, <1>5, <1>6, <1>7, <1>8, <1>9

\* A request that has ended knows nothing.
LEMMA NothingKnown ==
  ASSUME NEW c \in Clients, pc'[c] \in {"idle", "insert", "read"} PROVE Knows(c)'
BY DEF Knows, KindFits, RowKnown, UseKnown

\* What has to be shown of a step of c.
LEMMA TurnGoesOn ==
  ASSUME IInv, TurnOK, NEW c \in Clients, pc[c] # "idle", NEW l \in Labels, Go(c, l),
         up' = up, route' \in Routes, Knows(c)', ActiveExists',
         \A i \in Ids : StrategyOK(i)', \A k \in Keys : KeyOK(k)'
  PROVE  TurnOK'
<1>1. /\ pc'[c] = l /\ up
      /\ \A d \in Clients \ {c} : pc'[d] = "idle"
  BY SoleRequest
<1>2. Alone'
  BY <1>1 DEF Alone
<1>3. \A d \in Clients : Knows(d)'
  BY <1>1, NothingKnown
<1> QED
  BY <1>2, <1>3 DEF TurnOK

\* A strategy whose tables a step leaves alone.
LEMMA StrategyKept ==
  ASSUME NEW i \in Ids, StrategyOK(i), UNCHANGED <<strategies, lastId, versions, logged, was>>,
         Noting(i)' <=> Noting(i), Logging(i) => Logging(i)'
  PROVE  StrategyOK(i)'
<1>1. NotesOf(i)'
  BY DEF StrategyOK, NotesOf, Exists, Snapshots
<1>2. LogOf(i)'
  BY DEF StrategyOK, LogOf, Shows, Exists
<1>3. NothingOf(i)'
  BY DEF StrategyOK, NothingOf
<1> QED
  BY <1>1, <1>2, <1>3 DEF StrategyOK

\* A key whose rows a step leaves alone.
LEMMA KeyKept ==
  ASSUME NEW k \in Keys, KeyOK(k), UNCHANGED <<activated, active, newest, route>>,
         Tracking(k) => Tracking(k)', Activating(k) => Activating(k)'
  PROVE  KeyOK(k)'
BY DEF KeyOK, HistoryOf, ActivationOf

LEMMA UsesKept ==
  ASSUME ActiveExists, UNCHANGED <<strategies, active>> PROVE ActiveExists'
BY DEF ActiveExists, Exists

\* A statement of c that changes no table and leaves nothing unwritten behind.
LEMMA TurnReads ==
  ASSUME IInv, TurnOK, NEW c \in Clients, pc[c] # "idle", NEW l \in Labels, Go(c, l),
         UNCHANGED <<tables, call, up, ghosts>>, Knows(c)', l # "write",
         pc[c] \notin {"write", "track", "activate"}, pc[c] \in {"fetch", "log"} => l \in {"fetch", "log"}
  PROVE  TurnOK'
<1>1. UNCHANGED <<strategies, lastId, versions, logged, activated, active, newest, was, route>>
  BY DEF tables, ghosts
<1>2. \A i \in Ids : StrategyOK(i)'
  BY <1>1, SoleWriter, StrategyKept DEF TurnOK
<1>3. \A k \in Keys : KeyOK(k)'
  BY <1>1, SoleWriter, KeyKept DEF TurnOK
<1>4. ActiveExists' /\ route' \in Routes
  BY <1>1, UsesKept DEF TurnOK
<1> QED
  BY <1>2, <1>3, <1>4, TurnGoesOn

-----------------------------------------------------------------------------
(* The statements that only read. *)

\* Reads leaves its request with the row of its strategy, or ends it.
LEMMA ReadsTurn ==
  ASSUME IInv, NEW c \in Clients, NEW l \in Labels, Reads(c, l), calm'
  PROVE  /\ DbAnswers /\ calm
         /\ Exists(call[c].id) => seen' = [seen EXCEPT ![c] = strategies[call[c].id]] /\ Go(c, l)
         /\ ~ Exists(call[c].id) => seen' = seen /\ Go(c, "idle")
BY DEF Reads, DbAnswers, DbFails

LEMMA FetchTurn ==
  ASSUME IInv, TurnOK, NEW c \in Clients, Fetch(c), calm' PROVE TurnOK'
<1> DEFINE i == call[c].id
<1>1. pc[c] = "fetch" /\ Exists(i) /\ UNCHANGED <<tables, call, up, ghosts>>
  BY DEF Fetch, TurnOK, Knows, RowKnown
<1>2. Go(c, "log") /\ seen' = [seen EXCEPT ![c] = strategies[i]]
  BY <1>1, ReadsTurn DEF Fetch, Labels
<1>3. pc'[c] = "log" /\ seen'[c] = strategies[i]
  BY <1>2 DEF Go, IInv, LocalTypes
<1>4. i \in 1..lastId
  BY <1>1, BoundsAreNaturals DEF Exists, Ids, IInv, TablesOK, TableTypes
<1>5. Knows(c)'
  <2>1. KindFits(c)' /\ UseKnown(c)'
    BY <1>3 DEF KindFits, UseKnown
  <2>2. RowKnown(c)'
    BY <1>1, <1>3, <1>4 DEF RowKnown, Shows, Exists, tables, ghosts
  <2> QED
    BY <2>1, <2>2 DEF Knows
<1> QED
  BY <1>1, <1>2, <1>5, TurnReads DEF Labels

LEMMA ReadOldTurn ==
  ASSUME IInv, TurnOK, NEW c \in Clients, ReadOld(c), calm' PROVE TurnOK'
<1> DEFINE i == call[c].id
<1>1. pc[c] = "read" /\ UNCHANGED <<tables, call, up, ghosts>>
  BY DEF ReadOld
<1>2. CASE Exists(i)
  <2>1. Go(c, "snapshot") /\ seen' = [seen EXCEPT ![c] = strategies[i]]
    BY <1>2, ReadsTurn DEF ReadOld, Labels
  <2>2. pc'[c] = "snapshot" /\ seen'[c] = strategies[i]
    BY <2>1 DEF Go, IInv, LocalTypes
  <2>3. Knows(c)'
    BY <1>1, <1>2, <2>2 DEF Knows, KindFits, UseKnown, RowKnown, Exists, tables
  <2> QED
    BY <1>1, <2>1, <2>3, TurnReads DEF Labels
<1>3. CASE ~ Exists(i)
  <2>1. Go(c, "idle")
    BY <1>3, ReadsTurn DEF ReadOld, Labels
  <2>2. Knows(c)'
    BY <2>1, NothingKnown DEF Go, IInv, LocalTypes
  <2> QED
    BY <1>1, <2>1, <2>2, TurnReads DEF Labels
<1> QED
  BY <1>2, <1>3

LEMMA CountUsesTurn ==
  ASSUME IInv, TurnOK, NEW c \in Clients, CountUses(c), calm' PROVE TurnOK'
<1> DEFINE i == call[c].id
<1>1. /\ pc[c] = "count" /\ call[c] \in DeleteCalls
      /\ UNCHANGED <<tables, call, seen, up, ghosts>>
  BY DEF CountUses, TurnOK, Knows, KindFits
<1>2. Go(c, IF \E k \in Keys : active[k] = i THEN "idle" ELSE "keep")
  BY DEF CountUses, DbFails
<1>3. CASE \E k \in Keys : active[k] = i
  <2>1. Go(c, "idle")
    BY <1>2, <1>3
  <2>2. Knows(c)'
    BY <2>1, NothingKnown DEF Go, IInv, LocalTypes
  <2> QED
    BY <1>1, <2>1, <2>2, TurnReads DEF Labels
<1>4. CASE ~ \E k \in Keys : active[k] = i
  <2>1. Go(c, "keep")
    BY <1>2, <1>4
  <2>2. pc'[c] = "keep"
    BY <2>1 DEF Go, IInv, LocalTypes
  <2>3. Knows(c)'
    BY <1>1, <1>4, <2>2 DEF Knows, KindFits, UseKnown, RowKnown, tables
  <2> QED
    BY <1>1, <2>1, <2>3, TurnReads DEF Labels
<1> QED
  BY <1>3, <1>4

LEMMA KeepTurn ==
  ASSUME IInv, TurnOK, NEW c \in Clients, Keep(c), calm' PROVE TurnOK'
<1> DEFINE i == call[c].id
<1>1. /\ pc[c] = "keep" /\ Go(c, "drop") /\ call[c] \in DeleteCalls
      /\ \A k \in Keys : active[k] # i
      /\ UNCHANGED <<tables, call, up, ghosts>>
  BY DEF Keep, TurnOK, Knows, KindFits, UseKnown
<1>2. seen' = [seen EXCEPT ![c] = IF Exists(i) THEN strategies[i] ELSE NoRow]
  BY DEF Keep, DbFails
<1>3. pc'[c] = "drop" /\ (Exists(i) => seen'[c] = strategies[i])
  BY <1>1, <1>2 DEF Go, IInv, LocalTypes
<1>4. Knows(c)'
  BY <1>1, <1>3 DEF Knows, KindFits, UseKnown, RowKnown, Exists, tables
<1> QED
  BY <1>1, <1>4, TurnReads DEF Labels

LEMMA ValidateTurn ==
  ASSUME IInv, TurnOK, NEW c \in Clients, Validate(c), calm' PROVE TurnOK'
<1> DEFINE i == call[c].id
<1>1. /\ pc[c] = "validate" /\ call[c] \in AssignCalls
      /\ UNCHANGED <<tables, call, seen, up, ghosts>>
  BY DEF Validate, TurnOK, Knows, KindFits
<1>2. Go(c, IF Exists(i) THEN "upsert" ELSE "idle")
  BY DEF Validate, DbFails
<1>3. CASE ~ Exists(i)
  <2>1. Go(c, "idle")
    BY <1>2, <1>3
  <2>2. Knows(c)'
    BY <2>1, NothingKnown DEF Go, IInv, LocalTypes
  <2> QED
    BY <1>1, <2>1, <2>2, TurnReads DEF Labels
<1>4. CASE Exists(i)
  <2>1. Go(c, "upsert")
    BY <1>2, <1>4
  <2>2. pc'[c] = "upsert"
    BY <2>1 DEF Go, IInv, LocalTypes
  <2>3. Knows(c)'
    BY <1>1, <1>4, <2>2 DEF Knows, KindFits, UseKnown, RowKnown, Exists, tables
  <2> QED
    BY <1>1, <2>1, <2>3, TurnReads DEF Labels
<1> QED
  BY <1>3, <1>4

-----------------------------------------------------------------------------
(* The log, the assignments and their history. *)

LEMMA LogRowTurn ==
  ASSUME IInv, TurnOK, NEW c \in Clients, LogRow(c), calm' PROVE TurnOK'
<1> DEFINE i == call[c].id
<1>1. /\ pc[c] = "log" /\ Go(c, "idle") /\ i \in 1..lastId /\ Shows(i, seen[c])
      /\ UNCHANGED <<strategies, lastId, versions, activated, active, newest, call, seen, up, was, route>>
  BY DEF LogRow, TurnOK, Knows, RowKnown, ghosts
<1>2. logged' = [logged EXCEPT ![i] = seen[c]]
  BY DEF LogRow, DbFails
<1>3. \A j \in Ids : StrategyOK(j)'
  <2> SUFFICES ASSUME NEW j \in Ids PROVE StrategyOK(j)'
    OBVIOUS
  <2>0. StrategyOK(j) /\ ~ Noting(j) /\ ~ Noting(j)' /\ (Logging(j) <=> i = j) /\ ~ Logging(j)'
    BY <1>1, SoleWriter DEF TurnOK, Labels
  <2>1. NotesOf(j)'
    BY <1>1, <2>0 DEF StrategyOK, NotesOf, Exists, Snapshots
  <2>2. LogOf(j)' /\ NothingOf(j)'
    <3>1. CASE j = i
      <4>1. logged'[j] = seen[c] /\ ~ j > lastId
        BY <1>1, <1>2, <3>1 DEF IInv, TablesOK, TableTypes
      <4> QED
        BY <1>1, <3>1, <4>1 DEF LogOf, NothingOf, Shows, Exists
    <3>2. CASE j # i
      <4>1. logged'[j] = logged[j]
        BY <1>2, <3>2 DEF IInv, TablesOK, TableTypes
      <4> QED
        BY <1>1, <2>0, <3>2, <4>1 DEF StrategyOK, LogOf, NothingOf, Shows, Exists
    <3> QED
      BY <3>1, <3>2
  <2> QED
    BY <2>1, <2>2 DEF StrategyOK
<1>4. \A k \in Keys : KeyOK(k)'
  BY <1>1, SoleWriter, KeyKept DEF TurnOK, Labels
<1>5. Knows(c)' /\ ActiveExists' /\ route' \in Routes
  BY <1>1, NothingKnown, UsesKept DEF TurnOK, Go, IInv, LocalTypes
<1> QED
  BY <1>1, <1>3, <1>4, <1>5, TurnGoesOn DEF Labels

\* A statement of c on the rows of a key.
LEMMA TurnAssigns ==
  ASSUME IInv, TurnOK, NEW c \in Clients, pc[c] \in {"upsert", "track", "activate", "clear"},
         NEW l \in {"track", "activate", "idle"}, Go(c, l),
         UNCHANGED <<strategies, lastId, versions, logged, was, call, up>>,
         route' \in Routes, Knows(c)', ActiveExists', \A k \in Keys : KeyOK(k)'
  PROVE  TurnOK'
<1>1. \A i \in Ids : StrategyOK(i)'
  BY SoleWriter, StrategyKept DEF TurnOK, Labels
<1> QED
  BY <1>1, TurnGoesOn DEF Labels

LEMMA UpsertTurn ==
  ASSUME IInv, TurnOK, NEW c \in Clients, Upsert(c), calm' PROVE TurnOK'
<1> DEFINE i == call[c].id
           k == call[c].key
           l == IF call[c].op = "assign" THEN "track" ELSE "activate"
<1>1. /\ pc[c] = "upsert" /\ Go(c, l) /\ call[c] \in AssignCalls /\ Exists(i)
      /\ UNCHANGED <<strategies, lastId, versions, logged, activated, newest, call, seen, up, was>>
  BY DEF Upsert, TurnOK, Knows, KindFits, RowKnown
<1>2. /\ active' = [active EXCEPT ![k] = i]
      /\ route' = [route EXCEPT ![k] = call[c].op]
  BY DEF Upsert, DbFails
<1>3. k \in Keys /\ i \in Ids
  BY <1>1 DEF AssignCalls
<1>4. active'[k] = i /\ \A j \in Keys \ {k} : active'[j] = active[j]
  BY <1>2, <1>3 DEF IInv, TablesOK, TableTypes
<1>5. ActiveExists'
  BY <1>1, <1>4 DEF TurnOK, ActiveExists, Exists
<1>6. ASSUME NEW j \in Keys PROVE KeyOK(j)'
  <2>1. CASE j = k
    <3>1. (l = "track" => Tracking(j)') /\ Activating(j)'
      BY <1>1, <2>1, SoleWriter DEF Labels
    <3>2. route'[j] = "assign" => l = "track"
      BY <1>2, <2>1 DEF TurnOK, Routes
    <3> QED
      BY <3>1, <3>2 DEF KeyOK, HistoryOf, ActivationOf
  <2>2. CASE j # k
    <3>1. ~ Tracking(j) /\ ~ Activating(j) /\ KeyOK(j)
      BY <1>1, <2>2, SoleWriter DEF TurnOK, Labels
    <3>2. route'[j] = route[j]
      BY <1>2, <2>2 DEF TurnOK, Routes
    <3> QED
      BY <1>1, <1>4, <2>2, <3>1, <3>2 DEF KeyOK, HistoryOf, ActivationOf
  <2> QED
    BY <2>1, <2>2
<1>7. pc'[c] = l
  BY <1>1 DEF Go, IInv, LocalTypes
<1>8. Knows(c)'
  BY <1>1, <1>4, <1>7 DEF Knows, KindFits, RowKnown, UseKnown
<1>9. route' \in Routes
  BY <1>1, <1>2 DEF TurnOK, Routes, AssignCalls
<1> QED
  BY <1>1, <1>5, <1>6, <1>8, <1>9, TurnAssigns

LEMMA TrackTurn ==
  ASSUME IInv, TurnOK, NEW c \in Clients, Track(c), calm' PROVE TurnOK'
<1> DEFINE i == call[c].id
           k == call[c].key
<1>1. /\ pc[c] = "track" /\ Go(c, "activate") /\ active[k] = i /\ call[c] \in AssignCalls
      /\ UNCHANGED <<strategies, lastId, versions, logged, activated, active, call, seen, up, was, route>>
  BY DEF Track, TurnOK, Knows, KindFits, UseKnown, ghosts
<1>2. newest' = [newest EXCEPT ![k] = i]
  BY DEF Track, DbFails
<1>3. ASSUME NEW j \in Keys PROVE KeyOK(j)'
  <2>1. CASE j = k
    <3>1. Activating(j)'
      BY <1>1, <2>1, SoleWriter DEF Labels
    <3>2. newest'[j] = active'[j]
      BY <1>1, <1>2, <2>1 DEF IInv, TablesOK, TableTypes
    <3> QED
      BY <3>1, <3>2 DEF KeyOK, HistoryOf, ActivationOf
  <2>2. CASE j # k
    <3>1. ~ Tracking(j) /\ ~ Activating(j) /\ KeyOK(j)
      BY <1>1, <2>2, SoleWriter DEF TurnOK, Labels
    <3>2. newest'[j] = newest[j]
      BY <1>2, <2>2 DEF IInv, TablesOK, TableTypes
    <3> QED
      BY <1>1, <3>1, <3>2 DEF KeyOK, HistoryOf, ActivationOf
  <2> QED
    BY <2>1, <2>2
<1>4. pc'[c] = "activate"
  BY <1>1 DEF Go, IInv, LocalTypes
<1>5. Knows(c)'
  BY <1>1, <1>4 DEF Knows, KindFits, RowKnown, UseKnown
<1>6. ActiveExists' /\ route' \in Routes
  BY <1>1, UsesKept DEF TurnOK
<1> QED
  BY <1>1, <1>3, <1>5, <1>6, TurnAssigns

LEMMA ActivateTurn ==
  ASSUME IInv, TurnOK, NEW c \in Clients, Activate(c), calm' PROVE TurnOK'
<1> DEFINE i == call[c].id
           k == call[c].key
<1>1. /\ pc[c] = "activate" /\ Go(c, "idle") /\ active[k] = i
      /\ UNCHANGED <<strategies, lastId, versions, logged, active, newest, call, seen, up, was, route>>
  BY DEF Activate, TurnOK, Knows, UseKnown, ghosts
<1>2. activated' = [activated EXCEPT ![k] = i]
  BY DEF Activate, DbFails
<1>3. ASSUME NEW j \in Keys PROVE KeyOK(j)'
  <2>1. ~ Tracking(j) /\ KeyOK(j)
    BY <1>1, SoleWriter DEF TurnOK, Labels
  <2>2. CASE j = k
    <3>1. activated'[j] = active'[j]
      BY <1>1, <1>2, <2>2 DEF IInv, TablesOK, TableTypes
    <3> QED
      BY <1>1, <2>1, <3>1 DEF KeyOK, HistoryOf, ActivationOf
  <2>3. CASE j # k
    <3>1. ~ Activating(j)
      BY <1>1, <2>3, SoleWriter DEF Labels
    <3>2. activated'[j] = activated[j]
      BY <1>2, <2>3 DEF IInv, TablesOK, TableTypes
    <3> QED
      BY <1>1, <2>1, <3>1, <3>2 DEF KeyOK, HistoryOf, ActivationOf
  <2> QED
    BY <2>2, <2>3
<1>4. Knows(c)' /\ ActiveExists' /\ route' \in Routes
  BY <1>1, NothingKnown, UsesKept DEF TurnOK, Go, IInv, LocalTypes
<1> QED
  BY <1>1, <1>3, <1>4, TurnAssigns

LEMMA ClearTurn ==
  ASSUME IInv, TurnOK, NEW c \in Clients, Clear(c), calm' PROVE TurnOK'
<1> DEFINE k == call[c].key
<1>1. /\ pc[c] = "clear" /\ Go(c, "idle") /\ call[c] \in ClearCalls
      /\ UNCHANGED <<strategies, lastId, versions, logged, activated, newest, call, seen, up, was>>
  BY DEF Clear, TurnOK, Knows, KindFits
<1>2. /\ active' = [active EXCEPT ![k] = 0]
      /\ route' = [route EXCEPT ![k] = "none"]
  BY DEF Clear, DbFails
<1>3. /\ active'[k] = 0 \/ k \notin Keys
      /\ \A j \in Keys \ {k} : active'[j] = active[j] /\ route'[j] = route[j]
  BY <1>2 DEF TurnOK, Routes, IInv, TablesOK, TableTypes
<1>4. ActiveExists'
  BY <1>1, <1>3 DEF TurnOK, ActiveExists, Exists
<1>5. ASSUME NEW j \in Keys PROVE KeyOK(j)'
  <2>1. CASE j = k
    <3>1. route'[j] = "none" /\ active'[j] = 0
      BY <1>2, <1>3, <2>1 DEF TurnOK, Routes
    <3> QED
      BY <3>1 DEF KeyOK, HistoryOf, ActivationOf
  <2>2. CASE j # k
    <3>1. ~ Tracking(j) /\ ~ Activating(j) /\ KeyOK(j)
      BY <1>1, SoleWriter DEF TurnOK, Labels
    <3> QED
      BY <1>1, <1>3, <2>2, <3>1 DEF KeyOK, HistoryOf, ActivationOf
  <2> QED
    BY <2>1, <2>2
<1>6. Knows(c)' /\ route' \in Routes
  BY <1>1, <1>2, NothingKnown DEF TurnOK, Routes, Go, IInv, LocalTypes
<1> QED
  BY <1>1, <1>4, <1>5, <1>6, TurnAssigns

-----------------------------------------------------------------------------
(* Snapshots, updates and deletions. *)

LEMMA SnapshotTurn ==
  ASSUME IInv, TurnOK, NEW c \in Clients, Snapshot(c), calm' PROVE TurnOK'
<1> PICK i \in Ids : call[c].id = i
  BY DEF Snapshot, TurnOK, Knows, RowKnown, Exists
<1>1. /\ pc[c] = "snapshot" /\ Go(c, "write") /\ Exists(i) /\ seen[c] = strategies[i]
      /\ UNCHANGED <<strategies, lastId, logged, activated, active, newest, call, seen, up, was, route>>
  BY DEF Snapshot, TurnOK, Knows, RowKnown, ghosts
<1>2. /\ NotesChanged(c)' <=> NotesChanged(c)
      /\ pc'[c] = "write"
  BY <1>1 DEF NotesChanged, Go, IInv, LocalTypes
<1>3. Knows(c)'
  BY <1>1, <1>2 DEF Knows, KindFits, UseKnown, RowKnown, Exists
<1>4. ActiveExists' /\ route' \in Routes
  BY <1>1, UsesKept DEF TurnOK
<1>5. \A k \in Keys : KeyOK(k)'
  BY <1>1, SoleWriter, KeyKept DEF TurnOK, Labels
<1>6. ASSUME NEW j \in Ids, versions'[j] = versions[j], j = i => ~ NotesChanged(c)
      PROVE  StrategyOK(j)'
  <2>1. StrategyOK(j) /\ ~ Noting(j) /\ ~ Noting(j)' /\ ~ Logging(j)
    BY <1>1, <1>2, <1>6, SoleWriter DEF TurnOK, Labels
  <2>2. NotesOf(j)'
    BY <1>1, <1>6, <2>1 DEF StrategyOK, NotesOf, Exists, Snapshots
  <2>3. LogOf(j)' /\ NothingOf(j)'
    BY <1>1, <1>6, <2>1 DEF StrategyOK, LogOf, NothingOf, Shows, Exists
  <2> QED
    BY <2>2, <2>3 DEF StrategyOK
<1>7. CASE ~ NotesChanged(c)
  <2>1. versions' = versions
    BY <1>7 DEF Snapshot
  <2> QED
    BY <1>1, <1>3, <1>4, <1>5, <1>6, <1>7, <2>1, TurnGoesOn DEF Labels
<1>8. CASE NotesChanged(c)
  <2> DEFINE old == Content(strategies[i])
             grown == Append(versions[i], old)
             top == Len(versions[i]) + 1
  <2>1. versions' = [versions EXCEPT ![i] = Append(@, old)]
    BY <1>1, <1>8 DEF Snapshot, DbFails
  <2>2. versions \in [Ids -> Seq(Contents)] /\ strategies[i] \in Rows /\ old \in Contents
    BY <1>1, <1>2, RowContent DEF IInv, TablesOK, TableTypes, Exists
  <2>3. versions'[i] = grown /\ \A j \in Ids \ {i} : versions'[j] = versions[j]
    BY <1>2, <2>1, <2>2
  <2>4. /\ grown \in Seq(Contents) /\ top \in DOMAIN grown /\ grown[top] = old
        /\ DOMAIN grown = DOMAIN versions[i] \union {top} /\ Len(grown) = top
        /\ \A n \in DOMAIN versions[i] : grown[n] = versions[i][n]
    BY <1>2, <2>2, AppendProperties
  <2>5. StrategyOK(i) /\ ~ Noting(i) /\ Noting(i)' /\ ~ Logging(i)
    BY <1>1, <1>2, <1>8, SoleWriter DEF TurnOK, Labels
  <2>6. /\ Len(versions[i]) = strategies[i].version - 1
        /\ \A n \in DOMAIN versions[i] : versions[i][n].version = n
        /\ was[i] = Snapshots(i) \union {old}
    BY <1>1, <2>5 DEF StrategyOK, NotesOf
  <2>7. top = strategies[i].version /\ old.version = top
    <3>1. strategies[i].version \in Nat /\ Len(versions[i]) \in Nat
      BY <1>2, <2>2 DEF Rows
    <3>2. old.version = strategies[i].version
      BY DEF Content
    <3> QED
      BY <2>6, <3>1, <3>2
  <2> HIDE DEF old, grown, top
  <2>8. Snapshots(i)' = Snapshots(i) \union {old}
    BY <1>1, <2>3, <2>4 DEF Snapshots
  <2>9. \A n \in DOMAIN grown : grown[n].version = n
    BY <2>4, <2>6, <2>7
  <2>10. /\ Len(versions'[i]) = strategies'[i].version
         /\ was'[i] = Snapshots(i)'
    BY <1>1, <2>3, <2>4, <2>6, <2>7, <2>8
  <2>11. NotesOf(i)'
    BY <2>3, <2>5, <2>9, <2>10 DEF NotesOf
  <2>12. LogOf(i)' /\ NothingOf(i)'
    <3>1. ~ i > lastId
      BY <1>1, <1>2 DEF IInv, TablesOK, TableTypes, Exists
    <3> QED
      BY <1>1, <2>5, <3>1 DEF StrategyOK, LogOf, NothingOf, Shows, Exists
  <2>13. \A j \in Ids : StrategyOK(j)'
    BY <1>6, <2>3, <2>11, <2>12 DEF StrategyOK
  <2> QED
    BY <1>1, <1>3, <1>4, <1>5, <2>13, TurnGoesOn DEF Labels
<1> QED
  BY <1>7, <1>8

\* A strategy beside the one that a step writes.
LEMMA OtherStrategy ==
  ASSUME NEW j \in Ids, StrategyOK(j), ~ Noting(j), ~ Noting(j)', ~ Logging(j),
         UNCHANGED <<versions, logged>>, lastId' = lastId,
         strategies'[j] = strategies[j], was'[j] = was[j]
  PROVE  StrategyOK(j)'
<1>1. NotesOf(j)'
  <2>1. Content(strategies[j])' = Content(strategies[j]) /\ Snapshots(j)' = Snapshots(j)
    BY DEF Content, Snapshots
  <2> QED
    BY <2>1 DEF StrategyOK, NotesOf, Exists
<1>2. LogOf(j)' /\ NothingOf(j)'
  BY DEF StrategyOK, LogOf, NothingOf, Shows, Exists
<1> QED
  BY <1>1, <1>2 DEF StrategyOK

LEMMA WriteTurn ==
  ASSUME IInv, TurnOK, NEW c \in Clients, Write(c), calm' PROVE TurnOK'
<1> DEFINE row == Updated(c)
<1> PICK i \in Ids : call[c].id = i
  BY DEF Write, TurnOK, Knows, RowKnown, Exists
<1>1. /\ pc[c] = "write" /\ Exists(i) /\ seen[c] = strategies[i] /\ call[c] \in UpdateCalls
      /\ seen[c] \in Rows
      /\ UNCHANGED <<lastId, versions, logged, activated, active, newest, call, seen, up, route>>
  BY DEF Write, TurnOK, Knows, RowKnown, IInv, LocalOK, CallFits, SeenWas
<1>2. /\ Go(c, "fetch")
      /\ strategies' = [strategies EXCEPT ![i] = row]
      /\ was' = [was EXCEPT ![i] = @ \union {Content(row)}]
  BY <1>1 DEF Write, DbFails
<1>3. /\ row \in Rows /\ row # NoRow
      /\ row.version = strategies[i].version + (IF NotesChanged(c) THEN 1 ELSE 0)
      /\ ~ NotesChanged(c) => row.notes = strategies[i].notes
  <2>1. row \in Rows /\ row.version = seen[c].version + (IF NotesChanged(c) THEN 1 ELSE 0)
    BY <1>1, UpdatedRow
  <2>2. row.notes = call[c].notes
    BY DEF Updated
  <2> QED
    BY <1>1, <2>1, <2>2, RowContent DEF NotesChanged
<1> HIDE DEF row
<1>4. /\ strategies'[i] = row /\ was'[i] = was[i] \union {Content(row)}
      /\ \A j \in Ids \ {i} : strategies'[j] = strategies[j] /\ was'[j] = was[j]
  BY <1>2 DEF IInv, TablesOK, TableTypes
<1>5. pc'[c] = "fetch"
  BY <1>2 DEF Go, IInv, LocalTypes
<1>6. Knows(c)'
  BY <1>1, <1>3, <1>4, <1>5 DEF Knows, KindFits, UseKnown, RowKnown, Exists
<1>7. ActiveExists' /\ route' \in Routes
  BY <1>1, <1>3, <1>4 DEF TurnOK, ActiveExists, Exists
<1>8. \A k \in Keys : KeyOK(k)'
  BY <1>1, <1>2, SoleWriter, KeyKept DEF TurnOK, Labels
<1>9. \A j \in Ids \ {i} : StrategyOK(j)'
  <2> SUFFICES ASSUME NEW j \in Ids \ {i} PROVE StrategyOK(j)'
    OBVIOUS
  <2>1. StrategyOK(j) /\ ~ Noting(j) /\ ~ Noting(j)' /\ ~ Logging(j)
    BY <1>1, <1>2, SoleWriter DEF TurnOK, Labels
  <2> QED
    BY <1>1, <1>4, <2>1, OtherStrategy
<1>10. StrategyOK(i)'
  <2>1. StrategyOK(i) /\ (Noting(i) <=> NotesChanged(c)) /\ ~ Noting(i)' /\ Logging(i)'
    BY <1>1, <1>2, SoleWriter DEF TurnOK, Labels
  <2>2. LogOf(i)' /\ NothingOf(i)'
    <3>1. ~ i > lastId
      BY <1>1 DEF IInv, TablesOK, TableTypes, Exists
    <3> QED
      BY <1>1, <2>1, <3>1 DEF LogOf, NothingOf
  <2>3. \A n \in DOMAIN versions[i] : versions[i][n].version = n
    BY <1>1, <2>1 DEF StrategyOK, NotesOf
  <2>4. strategies[i].version \in Nat
    BY <1>1 DEF Rows
  <2>5. Len(versions[i]) = row.version - 1 /\ was'[i] = Snapshots(i) \union {Content(row)}
    <3>1. CASE NotesChanged(c)
      BY <1>1, <1>3, <1>4, <2>1, <2>4, <3>1 DEF StrategyOK, NotesOf
    <3>2. CASE ~ NotesChanged(c)
      <4>1. Content(row) = Content(strategies[i])
        BY <1>3, <2>4, <3>2 DEF Content
      <4> QED
        BY <1>1, <1>3, <1>4, <2>1, <2>4, <3>2, <4>1 DEF StrategyOK, NotesOf
    <3> QED
      BY <3>1, <3>2
  <2>6. Snapshots(i)' = Snapshots(i) /\ Content(strategies[i])' = Content(row)
    BY <1>1, <1>4 DEF Snapshots, Content
  <2>7. NotesOf(i)'
    BY <1>1, <1>4, <2>1, <2>3, <2>5, <2>6 DEF NotesOf
  <2> QED
    BY <2>2, <2>7 DEF StrategyOK
<1> QED
  BY <1>1, <1>2, <1>6, <1>7, <1>8, <1>9, <1>10, TurnGoesOn DEF Labels

LEMMA DropTurn ==
  ASSUME IInv, TurnOK, NEW c \in Clients, Drop(c), calm' PROVE TurnOK'
<1>0. call[c] \in DeleteCalls
  BY DEF Drop, TurnOK, Knows, KindFits
<1> PICK i \in Ids : call[c].id = i
  BY <1>0 DEF DeleteCalls
<1>1. /\ pc[c] = "drop" /\ \A k \in Keys : active[k] # i
      /\ Exists(i) => seen[c] = strategies[i]
      /\ UNCHANGED <<lastId, versions, logged, activated, active, newest, call, seen, up, was, route>>
  BY DEF Drop, TurnOK, Knows, UseKnown, RowKnown, ghosts
<1>2. CASE ~ Exists(i)
  <2>1. Go(c, "idle") /\ UNCHANGED strategies
    BY <1>2 DEF Drop, DbFails
  <2>2. Knows(c)'
    BY <2>1, NothingKnown DEF Go, IInv, LocalTypes
  <2> QED
    BY <1>1, <2>1, <2>2, TurnReads DEF Labels, tables, ghosts
<1>3. CASE Exists(i)
  <2>1. Go(c, "log") /\ strategies' = [strategies EXCEPT ![i] = NoRow]
    BY <1>3 DEF Drop, DbFails
  <2>2. /\ strategies'[i] = NoRow
        /\ \A j \in Ids \ {i} : strategies'[j] = strategies[j]
    BY <2>1 DEF IInv, TablesOK, TableTypes
  <2>3. pc'[c] = "log"
    BY <2>1 DEF Go, IInv, LocalTypes
  <2>4. i \in 1..lastId /\ Content(strategies[i]) \in was[i]
    <3>1. i \in 1..lastId
      BY <1>3, BoundsAreNaturals DEF Exists, Ids, IInv, TablesOK, TableTypes
    <3>2. Content(strategies[i]) \in was[i]
      BY <1>3 DEF Exists, IInv, TablesOK, RowWas
    <3> QED
      BY <3>1, <3>2
  <2>5. Knows(c)'
    <3>1. Shows(i, seen[c])'
      BY <1>1, <1>3, <2>2, <2>4 DEF Shows, Exists, Content
    <3> QED
      BY <1>1, <2>3, <2>4, <3>1 DEF Knows, KindFits, UseKnown, RowKnown
  <2>6. ActiveExists' /\ route' \in Routes
    BY <1>1, <2>2 DEF TurnOK, ActiveExists, Exists
  <2>7. \A k \in Keys : KeyOK(k)'
    BY <1>1, <2>1, SoleWriter, KeyKept DEF TurnOK, Labels
  <2>8. \A j \in Ids \ {i} : StrategyOK(j)'
    <3> SUFFICES ASSUME NEW j \in Ids \ {i} PROVE StrategyOK(j)'
      OBVIOUS
    <3>1. StrategyOK(j) /\ ~ Noting(j) /\ ~ Noting(j)' /\ ~ Logging(j)
      BY <1>1, <2>1, SoleWriter DEF TurnOK, Labels
    <3> QED
      BY <1>1, <2>2, <3>1, OtherStrategy
  <2>9. StrategyOK(i)'
    <3>1. Logging(i)'
      BY <1>1, <2>1, SoleWriter DEF Labels
    <3>2. ~ Exists(i)' /\ ~ i > lastId
      BY <2>2, <2>4 DEF Exists, IInv, TablesOK, TableTypes
    <3> QED
      BY <1>1, <3>1, <3>2 DEF StrategyOK, NotesOf, LogOf, NothingOf
  <2> QED
    BY <1>1, <2>1, <2>5, <2>6, <2>7, <2>8, <2>9, TurnGoesOn DEF Labels
<1> QED
  BY <1>2, <1>3

-----------------------------------------------------------------------------
(* New strategies. *)

\* The new row has one content, its own, and neither a snapshot nor a log yet.
LEMMA NewStrategy ==
  ASSUME IInv, TurnOK, NEW name \in Nat \ {0}, NEW notes \in Nat, InsertRow(name, notes),
         UNCHANGED <<versions, logged, active>>,
         \A i \in Ids : ~ Noting(i) /\ ~ Noting(i)' /\ ~ Logging(i)
  PROVE  /\ ActiveExists' /\ \A i \in Ids : StrategyOK(i)'
         /\ lastId' \in Ids /\ strategies'[lastId'] # NoRow
<1> DEFINE row == [name |-> name, notes |-> notes, version |-> 1]
<1>1. lastId \in Nat /\ MaxIds \in Nat /\ lastId' = lastId + 1 /\ lastId' <= MaxIds
  BY BoundsAreNaturals DEF InsertRow, IInv, TablesOK, TableTypes
<1> PICK new \in Ids : new = lastId + 1
  BY <1>1 DEF Ids
<1>2. row \in Rows /\ row # NoRow /\ row.version = 1
  BY NewRow, RowContent
<1> HIDE DEF row
<1>3. /\ strategies' = [strategies EXCEPT ![new] = row]
      /\ was' = [was EXCEPT ![new] = {Content(row)}]
  BY <1>1 DEF InsertRow, row
<1>4. /\ strategies'[new] = row /\ was'[new] = {Content(row)}
      /\ \A j \in Ids \ {new} : strategies'[j] = strategies[j] /\ was'[j] = was[j]
  BY <1>3 DEF IInv, TablesOK, TableTypes
<1>5. strategies[new] = NoRow /\ StrategyOK(new) /\ new > lastId
  BY <1>1 DEF IInv, TablesOK, TableTypes, TurnOK
<1>6. ActiveExists'
  BY <1>4, <1>5 DEF TurnOK, ActiveExists, Exists
<1>7. StrategyOK(new)'
  <2>1. versions[new] = << >> /\ logged[new] = NoRow
    BY <1>5 DEF StrategyOK, NothingOf
  <2>2. Content(strategies[new])' = Content(row) /\ Snapshots(new)' = {}
    BY <1>4, <2>1 DEF Content, Snapshots
  <2>3. NotesOf(new)'
    BY <1>2, <1>4, <2>1, <2>2 DEF NotesOf
  <2>4. LogOf(new)' /\ NothingOf(new)'
    BY <1>1, <2>1 DEF LogOf, NothingOf
  <2> QED
    BY <2>3, <2>4 DEF StrategyOK
<1>8. ASSUME NEW j \in Ids \ {new} PROVE StrategyOK(j)'
  <2>1. StrategyOK(j) /\ strategies'[j] = strategies[j] /\ was'[j] = was[j]
    BY <1>4 DEF TurnOK
  <2>2. NotesOf(j)'
    <3>1. Content(strategies[j])' = Content(strategies[j]) /\ Snapshots(j)' = Snapshots(j)
      BY <2>1 DEF Content, Snapshots
    <3> QED
      BY <2>1, <3>1 DEF StrategyOK, NotesOf, Exists
  <2>3. LogOf(j)'
    BY <2>1 DEF StrategyOK, LogOf, Shows, Exists
  <2>4. NothingOf(j)'
    BY <1>1, <2>1 DEF StrategyOK, NothingOf, Ids
  <2> QED
    BY <2>2, <2>3, <2>4 DEF StrategyOK
<1> QED
  BY <1>1, <1>2, <1>4, <1>6, <1>7, <1>8

LEMMA InsertTurn ==
  ASSUME IInv, TurnOK, NEW c \in Clients, Insert(c), calm' PROVE TurnOK'
<1>1. pc[c] = "insert" /\ call[c] \in CreateCalls
  BY DEF Insert, IInv, LocalOK, CallFits
<1>2. /\ InsertRow(call[c].name, call[c].notes) /\ Go(c, "fetch")
      /\ call' = [call EXCEPT ![c].id = lastId']
      /\ UNCHANGED <<versions, logged, activated, active, newest, seen, up, route>>
  BY DEF Insert, DbFails
<1>3. call[c].name \in Nat \ {0} /\ call[c].notes \in Nat
  <2>1. call[c].name \in Names /\ call[c].notes \in Notes \union {0}
    BY <1>1 DEF CreateCalls
  <2>2. Names \subseteq Nat \ {0} /\ Notes \union {0} \subseteq Nat
    BY TextsAreNaturals
  <2> QED
    BY <2>1, <2>2
<1>4. \A i \in Ids : ~ Noting(i) /\ ~ Noting(i)' /\ ~ Logging(i)
  BY <1>1, <1>2, SoleWriter DEF Labels
<1>5. /\ ActiveExists' /\ \A i \in Ids : StrategyOK(i)'
      /\ lastId' \in Ids /\ strategies'[lastId'] # NoRow
  BY <1>2, <1>3, <1>4, NewStrategy
<1>6. pc'[c] = "fetch"
  BY <1>2 DEF Go, IInv, LocalTypes
<1>7. call'[c].id = lastId'
  <2>1. call'[c] = [call[c] EXCEPT !.id = lastId']
    BY <1>2 DEF IInv, LocalTypes
  <2> QED
    BY <1>1, <2>1 DEF CreateCalls
<1>8. Knows(c)'
  BY <1>5, <1>6, <1>7 DEF Knows, KindFits, UseKnown, RowKnown, Exists
<1>9. route' \in Routes /\ \A k \in Keys : KeyOK(k)'
  BY <1>1, <1>2, SoleWriter, KeyKept DEF TurnOK, Labels
<1> QED
  BY <1>1, <1>2, <1>5, <1>8, <1>9, TurnGoesOn DEF Labels

LEMMA BootTurn ==
  ASSUME IInv, TurnOK, Boot, calm' PROVE TurnOK'
<1>1. /\ up' = TRUE /\ \A c \in Clients : pc[c] = "idle" /\ pc'[c] = "idle"
      /\ UNCHANGED <<versions, logged, activated, active, newest, route>>
  BY DEF Boot, TurnOK, Alone
<1>2. Alone' /\ route' \in Routes /\ \A c \in Clients : Knows(c)'
  BY <1>1, NothingKnown DEF Alone, TurnOK
<1>3. /\ \A i \in Ids : ~ Noting(i) /\ ~ Noting(i)' /\ ~ Logging(i)
      /\ \A k \in Keys : ~ Tracking(k) /\ ~ Activating(k)
  BY <1>1 DEF Noting, Logging, Tracking, Activating
<1>4. \A k \in Keys : KeyOK(k)'
  BY <1>1, <1>3, KeyKept DEF TurnOK
<1>5. CASE InsertRow(SeedName, SeedNotes)
  BY <1>1, <1>2, <1>3, <1>4, <1>5, NewStrategy, SeedAssumption DEF TurnOK
<1>6. CASE UNCHANGED <<strategies, lastId, was>>
  <2>1. \A i \in Ids : StrategyOK(i)'
    BY <1>1, <1>3, <1>6, StrategyKept DEF TurnOK
  <2> QED
    BY <1>1, <1>2, <1>4, <1>6, <2>1, UsesKept DEF TurnOK
<1> QED
  BY <1>5, <1>6 DEF Boot

-----------------------------------------------------------------------------
(* Requests, and the invariant. *)

\* A new request knows of its body what its first step asks for.
LEMMA FirstStepKind ==
  ASSUME NEW r \in Calls
  PROVE  /\ FirstStep[r.op] \in {"insert", "read", "count", "validate", "clear"}
         /\ FirstStep[r.op] = "count" => r \in DeleteCalls
         /\ FirstStep[r.op] = "validate" => r \in AssignCalls
         /\ FirstStep[r.op] = "clear" => r \in ClearCalls
<1>1. CASE r \in CreateCalls
  <2>1. r.op = "create"
    BY <1>1 DEF CreateCalls
  <2> QED
    BY <2>1 DEF FirstStep
<1>2. CASE r \in UpdateCalls
  <2>1. r.op = "update"
    BY <1>2 DEF UpdateCalls
  <2> QED
    BY <2>1 DEF FirstStep
<1>3. CASE r \in DeleteCalls
  <2>1. r.op = "delete"
    BY <1>3 DEF DeleteCalls
  <2> QED
    BY <1>3, <2>1 DEF FirstStep
<1>4. CASE r \in AssignCalls
  <2>1. r.op \in {"assign", "legacy"}
    BY <1>4 DEF AssignCalls
  <2> QED
    BY <1>4, <2>1 DEF FirstStep
<1>5. CASE r \in ClearCalls
  <2>1. r.op = "clear"
    BY <1>5 DEF ClearCalls
  <2> QED
    BY <1>5, <2>1 DEF FirstStep
<1> QED
  BY <1>1, <1>2, <1>3, <1>4, <1>5 DEF Calls

LEMMA RequestTurn ==
  ASSUME IInv, TurnOK, NEW c \in Clients, Request(c), calm' PROVE TurnOK'
<1>1. PICK r \in Calls : call' = [call EXCEPT ![c] = r] /\ Go(c, FirstStep[r.op])
  BY DEF Request
<1>2. pc'[c] = FirstStep[r.op] /\ call'[c] = r
  BY <1>1 DEF Go, IInv, LocalTypes
<1>3. /\ up /\ up' = up /\ \A d \in Clients : pc[d] = "idle"
      /\ UNCHANGED <<strategies, lastId, versions, logged, activated, active, newest, was, route>>
  BY DEF Request, Busy, tables, ghosts
<1>4. \A d \in Clients \ {c} : pc'[d] = "idle"
  BY <1>1, <1>3 DEF Go, IInv, LocalTypes
<1>5. Knows(c)'
  BY <1>2, FirstStepKind DEF Knows, KindFits, UseKnown, RowKnown
<1>6. Alone' /\ \A d \in Clients : Knows(d)'
  BY <1>3, <1>4, <1>5, NothingKnown DEF Alone
<1>7. /\ \A i \in Ids : ~ Noting(i) /\ ~ Noting(i)' /\ ~ Logging(i)
      /\ \A k \in Keys : ~ Tracking(k) /\ ~ Activating(k)
  BY <1>2, <1>3, <1>4, FirstStepKind DEF Noting, Logging, Tracking, Activating
<1>8. \A i \in Ids : StrategyOK(i)'
  BY <1>3, <1>7, StrategyKept DEF TurnOK
<1>9. \A k \in Keys : KeyOK(k)'
  BY <1>3, <1>7, KeyKept DEF TurnOK
<1> QED
  BY <1>3, <1>6, <1>8, <1>9, UsesKept DEF TurnOK

LEMMA InitTurn == Init => CalmInv
<1> SUFFICES ASSUME Init PROVE TurnOK
  BY DEF CalmInv
<1>1. Alone /\ route \in Routes /\ \A c \in Clients : Knows(c)
  BY DEF Init, Alone, Routes, Knows, KindFits, RowKnown, UseKnown
<1>2. \A i \in Ids : StrategyOK(i)
  BY DEF Init, StrategyOK, NotesOf, LogOf, NothingOf, Exists
<1>3. ActiveExists /\ \A k \in Keys : KeyOK(k)
  BY DEF Init, ActiveExists, KeyOK, HistoryOf, ActivationOf
<1> QED
  BY <1>1, <1>2, <1>3 DEF TurnOK

LEMMA NextTurn == IInv /\ CalmInv /\ [Next]_vars => CalmInv'
<1> SUFFICES ASSUME IInv, CalmInv, [Next]_vars, calm' PROVE TurnOK'
  BY DEF CalmInv
<1>1. CASE Boot
  <2>1. calm
    BY <1>1, CalmStatement DEF Boot, DbAnswers
  <2> QED
    BY <1>1, <2>1, BootTurn DEF CalmInv
<1>2. CASE Crash
  BY <1>2 DEF Crash
<1>3. ASSUME NEW c \in Clients, Request(c) PROVE TurnOK'
  <2>1. calm
    BY <1>3 DEF Request
  <2> QED
    BY <1>3, <2>1, RequestTurn DEF CalmInv
<1>4. ASSUME NEW c \in Clients, Step(c) PROVE TurnOK'
  <2>1. DbAnswers \/ DbFails
    BY <1>4 DEF Step, Insert, Fetch, LogRow, ReadOld, Reads, Snapshot, Write, CountUses, Keep,
                Drop, Validate, Upsert, Track, Activate, Clear
  <2>2. TurnOK
    BY <2>1, CalmStatement DEF CalmInv
  <2> QED
    BY <1>4, <2>2, InsertTurn, FetchTurn, LogRowTurn, ReadOldTurn, SnapshotTurn, WriteTurn,
       CountUsesTurn, KeepTurn, DropTurn, ValidateTurn, UpsertTurn, TrackTurn,
       ActivateTurn, ClearTurn
    DEF Step
<1>5. CASE UNCHANGED vars
  <2>1. TurnOK /\ UNCHANGED <<tables, ghosts, pc, call, seen, up>>
    BY <1>5 DEF vars, CalmInv
  <2>2. UNCHANGED <<strategies, lastId, versions, logged, activated, active, newest, was, route>>
    BY <2>1 DEF tables, ghosts
  <2>3. /\ \A i \in Ids : (Noting(i)' <=> Noting(i)) /\ (Logging(i)' <=> Logging(i))
        /\ \A k \in Keys : (Tracking(k)' <=> Tracking(k)) /\ (Activating(k)' <=> Activating(k))
    BY <2>1 DEF Noting, Logging, Tracking, Activating, NotesChanged
  <2>4. \A i \in Ids : StrategyOK(i)'
    BY <2>1, <2>2, <2>3, StrategyKept DEF TurnOK
  <2>5. \A k \in Keys : KeyOK(k)'
    BY <2>1, <2>2, <2>3, KeyKept DEF TurnOK
  <2>6. \A c \in Clients : Knows(c)'
    BY <2>1, <2>2 DEF TurnOK, Knows, KindFits, RowKnown, UseKnown, Shows, Exists
  <2>7. Alone' /\ ActiveExists' /\ route' \in Routes
    BY <2>1, <2>2, UsesKept DEF TurnOK, Alone
  <2> QED
    BY <2>4, <2>5, <2>6, <2>7 DEF TurnOK
<1> QED
  BY <1>1, <1>2, <1>3, <1>4, <1>5 DEF Next

-----------------------------------------------------------------------------
(* The theorems. *)

\* As long as no two requests have overlapped and nothing has failed, the invariant holds.
THEOREM TurnInvariant == Spec => [](IInv /\ CalmInv)
<1>1. IInv /\ CalmInv /\ [Next]_vars => (IInv /\ CalmInv)'
  BY NextIInv, NextTurn
<1> QED
  BY <1>1, InitIInv, InitTurn, PTL DEF Spec

\* Between requests nothing is left to write.
LEMMA NothingLeft ==
  ASSUME Busy = {}
  PROVE  /\ \A i \in Ids : ~ Noting(i) /\ ~ Logging(i)
         /\ \A k \in Keys : ~ Tracking(k) /\ ~ Activating(k)
BY DEF Busy, Noting, Logging, Tracking, Activating

\* Requests one after another lose no notes: the snapshots of a strategy are numbered up
\* to its version, and with the row they hold every content it has had (UpdateStrategy).
THEOREM NotesCorrect == Spec => []NotesAreKept
<1>1. CalmInv => NotesAreKept
  BY NothingLeft DEF CalmInv, TurnOK, StrategyOK, NotesOf, Snapshots, NotesAreKept, Quiet
<1> QED
  BY <1>1, TurnInvariant, PTL

\* Requests one after another delete no strategy in use and assign none that is gone
\* (DeleteStrategy, PatchPortfolioStrategy, PatchCoinActiveStrategy).
THEOREM DanglingCorrect == Spec => []NothingDangles
<1>1. CalmInv => NothingDangles
  BY DEF CalmInv, TurnOK, NothingDangles
<1> QED
  BY <1>1, TurnInvariant, PTL

\* Requests one after another: the newest history row of a key assigned through the route
\* that writes the history is its strategy (PatchPortfolioStrategy).
THEOREM HistoryCorrect == Spec => []HistoryShowsActive
<1>1. CalmInv => HistoryShowsActive
  BY NothingLeft DEF CalmInv, TurnOK, KeyOK, HistoryOf, HistoryShowsActive, Quiet
<1> QED
  BY <1>1, TurnInvariant, PTL

\* Requests one after another: the newest row of strategy_history that tells of a CREATE,
\* UPDATE or DELETE of a strategy is its row or, after its deletion, a content it had
\* (recordStrategyHistory in CreateStrategy, UpdateStrategy and DeleteStrategy).
THEOREM LogCorrect == Spec => []LogShowsRow
<1>1. CalmInv => LogShowsRow
  BY NothingLeft DEF CalmInv, TurnOK, StrategyOK, LogOf, Shows, LogShowsRow, Quiet
<1> QED
  BY <1>1, TurnInvariant, PTL

\* Requests one after another: the newest ACTIVATE row of a key that has a strategy names it,
\* on both routes (recordStrategyHistory in PatchPortfolioStrategy, PatchCoinActiveStrategy).
THEOREM ActivationCorrect == Spec => []ActivationShown
<1>1. CalmInv => ActivationShown
  BY NothingLeft DEF CalmInv, TurnOK, KeyOK, ActivationOf, ActivationShown, Quiet
<1> QED
  BY <1>1, TurnInvariant, PTL
=============================================================================
