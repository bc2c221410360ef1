------------------------ MODULE GatewaySession_proofs ------------------------
(***************************************************************************)
(* Proofs about GatewaySession for every set of channels and goroutines    *)
(* and any number of messages, failing statements and restarts.            *)
(***************************************************************************)
EXTENDS GatewaySession, SequenceTheorems, TLAPS

(***************************************************************************)
(* ConversationBelongs speaks of what the next message would resume.  To   *)
(* be inductive it must hold of the runner and of the row at once, and the *)
(* worker between Lock and its return must know that it holds the mutex    *)
(* and that no reset was acknowledged since it got it.                     *)
(***************************************************************************)
Working == {"load", "send", "drop", "save", "answer", "reset"}
WithRunner == {"send", "drop", "save", "answer"}

Held == \A w \in Workers : pc[w] \in Working => lock[call[w].chan] = w
EpochKept == \A w \in Workers : pc[w] \in Working => call[w].epoch = epoch[call[w].chan]
RunnerKept == \A w \in Workers : pc[w] \in WithRunner => call[w].chan \in loaded

Mine(c, id) == id # NoId => convs[id].chan = c /\ convs[id].epoch = epoch[c]
Owned == \A c \in Channels : (c \in loaded => Mine(c, runner[c])) /\ Mine(c, store[c])

IInv == TypeOK /\ Held /\ EpochKept /\ RunnerKept /\ Owned

\* Tagging a call with the epoch leaves a call.
LEMMA EpochOfCall ==
  ASSUME NEW f \in [Workers -> Calls], NEW w \in Workers, NEW n \in Nat
  PROVE  [f EXCEPT ![w].epoch = n] \in [Workers -> Calls]
<1>1. f[w] \in Calls
  OBVIOUS
<1>2. [f[w] EXCEPT !.epoch = n] \in Calls
  BY <1>1 DEF Calls
<1> QED
  BY <1>2

\* No channel has a conversation, no worker a message.
LEMMA InitIInv == Init => IInv
<1> SUFFICES ASSUME Init PROVE IInv
  OBVIOUS
<1>1. TypeOK
  <2>1. call \in [Workers -> Calls]
    <3>1. \A c \in Channels : [op |-> "send", chan |-> c, msg |-> 0, epoch |-> 0,
                                retried |-> FALSE] \in Calls
      BY DEF Calls, Ops
    <3>2. {[op |-> "send", chan |-> c, msg |-> 0, epoch |-> 0, retried |-> FALSE] : c \in Channels}
            \subseteq Calls
      BY <3>1
    <3> QED
      BY <3>2 DEF Init
  <2>2. convs \in Seq(Conversation) /\ Len(convs) = 0
    BY DEF Init
  <2> QED
    BY <2>1, <2>2 DEF Init, TypeOK, NoId
<1>2. Held /\ EpochKept /\ RunnerKept
  BY DEF Init, Held, EpochKept, RunnerKept, Working, WithRunner
<1>3. Owned
  BY DEF Init, Owned, Mine
<1> QED
  BY <1>1, <1>2, <1>3 DEF IInv

\* A message or a command arrives: nothing of the channels changes.
LEMMA ArriveKeeps ==
  ASSUME IInv, NEW w \in Workers, Arrive(w) PROVE IInv'
<1>1. PICK op \in Ops, c \in Channels :
        call' = [call EXCEPT ![w] = [op |-> op, chan |-> c, msg |-> sent',
                                     epoch |-> 0, retried |-> FALSE]]
  BY DEF Arrive
<1>2. /\ sent' \in Nat /\ pc' = [pc EXCEPT ![w] = "lock"]
      /\ UNCHANGED <<loaded, runner, store, lock, convs, epoch, shown, faults, crashes>>
  BY DEF Arrive, Go, IInv, TypeOK, memory, ghosts
<1>3. TypeOK'
  BY <1>1, <1>2 DEF IInv, TypeOK, Calls
<1>4. Held' /\ EpochKept' /\ RunnerKept'
  BY <1>1, <1>2 DEF IInv, TypeOK, Held, EpochKept, RunnerKept, Working, WithRunner
<1>5. Owned'
  BY <1>2 DEF IInv, Owned, Mine
<1> QED
  BY <1>3, <1>4, <1>5 DEF IInv

\* Whoever gets the mutex is the only worker of the channel.
LEMMA LockKeeps ==
  ASSUME IInv, NEW w \in Workers, Lock(w) PROVE IInv'
<1> DEFINE c == call[w].chan
<1>1. /\ pc[w] = "lock" /\ lock[c] = Free /\ c \in Channels
      /\ lock' = [lock EXCEPT ![c] = w]
      /\ call' = [call EXCEPT ![w].epoch = epoch[c]]
      /\ \E l \in {"reset", "load"} : pc' = [pc EXCEPT ![w] = l]
      /\ UNCHANGED <<loaded, runner, store, convs, epoch, shown, sent, faults, crashes>>
  BY DEF Lock, Go, IInv, TypeOK, Calls, memory, ghosts, counters
<1>2. call' \in [Workers -> Calls]
  BY <1>1, EpochOfCall DEF IInv, TypeOK
<1>3. TypeOK'
  BY <1>1, <1>2 DEF IInv, TypeOK
<1>4. \A v \in Workers : v # w /\ pc[v] \in Working => call[v].chan # c
  BY <1>1, FreeIsNoWorker DEF IInv, Held
<1>5. /\ call'[w].chan = c /\ call'[w].epoch = epoch[c]
      /\ \A v \in Workers : v # w => call'[v] = call[v] /\ pc'[v] = pc[v]
      /\ pc'[w] \in {"reset", "load"}
  BY <1>1 DEF IInv, TypeOK, Calls
<1>6. Held' /\ EpochKept' /\ RunnerKept'
  BY <1>1, <1>4, <1>5 DEF IInv, TypeOK, Held, EpochKept, RunnerKept, Working, WithRunner, Calls
<1>7. Owned'
  BY <1>1 DEF IInv, Owned, Mine
<1> QED
  BY <1>3, <1>6, <1>7 DEF IInv

\* The new runner has the id of the channel's own row, or none.
LEMMA GetOrCreateKeeps ==
  ASSUME IInv, NEW w \in Workers, GetOrCreate(w) PROVE IInv'
<1> DEFINE c == call[w].chan
<1>1. /\ pc[w] = "load" /\ c \in Channels
      /\ pc' = [pc EXCEPT ![w] = "send"]
      /\ loaded' = loaded \union {c} /\ faults' \in Nat
      /\ \/ runner' = runner /\ c \in loaded
         \/ runner' = [runner EXCEPT ![c] = store[c]]
         \/ runner' = [runner EXCEPT ![c] = NoId]
      /\ UNCHANGED <<store, lock, call, convs, epoch, shown, sent, crashes>>
  BY DEF GetOrCreate, DbFails, Go, IInv, TypeOK, Calls, memory, ghosts
<1>2. TypeOK'
  <2>1. runner' \in [Channels -> 0..Len(convs)]
    <3>1. store[c] \in 0..Len(convs) /\ NoId \in 0..Len(convs)
      BY <1>1 DEF IInv, TypeOK, NoId
    <3> QED
      BY <1>1, <3>1 DEF IInv, TypeOK
  <2> QED
    BY <1>1, <2>1 DEF IInv, TypeOK
<1>3. Held' /\ EpochKept' /\ RunnerKept'
  BY <1>1 DEF IInv, TypeOK, Held, EpochKept, RunnerKept, Working, WithRunner
<1>4. Owned'
  BY <1>1 DEF IInv, TypeOK, Owned, Mine, NoId
<1> QED
  BY <1>2, <1>3, <1>4 DEF IInv

\* A conversation that is continued keeps its owner, a new one is the worker's
\* channel's and of the present epoch.
LEMMA ClaudeAnswersKeeps ==
  ASSUME IInv, NEW w \in Workers, ClaudeAnswers(w) PROVE IInv'
<1> DEFINE c == call[w].chan
           m == call[w].msg
           new == [chan |-> c, epoch |-> call[w].epoch, turns |-> TurnsOf(runner[c]) \union {m}]
<1>1. /\ pc[w] = "send" /\ c \in Channels /\ m \in Nat /\ call[w].epoch \in Nat
      /\ pc' = [pc EXCEPT ![w] = "save"] /\ call[w].epoch = epoch[c] /\ c \in loaded
      /\ UNCHANGED <<loaded, store, lock, call, epoch, shown, sent, faults, crashes>>
  BY DEF ClaudeAnswers, Go, IInv, TypeOK, Calls, EpochKept, RunnerKept, Working, WithRunner,
         ghosts, counters
<1>2. Held' /\ EpochKept' /\ RunnerKept'
  BY <1>1 DEF IInv, TypeOK, Held, EpochKept, RunnerKept, Working, WithRunner
<1>3. CASE runner[c] # NoId /\ convs' = [convs EXCEPT ![runner[c]].turns = @ \union {m}] /\ UNCHANGED runner
  <2>1. /\ convs' \in Seq(Conversation) /\ Len(convs') = Len(convs)
        /\ \A i \in 1..Len(convs) : convs'[i].chan = convs[i].chan /\ convs'[i].epoch = convs[i].epoch
    <3>1. runner[c] \in 1..Len(convs)
      BY <1>1, <1>3 DEF IInv, TypeOK, NoId
    <3>2. convs[runner[c]] \in Conversation
      BY <3>1 DEF IInv, TypeOK
    <3>3. [convs[runner[c]] EXCEPT !.turns = @ \union {m}] \in Conversation
      BY <1>1, <3>2 DEF Conversation
    <3>4. convs \in Seq(Conversation)
      BY DEF IInv, TypeOK
    <3>5. PICK e \in Conversation : e = [convs[runner[c]] EXCEPT !.turns = @ \union {m}]
      BY <3>3
    <3>6. convs' = [convs EXCEPT ![runner[c]] = e]
      BY <1>3, <3>5
    <3>7. /\ convs' \in Seq(Conversation) /\ Len(convs') = Len(convs)
          /\ \A i \in 1..Len(convs) : convs'[i] = IF i = runner[c] THEN e ELSE convs[i]
      BY <3>1, <3>4, <3>6, ExceptSeq
    <3>8. e.chan = convs[runner[c]].chan /\ e.epoch = convs[runner[c]].epoch
      BY <3>2, <3>5 DEF Conversation
    <3> QED
      BY <3>7, <3>8
  <2>2. TypeOK'
    BY <1>1, <1>3, <2>1 DEF IInv, TypeOK
  <2>3. Owned'
    BY <1>1, <1>3, <2>1 DEF IInv, TypeOK, Owned, Mine, NoId
  <2> QED
    BY <1>2, <2>2, <2>3 DEF IInv
<1>4. CASE convs' = Append(convs, new) /\ runner' = [runner EXCEPT ![c] = Len(convs) + 1]
  <2>1. TurnsOf(runner[c]) \subseteq Nat
    <3>1. CASE runner[c] = NoId
      BY <3>1 DEF TurnsOf
    <3>2. CASE runner[c] # NoId
      <4>1. runner[c] \in 1..Len(convs)
        BY <1>1, <3>2 DEF IInv, TypeOK, NoId
      <4>2. convs[runner[c]] \in Conversation
        BY <4>1 DEF IInv, TypeOK
      <4> QED
        BY <3>2, <4>2 DEF TurnsOf, Conversation
    <3> QED
      BY <3>1, <3>2
  <2>2. new \in Conversation
    BY <1>1, <2>1 DEF Conversation
  <2>3. /\ convs' \in Seq(Conversation) /\ Len(convs') = Len(convs) + 1
        /\ convs'[Len(convs) + 1] = new
        /\ \A i \in 1..Len(convs) : convs'[i] = convs[i]
    BY <1>4, <2>2 DEF IInv, TypeOK
  <2>4. TypeOK'
    BY <1>1, <1>4, <2>3 DEF IInv, TypeOK
  <2>5. Owned'
    BY <1>1, <1>4, <2>3 DEF IInv, TypeOK, Owned, Mine, NoId
  <2> QED
    BY <1>2, <2>4, <2>5 DEF IInv
<1> QED
  BY <1>3, <1>4 DEF ClaudeAnswers

\* A step that only moves a worker on, from one place that holds the mutex to another.
LEMMA MovesKeep ==
  ASSUME IInv, NEW w \in Workers, NEW l \in {"send", "drop", "save", "answer"},
         pc[w] \in WithRunner, pc' = [pc EXCEPT ![w] = l],
         UNCHANGED <<loaded, runner, store, lock, call, convs, epoch, shown, sent, faults, crashes>>
  PROVE  IInv'
<1>1. TypeOK'
  BY DEF IInv, TypeOK
<1>2. Held' /\ EpochKept' /\ RunnerKept'
  BY DEF IInv, TypeOK, Held, EpochKept, RunnerKept, Working, WithRunner
<1>3. Owned'
  BY DEF IInv, Owned, Mine
<1> QED
  BY <1>1, <1>2, <1>3 DEF IInv

\* A worker returns and gives the mutex back; what it leaves of the channel is owned.
LEMMA ReturnKeeps ==
  ASSUME IInv, NEW w \in Workers, pc[w] \in Working, Return(w), UNCHANGED <<call, convs>>,
         loaded' \subseteq loaded, runner' = runner,
         store' \in [Channels -> 0..Len(convs)], epoch' \in [Channels -> Nat],
         shown' \in [Channels -> SUBSET Nat],
         sent' \in Nat, faults' \in Nat, crashes' \in Nat,
         \A d \in Channels : d # call[w].chan =>
            (d \in loaded' <=> d \in loaded) /\ store'[d] = store[d] /\ epoch'[d] = epoch[d],
         Owned'
  PROVE  IInv'
<1> DEFINE c == call[w].chan
<1>1. c \in Channels /\ lock' = [lock EXCEPT ![c] = Free] /\ pc' = [pc EXCEPT ![w] = "idle"]
  BY DEF Return, Go, IInv, TypeOK, Calls
<1>2. TypeOK'
  BY <1>1 DEF IInv, TypeOK
<1>3. \A v \in Workers : v # w /\ pc[v] \in Working => call[v].chan # c
  BY DEF IInv, Held
<1>4. \A v \in Workers : call[v].chan \in Channels
  BY DEF IInv, TypeOK, Calls
<1>5. \A v \in Workers : pc'[v] \in Working => v # w /\ pc[v] = pc'[v]
  BY <1>1 DEF IInv, TypeOK, Working
<1>6. WithRunner \subseteq Working
  BY DEF Working, WithRunner
<1>7. Held' /\ EpochKept' /\ RunnerKept'
  BY <1>1, <1>3, <1>4, <1>5, <1>6 DEF IInv, TypeOK, Held, EpochKept, RunnerKept
<1> QED
  BY <1>2, <1>7 DEF IInv

\* A failed run leads to the retry or to the caller.
LEMMA ClaudeFailsKeeps ==
  ASSUME IInv, NEW w \in Workers, ClaudeFails(w) PROVE IInv'
<1>1. /\ pc[w] = "send" /\ pc[w] \in Working /\ pc[w] \in WithRunner
      /\ UNCHANGED <<loaded, runner, store, call, convs, epoch, shown, sent, faults, crashes>>
  BY DEF ClaudeFails, memory, ghosts, counters, Working, WithRunner
<1>2. CASE pc' = [pc EXCEPT ![w] = "drop"] /\ UNCHANGED lock
  BY <1>1, <1>2, MovesKeep
<1>3. CASE Return(w)
  <2>1. Owned'
    BY <1>1 DEF IInv, Owned, Mine
  <2> QED
    BY <1>1, <1>3, <2>1, ReturnKeeps DEF IInv, TypeOK
<1> QED
  BY <1>2, <1>3 DEF ClaudeFails, Go

\* The retry leaves a runner without an id and at most the row that was there.
LEMMA DropKeeps ==
  ASSUME IInv, NEW w \in Workers, Drop(w) PROVE IInv'
<1> DEFINE c == call[w].chan
<1>1. /\ pc[w] = "drop" /\ c \in Channels /\ pc' = [pc EXCEPT ![w] = "send"]
      /\ runner' = [runner EXCEPT ![c] = NoId] /\ faults' \in Nat
      /\ store' = [store EXCEPT ![c] = NoId] \/ store' = store
      /\ call' = [call EXCEPT ![w].retried = TRUE] /\ shown' = [shown EXCEPT ![c] = {}]
      /\ UNCHANGED <<loaded, lock, convs, epoch, sent, crashes>>
  BY DEF Drop, DbFails, Go, IInv, TypeOK, Calls
<1>2. call' \in [Workers -> Calls] /\ shown' \in [Channels -> SUBSET Nat]
  <2>1. call \in [Workers -> Calls] /\ shown \in [Channels -> SUBSET Nat]
    BY DEF IInv, TypeOK
  <2>2. [call[w] EXCEPT !.retried = TRUE] \in Calls
    BY <2>1 DEF Calls
  <2>3. call' \in [Workers -> Calls]
    BY <1>1, <2>1, <2>2
  <2>4. shown' \in [Channels -> SUBSET Nat]
    BY <1>1, <2>1
  <2> QED
    BY <2>3, <2>4
<1>3. TypeOK'
  <2>1. NoId \in 0..Len(convs)
    BY DEF IInv, TypeOK, NoId
  <2>2. runner' \in [Channels -> 0..Len(convs)] /\ store' \in [Channels -> 0..Len(convs)]
    BY <1>1, <2>1 DEF IInv, TypeOK
  <2>3. pc' \in [Workers -> {"idle", "lock", "load", "send", "drop", "save", "answer", "reset"}]
    BY <1>1 DEF IInv, TypeOK
  <2> QED
    BY <1>1, <1>2, <2>2, <2>3 DEF IInv, TypeOK
<1>4. \A v \in Workers : call'[v].chan = call[v].chan /\ call'[v].epoch = call[v].epoch
  BY <1>1 DEF IInv, TypeOK, Calls
<1>5. Held' /\ EpochKept' /\ RunnerKept'
  BY <1>1, <1>4 DEF IInv, TypeOK, Held, EpochKept, RunnerKept, Working, WithRunner
<1>6. Owned'
  BY <1>1 DEF IInv, TypeOK, Owned, Mine
<1> QED
  BY <1>3, <1>5, <1>6 DEF IInv

\* The row gets the id of the channel's own runner, or stays.
LEMMA UpsertKeeps ==
  ASSUME IInv, NEW w \in Workers, Upsert(w) PROVE IInv'
<1> DEFINE c == call[w].chan
<1>1. /\ pc[w] = "save" /\ c \in Channels /\ c \in loaded /\ pc' = [pc EXCEPT ![w] = "answer"]
      /\ store' = [store EXCEPT ![c] = runner[c]] \/ store' = store
      /\ faults' \in Nat
      /\ UNCHANGED <<loaded, runner, lock, call, convs, epoch, shown, sent, crashes>>
  BY DEF Upsert, DbFails, Go, IInv, TypeOK, Calls, RunnerKept, WithRunner, memory, ghosts
<1>2. TypeOK'
  BY <1>1 DEF IInv, TypeOK
<1>3. Held' /\ EpochKept' /\ RunnerKept'
  BY <1>1 DEF IInv, TypeOK, Held, EpochKept, RunnerKept, Working, WithRunner
<1>4. Owned'
  BY SMTT(30), <1>1 DEF IInv, TypeOK, Owned, Mine
<1> QED
  BY <1>2, <1>3, <1>4 DEF IInv

\* The reply changes no id.
LEMMA AnswerKeeps ==
  ASSUME IInv, NEW w \in Workers, Answer(w) PROVE IInv'
<1> DEFINE c == call[w].chan
<1>1. /\ pc[w] \in Working /\ c \in Channels /\ Return(w) /\ call[w].msg \in Nat
      /\ shown' = [shown EXCEPT ![c] = @ \union ({call[w].msg} \intersect TurnsOf(runner[c]))]
      /\ UNCHANGED <<loaded, runner, store, call, convs, epoch, sent, faults, crashes>>
  BY DEF Answer, IInv, TypeOK, Calls, Working, memory, counters
<1>2. shown' \in [Channels -> SUBSET Nat]
  BY <1>1 DEF IInv, TypeOK
<1>3. Owned'
  BY <1>1 DEF IInv, Owned, Mine
<1> QED
  BY <1>1, <1>2, <1>3, ReturnKeeps DEF IInv, TypeOK

\* An acknowledged reset leaves neither runner nor row, a failed one the old epoch.
LEMMA ResetSessionKeeps ==
  ASSUME IInv, NEW w \in Workers, ResetSession(w) PROVE IInv'
<1> DEFINE c == call[w].chan
<1>1. /\ pc[w] \in Working /\ c \in Channels /\ Return(w) /\ loaded' = loaded \ {c}
      /\ UNCHANGED <<runner, call, convs, sent, crashes>>
  BY DEF ResetSession, IInv, TypeOK, Calls, Working
<1>2. CASE /\ store' = [store EXCEPT ![c] = NoId] /\ epoch' = [epoch EXCEPT ![c] = @ + 1]
           /\ shown' = [shown EXCEPT ![c] = {}] /\ UNCHANGED faults
  <2>1. /\ store' \in [Channels -> 0..Len(convs)] /\ epoch' \in [Channels -> Nat]
        /\ shown' \in [Channels -> SUBSET Nat]
    BY <1>1, <1>2 DEF IInv, TypeOK, NoId
  <2>2. \A d \in Channels : d # c => store'[d] = store[d] /\ epoch'[d] = epoch[d]
    BY <1>2 DEF IInv, TypeOK
  <2>3. Owned'
    BY <1>1, <1>2, <2>2 DEF IInv, TypeOK, Owned, Mine
  <2> QED
    BY <1>1, <1>2, <2>1, <2>2, <2>3, ReturnKeeps DEF IInv, TypeOK
<1>3. CASE faults' = faults + 1 /\ UNCHANGED <<store, epoch, shown>>
  <2>1. Owned'
    BY <1>1, <1>3 DEF IInv, Owned, Mine
  <2>2. /\ faults' \in Nat /\ sent' \in Nat /\ crashes' \in Nat
        /\ store' \in [Channels -> 0..Len(convs)] /\ epoch' \in [Channels -> Nat]
        /\ shown' \in [Channels -> SUBSET Nat]
    BY <1>1, <1>3 DEF IInv, TypeOK
  <2>3. loaded' \subseteq loaded /\ \A d \in Channels : d # c => (d \in loaded' <=> d \in loaded)
    BY <1>1
  <2> QED
    BY <1>1, <1>3, <2>1, <2>2, <2>3, ReturnKeeps
<1> QED
  BY <1>2, <1>3 DEF ResetSession, DbFails, ghosts

\* A restart finds the rows and nobody at work.
LEMMA CrashKeeps == ASSUME IInv, Crash PROVE IInv'
<1>1. TypeOK'
  BY DEF IInv, TypeOK, Crash, ghosts
<1>2. Held' /\ EpochKept' /\ RunnerKept'
  BY DEF Crash, Held, EpochKept, RunnerKept, Working, WithRunner
<1>3. Owned'
  BY DEF IInv, Crash, Owned, Mine, ghosts
<1> QED
  BY <1>1, <1>2, <1>3 DEF IInv

\* Every step of every worker keeps the invariant.
LEMMA NextIInv == ASSUME IInv, [Next]_vars PROVE IInv'
<1>1. CASE Crash
  BY <1>1, CrashKeeps
<1>2. ASSUME NEW w \in Workers, Arrive(w) \/ Lock(w) \/ GetOrCreate(w) PROVE IInv'
  BY <1>2, ArriveKeeps, LockKeeps, GetOrCreateKeeps
<1>3. ASSUME NEW w \in Workers, ClaudeEnds(w) PROVE IInv'
  <2>1. CASE ClaudeAnswers(w)
    BY <2>1, ClaudeAnswersKeeps
  <2>2. CASE ClaudeFails(w)
    BY <2>2, ClaudeFailsKeeps
  <2>3. CASE ClaudePrints(w)
    <3>1. PICK l \in {"save", "answer"} : pc' = [pc EXCEPT ![w] = l]
      BY <2>3 DEF ClaudePrints, Go
    <3>2. /\ pc[w] \in WithRunner
          /\ UNCHANGED <<loaded, runner, store, lock, call, convs, epoch, shown, sent, faults, crashes>>
      BY <2>3 DEF ClaudePrints, WithRunner, memory, ghosts, counters
    <3> QED
      BY <3>1, <3>2, MovesKeep
  <2>4. CASE ClaudeTimesOut(w)
    <3>1. /\ pc[w] \in Working /\ Return(w)
          /\ UNCHANGED <<loaded, runner, store, call, convs, epoch, shown, sent, faults, crashes>>
      BY <2>4 DEF ClaudeTimesOut, Working, memory, ghosts, counters
    <3>2. Owned'
      BY <3>1 DEF IInv, Owned, Mine
    <3> QED
      BY <3>1, <3>2, ReturnKeeps DEF IInv, TypeOK
  <2> QED
    BY <1>3, <2>1, <2>2, <2>3, <2>4 DEF ClaudeEnds
<1>4. ASSUME NEW w \in Workers, Drop(w) \/ Upsert(w) \/ Answer(w) \/ ResetSession(w) PROVE IInv'
  BY <1>4, DropKeeps, UpsertKeeps, AnswerKeeps, ResetSessionKeeps
<1>5. CASE UNCHANGED vars
  <2>1. UNCHANGED <<loaded, runner, store, lock, pc, call, convs, epoch, shown, sent, faults, crashes>>
    BY <1>5 DEF vars, memory, control, ghosts, counters
  <2> QED
    BY <2>1 DEF IInv, TypeOK, Held, EpochKept, RunnerKept, Owned, Mine
<1> QED
  BY <1>1, <1>2, <1>3, <1>4, <1>5 DEF Next, Step

\* The inductive invariant holds in every reachable state.
THEOREM SessionInvariant == Spec => []IInv
BY InitIInv, NextIInv, PTL DEF Spec

\* Every session id in memory or in the table names a conversation that exists, for
\* every number of channels, goroutines, failures and restarts.
THEOREM SessionTypeCorrect == Spec => []TypeOK
<1>1. IInv => TypeOK
  BY DEF IInv
<1> QED
  BY <1>1, SessionInvariant, PTL

\* A channel continues only its own conversations, none from before an acknowledged reset.
THEOREM BelongsCorrect == Spec => []ConversationBelongs
<1>1. IInv => ConversationBelongs
  BY DEF IInv, ConversationBelongs, Resumes, Owned, Mine
<1> QED
  BY <1>1, SessionInvariant, PTL

\* No two Claude processes resume one conversation at the same time: the mutex keeps
\* the workers of one channel apart, ownership those of different channels.
THEOREM NotSharedCorrect == Spec => []ConversationsNotShared
<1>1. IInv => ConversationsNotShared
  <2> SUFFICES ASSUME IInv, NEW v \in Workers, NEW w \in Workers, v # w,
                      pc[v] = "send", pc[w] = "send", runner[call[v].chan] # NoId
               PROVE  runner[call[v].chan] # runner[call[w].chan]
    BY DEF ConversationsNotShared
  <2>1. call[v].chan # call[w].chan
    BY DEF IInv, Held, Working
  <2>2. {call[v].chan, call[w].chan} \subseteq Channels \intersect loaded
    BY DEF IInv, TypeOK, Calls, RunnerKept, WithRunner
  <2> QED
    BY <2>1, <2>2 DEF IInv, Owned, Mine
<1> QED
  BY <1>1, SessionInvariant, PTL

(***************************************************************************)
(* What survives a restart as long as gateway.db answers.  Between Drop and     *)
(* Upsert memory and table may differ (the answer's id is not saved yet),  *)
(* everywhere else the row is the runner's id; and at all times both hold  *)
(* every turn that was answered.                                           *)
(***************************************************************************)
Saved ==
  /\ \A c \in loaded : lock[c] = Free => store[c] = runner[c]
  /\ \A w \in Workers :
       (pc[w] \in {"load", "reset"} /\ call[w].chan \in loaded) \/ pc[w] \in {"send", "drop", "answer"}
         => store[call[w].chan] = runner[call[w].chan]
Context ==
  \A c \in Channels : /\ shown[c] \subseteq TurnsOf(store[c])
                      /\ c \in loaded => shown[c] \subseteq TurnsOf(runner[c])
SInv == IInv /\ Saved /\ Context

\* The only worker of a channel disturbs no other worker and no other channel.
LEMMA OthersSaved ==
  ASSUME IInv, Saved, IInv', NEW w \in Workers, NEW c \in Channels, call[w].chan = c,
         \A v \in Workers : v # w /\ pc[v] \in Working => call[v].chan # c,
         \A v \in Workers : v # w => pc'[v] = pc[v] /\ call'[v] = call[v],
         \A d \in Channels : d # c =>
            /\ (d \in loaded' <=> d \in loaded) /\ lock'[d] = lock[d]
            /\ store'[d] = store[d] /\ runner'[d] = runner[d],
         call'[w].chan = c,
         c \in loaded' /\ lock'[c] = Free => store'[c] = runner'[c],
         (pc'[w] \in {"load", "reset"} /\ c \in loaded') \/ pc'[w] \in {"send", "drop", "answer"}
            => store'[c] = runner'[c]
  PROVE  Saved'
<1>1. \A v \in Workers : call[v].chan \in Channels
  BY DEF IInv, TypeOK, Calls
<1>2. loaded' \subseteq Channels
  BY DEF IInv, TypeOK
<1>3. \A d \in loaded' : lock'[d] = Free => store'[d] = runner'[d]
  BY <1>2 DEF Saved
<1>4. ASSUME NEW v \in Workers,
             (pc'[v] \in {"load", "reset"} /\ call'[v].chan \in loaded')
                \/ pc'[v] \in {"send", "drop", "answer"}
      PROVE  store'[call'[v].chan] = runner'[call'[v].chan]
  <2>1. CASE v = w
    BY <1>4, <2>1
  <2>2. CASE v # w
    <3>1. /\ pc[v] = pc'[v] /\ call'[v].chan = call[v].chan /\ call[v].chan # c
      BY <1>4, <2>2 DEF Working
    <3> QED
      BY <1>1, <1>4, <3>1 DEF Saved
  <2> QED
    BY <2>1, <2>2
<1> QED
  BY <1>3, <1>4 DEF Saved

\* Two workers never work on one channel.
LEMMA Alone ==
  ASSUME IInv, NEW w \in Workers, pc[w] \in Working
  PROVE  /\ call[w].chan \in Channels
         /\ \A v \in Workers : v # w /\ pc[v] \in Working => call[v].chan # call[w].chan
BY DEF IInv, Held, TypeOK, Calls

\* A failing statement is counted.
LEMMA DbAnswers == ASSUME faults' = faults, IInv PROVE ~DbFails
BY DEF DbFails, IInv, TypeOK

\* Arriving, and waiting for the mutex: memory and table stay.
LEMMA ArriveSaved == ASSUME SInv, IInv', NEW w \in Workers, Arrive(w) PROVE SInv'
<1>1. PICK op \in Ops, c \in Channels :
        call' = [call EXCEPT ![w] = [op |-> op, chan |-> c, msg |-> sent',
                                     epoch |-> 0, retried |-> FALSE]]
  BY DEF Arrive
<1>2. /\ pc' = [pc EXCEPT ![w] = "lock"]
      /\ UNCHANGED <<loaded, runner, store, lock, convs, shown>>
  BY DEF Arrive, Go, memory, ghosts
<1>3. Saved'
  BY <1>1, <1>2 DEF SInv, IInv, TypeOK, Saved
<1>4. Context'
  BY <1>2 DEF SInv, Context, TurnsOf
<1> QED
  BY <1>3, <1>4 DEF SInv

LEMMA LockSaved == ASSUME SInv, IInv', NEW w \in Workers, Lock(w) PROVE SInv'
<1> DEFINE c == call[w].chan
<1>1. /\ pc[w] = "lock" /\ lock[c] = Free /\ c \in Channels
      /\ lock' = [lock EXCEPT ![c] = w]
      /\ call' = [call EXCEPT ![w].epoch = epoch[c]]
      /\ pc'[w] \in {"reset", "load"}
      /\ \A v \in Workers : v # w => pc'[v] = pc[v]
      /\ UNCHANGED <<loaded, runner, store, convs, shown>>
  BY DEF Lock, Go, SInv, IInv, TypeOK, Calls, memory, ghosts, counters
<1>2. \A v \in Workers : v # w /\ pc[v] \in Working => call[v].chan # c
  BY <1>1, FreeIsNoWorker DEF SInv, IInv, Held
<1>3. /\ call'[w].chan = c /\ \A v \in Workers : v # w => call'[v] = call[v]
      /\ \A d \in Channels : d # c => lock'[d] = lock[d]
      /\ c \in loaded => store'[c] = runner'[c]
      /\ lock'[c] # Free
  BY <1>1, FreeIsNoWorker DEF SInv, IInv, TypeOK, Calls, Saved
<1>4. Saved'
  BY <1>1, <1>2, <1>3, OthersSaved DEF SInv
<1>5. Context'
  BY <1>1 DEF SInv, Context, TurnsOf
<1> QED
  BY <1>4, <1>5 DEF SInv

\* The runner that is made has the id of the row.
LEMMA GetOrCreateSaved ==
  ASSUME faults' = faults, SInv, IInv', NEW w \in Workers, GetOrCreate(w) PROVE SInv'
<1> DEFINE c == call[w].chan
<1>1. /\ pc[w] = "load" /\ pc[w] \in Working /\ c \in Channels
      /\ pc' = [pc EXCEPT ![w] = "send"] /\ loaded' = loaded \union {c}
      /\ runner' = [runner EXCEPT ![c] = store[c]]
      /\ UNCHANGED <<store, lock, call, convs, shown>>
  <2>1. ~DbFails /\ c \in Channels
    BY DbAnswers DEF SInv, IInv, TypeOK, Calls
  <2>2. c \in loaded /\ pc[w] = "load" => runner[c] = store[c]
    BY DEF SInv, Saved
  <2>3. runner[c] = store[c] => runner = [runner EXCEPT ![c] = store[c]]
    BY DEF SInv, IInv, TypeOK
  <2> QED
    BY <2>1, <2>2, <2>3 DEF GetOrCreate, Go, Working, memory, ghosts
<1>2. \A v \in Workers : v # w /\ pc[v] \in Working => call[v].chan # c
  BY <1>1, Alone DEF SInv
<1>3. Saved'
  <2>1. /\ \A v \in Workers : v # w => pc'[v] = pc[v]
        /\ store'[c] = runner'[c] /\ c \in Channels
        /\ \A d \in Channels : d # c => runner'[d] = runner[d] /\ (d \in loaded' <=> d \in loaded)
    BY <1>1 DEF SInv, IInv, TypeOK
  <2>2. /\ \A v \in Workers : v # w => pc'[v] = pc[v] /\ call'[v] = call[v]
        /\ call'[w].chan = c
    BY <1>1, <2>1
  <2>3. \A d \in Channels : d # c =>
           /\ (d \in loaded' <=> d \in loaded) /\ lock'[d] = lock[d]
           /\ store'[d] = store[d] /\ runner'[d] = runner[d]
    BY <1>1, <2>1
  <2> QED
    BY <1>2, <2>1, <2>2, <2>3, OthersSaved DEF SInv
<1>4. Context'
  BY <1>1 DEF SInv, IInv, TypeOK, Context, TurnsOf
<1> QED
  BY <1>3, <1>4 DEF SInv

\* The turns of a conversation only grow, and a new one starts from the one resumed.
LEMMA ClaudeAnswersSaved ==
  ASSUME SInv, IInv', NEW w \in Workers, ClaudeAnswers(w) PROVE SInv'
<1> DEFINE c == call[w].chan
           m == call[w].msg
<1>1. /\ pc[w] \in Working /\ c \in Channels /\ pc' = [pc EXCEPT ![w] = "save"]
      /\ lock[c] = w /\ lock[c] # Free
      /\ UNCHANGED <<loaded, store, lock, call, shown>>
  BY FreeIsNoWorker DEF ClaudeAnswers, Go, Working, Held, SInv, IInv, TypeOK, Calls, ghosts
<1>2. \A d \in Channels : d # c => runner'[d] = runner[d]
  BY <1>1 DEF ClaudeAnswers, SInv, IInv, TypeOK
<1>3. \A v \in Workers : v # w /\ pc[v] \in Working => call[v].chan # c
  BY <1>1, Alone DEF SInv
<1>4. Saved'
  <2>1. /\ pc'[w] = "save" /\ \A v \in Workers : v # w => pc'[v] = pc[v]
    BY <1>1 DEF SInv, IInv, TypeOK
  <2> QED
    BY <1>1, <1>2, <1>3, <2>1, OthersSaved DEF SInv
<1>5. /\ \A i \in 0..Len(convs) : TurnsOf(i) \subseteq TurnsOf(i)'
      /\ TurnsOf(runner[c]) \subseteq TurnsOf(runner[c])'
  <2>1. convs \in Seq(Conversation) /\ Len(convs) \in Nat /\ runner[c] \in 0..Len(convs)
    BY <1>1 DEF SInv, IInv, TypeOK
  <2>2. CASE runner[c] # NoId /\ convs' = [convs EXCEPT ![runner[c]].turns = @ \union {m}] /\ UNCHANGED runner
    <3>1. runner[c] \in 1..Len(convs)
      BY <2>1, <2>2 DEF NoId
    <3>2. \A i \in 1..Len(convs) : convs[i] \in Conversation
      BY <2>1
    <3>3. \A i \in 1..Len(convs) : i # runner[c] => convs'[i] = convs[i]
      BY <2>1, <2>2, <3>1
    <3>4. convs'[runner[c]].turns = convs[runner[c]].turns \union {m}
      BY <2>1, <2>2, <3>1, <3>2 DEF Conversation
    <3>5. \A i \in 1..Len(convs) : convs[i].turns \subseteq convs'[i].turns
      BY <3>3, <3>4
    <3>6. \A i \in 0..Len(convs) : i # NoId => i \in 1..Len(convs)
      BY <2>1 DEF NoId
    <3>7. \A i \in 0..Len(convs) : TurnsOf(i) \subseteq TurnsOf(i)'
      BY <3>5, <3>6 DEF TurnsOf
    <3> QED
      BY <1>1, <2>1, <2>2, <3>7
  <2>3. CASE /\ convs' = Append(convs, [chan |-> c, epoch |-> call[w].epoch,
                                        turns |-> TurnsOf(runner[c]) \union {m}])
             /\ runner' = [runner EXCEPT ![c] = Len(convs) + 1]
    <3>1. \A i \in 1..Len(convs) : convs'[i] = convs[i]
      BY <2>1, <2>3
    <3>2. convs'[Len(convs) + 1] = [chan |-> c, epoch |-> call[w].epoch,
                                    turns |-> TurnsOf(runner[c]) \union {m}]
      BY <2>1, <2>3
    <3>3. runner'[c] = Len(convs) + 1 /\ runner'[c] # NoId
      BY <1>1, <2>1, <2>3 DEF NoId, SInv, IInv, TypeOK
    <3>4. TurnsOf(runner[c]) \subseteq convs'[runner'[c]].turns
      BY <3>2, <3>3
    <3>5. \A i \in 0..Len(convs) : i # NoId => i \in 1..Len(convs)
      BY <2>1 DEF NoId
    <3> QED
      BY <1>1, <3>1, <3>3, <3>4, <3>5 DEF TurnsOf
  <2> QED
    BY <2>2, <2>3 DEF ClaudeAnswers
<1>6. Context'
  <2>1. runner \in [Channels -> 0..Len(convs)] /\ store \in [Channels -> 0..Len(convs)]
    BY DEF SInv, IInv, TypeOK
  <2> QED
    BY <1>1, <1>2, <1>5, <2>1 DEF SInv, Context
<1> QED
  BY <1>4, <1>6 DEF SInv

\* A worker that ends or moves on where row and id agree, or to where they need not.
LEMMA StepSaved ==
  ASSUME SInv, IInv', NEW w \in Workers, pc[w] \in Working, UNCHANGED <<call, convs>>,
         \/ pc' = [pc EXCEPT ![w] = "idle"] /\ lock' = [lock EXCEPT ![call[w].chan] = Free]
         \/ pc' = [pc EXCEPT ![w] = "drop"] /\ UNCHANGED lock
         \/ pc' = [pc EXCEPT ![w] = "answer"] /\ UNCHANGED lock
         \/ pc' = [pc EXCEPT ![w] = "save"] /\ UNCHANGED lock,
         \A d \in Channels : d # call[w].chan =>
            /\ (d \in loaded' <=> d \in loaded) /\ shown'[d] = shown[d]
            /\ store'[d] = store[d] /\ runner'[d] = runner[d],
         call[w].chan \in loaded' \/ pc'[w] # "idle" => store'[call[w].chan] = runner'[call[w].chan],
         shown'[call[w].chan] \subseteq TurnsOf(store[call[w].chan])',
         call[w].chan \in loaded' => shown'[call[w].chan] \subseteq TurnsOf(runner[call[w].chan])'
  PROVE  SInv'
<1> DEFINE c == call[w].chan
<1>1. /\ c \in Channels
      /\ \A v \in Workers : v # w /\ pc[v] \in Working => call[v].chan # c
  BY Alone DEF SInv
<1>2. /\ \A v \in Workers : v # w => pc'[v] = pc[v] /\ call'[v] = call[v]
      /\ \A d \in Channels : d # c => lock'[d] = lock[d]
      /\ pc'[w] \in {"idle", "drop", "answer", "save"}
  BY <1>1 DEF SInv, IInv, TypeOK
<1>3. lock[c] # Free
  BY FreeIsNoWorker DEF SInv, IInv, Held
<1>4. Saved'
  BY <1>1, <1>2, <1>3, OthersSaved DEF SInv
<1>5. Context'
  BY <1>1 DEF SInv, Context, TurnsOf
<1> QED
  BY <1>4, <1>5 DEF SInv

LEMMA ClaudeEndsSaved ==
  ASSUME SInv, IInv', NEW w \in Workers,
         ClaudePrints(w) \/ ClaudeFails(w) \/ ClaudeTimesOut(w)
  PROVE  SInv'
<1>1. /\ pc[w] = "send" /\ pc[w] \in Working /\ call[w].chan \in Channels
      /\ UNCHANGED <<loaded, runner, store, call, convs, shown>>
      /\ store[call[w].chan] = runner[call[w].chan]
  BY DEF ClaudePrints, ClaudeFails, ClaudeTimesOut, Working, SInv, IInv, TypeOK, Calls, Saved,
         memory, ghosts, counters
<1>2. \/ pc' = [pc EXCEPT ![w] = "idle"] /\ lock' = [lock EXCEPT ![call[w].chan] = Free]
      \/ pc' = [pc EXCEPT ![w] = "drop"] /\ UNCHANGED lock
      \/ pc' = [pc EXCEPT ![w] = "answer"] /\ UNCHANGED lock
      \/ pc' = [pc EXCEPT ![w] = "save"] /\ UNCHANGED lock
  BY DEF ClaudePrints, ClaudeFails, ClaudeTimesOut, Go, Return
<1>3. /\ shown'[call[w].chan] \subseteq TurnsOf(store[call[w].chan])'
      /\ call[w].chan \in loaded' => shown'[call[w].chan] \subseteq TurnsOf(runner[call[w].chan])'
  BY <1>1 DEF SInv, Context, TurnsOf
<1> QED
  BY <1>1, <1>2, <1>3, StepSaved

LEMMA AnswerSaved == ASSUME SInv, IInv', NEW w \in Workers, Answer(w) PROVE SInv'
<1> DEFINE c == call[w].chan
<1>1. /\ pc[w] = "answer" /\ pc[w] \in Working /\ c \in Channels
      /\ UNCHANGED <<loaded, runner, store, call, convs>>
      /\ pc' = [pc EXCEPT ![w] = "idle"] /\ lock' = [lock EXCEPT ![c] = Free]
      /\ store[c] = runner[c] /\ c \in loaded
      /\ shown' = [shown EXCEPT ![c] = @ \union ({call[w].msg} \intersect TurnsOf(runner[c]))]
  BY DEF Answer, Return, Go, Working, WithRunner, RunnerKept, SInv, IInv, TypeOK, Calls, Saved,
         memory, counters
<1>2. /\ shown'[c] \subseteq TurnsOf(runner[c])
      /\ \A d \in Channels : d # c => shown'[d] = shown[d]
  BY <1>1 DEF SInv, Context, IInv, TypeOK
<1>3. /\ shown'[c] \subseteq TurnsOf(store[c])' /\ shown'[c] \subseteq TurnsOf(runner[c])'
  BY <1>1, <1>2 DEF TurnsOf
<1> QED
  BY <1>1, <1>2, <1>3, StepSaved

LEMMA ResetSaved ==
  ASSUME faults' = faults, SInv, IInv', NEW w \in Workers, ResetSession(w) PROVE SInv'
<1> DEFINE c == call[w].chan
<1>1. /\ pc[w] \in Working /\ c \in Channels /\ loaded' = loaded \ {c}
      /\ store' = [store EXCEPT ![c] = NoId] /\ shown' = [shown EXCEPT ![c] = {}]
      /\ UNCHANGED <<runner, call, convs>>
      /\ pc' = [pc EXCEPT ![w] = "idle"] /\ lock' = [lock EXCEPT ![c] = Free]
  BY DbAnswers DEF ResetSession, Return, Go, Working, SInv, IInv, TypeOK, Calls
<1>2. /\ shown'[c] = {} /\ c \notin loaded' /\ pc'[w] = "idle"
      /\ \A d \in Channels : d # c =>
           /\ (d \in loaded' <=> d \in loaded) /\ shown'[d] = shown[d]
           /\ store'[d] = store[d] /\ runner'[d] = runner[d]
  BY <1>1 DEF SInv, IInv, TypeOK
<1> QED
  BY <1>1, <1>2, StepSaved

\* The row follows the runner, or is deleted with its id.
LEMMA DropSaved ==
  ASSUME faults' = faults, SInv, IInv', NEW w \in Workers, Drop(w) PROVE SInv'
<1> DEFINE c == call[w].chan
<1>1. /\ pc[w] \in Working /\ c \in Channels /\ pc' = [pc EXCEPT ![w] = "send"]
      /\ store' = [store EXCEPT ![c] = NoId] /\ runner' = [runner EXCEPT ![c] = NoId]
      /\ shown' = [shown EXCEPT ![c] = {}] /\ call' = [call EXCEPT ![w].retried = TRUE]
      /\ UNCHANGED <<loaded, lock, convs>>
  BY DbAnswers DEF Drop, Go, Working, SInv, IInv, TypeOK, Calls
<1>2. /\ shown'[c] = {} /\ store'[c] = runner'[c] /\ call'[w].chan = c
      /\ \A v \in Workers : v # w => pc'[v] = pc[v] /\ call'[v] = call[v]
      /\ \A d \in Channels : d # c =>
           shown'[d] = shown[d] /\ store'[d] = store[d] /\ runner'[d] = runner[d]
  BY SMTT(30), <1>1 DEF SInv, IInv, TypeOK, Calls
<1>3. Saved'
  BY <1>1, <1>2, Alone, OthersSaved DEF SInv
<1>4. Context'
  <2> HIDE DEF c
  <2> QED
    BY <1>1, <1>2 DEF SInv, Context, TurnsOf
<1> QED
  BY <1>3, <1>4 DEF SInv

LEMMA UpsertSaved ==
  ASSUME faults' = faults, SInv, IInv', NEW w \in Workers, Upsert(w) PROVE SInv'
<1> DEFINE c == call[w].chan
<1>1. /\ pc[w] = "save" /\ pc[w] \in Working /\ c \in Channels /\ c \in loaded
      /\ pc' = [pc EXCEPT ![w] = "answer"]
      /\ store' = [store EXCEPT ![c] = runner[c]]
      /\ UNCHANGED <<loaded, runner, lock, call, convs, shown>>
  BY DbAnswers DEF Upsert, Go, Working, WithRunner, RunnerKept, SInv, IInv, TypeOK, Calls,
                   memory, ghosts
<1>2. /\ store'[c] = runner[c]
      /\ \A d \in Channels : d # c => store'[d] = store[d]
  BY <1>1 DEF SInv, IInv, TypeOK
<1>3. /\ shown'[c] \subseteq TurnsOf(store[c])' /\ shown'[c] \subseteq TurnsOf(runner[c])'
  BY <1>1, <1>2 DEF SInv, Context, TurnsOf
<1> QED
  BY <1>1, <1>2, <1>3, StepSaved

\* A step in which no statement fails keeps memory and table together.
LEMMA NextSInv == ASSUME faults' = faults, SInv, [Next]_vars PROVE SInv'
<1>1. IInv'
  BY NextIInv DEF SInv
<1>2. CASE Crash
  <2>1. Saved'
    BY <1>2 DEF Crash, Saved
  <2>2. Context'
    BY <1>2 DEF Crash, SInv, Context, TurnsOf, ghosts
  <2> QED
    BY <1>1, <2>1, <2>2 DEF SInv
<1>3. ASSUME NEW w \in Workers, Arrive(w) \/ Lock(w) \/ GetOrCreate(w) PROVE SInv'
  BY <1>1, <1>3, ArriveSaved, LockSaved, GetOrCreateSaved
<1>4. ASSUME NEW w \in Workers, ClaudeEnds(w) PROVE SInv'
  BY <1>1, <1>4, ClaudeAnswersSaved, ClaudeEndsSaved DEF ClaudeEnds
<1>5. ASSUME NEW w \in Workers, Drop(w) \/ Upsert(w) \/ Answer(w) \/ ResetSession(w) PROVE SInv'
  BY <1>1, <1>5, DropSaved, UpsertSaved, AnswerSaved, ResetSaved
<1>6. CASE UNCHANGED vars
  <2>1. UNCHANGED <<loaded, runner, store, lock, pc, call, convs, shown>>
    BY <1>6 DEF vars, memory, control, ghosts
  <2> QED
    BY <1>1, <2>1 DEF SInv, Saved, Context, TurnsOf
<1> QED
  BY <1>2, <1>3, <1>4, <1>5, <1>6 DEF Next, Step

\* No channel has a runner, a row or an answered turn.
LEMMA InitSInv == Init => SInv
<1> SUFFICES ASSUME Init PROVE SInv
  OBVIOUS
<1>1. Saved /\ Context
  BY DEF Init, Saved, Context
<1> QED
  BY <1>1, InitIInv DEF SInv

\* Failures are counted and never forgotten.
LEMMA FaultsGrow == ASSUME [Next]_vars PROVE faults' = faults \/ faults' = faults + 1
<1>1. ASSUME NEW w \in Workers, Arrive(w) \/ Lock(w) \/ ClaudeEnds(w) \/ Answer(w)
      PROVE  faults' = faults
  BY <1>1 DEF Arrive, Lock, ClaudeEnds, ClaudeAnswers, ClaudePrints, ClaudeFails, ClaudeTimesOut,
              Answer, counters
<1>2. ASSUME NEW w \in Workers, GetOrCreate(w) \/ Drop(w) \/ Upsert(w) \/ ResetSession(w)
      PROVE  faults' = faults \/ faults' = faults + 1
  BY <1>2 DEF GetOrCreate, Drop, Upsert, ResetSession, DbFails
<1> QED
  BY <1>1, <1>2 DEF Next, Step, Crash, vars, counters

LEMMA ContextInvariance == Spec => [](IInv /\ (faults = 0 => SInv))
<1> DEFINE QInv == IInv /\ (faults = 0 => SInv)
<1>1. Init => QInv
  BY InitSInv, InitIInv
<1>2. QInv /\ [Next]_vars => QInv'
  <2> SUFFICES ASSUME QInv, [Next]_vars PROVE QInv'
    OBVIOUS
  <2>1. IInv' /\ faults \in Nat
    BY NextIInv DEF IInv, TypeOK
  <2>2. ASSUME faults' = 0 PROVE SInv'
    <3>1. faults = 0 /\ faults' = faults
      BY <2>1, <2>2, FaultsGrow
    <3> QED
      BY <3>1, NextSInv
  <2> QED
    BY <2>1, <2>2
<1> QED
  BY <1>1, <1>2, PTL DEF Spec

\* As long as gateway.db has answered, for every number of channels, goroutines,
\* messages and restarts, a conversation keeps every turn that was answered.
THEOREM ContextCorrect == Spec => []ContextKept
<1>1. IInv /\ (faults = 0 => SInv) => ContextKept
  BY DEF SInv, IInv, TypeOK, Saved, Context, ContextKept, Resumes
<1> QED
  BY <1>1, ContextInvariance, PTL

\* As long as gateway.db has answered, between messages the row of a channel is its
\* runner's id, so that a restart continues where the channel stopped.
THEOREM SavedCorrect == Spec => []SavedMatchesRunner
<1>1. IInv /\ (faults = 0 => SInv) => SavedMatchesRunner
  BY DEF SInv, IInv, TypeOK, Saved, Context, SavedMatchesRunner, Resumes
<1> QED
  BY <1>1, ContextInvariance, PTL
=============================================================================
